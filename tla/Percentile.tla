----------------------------- MODULE Percentile -----------------------------
(***************************************************************************)
(* The percentile of analyze.py: linear interpolation between the two      *)
(* neighbouring samples of a sorted list.  The code computes in floating   *)
(* point; here a percentile is given in thousandths (p99.9 is 999) and the *)
(* result in thousandths of a sample, so that all numbers are integers.    *)
(***************************************************************************)
EXTENDS Integers, Sequences, Functions

Thousandths == 0 .. 1000

(* idx = pct / 100 * (n - 1), in thousandths.                              *)
Index(sd, pct) == pct * (Len(sd) - 1)

(* lo = int(idx), counted from 0 as in the code.                           *)
Lower(sd, pct) == Index(sd, pct) \div 1000

Fraction(sd, pct) == Index(sd, pct) % 1000

(* a * (1 - frac) + b * frac                                               *)
Between(a, b, frac) == a * (1000 - frac) + b * frac

percentile(sd, pct) ==
  LET lo == Lower(sd, pct)
  IN  IF sd = <<>> THEN 0
      ELSE IF lo + 1 >= Len(sd) THEN 1000 * sd[Len(sd)]
      ELSE Between(sd[lo + 1], sd[lo + 2], Fraction(sd, pct))

Ascending(sd) == \A i, j \in 1 .. Len(sd) : i <= j => sd[i] <= sd[j]

(* sorted(ns): the samples in an order in which they do not fall.          *)
sorted(ns) ==
  LET places == 1 .. Len(ns)
      order == CHOOSE p \in Bijection(places, places) : Ascending([k \in places |-> ns[p[k]]])
  IN  [k \in places |-> ns[order[k]]]

=============================================================================
