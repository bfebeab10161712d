----------------------------- MODULE SeqLockRing -----------------------------
(***************************************************************************)
(* The single-producer multi-consumer ring of shm/ring_buffer.hpp, at the  *)
(* granularity of its accesses to the shared memory segment: rb_push is    *)
(* four kinds of step (mark, copy one word, stamp stable, publish), a pop  *)
(* is sample, copy one word, validate, and on a lap or a torn copy the     *)
(* load of head with the re-sync.  Accesses to a consumer's own tail are   *)
(* joined to the neighbouring shared access: no other thread touches it    *)
(* while the consumer is popping.                                          *)
(*                                                                         *)
(* Memory order.  The program is x86 only (x86intrin.h) and compiled for   *)
(* the host: stores become visible in program order, loads are performed   *)
(* in program order, and the compiler moves nothing across the atomic      *)
(* accesses to slot.seq.  The words of the plain memcpy, on either side,   *)
(* are accessed in any order.                                              *)
(*                                                                         *)
(* The message pushed at position h is represented by h in each of its     *)
(* fields, so a copy that mixes two messages shows two different values.   *)
(***************************************************************************)
EXTENDS Integers

CONSTANTS
  RING_SIZE,      (* number of slots; a power of two in the code           *)
  Consumers,      (* the popping threads                                   *)
  MetaConsumers,  (* those that call rb_pop_meta; the others call rb_pop   *)
  Fields,         (* the words of a Message                                *)
  MetaFields,     (* the words of a MsgMeta: seq_id and send_tsc           *)
  MaxPush         (* bound: how many messages the producer pushes          *)

ASSUME RingAssumption ==
  /\ RING_SIZE \in Nat \ {0}
  /\ MetaConsumers \subseteq Consumers
  /\ MetaFields \subseteq Fields
  /\ MaxPush \in Nat

VARIABLES
  head,    (* rb->head: number of messages published                       *)
  seq,     (* rb->slots[i].seq                                             *)
  msg,     (* rb->slots[i].msg, per field the position last written        *)
  ppc,     (* where the producer is in rb_push                             *)
  unsent,  (* the fields rb_push has still to copy into the slot           *)
  tail,    (* rb->tails[c].tail                                            *)
  cpc,     (* where consumer c is in rb_pop / rb_pop_meta                  *)
  before,  (* c's local seq_before                                         *)
  unread,  (* the fields c has still to copy out of the slot               *)
  out,     (* the caller's buffer                                          *)
  result,  (* why the last pop of c returned what it returned              *)
  last     (* history: the last message a pop of c returned true with      *)

producerVars == <<head, seq, msg, ppc, unsent>>
consumerVars == <<tail, cpc, before, unread, out, result, last>>
vars == <<head, seq, msg, ppc, unsent, tail, cpc, before, unread, out, result, last>>

Slots == 0 .. RING_SIZE - 1

(* h & RING_MASK.                                                          *)
Idx(h) == h % RING_SIZE

(* The two values rb_push stamps a slot with while it writes position h.   *)
(* A plain odd marker would do for an ordinary seqlock, not here.          *)
PlainOddMark(h) == 1

InFlight(h) == 2 * h + 1

Stable(h) == 2 * h + 2

(* What a field holds in memory nobody has written: zero bytes.            *)
Zeroed == -1

(* The words a pop copies: rb_pop takes the whole Message, rb_pop_meta     *)
(* only its first two words.  Otherwise the two functions are the same.    *)
Reads == [c \in Consumers |-> IF c \in MetaConsumers THEN MetaFields ELSE Fields]

Init ==
  /\ head = 0
  /\ seq = [i \in Slots |-> 0]
  /\ msg = [i \in Slots |-> [f \in Fields |-> Zeroed]]
  /\ ppc = "idle"
  /\ unsent = {}
  /\ tail = [c \in Consumers |-> 0]
  /\ cpc = [c \in Consumers |-> "idle"]
  /\ before = [c \in Consumers |-> 0]
  /\ unread = [c \in Consumers |-> {}]
  /\ out = [c \in Consumers |-> [f \in Reads[c] |-> Zeroed]]
  /\ result = [c \in Consumers |-> "none"]
  /\ last = [c \in Consumers |-> [f \in Reads[c] |-> Zeroed]]

-----------------------------------------------------------------------------
(* rb_push.  It looks at no tail: the producer never waits.                *)

(* Copying without the odd stamp: what a compiler or a weaker processor    *)
(* makes of rb_push when it moves the copy up over the store of line 91.   *)
UnmarkedPush ==
  /\ ppc = "idle"
  /\ head < MaxPush
  /\ ppc' = "copy"
  /\ unsent' = Fields
  /\ UNCHANGED <<head, seq, msg>>

(* Load head, which only the producer writes, and stamp the slot odd.      *)
PushMark ==
  /\ ppc = "idle"
  /\ head < MaxPush
  /\ seq' = [seq EXCEPT ![Idx(head)] = InFlight(head)]
  /\ ppc' = "copy"
  /\ unsent' = Fields
  /\ UNCHANGED <<head, msg>>

(* One word of the memcpy into the slot.                                   *)
PushCopy(f) ==
  /\ ppc = "copy"
  /\ f \in unsent
  /\ msg' = [msg EXCEPT ![Idx(head)][f] = head]
  /\ unsent' = unsent \ {f}
  /\ UNCHANGED <<head, seq, ppc>>

(* The copy is complete: stamp the slot even.                              *)
PushStable ==
  /\ ppc = "copy"
  /\ unsent = {}
  /\ seq' = [seq EXCEPT ![Idx(head)] = Stable(head)]
  /\ ppc' = "publish"
  /\ UNCHANGED <<head, msg, unsent>>

PushPublish ==
  /\ ppc = "publish"
  /\ head' = head + 1
  /\ ppc' = "idle"
  /\ UNCHANGED <<seq, msg, unsent>>

rb_push ==
  /\ \/ PushMark
     \/ \E f \in Fields : PushCopy(f)
     \/ PushStable
     \/ PushPublish
  /\ UNCHANGED consumerVars

-----------------------------------------------------------------------------
(* rb_pop and rb_pop_meta.                                                 *)

(* The value slot.seq has when the slot holds what c reads next.           *)
Expected(c) == Stable(tail[c])

SampledSeq(c) == seq[Idx(tail[c])]

(* seq_before < expected: nothing there yet, return false.                 *)
PopEmpty(c) ==
  /\ cpc[c] = "idle"
  /\ SampledSeq(c) < Expected(c)
  /\ result' = [result EXCEPT ![c] = "empty"]
  /\ UNCHANGED <<tail, cpc, before, unread, out, last>>

LappedWheneverDifferent(c) ==
  /\ cpc[c] = "idle"
  /\ SampledSeq(c) # Expected(c)
  /\ cpc' = [cpc EXCEPT ![c] = "lapped"]
  /\ UNCHANGED <<tail, before, unread, out, result, last>>

(* seq_before > expected: the slot has been overwritten.                   *)
PopLapped(c) ==
  /\ cpc[c] = "idle"
  /\ SampledSeq(c) > Expected(c)
  /\ cpc' = [cpc EXCEPT ![c] = "lapped"]
  /\ UNCHANGED <<tail, before, unread, out, result, last>>

(* seq_before = expected: go on to copy.                                   *)
PopSample(c) ==
  /\ cpc[c] = "idle"
  /\ SampledSeq(c) = Expected(c)
  /\ before' = [before EXCEPT ![c] = SampledSeq(c)]
  /\ unread' = [unread EXCEPT ![c] = Reads[c]]
  /\ cpc' = [cpc EXCEPT ![c] = "copy"]
  /\ UNCHANGED <<tail, out, result, last>>

(* One word of the copy out of the slot.                                   *)
PopCopy(c, f) ==
  /\ cpc[c] = "copy"
  /\ f \in unread[c]
  /\ out' = [out EXCEPT ![c][f] = msg[Idx(tail[c])][f]]
  /\ unread' = [unread EXCEPT ![c] = unread[c] \ {f}]
  /\ UNCHANGED <<tail, cpc, before, result, last>>

(* One cursor for all the consumers, as in the design prompt.md discards.  *)
ReturnOnSharedCursor(c) ==
  /\ cpc[c] = "copy"
  /\ unread[c] = {}
  /\ SampledSeq(c) = before[c]
  /\ tail' = [d \in Consumers |-> tail[c] + 1]
  /\ last' = [last EXCEPT ![c] = out[c]]
  /\ result' = [result EXCEPT ![c] = "ok"]
  /\ cpc' = [cpc EXCEPT ![c] = "idle"]
  /\ UNCHANGED <<before, unread, out>>

(* seq_after = seq_before: advance tail and return true.                   *)
PopReturn(c) ==
  /\ cpc[c] = "copy"
  /\ unread[c] = {}
  /\ SampledSeq(c) = before[c]
  /\ tail' = [tail EXCEPT ![c] = tail[c] + 1]
  /\ last' = [last EXCEPT ![c] = out[c]]
  /\ result' = [result EXCEPT ![c] = "ok"]
  /\ cpc' = [cpc EXCEPT ![c] = "idle"]
  /\ UNCHANGED <<before, unread, out>>

(* seq_after # seq_before: the copy may be torn.                           *)
PopTorn(c) ==
  /\ cpc[c] = "copy"
  /\ unread[c] = {}
  /\ SampledSeq(c) # before[c]
  /\ cpc' = [cpc EXCEPT ![c] = "torn"]
  /\ UNCHANGED <<tail, before, unread, out, result, last>>

UnclampedOldest(h) == h - RING_SIZE - 1

(* (h >= RING_SIZE) ? h - RING_SIZE : 0                                    *)
OldestFor(h) == IF h >= RING_SIZE THEN h - RING_SIZE ELSE 0

ResyncForgottenStore(c) ==
  /\ cpc[c] \in {"lapped", "torn"}
  /\ result' = [result EXCEPT ![c] = cpc[c]]
  /\ cpc' = [cpc EXCEPT ![c] = "idle"]
  /\ UNCHANGED <<tail, before, unread, out, last>>

(* Load head, move tail to the oldest slot of the ring, return false.      *)
Resync(c) ==
  /\ cpc[c] \in {"lapped", "torn"}
  /\ tail' = [tail EXCEPT ![c] = OldestFor(head)]
  /\ result' = [result EXCEPT ![c] = cpc[c]]
  /\ cpc' = [cpc EXCEPT ![c] = "idle"]
  /\ UNCHANGED <<before, unread, out, last>>

rb_pop(c) ==
  /\ \/ PopEmpty(c)
     \/ PopLapped(c)
     \/ PopSample(c)
     \/ \E f \in Reads[c] : PopCopy(c, f)
     \/ PopReturn(c)
     \/ PopTorn(c)
     \/ Resync(c)
  /\ UNCHANGED producerVars

-----------------------------------------------------------------------------
Next ==
  \/ rb_push
  \/ \E c \in Consumers : rb_pop(c)

Spec == Init /\ [][Next]_vars

(* Producer and consumers are threads that spin on cores of their own.     *)
Fairness ==
  /\ WF_vars(rb_push)
  /\ \A c \in Consumers : WF_vars(rb_pop(c))

FairSpec == Spec /\ Fairness

-----------------------------------------------------------------------------
(* Properties.                                                             *)

TypeOK ==
  /\ head \in Nat
  /\ seq \in [Slots -> Nat]
  /\ msg \in [Slots -> [Fields -> Nat \cup {Zeroed}]]
  /\ ppc \in {"idle", "copy", "publish"}
  /\ unsent \in SUBSET Fields
  /\ tail \in [Consumers -> Nat]
  /\ cpc \in [Consumers -> {"idle", "lapped", "copy", "torn"}]
  /\ before \in [Consumers -> Nat]
  /\ unread \in [Consumers -> SUBSET Fields]
  /\ \A c \in Consumers : unread[c] \subseteq Reads[c]
  /\ DOMAIN out = Consumers
  /\ \A c \in Consumers : out[c] \in [Reads[c] -> Nat \cup {Zeroed}]
  /\ result \in [Consumers -> {"none", "ok", "empty", "lapped", "torn"}]
  /\ DOMAIN last = Consumers
  /\ \A c \in Consumers : last[c] \in [Reads[c] -> Nat \cup {Zeroed}]

(* Messages a consumer can already take: head, or one more while rb_push   *)
(* is between stamping the slot stable and publishing head.                *)
Sent == IF ppc = "publish" THEN head + 1 ELSE head

View(c, k) == [f \in Reads[c] |-> k]

(* A pop returns true only with a whole message, and with one that was     *)
(* published: no copy that a concurrent rb_push overwrote in the middle    *)
(* passes the second look at slot.seq (ring_buffer.hpp, 133-147).          *)
NoTornDelivery ==
  \A c \in Consumers : \E k \in -1 .. tail[c] - 1 : last[c] = View(c, k)

(* No cursor runs ahead of the messages the producer has stamped stable,   *)
(* wherever laps and torn copies have thrown it.                           *)
CursorWithinLog == \A c \in Consumers : tail[c] <= Sent

(* A pop reports "empty" (ring_buffer.hpp, 101 and 117-121) only when the  *)
(* message it looks for has not been stamped stable: never for one that    *)
(* is in the ring, nor for one that was there and has been overwritten.    *)
EmptyIsHonest ==
  \A c \in Consumers : SampledSeq(c) < Expected(c) => tail[c] >= Sent

(* Whenever a pop is about to re-sync, head is at least a whole ring past  *)
(* the cursor: the fallback to 0 of lines 127 and 140 is never taken, and  *)
(* the re-sync cannot move the cursor back.                                *)
ResyncOnlyWhenLapped ==
  \A c \in Consumers :
    cpc[c] \in {"lapped", "torn"} => head >= tail[c] + RING_SIZE

(* A consumer never goes back, so no message is received twice.            *)
TailNeverRegresses == [][\A c \in Consumers : tail'[c] >= tail[c]]_tail

(* The ring is a lossy broadcast log that remembers RING_SIZE messages:    *)
(* each consumer receives whole messages in order, and a re-sync passes    *)
(* over forgotten messages only, never over one that is still readable.    *)
Log == INSTANCE LossyBroadcast WITH
         Capacity <- RING_SIZE, sent <- Sent, cursor <- tail

ImplementsLog == Log!Spec

(* Once the producer has stopped, every consumer catches up with it: the   *)
(* re-sync always leaves the cursor where retrying leads to a message.     *)
Drains == \A c \in Consumers : <>[](tail[c] = MaxPush)

-----------------------------------------------------------------------------
(* The inductive invariant behind NoTornDelivery and ImplementsLog.        *)

(* The slot rb_push is copying into carries the odd stamp of head, and the *)
(* words already copied are those of the new message.                      *)
InFlightInv ==
  ppc = "copy" =>
    /\ seq[Idx(head)] = InFlight(head)
    /\ \A f \in Fields \ unsent : msg[Idx(head)][f] = head

(* Slot i has not been completed once.                                     *)
Untouched(i) == seq[i] = 0 /\ Sent <= i

(* Slot i holds, whole, the message of position k, the latest that was     *)
(* stamped stable in this slot.                                            *)
HoldsPosition(i, k) ==
  /\ seq[i] = Stable(k)
  /\ Idx(k) = i
  /\ k < Sent
  /\ Sent <= k + RING_SIZE
  /\ msg[i] = [f \in Fields |-> k]

SlotInv ==
  \A i \in Slots :
    \/ ppc = "copy" /\ i = Idx(head)
    \/ Untouched(i)
    \/ \E k \in 0 .. head : HoldsPosition(i, k)

(* A consumer between its two looks at seq: the stamp it saw was the one   *)
(* of its cursor, stamps only grow, and as long as the stamp is the same   *)
(* the words it has copied are those of its message.                       *)
CopyInv(c) ==
  cpc[c] = "copy" =>
    /\ before[c] = Expected(c)
    /\ SampledSeq(c) >= before[c]
    /\ tail[c] < Sent
    /\ SampledSeq(c) = before[c] =>
         \A f \in Reads[c] \ unread[c] : out[c][f] = tail[c]

(* A consumer about to re-sync has seen a later stamp than it expected.    *)
LapInv(c) == cpc[c] \in {"lapped", "torn"} => SampledSeq(c) > Expected(c)

ConsumerInv == \A c \in Consumers : CopyInv(c) /\ LapInv(c)

(* The stamps tell every consumer the truth about every slot.              *)
RingInv ==
  /\ TypeOK
  /\ InFlightInv
  /\ SlotInv
  /\ ConsumerInv
  /\ CursorWithinLog
  /\ NoTornDelivery

=============================================================================
