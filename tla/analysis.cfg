\* Two files with runs of one configuration that is analysed and one that is
\* not, below and above the threshold or without a figure.
SPECIFICATION TableSpec
CONSTANTS
  Files = {f1, f2}
  Configs = {k1, k2}
  Swept = {k1}
  P50s = {1, 9}
  Default = 3
  Thresholds = {3, 10}
  MaxRows = 1
  MaxTime = 2
INVARIANTS
  ShmRowsAreCurrent
  EveryConfigurationStays
