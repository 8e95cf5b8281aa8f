\* Two io_contexts with up to two threads each, signals at any moment, and a
\* value that a handler builds.
SPECIFICATION FairConfigSpec
CONSTANTS
  N = 2
  ThreadCounts = {0, 1, 2}
  MaxSignals = 3
  Objects = {o1}
CHECK_DEADLOCK FALSE
INVARIANTS AllJoined LoadIsAlone Fresh WithoutSignal
PROPERTIES RestartsWhenIdle SignalsAnswered MainSpec
