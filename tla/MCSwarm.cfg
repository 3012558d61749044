\* Swarm, checked directly: see README.md
CONSTANTS
  Tasks = 5
  Workers = 2
SPECIFICATION FairSpec
INVARIANTS TypeOK OneBatchAtATime RowsTellWorkers ResultCountsFailures
PROPERTY BatchEnds
CHECK_DEADLOCK FALSE
