\* MCHarness: see README.md
CONSTANTS
  t1 = t1  t2 = t2  r1 = r1  r2 = r2  l1 = l1  l2 = l2  l3 = l3
  Tasks = {t1, t2}
  Resources = {r1, r2}
  Leases = {l1, l2, l3}
  Capabilities = {"python"}
  TaskSpecs <- MCTaskSpecs
  ResourceSpecs <- MCResourceSpecs
  Sizes = {1}
  Ttls = {1, 2}
  MaxTime = 2
  LockWait = 1
  NoLimit = NoLimit
  Nothing = Nothing
SYMMETRY HarnessSymmetry
SPECIFICATION Spec
INVARIANTS TypeOK OneAuthority ExclusiveWork RetriesNeedEvidence
PROPERTY KeepsLifecycle
