\* MCExecutorRaces: see README.md
CONSTANTS
  RunIds = {r1}
  Tools <- MCTools
  Args = {"old"}
  MaxSteps = 3
  Plans <- MCRacePlans
  Registries <- MCRaceRegistries
  AuthIds = {}
  LegacyRuns = {}
  Executors = {e1, e2, e3}
  Retries = 2
  WriteFile = "write_file"
  NoRow = NoRow
  NoPlan = NoPlan
  NoContract = NoContract
  NoAuth = NoAuth
  NoRequest = NoRequest
  NoRun = NoRun
SYMMETRY ExecutorSymmetry
SPECIFICATION Spec
INVARIANTS
  TypeOK AtMostOnce LedgerTellsTruth OrderedEffects SoleDispatcher
  ExitTellsOutcome OnlyCrashesAbandon
PROPERTIES DoubtFreezesRun WorkCountsDown
