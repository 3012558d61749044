\* MCExecutorFair: see README.md
CONSTANTS
  RunIds = {r1}
  Tools <- MCTools
  Args = {"old"}
  MaxSteps = 3
  Plans <- MCRacePlans
  Registries <- MCRaceRegistries
  AuthIds = {}
  LegacyRuns = {}
  Executors = {e1, e2}
  Retries = 2
  WriteFile = "write_file"
  NoRow = NoRow
  NoPlan = NoPlan
  NoContract = NoContract
  NoAuth = NoAuth
  NoRequest = NoRequest
  NoRun = NoRun
SPECIFICATION FairSpec
PROPERTIES RunsSettle KeepsPromise
