\* MCHistory: see README.md
CONSTANTS
  RunIds <- MCRunIds
  Tools <- MCTools
  Args = {"path"}
  MaxSteps = 1
  Plans <- MCPlans
  Registries <- MCRegistries
  AuthIds = {}
  LegacyRuns = {}
  Executors = {e1}
  Retries = 2
  WriteFile = "write_file"
  NoRow = NoRow
  NoPlan = NoPlan
  NoContract = NoContract
  NoAuth = NoAuth
  NoRequest = NoRequest
  NoRun = NoRun
  NotRun = NotRun
SPECIFICATION ViewSpec
PROPERTY HistoryFindsIncomplete
