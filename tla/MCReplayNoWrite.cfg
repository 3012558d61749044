\* MCReplayNoWrite: see README.md
CONSTANTS
  RunIds = {r1}
  Tools <- MCWriteTools
  Args = {"old"}
  MaxSteps = 1
  Plans <- MCWritePlans
  Registries <- MCWriteRegistries
  AuthIds = {}
  LegacyRuns = {}
  Executors = {e1}
  Retries = 2
  WriteFile = "write_file"
  NoRow = NoRow
  NoPlan = NoPlan
  NoContract = NoContract
  NoAuth = NoAuth
  NoRequest = NoRequest
  NoRun = NoRun
SPECIFICATION Spec
PROPERTY NoWriteRejectsOnlyWriters
