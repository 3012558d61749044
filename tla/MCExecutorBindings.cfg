\* MCExecutorBindings: see README.md
CONSTANTS
  RunIds = {r1, r2}
  Tools <- MCTools
  Args = {"old", "new"}
  MaxSteps = 1
  Plans <- MCBindingPlans
  Registries <- MCBindingRegistries
  AuthIds = {a1, a2}
  LegacyRuns = {r2}
  Executors = {e1}
  Retries = 2
  WriteFile = "write_file"
  NoRow = NoRow
  NoPlan = NoPlan
  NoContract = NoContract
  NoAuth = NoAuth
  NoRequest = NoRequest
  NoRun = NoRun
SPECIFICATION Spec
INVARIANTS ExecutesAsBound
