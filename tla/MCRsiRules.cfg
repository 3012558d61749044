\* MCRsiRules: see README.md
CONSTANTS
  Changes = {"decoder"}
  Files = {"planner"}
  FileOf <- MCFileOf
  Rules = {"decoder"}
  Generators = {"rules"}
  Cycles = 2
  MaxRuns = 1
  Main = Main
  Absent = Absent
SPECIFICATION Spec
INVARIANT RulesRestoreCheckout
