\* MCRsi: see README.md
CONSTANTS
  Changes = {"decoder", "lookup"}
  Files = {"planner"}
  FileOf <- MCFileOf
  Rules = {"decoder"}
  Generators = {"llm", "rules"}
  Cycles = 2
  MaxRuns = 2
  Main = Main
  Absent = Absent
  Outcomes <- MCOutcomes
  MinGain = 1
CONSTRAINT FewAdmissions
SPECIFICATION MeasuredSpec
INVARIANTS MeasuredOK EveryCommitImproves UntriedAreSlower AcceptedCumulative EndsWhereItBegan
PROPERTIES AcceptedStay RunCountsDown
