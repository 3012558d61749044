----------------------------- MODULE MCHistory -----------------------------
(***************************************************************************)
(* Two runs of one plan, executed by one process, and `apex history`.      *)
(***************************************************************************)
EXTENDS HistoryView

MCTools == {"read"}
MCCall == [tool |-> "read", args |-> "path"]
MCPlans == {<<MCCall>>}
MCRegistries ==
  {[tools |-> MCTools, accepts |-> {MCCall}, retrySafe |-> {}, impl |-> 1]}
MCRunIds == 1..2
=============================================================================
