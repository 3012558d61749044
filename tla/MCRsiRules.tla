----------------------------- MODULE MCRsiRules -----------------------------
(***************************************************************************)
(* Values for the constants of RsiCycle: one change, which the rules       *)
(* generator derives.                                                      *)
(***************************************************************************)
EXTENDS RsiCycle

MCFileOf == [c \in Changes |-> "planner"]
=============================================================================
