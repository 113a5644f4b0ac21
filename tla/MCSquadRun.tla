------------------------------ MODULE MCSquadRun ------------------------------
(* SquadRun for TLC: tasks are numbered, everything else is a model value. *)
EXTENDS SquadRun, TLC

OneTask == 1..1

RunSymmetry == Permutations(Call)
=============================================================================
