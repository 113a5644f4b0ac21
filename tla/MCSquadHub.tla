----------------------------- MODULE MCSquadHub -----------------------------
(* SquadHub for TLC: symmetric callers as model values. *)
EXTENDS SquadHub, TLC

HubSymmetry == Permutations(Call) \cup Permutations(Stopper)
=============================================================================
