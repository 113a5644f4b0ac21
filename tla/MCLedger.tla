-------------------------------- MODULE MCLedger --------------------------------
(* Ledger for TLC: connections, tenants and facts are model values; which  *)
(* connection is which makes no difference.                                *)
EXTENDS Ledger, TLC

Symmetric == Permutations(Conn)
=============================================================================
