------------------------------ MODULE MCRunCosts ------------------------------
(***************************************************************************)
(* TLC instances of RunCosts.                                              *)
(***************************************************************************)
EXTENDS RunCosts

=============================================================================
