--------------------------- MODULE MCRunAdmission ---------------------------
(***************************************************************************)
(* TLC instances of RunAdmission; every constant is given in the configs.  *)
(***************************************************************************)
EXTENDS RunAdmission

=============================================================================
