------------------------------- MODULE MCFota -------------------------------
(* Fota for TLC: every constant is given in the configuration.              *)
EXTENDS Fota
=============================================================================
