------------------------------ MODULE MCDebugLog ------------------------------
(* Instances of DebugLog for TLC.                                            *)
EXTENDS DebugLog
===============================================================================
