----------------------------- MODULE MCTestbed ------------------------------
(* The instance of Testbed that TLC checks.                                 *)
EXTENDS Testbed
=============================================================================
