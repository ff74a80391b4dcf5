------------------------------- MODULE MCLate -------------------------------
(* Late execution of commands on small instances.                          *)
EXTENDS LateLogin, MCLogin
=============================================================================
