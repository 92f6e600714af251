------------------------------ MODULE MCInject ------------------------------
(***************************************************************************)
(* Inject with two clients: one probes and may not exec, and still injects *)
(* when its review fails; the other knows the UID and may exec.            *)
(***************************************************************************)
EXTENDS Inject

CONSTANTS a, b
=============================================================================
