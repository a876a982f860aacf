---------------------------- MODULE MCContainers ----------------------------
(***************************************************************************)
(* Checking Containers with TLC by itself.                                 *)
(***************************************************************************)
EXTENDS Containers

CONSTANTS c1, c2

TwoCallers == {c1, c2}
=============================================================================
