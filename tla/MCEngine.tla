------------------------------ MODULE MCEngine ------------------------------
(***************************************************************************)
(* Bounds for Engine: one engine whose callers are many threads.            *)
(***************************************************************************)
EXTENDS Engine

CONSTANT e1

MCEngines == {e1}
=============================================================================
