------------------------------ MODULE MCNetNat ------------------------------
(***************************************************************************)
(* Bounds for NetNat: two slots for two conversations of UDP and one of TCP. *)
(***************************************************************************)
EXTENDS NetNat

CONSTANTS a, b, t

MCUdp == {a, b}
MCTcp == {t}
=============================================================================
