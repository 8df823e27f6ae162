---------------------------- MODULE MCSpiChannel ----------------------------
(***************************************************************************)
(* IqrfSpiChannel with two callers of sendTo(), who meet each other, the   *)
(* listening thread and getState() at the bus.                             *)
(***************************************************************************)
EXTENDS SpiChannel

CONSTANTS s1, s2

MCSends == {s1, s2}
=============================================================================
