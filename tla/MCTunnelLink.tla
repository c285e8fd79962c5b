---------------------------- MODULE MCTunnelLink ----------------------------
(* Two small packets and a large one: the bytes or the count may run out.     *)
EXTENDS TunnelLink

CONSTANTS a, b, c
MCSize == [p \in Packets |-> IF p = c THEN 2 ELSE 1]
=============================================================================
