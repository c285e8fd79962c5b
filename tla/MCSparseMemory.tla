--------------------------- MODULE MCSparseMemory ---------------------------
(* Every probe starts at the last slot: the pages collide, wrap around, and   *)
(* are found behind deleted entries.                                          *)
EXTENDS SparseMemory

MCHash == [p \in Pages |-> SlotCount - 1]
=============================================================================
