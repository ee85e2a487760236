--------------------------- MODULE MCNetworkSlots ---------------------------
(***************************************************************************)
(* NetworkSlots for TLC: l1 prepares a warm VM, the others are restored    *)
(* for a session at once.                                                  *)
(***************************************************************************)
EXTENDS NetworkSlots

CONSTANTS l1, l2, l3
=============================================================================
