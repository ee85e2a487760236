--------------------------- MODULE MCControlPlane ---------------------------
(***************************************************************************)
(* ControlPlane for TLC.  r1 and r2 carry the same Idempotency-Key and the *)
(* same payload; r3 carries the key with another payload.                  *)
(***************************************************************************)
EXTENDS ControlPlane, TLC

CONSTANTS r1, r2, r3, k

MCKeyOf == [r \in Request |-> k]
MCPayload == [r \in Request |-> IF r = r3 THEN "other" ELSE "same"]

\* r1 and r2 may change places.
Symmetric == Permutations({r1, r2})
=============================================================================
