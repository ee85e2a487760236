------------------------ MODULE MCControlPlaneStore ------------------------
(***************************************************************************)
(* ControlPlaneStore for TLC.  The contents are the records kept in the    *)
(* order they were appended, the newest Cap of them, as sessionEvents      *)
(* keeps the newest 256: a mutation that ran on a stale copy, or was lost, *)
(* shows in the sequence.                                                  *)
(***************************************************************************)
EXTENDS ControlPlaneStore, Sequences, SequencesExt

CONSTANT Cap

MCContent == BoundedSeq(Op, Cap)
MCEmpty == <<>>

Newest(s) == SubSeq(s, Len(s) + 1 - (IF Len(s) < Cap THEN Len(s) ELSE Cap), Len(s))

MCEffect == [o \in Op |-> [c \in MCContent |-> Newest(Append(c, o))]]
=============================================================================
