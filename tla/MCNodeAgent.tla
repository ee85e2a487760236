---------------------------- MODULE MCNodeAgent -----------------------------
(* NodeAgent for TLC. *)
EXTENDS NodeAgent, TLC

CONSTANTS c1, c2, c3, w1, w2, w3

Sizes(p, s, m) == [pool |-> p, sessions |-> s, microvms |-> m]

\* A host without a warm pool, and one with a warm VM.
MCConfigs == {Sizes(0, 2, 1), Sizes(1, 1, 2)}
MCSmall == {Sizes(1, 1, 1)}

Symmetric == Permutations(Warm) \cup Permutations(Call)
=============================================================================
