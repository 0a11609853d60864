----------------------------- MODULE MCHandshake -----------------------------
(***************************************************************************)
(* Instances of Handshake for TLC.                                         *)
(***************************************************************************)
EXTENDS Handshake, TLC

CONSTANTS
  a, b,   \* the two ends
  k1, k2  \* nonces

\* Versions just below and at the thresholds of the features.
MCVersions == {70011, 70012, 70016}
MCFewVersions == {70016}

\* Two ends.
MCPair == (a :> b) @@ (b :> a)

\* The ends in processes of their own, or in one process.
MCTwoProcesses == (a :> 1) @@ (b :> 2)
MCOneProcess == (a :> 1) @@ (b :> 1)

MCNonceSymmetry == Permutations({k1, k2})
=============================================================================
