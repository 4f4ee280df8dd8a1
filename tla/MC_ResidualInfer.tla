-------------------------- MODULE MC_ResidualInfer --------------------------
(***************************************************************************)
(* Instances of ResidualInfer for TLC.                                     *)
(***************************************************************************)
EXTENDS ResidualInfer, TLC

CONSTANTS e1, e2, A, B

\* Two plans with the same chunk indexes, so that a part of one can be taken
\* for a part of the other, or with one chunk fewer.
SameShape == (A :> {0, 1}) @@ (B :> {0, 1})
FewerChunks == (A :> {0, 1}) @@ (B :> {0})

EventSymmetry == Permutations({e1, e2})
=============================================================================
