--------------------------- MODULE MC_CoveredInfer ---------------------------
(***************************************************************************)
(* Instances of CoveredInfer for TLC: a match and the event that tells its  *)
(* group.                                                                  *)
(***************************************************************************)
EXTENDS CoveredInfer

CONSTANTS match, group, plain, grouped, w1, w2

\* The match's fragment has the group only when both events are classified;
\* under w2 no template recognises the group event.
MCTopology ==
  [w \in Worlds |-> [S \in SUBSET Events |-> [e \in Events |->
    CASE e = match -> IF w = w1 /\ group \in S THEN grouped ELSE plain
      [] OTHER     -> IF w = w1 THEN plain ELSE Uncovered]]]
=============================================================================
