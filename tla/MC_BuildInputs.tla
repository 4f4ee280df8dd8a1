--------------------------- MODULE MC_BuildInputs ---------------------------
(***************************************************************************)
(* Instances of BuildInputs for TLC: the match and group events of          *)
(* MC_CoveredInfer.                                                        *)
(***************************************************************************)
EXTENDS BuildInputs

CONSTANTS match, group, plain, grouped, w1, w2, p1, p2

\* The match's fragment has the group only when both events are classified;
\* under w2 no template recognises the group event.
MCTopology ==
  [w \in Worlds |-> [S \in SUBSET Events |-> [e \in Events |->
    CASE e = match -> IF w = w1 /\ group \in S THEN grouped ELSE plain
      [] OTHER     -> IF w = w1 THEN plain ELSE Uncovered]]]

\* The group event's markets differ in the two worlds, the match's do not.
MCPlanOf ==
  [w \in Worlds |-> [e \in Events |-> IF w = w2 /\ e = group THEN p2 ELSE p1]]

MCChunksOf == [p \in Plans |-> Chunk]
=============================================================================
