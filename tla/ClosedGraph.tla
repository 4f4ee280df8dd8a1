---------------------------- MODULE ClosedGraph ----------------------------
(***************************************************************************)
(* `oddsgraph build` followed by `oddsgraph closure`: the implications of  *)
(* the graph that GraphBuild exports are read back and closed under        *)
(* transitivity.  The closure code looks for no cycles; that there are     *)
(* none is the build's doing.                                              *)
(***************************************************************************)
EXTENDS GraphBuild, Sequences

VARIABLES
  closing,  \* the closure command has read the export
  direct, todo, search, queue, parent, closure   \* as in ImpliesClosure

closureVars == <<closing, direct, todo, search, queue, parent, closure>>
closedVars == <<vars, closureVars>>

\* The nodes that an accepted implication can lead from or to.
Claims ==
  {n \in Nodes : \E pattern \in ALLOWED_EDGE_PATTERNS.IMPLIES : NodeType[n] \in {pattern[1], pattern[2]}}

IC == INSTANCE ImpliesClosure WITH Nodes <- Claims

ClosedInit == Init /\ closing = FALSE /\ IC!Init

\* The IMPLIES rows of edges.parquet, as pairs of node ids.
Exported == {<<e.src, e.tgt>> : e \in OfType(accepted, "IMPLIES")}

\* The build, which leaves its export behind.
Building ==
  /\ Next
  /\ UNCHANGED closureVars

\* implies_closure reads the exported edges.
StartClosure ==
  /\ pc = "done" /\ ~closing
  /\ closing' = TRUE
  /\ IC!Start(Exported)
  /\ UNCHANGED vars

Closing ==
  /\ closing
  /\ IC!Search
  /\ UNCHANGED <<vars, closing>>

ClosedNext == Building \/ StartClosure \/ Closing

\* Both commands run to their ends.
ClosedSpec == ClosedInit /\ [][ClosedNext]_closedVars /\ WF_closedVars(ClosedNext)

ClosureDone == closing /\ IC!Done

---------------------------------------------------------------------------
\* t follows from s: it is in every set of claims that holds s and is closed
\* under the exported implications.
Follows(s, t) ==
  \A S \in SUBSET Claims :
    s \in S /\ (\A p \in Exported : p[1] \in S => p[2] \in S) => t \in S

\* The closure of an exported graph holds exactly the implications that follow
\* from it and are not in it: no direct edge is repeated, no claim implies
\* itself, none is missing (closure.py:45-51).
ClosureExact ==
  ClosureDone => {<<e.src, e.tgt>> : e \in closure} =
                   {st \in Claims \X Claims :
                      st[1] # st[2] /\ st \notin Exported /\ Follows(st[1], st[2])}

\* The premises of a closure edge are a chain of exported edges from its source
\* to its target, and no chain is shorter: "`premises` holds the shortest path
\* of node ids" (docs/guides/logical-layer.md:106).
PremisesAreShortest ==
  \A e \in closure :
    LET p == e.premises
    IN /\ p[1] = e.src /\ p[Len(p)] = e.tgt
       /\ \A i \in 1..(Len(p) - 1) : <<p[i], p[i + 1]>> \in Exported
       /\ e.tgt \notin IC!Within(e.src)[Len(p) - 2]

\* The two exits that would drop a pair in silence are not taken: a search does
\* not run out of nodes before it meets its target, and no path it finds is a
\* direct edge (closure.py:52, 105).
SearchesSucceed ==
  /\ search # <<>> => queue # <<>>
  /\ \A e \in closure : Len(e.premises) >= 3

\* The implications between claims that fragments and rules bring.
Brought == {<<e.src, e.tgt>> : e \in OfType(raw \cup rules, "IMPLIES")} \cap (Claims \X Claims)

\* Whatever claims come true, if they respect the implications that fragments
\* and rules bring they respect those of the graph and of its closure: with rules
\* that hold in every tournament (LogicalLayer) nothing is inferred that one of
\* them refutes, through deduplication, rejected cycles, the merge, the export
\* that is read back, and the searches.
NothingInvented ==
  \A truths \in SUBSET Claims :
    (\A p \in Brought : p[1] \in truths => p[2] \in truths) =>
      \A p \in Exported \cup {<<e.src, e.tgt>> : e \in closure} : p[1] \in truths => p[2] \in truths

\* The cycle loop of the build and the searches of the closure end
\* (graphbuild.py:155, closure.py:45-105).
Terminates == <>ClosureDone

=============================================================================
