---------------------------- MODULE BuildInputs ----------------------------
(***************************************************************************)
(* What a build is made of.  One run of infer_event_fragments writes the    *)
(* templates' topology, plans the residual events, verifies the covered     *)
(* ones and then sends the residual chunks to the LLM: CoveredInfer and      *)
(* ResidualInfer, composed in this order.  `oddsgraph run` infers and builds *)
(* in one process, with one set of settings and one market list; `oddsgraph  *)
(* build` starts from the defaults and all markets.  Both read whatever the  *)
(* runs have left on disk.                                                  *)
(***************************************************************************)
EXTENDS CoveredInfer

CONSTANTS
  Plans, Chunk, ChunksOf,  \* as in ResidualInfer
  PlanOf,                  \* the plan the markets of a world give an event
  ResidualFaultKinds, MaxResidualFaults

\* Classifying only the covered events of a run gives them the fragments they
\* have among all its events: other events learn from group winner events only,
\* and one that lists a team, other than on a player's market, is covered.
ASSUME CoveredAssumption ==
  \A w \in Worlds : \A S \in SUBSET Events : \A e \in Events :
    Topology[w][S][e] # Uncovered =>
      Topology[w][S][e] = Topology[w][{x \in S : Topology[w][S][x] # Uncovered}][e]

ASSUME ResidualAssumption ==
  /\ PlanOf \in [Worlds -> [Events -> Plans]]
  /\ ChunksOf \in [Plans -> SUBSET Chunk]
  /\ \A p \in Plans : ChunksOf[p] # {}
  /\ {Absent, Torn} \cap (Plans \cup Events) = {}
  /\ MaxResidualFaults \in Nat
  /\ ResidualFaultKinds \subseteq AllFaults

VARIABLES
  fragment, parts, manifest,  \* the files of ResidualInfer
  rphase, rtodo, rcur, rqueue, rrunning, failed, rstatus,
                              \* its process, which is that of CoveredInfer
  rfaults,
  built                       \* the last graph: how it was built, and from what

residualFiles == <<fragment, parts, manifest>>
residualVars == <<residualFiles, rphase, rtodo, rcur, rqueue, rrunning, failed, rstatus, rfaults>>
buildVars == <<vars, residualVars, built>>

\* The events the templates leave to the LLM, and what it is to answer.
Residual == scope \ Covered
PlanNow == [e \in Events |-> IF e \in Residual THEN PlanOf[world][e] ELSE Absent]

\* (The report is left out: no build reads it.)
R == INSTANCE ResidualInfer WITH
  FaultKinds <- ResidualFaultKinds, MaxFaults <- MaxResidualFaults,
  resume <- settings.resume, plan <- PlanNow, selected <- Residual, report <- [e \in Events |-> "none"],
  phase <- rphase, todo <- rtodo, cur <- rcur, queue <- rqueue, running <- rrunning,
  status <- rstatus, faults <- rfaults

NoBuild == [by |-> "none", settings |-> Defaults, scope |-> {}, failed |-> {},
            topology |-> <<>>, llm |-> <<>>]

\* Origins of the topology of an event.
FromVerified(e) == [from |-> "verified", of |-> verified[e].of]
FromInfer(e) == [from |-> "infer", of |-> topology[e]]
FromTemplate(S, e) == [from |-> "template", of |-> Topology[world][S][e]]
NoTopology == [from |-> "none", of |-> Uncovered]

-----------------------------------------------------------------------------
(* load_all_fragments and build_deterministic_fragments_by_event. *)

\* A verified file counts if its manifest names a successful status; the
\* fingerprint is not looked at.
LoadsVerified(s, e) == s.resume /\ verified[e] # Absent /\ vmanifest[e] \notin NoFile

\* _load_fragment raises on any truncated file it opens; <e>.json is opened
\* before <e>__verified.json may take its place.
LoadRaises(s) ==
  \E e \in Events :
    \/ fragment[e] = R!TornFragment
    \/ LoadsVerified(s, e) /\ verified[e] = Torn
    \/ s.resume /\ topology[e] = Torn

\* Slip: the templates come before what infer has saved.
TemplateFirst(s, S, e) ==
  IF LoadsVerified(s, e) THEN FromVerified(e)
  ELSE IF s.templates /\ Topology[world][Events][e] # Uncovered THEN FromTemplate(Events, e)
  ELSE IF s.resume /\ topology[e] # Absent THEN FromInfer(e)
  ELSE NoTopology

\* Verified topology replaces the template's; a saved topology is preferred to
\* classifying again, whatever deterministic_topology says.
TopologyUsed(s, S, e) ==
  IF LoadsVerified(s, e) THEN FromVerified(e)
  ELSE IF s.resume /\ topology[e] # Absent THEN FromInfer(e)
  ELSE IF s.templates /\ Topology[world][S][e] # Uncovered THEN FromTemplate(S, e)
  ELSE NoTopology

\* The residual fragment, unless the verified one has taken its place: the plans
\* of its parts, none without a file.
LlmUsed(s, e) == IF LoadsVerified(s, e) THEN R!NoFragment ELSE fragment[e]

Graph(by, s, S) ==
  [by |-> by, settings |-> s, scope |-> S,
   failed |-> {e \in S : rstatus[e] = "failed"},
   topology |-> [e \in S |-> TopologyUsed(s, S, e)],
   llm |-> [e \in S |-> LlmUsed(s, e)]]

-----------------------------------------------------------------------------
(* One run of infer_event_fragments. *)

BuildInit == Init /\ R!Init /\ built = NoBuild

\* The next command overwrites the graph sooner or later.
InferStarts ==
  /\ StartRun
  /\ R!StartRun
  /\ built' = NoBuild

\* The residual events are planned when the templates' topology is saved,
\* and inferred when the covered ones have been verified.
Planning == TopologySaved
Inferring == phase = "residual"

ResidualPlans ==
  /\ Planning
  /\ UNCHANGED <<vars, built>>
  /\ \E e \in Events :
       \/ R!SkipCompleted(e) \/ R!DropFragment(e)
       \/ \E i \in Chunk : R!ClearPart(e, i)
       \/ R!ClearManifest(e) \/ R!SubmitChunks(e)

ResidualInfers ==
  /\ Inferring
  /\ UNCHANGED <<vars, built>>
  /\ \/ R!OpenPool \/ R!ClosePool
     \/ \E t \in R!Tasks : R!TakeTask(t) \/ R!TaskSucceeds(t) \/ R!TaskFails(t)
     \/ \E e \in Events : R!MarkFailed(e) \/ R!SaveFragment(e) \/ R!SaveManifest(e)

CoveredSteps ==
  /\ \/ BeginVerify /\ R!ScanDone
     \/ OpenPool \/ ClosePool
     \/ \E e \in Events :
          \/ SaveTopology(e)
          \/ ReuseVerified(e) \/ SubmitVerify(e) \/ TakeTask(e) \/ TaskRaises(e)
          \/ \E f \in Fragments :
               TaskAnswers(e, f) \/ SaveVerified(e, f) \/ SaveVerifyManifest(e, f)
          \/ DropVerified(e) \/ DropVerifyManifest(e)
  /\ UNCHANGED <<residualVars, built>>

\* The run ends inside the residual path: its own exceptions and kills.
ResidualStops ==
  /\ ResidualAborts
  /\ \/ Planning /\ (R!LlmUnavailable \/ \E e \in Events : R!AbortOnTornFragment(e))
     \/ Inferring /\ \/ R!KillTearsParts
                     \/ \E e \in Events :
                          \/ R!AbortOnTornPart(e)
                          \/ R!KillTearsFragment(e) \/ R!KillTearsManifest(e)
     \/ R!Kill
  /\ UNCHANGED built

\* It ends outside of it.  An LLM that the residual path has built is there.
CoveredStops ==
  /\ \/ rqueue = {} /\ LlmUnavailable
     \/ ~(Planning \/ Inferring) /\ Kill
     \/ \E e \in Events :
          \/ AbortOnTornVerified(e)
          \/ KillTearsTopology(e) \/ KillTearsVerified(e) \/ KillTearsManifest(e)
  /\ R!ProcessEnds
  /\ UNCHANGED <<residualFiles, rfaults, built>>

\* infer_event_fragments returns.
Returns ==
  /\ FinishRun
  /\ R!MergeDone
  /\ R!ProcessEnds
  /\ UNCHANGED <<residualFiles, rfaults>>

-----------------------------------------------------------------------------
(* The commands. *)

\* `oddsgraph infer` ends.
InferEnds == Returns /\ UNCHANGED built

\* `oddsgraph run` goes on to the build with its own settings and events,
\* failed ones or not; the build raises on a truncated file.
RunBuilds ==
  /\ Returns
  /\ built' = IF LoadRaises(settings) THEN built ELSE Graph("run", settings, scope)

\* `oddsgraph build`.
Build ==
  /\ phase = "idle"
  /\ ~LoadRaises(Defaults)
  /\ built' = Graph("build", Defaults, Events)
  /\ UNCHANGED <<vars, residualVars>>

\* The graph on disk is judged in the world it was built in.
BuiltWorldChanges ==
  /\ WorldChanges
  /\ built' = NoBuild
  /\ UNCHANGED residualVars

BuildNext ==
  \/ InferStarts \/ CoveredSteps \/ ResidualPlans \/ ResidualInfers
  \/ ResidualStops \/ CoveredStops
  \/ InferEnds \/ RunBuilds \/ Build
  \/ BuiltWorldChanges

BuildSpec == BuildInit /\ [][BuildNext]_buildVars

-----------------------------------------------------------------------------
\* What a template extracts from e in the scope of the last build.
Current(e) == Topology[world][built.scope][e]

CoveredNow(e) == built.settings.templates /\ Current(e) # Uncovered

\* A `run` builds every event its templates cover from what they extract now,
\* or from an answer to it, whatever earlier runs over other data or other
\* events left behind (infer.py:418-426, deterministic.py:108-122).
RunBuildIsFresh ==
  built.by = "run" =>
    \A e \in built.scope : CoveredNow(e) =>
      /\ built.topology[e].from # "none"
      /\ built.topology[e].of = Current(e)

\* What a resume `run` unites an uncovered event with was inferred by the LLM
\* from exactly the markets this run plans for it, every chunk of it, or is
\* nothing if that inference has failed: whatever fragments, parts and
\* manifests runs over other data and other settings have left, cut short or
\* not.  (A verified file that takes the fragment's place is
\* VerifiedMatchesTemplate's; infer.py:460-470, 534-556, 645.)
RunLlmIsFresh ==
  built.by = "run" /\ built.settings.resume =>
    \A e \in built.scope : ~CoveredNow(e) /\ built.topology[e].from # "verified" =>
      built.llm[e] = IF e \in built.failed THEN R!NoFragment ELSE {PlanOf[world][e]}

\* "a verified fragment (__verified.json) is only reused while its
\* __verify_manifest.json fingerprint still matches the current template
\* output" (docs/concepts/troubleshooting.md:63-66).
VerifiedMatchesTemplate ==
  \A e \in built.scope :
    built.topology[e].from = "verified" => built.topology[e].of = Current(e)
=============================================================================
