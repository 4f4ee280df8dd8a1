------------------------- MODULE BuildInputs_proofs -------------------------
(***************************************************************************)
(* Proofs about BuildInputs: what a `run` builds is what its own templates, *)
(* its own verification and its own world say.                             *)
(***************************************************************************)
EXTENDS BuildInputs, CoveredInfer_proofs

\* The proofs about ResidualInfer, of the residual path of this composition.
RP == INSTANCE ResidualInfer_proofs WITH
  FaultKinds <- ResidualFaultKinds, MaxFaults <- MaxResidualFaults,
  resume <- settings.resume, plan <- PlanNow, selected <- Residual,
  report <- [e \in Events |-> "none"],
  phase <- rphase, todo <- rtodo, cur <- rcur, queue <- rqueue, running <- rrunning,
  status <- rstatus, faults <- rfaults

\* The constants meet what ResidualInfer assumes of them.
LEMMA ResidualConstants ==
  /\ ChunksOf \in [Plans -> SUBSET Chunk] /\ \A p \in Plans : ChunksOf[p] # {}
  /\ Concurrency \in Nat \ {0} /\ MaxResidualFaults \in Nat
  /\ ResumeModes \subseteq BOOLEAN /\ ResidualFaultKinds \subseteq RP!AllFaults
  /\ Absent # Torn /\ {Absent, Torn} \cap (Plans \cup Events) = {}
BY ResidualAssumption, BoundAssumption, MarkerAssumption DEF AllFaults, RP!AllFaults

\* Every step is one of the covered path or leaves it alone: the residual path
\* and the builds write none of its files.
LEMMA BuildStep == BuildNext => [Next]_vars
<1> SUFFICES ASSUME BuildNext PROVE Next \/ UNCHANGED vars
  OBVIOUS
<1>1. CASE InferStarts \/ InferEnds \/ RunBuilds \/ BuiltWorldChanges
  BY <1>1 DEF InferStarts, InferEnds, RunBuilds, Returns, BuiltWorldChanges, Next, Progress
<1>2. CASE CoveredSteps
  BY <1>2 DEF CoveredSteps, Next, Progress, Faulty, Verify
<1>3. CASE Build \/ ResidualPlans \/ ResidualInfers
  BY <1>3 DEF Build, ResidualPlans, ResidualInfers
<1>4. CASE ResidualStops \/ CoveredStops
  BY <1>4 DEF ResidualStops, CoveredStops, Next, Progress, Faulty, Verify
<1> QED BY <1>1, <1>2, <1>3, <1>4 DEF BuildNext

\* What CoveredInfer promises holds with the residual path and builds beside it.
THEOREM BuildKeepsInference == BuildSpec => Spec
<1>1. [BuildNext]_buildVars => [Next]_vars
  BY BuildStep DEF buildVars
<1> QED BY <1>1, PTL DEF BuildSpec, BuildInit, Spec

-----------------------------------------------------------------------------
(* The residual path. *)

\* A process of the residual path that starts here is one of ResidualInfer.
LEMMA SameStart == ASSUME InferStarts PROVE RP!StartRun
BY DEF InferStarts, R!StartRun, RP!StartRun, R!config, RP!config, R!pool, RP!pool, R!files, RP!files

\* The steps that the composition takes over are those the proofs are about:
\* one step per action.
LEMMA SameActions ==
  ASSUME ResidualPlans \/ ResidualInfers \/ ResidualStops PROVE RP!Progress \/ RP!Faulty
<1>1. ASSUME NEW e, R!SkipCompleted(e) PROVE RP!SkipCompleted(e)
  BY <1>1 DEF R!SkipCompleted, RP!SkipCompleted, R!NextToScan, RP!NextToScan, R!ManifestMatches,
      RP!ManifestMatches, R!Readable, RP!Readable, R!NoFragment, RP!NoFragment, R!TornFragment,
      RP!TornFragment, R!Nobody, RP!Nobody, R!files, RP!files, R!config, RP!config, R!pool,
      RP!pool
<1>2. ASSUME NEW e, R!AbortOnTornFragment(e) PROVE RP!AbortOnTornFragment(e)
  BY <1>2 DEF R!AbortOnTornFragment, RP!AbortOnTornFragment, R!NextToScan, RP!NextToScan,
      R!ManifestMatches, RP!ManifestMatches, R!TornFragment, RP!TornFragment, R!Nobody, RP!Nobody,
      R!files, RP!files, R!ProcessEnds, RP!ProcessEnds, R!None, RP!None
<1>3. ASSUME NEW e, R!DropFragment(e) PROVE RP!DropFragment(e)
  BY <1>3 DEF R!DropFragment, RP!DropFragment, R!NextToScan, RP!NextToScan, R!ManifestMatches,
      RP!ManifestMatches, R!NoFragment, RP!NoFragment, R!Nobody, RP!Nobody, R!config, RP!config,
      R!pool, RP!pool
<1>4. ASSUME NEW e, NEW i, R!ClearPart(e, i) PROVE RP!ClearPart(e, i)
  BY <1>4 DEF R!ClearPart, RP!ClearPart, R!PartsOf, RP!PartsOf, R!config, RP!config, R!loop,
      RP!loop, R!pool, RP!pool
<1>5. ASSUME NEW e, R!ClearManifest(e) PROVE RP!ClearManifest(e)
  BY <1>5 DEF R!ClearManifest, RP!ClearManifest, R!PartsOf, RP!PartsOf, R!config, RP!config,
      R!loop, RP!loop, R!pool, RP!pool
<1>6. ASSUME NEW e, R!SubmitChunks(e) PROVE RP!SubmitChunks(e)
  BY <1>6 DEF R!SubmitChunks, RP!SubmitChunks, R!Cleared, RP!Cleared, R!PartsOf, RP!PartsOf,
      R!ChunksToInfer, RP!ChunksToInfer, R!ManifestMatches, RP!ManifestMatches, R!NoFragment,
      RP!NoFragment, R!Nobody, RP!Nobody, R!files, RP!files, R!config, RP!config
<1>7. ASSUME R!OpenPool PROVE RP!OpenPool
  BY <1>7 DEF R!OpenPool, RP!OpenPool, R!ScanDone, RP!ScanDone, R!files, RP!files, R!config,
      RP!config, R!loop, RP!loop, R!pool, RP!pool
<1>8. ASSUME R!LlmUnavailable PROVE RP!LlmUnavailable
  BY <1>8 DEF R!LlmUnavailable, RP!LlmUnavailable, R!ScanDone, RP!ScanDone, R!Fault, RP!Fault,
      R!ProcessEnds, RP!ProcessEnds, R!Nobody, RP!Nobody, R!None, RP!None, R!files, RP!files
<1>9. ASSUME NEW t, R!TakeTask(t) PROVE RP!TakeTask(t)
  BY <1>9 DEF R!TakeTask, RP!TakeTask, R!files, RP!files, R!config, RP!config, R!loop, RP!loop,
      R!Cardinality, RP!Cardinality, Cardinality
<1>10. ASSUME NEW t, R!TaskSucceeds(t) PROVE RP!TaskSucceeds(t)
  BY <1>10 DEF R!TaskSucceeds, RP!TaskSucceeds, R!config, RP!config, R!loop, RP!loop
<1>11. ASSUME NEW t, R!TaskFails(t) PROVE RP!TaskFails(t)
  BY <1>11 DEF R!TaskFails, RP!TaskFails, R!Fault, RP!Fault, R!files, RP!files, R!config,
      RP!config, R!loop, RP!loop
<1>12. ASSUME R!ClosePool PROVE RP!ClosePool
  BY <1>12 DEF R!ClosePool, RP!ClosePool, R!Results, RP!Results, R!files, RP!files, R!config,
      RP!config, R!pool, RP!pool
<1>13. ASSUME NEW e, R!MarkFailed(e) PROVE RP!MarkFailed(e)
  BY <1>13 DEF R!MarkFailed, RP!MarkFailed, R!NextToMerge, RP!NextToMerge, R!PartContents,
      RP!PartContents, R!Chunks, RP!Chunks, R!Nobody, RP!Nobody, R!files, RP!files, R!config,
      RP!config, R!pool, RP!pool
<1>14. ASSUME NEW e, R!AbortOnTornPart(e) PROVE RP!AbortOnTornPart(e)
  BY <1>14 DEF R!AbortOnTornPart, RP!AbortOnTornPart, R!NextToMerge, RP!NextToMerge,
      R!PartContents, RP!PartContents, R!Chunks, RP!Chunks, R!Nobody, RP!Nobody, R!ProcessEnds,
      RP!ProcessEnds, R!None, RP!None, R!files, RP!files
<1>15. ASSUME NEW e, R!SaveFragment(e) PROVE RP!SaveFragment(e)
  BY <1>15 DEF R!SaveFragment, RP!SaveFragment, R!Mergeable, RP!Mergeable, R!NextToMerge,
      RP!NextToMerge, R!PartContents, RP!PartContents, R!Chunks, RP!Chunks, R!Nobody, RP!Nobody,
      R!config, RP!config, R!pool, RP!pool
<1>16. ASSUME NEW e, R!SaveManifest(e) PROVE RP!SaveManifest(e)
  BY <1>16 DEF R!SaveManifest, RP!SaveManifest, R!Nobody, RP!Nobody, R!config, RP!config, R!pool,
      RP!pool
<1>17. ASSUME R!Kill PROVE RP!Kill
  BY <1>17 DEF R!Kill, RP!Kill, R!Running, RP!Running, R!Fault, RP!Fault, R!ProcessEnds,
      RP!ProcessEnds, R!Nobody, RP!Nobody, R!None, RP!None, R!files, RP!files
<1>18. ASSUME R!KillTearsParts PROVE RP!KillTearsParts
  BY <1>18 DEF R!KillTearsParts, RP!KillTearsParts, R!Fault, RP!Fault, R!ProcessEnds,
      RP!ProcessEnds, R!Nobody, RP!Nobody, R!None, RP!None
<1>19. ASSUME NEW e, R!KillTearsFragment(e) PROVE RP!KillTearsFragment(e)
  BY <1>19 DEF R!KillTearsFragment, RP!KillTearsFragment, R!Mergeable, RP!Mergeable,
      R!NextToMerge, RP!NextToMerge, R!PartContents, RP!PartContents, R!Chunks, RP!Chunks,
      R!Nobody, RP!Nobody, R!Fault, RP!Fault, R!ProcessEnds, RP!ProcessEnds, R!None, RP!None,
      R!TornFragment, RP!TornFragment
<1>20. ASSUME NEW e, R!KillTearsManifest(e) PROVE RP!KillTearsManifest(e)
  BY <1>20 DEF R!KillTearsManifest, RP!KillTearsManifest, R!Fault, RP!Fault, R!ProcessEnds,
      RP!ProcessEnds, R!Nobody, RP!Nobody, R!None, RP!None
<1>21. CASE ResidualPlans
  BY <1>21, <1>1, <1>3, <1>4, <1>5, <1>6
  DEF ResidualPlans, RP!Progress, RP!Scan
<1>22. CASE ResidualInfers
  BY <1>22, <1>7, <1>12, <1>9, <1>10, <1>11, <1>13, <1>15, <1>16
  DEF ResidualInfers, RP!Progress, RP!Faulty, RP!Merge, R!Tasks, RP!Tasks
<1>23. CASE ResidualStops
  BY <1>23, <1>8, <1>2, <1>14, <1>17, <1>18, <1>19, <1>20
  DEF ResidualStops, RP!Progress, RP!Faulty, RP!Scan, RP!Merge
<1> QED BY <1>21, <1>22, <1>23

\* What the residual path is to do is settled when the run starts.
LEMMA ResidualFrame ==
  ASSUME UNCHANGED <<world, config>>
  PROVE  Residual' = Residual /\ PlanNow' = PlanNow /\ settings' = settings
<1>1. Covered' = Covered /\ UNCHANGED <<world, scope, settings>>
  BY Frame DEF config
<1>2. Residual' = Residual
  BY <1>1 DEF Residual
<1> QED BY <1>1, <1>2 DEF PlanNow

\* Steps of the covered path and builds leave it alone, and so does new data:
\* nothing is planned between the runs.
LEMMA ResidualStutter ==
  ASSUME ProcessShape, CoveredSteps \/ Build \/ BuiltWorldChanges \/ UNCHANGED buildVars
  PROVE  UNCHANGED RP!vars
<1>1. UNCHANGED residualVars
  BY DEF CoveredSteps, Build, BuiltWorldChanges, buildVars
<1>2. Residual' = Residual /\ PlanNow' = PlanNow /\ settings' = settings
  <2>1. CASE BuiltWorldChanges
    <3>1. Residual = {} /\ Residual' = {} /\ settings' = settings
      BY <2>1 DEF BuiltWorldChanges, WorldChanges, ProcessShape, Residual, config
    <3> QED BY <3>1 DEF PlanNow
  <2>2. CASE CoveredSteps \/ Build \/ UNCHANGED buildVars
    <3>1. UNCHANGED <<world, config>>
      BY <2>2
      DEF CoveredSteps, BeginVerify, OpenPool, ClosePool, SaveTopology, ReuseVerified, SubmitVerify,
          TakeTask, TaskRaises, TaskAnswers, SaveVerified, SaveVerifyManifest, DropVerified,
          DropVerifyManifest, Build, buildVars, vars
    <3> QED BY <3>1, ResidualFrame
  <2> QED BY <2>1, <2>2
<1> QED
  BY <1>1, <1>2
  DEF residualVars, residualFiles, RP!vars, RP!files, RP!config, RP!loop, RP!pool

\* The residual path is half way through an event's files only while it is
\* planning or inferring, and the merge leaves no event undecided.
TurnInv ==
  /\ rcur # Absent => Planning \/ Inferring
  /\ rphase = "merge" => \A e \in Residual \ rtodo : rstatus[e] # "none"

\* A process that ends outside of the residual path leaves its files in order.
LEMMA ResidualEnds ==
  ASSUME RP!IInv, TurnInv, ProcessShape, CoveredStops \/ InferEnds \/ RunBuilds
  PROVE  RP!IInv'
<1>1. R!ProcessEnds /\ UNCHANGED <<fragment, parts, manifest, rfaults>>
  BY DEF CoveredStops, InferEnds, RunBuilds, Returns, residualFiles
<1>2. RP!ProcessEnds
  BY <1>1 DEF R!ProcessEnds, RP!ProcessEnds, R!Nobody, RP!Nobody, R!None, RP!None
<1>3. RP!TypeOK'
  <2>1. [e \in Events |-> "none"] \in [Events -> RP!Statuses]
    BY DEF RP!Statuses, RP!None
  <2> QED
    BY <1>1, <1>2, <2>1, ResidualConstants, RP!ProcessEndsType
    DEF RP!IInv, RP!TypeOK, RP!FileContent
<1>4. rcur = Absent
  <2>1. CASE CoveredStops
    <3>1. CASE rqueue = {} /\ LlmUnavailable
      BY <3>1 DEF TurnInv, Planning, Inferring, TopologySaved, LlmUnavailable, VerifyPlanned
    <3>2. CASE ~(Planning \/ Inferring) /\ Kill
      BY <3>2 DEF TurnInv
    <3>3. ASSUME NEW e \in Events,
                 \/ AbortOnTornVerified(e)
                 \/ KillTearsTopology(e) \/ KillTearsVerified(e) \/ KillTearsManifest(e)
          PROVE  ~(Planning \/ Inferring)
      BY <3>3
      DEF Planning, Inferring, TopologySaved, AbortOnTornVerified, KillTearsTopology,
          KillTearsVerified, KillTearsManifest, Unplanned, Handled, ProcessShape, Nobody
    <3> QED BY <2>1, <3>1, <3>2, <3>3 DEF CoveredStops, TurnInv
  <2>2. CASE InferEnds \/ RunBuilds
    BY <2>2 DEF InferEnds, RunBuilds, Returns, R!MergeDone, RP!IInv, RP!ProcessShape, RP!Nobody
  <2> QED BY <2>1, <2>2
<1> QED BY <1>1, <1>2, <1>3, <1>4, ResidualConstants, RP!EndStep DEF RP!Nobody, RP!files

\* What is proved of the residual path alone holds with the covered path, other
\* data and builds in between.
LEMMA ResidualStep ==
  ASSUME RP!IInv, TurnInv, ProcessShape, RP!SafeOperation, [BuildNext]_buildVars
  PROVE  RP!IInv'
<1>1. CASE InferStarts \/ ResidualPlans \/ ResidualInfers \/ ResidualStops
  <2>1. RP!Next
    BY <1>1, SameStart, SameActions DEF RP!Next
  <2> QED BY <2>1, ResidualConstants, RP!InvariantStep
<1>2. CASE CoveredSteps \/ Build \/ BuiltWorldChanges \/ UNCHANGED buildVars
  BY <1>2, ResidualStutter, ResidualConstants, RP!InvariantStep
<1>3. CASE CoveredStops \/ InferEnds \/ RunBuilds
  BY <1>3, ResidualEnds
<1> QED BY <1>1, <1>2, <1>3 DEF BuildNext

\* The two paths take turns, and the merging loop decides every event it leaves.
LEMMA TurnStep ==
  ASSUME RP!IInv, TurnInv, ProcessShape, [BuildNext]_buildVars
  PROVE  TurnInv'
<1>0. /\ rstatus \in [Events -> RP!Statuses] /\ rcur \in rtodo \cup {Absent}
      /\ Residual \subseteq Events
  BY DEF RP!IInv, RP!TypeOK, RP!ProcessShape, RP!Nobody
<1>1. CASE InferStarts
  BY <1>1 DEF InferStarts, StartRun, R!StartRun, TurnInv, Planning, Inferring, TopologySaved
<1>2. CASE CoveredSteps
  <2>1. UNCHANGED residualVars /\ Residual' = Residual
    BY <1>2, ResidualFrame
    DEF CoveredSteps, BeginVerify, OpenPool, ClosePool, SaveTopology, ReuseVerified, SubmitVerify,
        TakeTask, TaskRaises, TaskAnswers, SaveVerified, SaveVerifyManifest, DropVerified,
        DropVerifyManifest
  <2>2. ASSUME rcur # Absent PROVE (Planning \/ Inferring)'
    <3>1. Planning \/ Inferring
      BY <2>2 DEF TurnInv
    <3>2. ~R!ScanDone
      BY <1>0, <2>2 DEF R!ScanDone
    <3>3. UNCHANGED <<phase, todo>>
      BY <1>2, <3>1, <3>2
      DEF CoveredSteps, BeginVerify, OpenPool, ClosePool, SaveTopology, ReuseVerified, SubmitVerify,
          TakeTask, TaskRaises, TaskAnswers, SaveVerified, SaveVerifyManifest, DropVerified,
          DropVerifyManifest, Planning, Inferring, TopologySaved, VerifyPlanned, Unplanned, loop
    <3> QED BY <3>1, <3>3 DEF Planning, Inferring, TopologySaved
  <2> QED BY <2>1, <2>2 DEF TurnInv, residualVars
<1>3. CASE ResidualPlans
  <2>1. rphase' = "scan" /\ (Planning)'
    BY <1>3
    DEF ResidualPlans, Planning, TopologySaved, vars, loop, R!SkipCompleted, R!DropFragment,
        R!ClearPart, R!ClearManifest, R!SubmitChunks, R!NextToScan
  <2> QED BY <2>1 DEF TurnInv
<1>4. CASE ResidualInfers
  <2>1. Inferring' /\ Residual' = Residual
    BY <1>4, ResidualFrame DEF ResidualInfers, Inferring, vars
  <2>2. CASE \/ R!OpenPool
             \/ \E t \in R!Tasks : R!TakeTask(t) \/ R!TaskSucceeds(t) \/ R!TaskFails(t)
    BY <2>1, <2>2
    DEF TurnInv, R!OpenPool, R!ScanDone, R!TakeTask, R!TaskSucceeds, R!TaskFails, R!loop
  <2>3. CASE R!ClosePool
    BY <2>1, <2>3 DEF TurnInv, R!ClosePool, R!Results
  <2>4. ASSUME NEW e \in Events, R!MarkFailed(e) \/ R!SaveFragment(e) \/ R!SaveManifest(e)
        PROVE  TurnInv'
    <3>1. /\ rphase = "merge" /\ rtodo \ {e} \subseteq rtodo'
          /\ \A x \in Events \ {e} : rstatus'[x] = rstatus[x]
          /\ (rtodo' = rtodo /\ rstatus' = rstatus) \/ rstatus'[e] # "none"
      BY <1>0, <2>4
      DEF R!MarkFailed, R!SaveFragment, R!Mergeable, R!NextToMerge, R!SaveManifest
    <3> QED BY <1>0, <2>1, <3>1 DEF TurnInv
  <2> QED BY <1>4, <2>2, <2>3, <2>4 DEF ResidualInfers
<1>5. CASE ResidualStops
  BY <1>5
  DEF ResidualStops, TurnInv, R!LlmUnavailable, R!AbortOnTornFragment, R!KillTearsParts,
      R!AbortOnTornPart, R!KillTearsFragment, R!KillTearsManifest, R!Kill, R!ProcessEnds, R!Nobody
<1>6. CASE CoveredStops \/ InferEnds \/ RunBuilds
  BY <1>6 DEF CoveredStops, InferEnds, RunBuilds, Returns, R!ProcessEnds, R!Nobody, TurnInv
<1>7. CASE Build \/ BuiltWorldChanges \/ UNCHANGED buildVars
  <2>1. UNCHANGED RP!vars
    BY <1>7, ResidualStutter
  <2>2. UNCHANGED <<phase, todo>>
    BY <1>7 DEF Build, BuiltWorldChanges, WorldChanges, buildVars, vars, loop
  <2> QED BY <2>1, <2>2
    DEF RP!vars, RP!loop, TurnInv, Planning, Inferring, TopologySaved
<1> QED BY <1>1, <1>2, <1>3, <1>4, <1>5, <1>6, <1>7 DEF BuildNext

\* Without files and process there is nothing to be in disorder.
LEMMA ResidualInit == BuildInit => RP!IInv /\ TurnInv
<1> SUFFICES ASSUME BuildInit PROVE RP!IInv /\ TurnInv
  OBVIOUS
<1>1. R!Init => RP!Init
  BY DEF R!Init, RP!Init, R!NoFragment, RP!NoFragment, R!None, RP!None, R!Nobody, RP!Nobody
<1> QED BY <1>1, ResidualConstants, RP!InvariantInit
  DEF BuildInit, R!Init, R!Nobody, TurnInv

\* What a resume run hands to the build for an uncovered event: a fragment of
\* its own plan, or nothing for an event that has failed.
LEMMA ResidualHandedOver ==
  ASSUME RP!IInv, TurnInv, R!MergeDone, settings.resume, NEW e \in Residual
  PROVE  fragment[e] = IF rstatus[e] = "failed" THEN R!NoFragment ELSE {PlanOf[world][e]}
<1>1. e \in Events /\ PlanNow[e] = PlanOf[world][e]
  BY DEF RP!IInv, RP!TypeOK, PlanNow
<1>2. rstatus[e] \in {"skipped", "success", "failed"}
  BY <1>1 DEF TurnInv, R!MergeDone, RP!IInv, RP!TypeOK, RP!Statuses, RP!None
<1>3. CASE rstatus[e] = "failed"
  <2>1. RP!FailedLeavesNoFragment
    BY ResidualConstants, RP!FailedLeft
  <2> QED BY <1>1, <1>3, <2>1 DEF RP!FailedLeavesNoFragment, RP!NoFragment, R!NoFragment
<1>4. CASE rstatus[e] # "failed"
  BY <1>1, <1>2, <1>4 DEF RP!IInv, RP!ResultsMatchPlan, RP!Results
<1> QED BY <1>3, <1>4

\* A graph stays as fresh as it was for as long as neither it nor the world
\* changes.
LEMMA LlmFrame ==
  ASSUME RunLlmIsFresh, UNCHANGED <<world, built>> PROVE RunLlmIsFresh'
BY DEF RunLlmIsFresh, CoveredNow, Current, R!NoFragment

\* The steps of a run up to its end.
InferRuns ==
  CoveredSteps \/ ResidualPlans \/ ResidualInfers \/ ResidualStops \/ CoveredStops \/ InferEnds

\* They leave world and graph alone.
LEMMA InferKeepsGraph == ASSUME InferRuns PROVE UNCHANGED <<world, built>>
<1>1. UNCHANGED built
  BY DEF InferRuns, CoveredSteps, ResidualPlans, ResidualInfers, ResidualStops, CoveredStops, InferEnds
<1>2. CASE CoveredSteps
  BY <1>2
  DEF CoveredSteps, BeginVerify, OpenPool, ClosePool, SaveTopology,
      ReuseVerified, SubmitVerify, TakeTask, TaskRaises, TaskAnswers, SaveVerified,
      SaveVerifyManifest, DropVerified, DropVerifyManifest
<1>3. CASE CoveredStops
  BY <1>3
  DEF CoveredStops, LlmUnavailable, Kill, AbortOnTornVerified, KillTearsTopology, KillTearsVerified,
      KillTearsManifest
<1>4. CASE ResidualPlans \/ ResidualInfers \/ ResidualStops \/ InferEnds
  BY <1>4
  DEF ResidualPlans, ResidualInfers, ResidualStops, ResidualAborts, InferEnds, Returns, FinishRun, vars
<1> QED BY <1>1, <1>2, <1>3, <1>4 DEF InferRuns

\* The build of a `run` takes every uncovered event from what it was handed,
\* unless a verified file has taken its place.
LEMMA RunBuildsFreshLlm ==
  ASSUME RP!IInv, TurnInv, RunLlmIsFresh, RunBuilds PROVE RunLlmIsFresh'
<1>1. UNCHANGED <<world, verified, vmanifest, topology>> /\ R!MergeDone
  BY DEF RunBuilds, Returns, FinishRun, files
<1>2. CASE LoadRaises(settings)
  BY <1>1, <1>2, LlmFrame DEF RunBuilds
<1>3. CASE ~LoadRaises(settings)
  <2>1. built' = Graph("run", settings, scope)
    BY <1>3 DEF RunBuilds
  <2>2. /\ built'.settings = settings /\ built'.scope = scope
        /\ built'.failed = {e \in scope : rstatus[e] = "failed"}
        /\ built'.topology = [e \in scope |-> TopologyUsed(settings, scope, e)]
        /\ built'.llm = [e \in scope |-> LlmUsed(settings, e)]
    BY <2>1 DEF Graph
  <2>3. ASSUME settings.resume, NEW e \in scope, ~CoveredNow(e)',
               built'.topology[e].from # "verified"
        PROVE  built'.llm[e] =
                 IF e \in built'.failed THEN R!NoFragment' ELSE {PlanOf[world'][e]}
    <3>1. e \in Residual
      BY <1>1, <2>2, <2>3 DEF CoveredNow, Current, Residual, Covered
    <3>2. ~LoadsVerified(settings, e)
      BY <2>2, <2>3 DEF TopologyUsed, FromVerified
    <3>3. built'.llm[e] = fragment[e]
      BY <2>2, <3>2 DEF LlmUsed
    <3>4. e \in built'.failed <=> rstatus[e] = "failed"
      BY <2>2
    <3>5. fragment[e] = IF rstatus[e] = "failed" THEN R!NoFragment ELSE {PlanOf[world][e]}
      BY <1>1, <2>3, <3>1, ResidualHandedOver
    <3> QED BY <1>1, <3>3, <3>4, <3>5 DEF R!NoFragment
  <2> QED BY <2>2, <2>3 DEF RunLlmIsFresh
<1> QED BY <1>2, <1>3

\* As long as --no-resume is never used (or nothing is ever killed), what a
\* resume `run` unites an uncovered event with is the LLM's answer to the
\* markets that this run plans for it, all of it, or nothing where the LLM has
\* failed: whatever fragments, parts and manifests other runs, over other data,
\* other events or interrupted anywhere, have left (infer.py:440-558, 595-651).
THEOREM LlmFresh == ASSUME R!SafeOperation PROVE BuildSpec => []RunLlmIsFresh
<1>1. BuildInit => RunLlmIsFresh
  BY DEF BuildInit, NoBuild, RunLlmIsFresh
<1>2. RP!SafeOperation
  BY DEF R!SafeOperation, RP!SafeOperation
<1>3. RP!IInv /\ TurnInv /\ IInv /\ [BuildNext]_buildVars => RP!IInv' /\ TurnInv'
  BY <1>2, ResidualStep, TurnStep DEF IInv
<1>4. RP!IInv /\ TurnInv /\ RunLlmIsFresh /\ [BuildNext]_buildVars => RunLlmIsFresh'
  <2> SUFFICES ASSUME RP!IInv, TurnInv, RunLlmIsFresh, [BuildNext]_buildVars
               PROVE  RunLlmIsFresh'
    OBVIOUS
  <2>1. CASE InferRuns
    BY <2>1, InferKeepsGraph, LlmFrame
  <2>2. CASE InferStarts \/ BuiltWorldChanges
    BY <2>2 DEF InferStarts, BuiltWorldChanges, NoBuild, RunLlmIsFresh
  <2>3. CASE Build
    BY <2>3 DEF Build, Graph, RunLlmIsFresh
  <2>4. CASE RunBuilds
    BY <2>4, RunBuildsFreshLlm
  <2>5. CASE UNCHANGED buildVars
    BY <2>5, LlmFrame DEF buildVars, vars
  <2> QED BY <2>1, <2>2, <2>3, <2>4, <2>5 DEF BuildNext, InferRuns
<1> QED
  BY <1>1, <1>3, <1>4, ResidualInit, BuildKeepsInference, VerifyInvariantHolds, PTL DEF BuildSpec

-----------------------------------------------------------------------------
(* The templates. *)

\* A started run has the operator's settings, and every topology file of its
\* covered events is its own before anything after it starts (infer.py:417-432).
TopologyInv ==
  phase # "idle" =>
    /\ settings \in Modes
    /\ \A e \in Covered :
         topology[e] = Topology[world][scope][e] \/ (phase = "topology" /\ e \in todo)

\* Planning, answers and saves move a run's topology the way TopologyInv says.
LEMMA TopologyStep ==
  ASSUME TypeOK, ProcessShape, TopologyInv, [Next]_vars PROVE TopologyInv'
<1> USE DEF files, config, loop, pool
<1>1. CASE ProcessEnds
  BY <1>1 DEF ProcessEnds, TopologyInv
<1>2. CASE WorldChanges
  BY <1>2 DEF WorldChanges, TopologyInv
<1>3. CASE StartRun
  BY <1>3 DEF StartRun, TopologyInv
<1>4. ASSUME NEW e \in Events, SaveTopology(e) PROVE TopologyInv'
  <2>1. Covered' = Covered /\ UNCHANGED <<phase, world, settings, scope>>
    BY <1>4, Frame DEF SaveTopology
  <2>2. /\ \A x \in Events : topology'[x] = IF x = e THEN Topology[world][scope][e] ELSE topology[x]
        /\ todo' = todo \ {e}
    BY <1>4 DEF SaveTopology, TypeOK
  <2>3. Covered \subseteq Events
    BY DEF Covered, TypeOK
  <2> QED BY <2>1, <2>2, <2>3 DEF TopologyInv
<1>5. CASE BeginVerify
  <2>1. Covered' = Covered /\ UNCHANGED <<topology, world, settings, scope>>
    BY <1>5, Frame DEF BeginVerify
  <2>2. phase = "topology" /\ todo = {} /\ phase' # "topology"
    BY <1>5 DEF BeginVerify, TopologySaved
  <2> QED BY <2>1, <2>2 DEF TopologyInv
<1>6. CASE /\ UNCHANGED <<topology, world, config>>
           /\ phase \notin {"idle", "topology"}
  <2>1. Covered' = Covered /\ UNCHANGED <<topology, world, settings, scope>>
    BY <1>6, Frame
  <2> QED BY <1>6, <2>1 DEF TopologyInv
<1>7. CASE UNCHANGED vars
  <2>1. Covered' = Covered /\ UNCHANGED <<topology, world, settings, scope, phase, todo>>
    BY <1>7, Frame DEF vars
  <2> QED BY <2>1 DEF TopologyInv
<1>8. CASE \/ OpenPool \/ ClosePool
           \/ \E e \in Events : Verify(e) /\ ~AbortOnTornVerified(e)
           \/ \E e \in Events : TaskRaises(e)
  <2>1. UNCHANGED <<topology, world, config>>
    BY <1>8
    DEF OpenPool, ClosePool, Verify, TaskRaises, ReuseVerified, SubmitVerify, TakeTask, TaskAnswers,
        SaveVerified, SaveVerifyManifest, DropVerified, DropVerifyManifest
  <2>2. ASSUME NEW e \in Events, Verify(e) \/ TaskRaises(e)
        PROVE  phase \in {"scan", "pool"}
    <3>1. running # {} \/ cur # Nobody => phase = "pool"
      BY DEF ProcessShape
    <3>2. Verify(e) => phase \in {"scan", "pool"} \/ e \in running \/ cur = {e}
      BY DEF Verify, ReuseVerified, AbortOnTornVerified, SubmitVerify, Unplanned, TakeTask,
             TaskAnswers, SaveVerified, SaveVerifyManifest, DropVerified, DropVerifyManifest, Handled
    <3> QED BY <2>2, <3>1, <3>2 DEF TaskRaises, Nobody
  <2>3. phase \in {"scan", "pool"}
    BY <1>8, <2>2 DEF OpenPool, VerifyPlanned, ClosePool
  <2> QED BY <1>6, <2>1, <2>3
<1> QED
  BY <1>1, <1>2, <1>3, <1>4, <1>5, <1>7, <1>8
  DEF Next, Progress, Faulty, Verify, AbortOnTornVerified, FinishRun, ResidualAborts,
      LlmUnavailable, Kill, KillTearsTopology, KillTearsVerified, KillTearsManifest

\* Once the templates' loop is over the topology files of a run are its own.
LEMMA TopologyHolds == Spec => []TopologyInv
<1>1. Init => TopologyInv
  BY DEF Init, NoProcess, TopologyInv
<1>2. IInv /\ TopologyInv /\ [Next]_vars => TopologyInv'
  BY TopologyStep DEF IInv
<1> QED BY <1>1, <1>2, VerifyInvariantHolds, PTL DEF Spec

\* The candidate of a covered event is what its template extracts in the scope
\* of the run.
LEMMA CandidateIsCurrent ==
  ASSUME TypeOK, NEW e \in Covered PROVE Candidate(e) = Topology[world][scope][e]
<1>1. Covered = {x \in scope : Topology[world][scope][x] # Uncovered}
  BY DEF Covered
<1>2. scope \in SUBSET Events /\ e \in Events /\ world \in Worlds
  BY DEF TypeOK, Covered
<1>3. Topology[world][scope][e] # Uncovered
  BY DEF Covered
<1> QED BY <1>1, <1>2, <1>3, CoveredAssumption DEF Candidate

\* What a verifying run has at hand for a covered event when it goes on to build:
\* an answer to its own candidate, or no answer and its own topology.
LEMMA HandedOver ==
  ASSUME IInv, TopologyInv, EveryAnswerIsHandled, Unkilled, FALSE \notin VerifyModes,
         phase = "residual", NEW e \in Covered
  PROVE  /\ e \in Events /\ topology[e] = Topology[world][scope][e]
         /\ verified[e] # Absent => verified[e].of = Topology[world][scope][e]
<1>1. TypeOK /\ ProcessShape /\ FailedVerificationLeavesNothing /\ VerifiedAnswersCandidate
  BY DEF IInv
<1>2. e \in Events
  BY <1>1 DEF Covered, TypeOK
<1>3. topology[e] = Topology[world][scope][e] /\ settings \in Modes
  BY DEF TopologyInv
<1>4. settings.verify
  <2>1. settings.verify \in VerifyModes
    BY <1>3 DEF Modes
  <2>2. \A b \in VerifyModes : b
    BY BoundAssumption
  <2> QED BY <2>1, <2>2
<1>5. status[e] # None /\ cur # {e}
  BY <1>1, <1>4 DEF EveryAnswerIsHandled, ProcessShape, Nobody
<1>6. CASE status[e] \in VerifyStatus
  BY <1>1, <1>2, <1>3, <1>6, CandidateIsCurrent DEF VerifiedAnswersCandidate, Verified
<1>7. CASE status[e] = {"deterministic"}
  BY <1>1, <1>2, <1>3, <1>5, <1>7 DEF FailedVerificationLeavesNothing
<1> QED BY <1>1, <1>2, <1>5, <1>6, <1>7 DEF TypeOK

\* Freshness is about the world and the last build only.
LEMMA BuildFrame ==
  ASSUME RunBuildIsFresh, UNCHANGED <<world, built>> PROVE RunBuildIsFresh'
BY DEF RunBuildIsFresh, CoveredNow, Current

\* The build of a `run` takes every covered event from what it was handed.
LEMMA RunBuildsFreshTopology ==
  ASSUME IInv, TopologyInv, EveryAnswerIsHandled, Unkilled, FALSE \notin VerifyModes,
         RunBuildIsFresh, RunBuilds
  PROVE  RunBuildIsFresh'
<1>1. UNCHANGED <<world, verified, vmanifest, topology>> /\ phase = "residual"
  BY DEF RunBuilds, Returns, FinishRun, files
<1>2. CASE LoadRaises(settings)
  BY <1>1, <1>2, BuildFrame DEF RunBuilds
<1>3. CASE ~LoadRaises(settings)
  <2>1. built' = Graph("run", settings, scope)
    BY <1>3 DEF RunBuilds
  <2>2. /\ built'.settings = settings /\ built'.scope = scope
        /\ built'.topology = [e \in scope |-> TopologyUsed(settings, scope, e)]
    BY <2>1 DEF Graph
  <2>3. ASSUME NEW e \in scope, CoveredNow(e)'
        PROVE  /\ built'.topology[e].from # "none"
               /\ built'.topology[e].of = Current(e)'
    <3>1. e \in Covered /\ Current(e)' = Topology[world][scope][e]
      BY <1>1, <2>2, <2>3 DEF CoveredNow, Current, Covered
    <3>2. /\ topology[e] = Topology[world][scope][e]
          /\ verified[e] # Absent => verified[e].of = Topology[world][scope][e]
          /\ settings.templates /\ Topology[world][scope][e] # Uncovered
      BY <1>1, <3>1, HandedOver DEF Covered
    <3>3. /\ TopologyUsed(settings, scope, e).from # "none"
          /\ TopologyUsed(settings, scope, e).of = Topology[world][scope][e]
      BY <3>2 DEF TopologyUsed, LoadsVerified, FromVerified, FromInfer, FromTemplate
    <3> QED BY <2>2, <3>1, <3>3
  <2> QED BY <2>2, <2>3 DEF RunBuildIsFresh
<1> QED BY <1>2, <1>3

\* As long as no process is killed between two writes, a `run` that verifies
\* builds every covered event from what its templates extract now or from an
\* answer to it, whatever other runs over other data, other events or without
\* templates have left (infer.py:318-391, 417-432, deterministic.py:108-122).
THEOREM TopologyFresh ==
  ASSUME Unkilled, FALSE \notin VerifyModes PROVE BuildSpec => []RunBuildIsFresh
<1>1. BuildInit => RunBuildIsFresh
  BY DEF BuildInit, NoBuild, RunBuildIsFresh
<1>2. /\ IInv /\ TopologyInv /\ EveryAnswerIsHandled /\ RunBuildIsFresh
      /\ [BuildNext]_buildVars
      => RunBuildIsFresh'
  <2> SUFFICES ASSUME IInv, TopologyInv, EveryAnswerIsHandled, RunBuildIsFresh,
                      [BuildNext]_buildVars
               PROVE  RunBuildIsFresh'
    OBVIOUS
  <2>1. CASE InferRuns
    BY <2>1, InferKeepsGraph, BuildFrame
  <2>2. CASE InferStarts \/ BuiltWorldChanges
    BY <2>2 DEF InferStarts, BuiltWorldChanges, NoBuild, RunBuildIsFresh
  <2>3. CASE Build
    BY <2>3 DEF Build, Graph, RunBuildIsFresh
  <2>4. CASE RunBuilds
    BY <2>4, RunBuildsFreshTopology
  <2>5. CASE UNCHANGED buildVars
    BY <2>5, BuildFrame DEF buildVars, vars
  <2> QED BY <2>1, <2>2, <2>3, <2>4, <2>5 DEF BuildNext, InferRuns
<1> QED
  BY <1>1, <1>2, BuildKeepsInference, VerifyInvariantHolds, TopologyHolds, AnswersHandled, PTL
  DEF BuildSpec
=============================================================================
