------------------------ MODULE ResidualInfer_proofs ------------------------
(***************************************************************************)
(* Proofs about ResidualInfer, for any sets of events, plans and chunks,   *)
(* any concurrency and any number of faults.                               *)
(***************************************************************************)
EXTENDS ResidualInfer, TLAPS

-----------------------------------------------------------------------------
(* Type correctness. *)

\* A process that ends leaves the in-memory variables in their idle values.
LEMMA ProcessEndsType ==
  ASSUME ProcessEnds
  PROVE  /\ phase' \in {"idle", "scan", "pool", "merge"}
         /\ resume' \in BOOLEAN
         /\ plan' \in [Events -> Plans \cup {Absent}]
         /\ \A e \in selected' : plan'[e] \in Plans
         /\ selected' \in SUBSET Events
         /\ todo' \in SUBSET selected'
         /\ cur' \in Events \cup {Nobody}
         /\ queue' \in SUBSET Tasks /\ running' \in SUBSET Tasks
         /\ failed' \in SUBSET Events
         /\ status' \in [Events -> Statuses]
BY DEF ProcessEnds, Statuses, Running

\* Every variable keeps its type: one step per group of actions.
LEMMA TypeStep == TypeOK /\ [Next]_vars => TypeOK'
<1> SUFFICES ASSUME TypeOK, [Next]_vars PROVE TypeOK'
  OBVIOUS
<1> USE DEF files, config, loop, pool, Running
<1>1. CASE UNCHANGED vars
  BY <1>1 DEF vars, TypeOK
<1>2. CASE StartRun
  <2>1. PICK p \in [selected' -> Plans] :
          plan' = [e \in Events |-> IF e \in selected' THEN p[e] ELSE Absent]
    BY <1>2 DEF StartRun
  <2>2. selected' \in SUBSET Events /\ plan' \in [Events -> Plans \cup {Absent}]
    BY <1>2, <2>1 DEF StartRun
  <2>3. \A e \in selected' : plan'[e] \in Plans
    BY <2>1, <2>2
  <2> QED BY <1>2, <2>2, <2>3, BoundAssumption DEF StartRun, TypeOK
<1>3. ASSUME NEW e \in Events, Scan(e) PROVE TypeOK'
  <2>1. CASE SkipCompleted(e)
    BY <2>1 DEF SkipCompleted, NextToScan, TypeOK, Statuses, Nobody
  <2>2. CASE AbortOnTornFragment(e)
    BY <2>2, ProcessEndsType DEF AbortOnTornFragment, TypeOK
  <2>3. CASE DropFragment(e)
    BY <2>3 DEF DropFragment, NextToScan, TypeOK, NoFragment, Nobody
  <2>4. ASSUME NEW i \in Chunk, ClearPart(e, i) PROVE TypeOK'
    BY <2>4 DEF ClearPart, TypeOK, FileContent
  <2>5. CASE ClearManifest(e)
    BY <2>5 DEF ClearManifest, TypeOK, FileContent
  <2>6. CASE SubmitChunks(e)
    <3>1. ChunksToInfer(e) \subseteq Chunk
      BY <2>6, PlanAssumption DEF SubmitChunks, ChunksToInfer, TypeOK
    <3> QED BY <2>6, <3>1 DEF SubmitChunks, TypeOK, Tasks, Nobody
  <2> QED BY <1>3, <2>1, <2>2, <2>3, <2>4, <2>5, <2>6 DEF Scan
<1>4. CASE OpenPool
  BY <1>4 DEF OpenPool, ScanDone, TypeOK
<1>5. ASSUME NEW t \in Tasks, TakeTask(t) \/ TaskSucceeds(t) \/ TaskFails(t) PROVE TypeOK'
  <2>1. t[1] \in Events /\ t[2] \in Chunk
    BY DEF Tasks
  <2>2. CASE TakeTask(t)
    BY <2>2 DEF TakeTask, TypeOK
  <2>3. CASE TaskSucceeds(t)
    <3>1. plan[t[1]] \in FileContent
      BY <2>1 DEF TypeOK, FileContent
    <3>2. [parts[t[1]] EXCEPT ![t[2]] = plan[t[1]]] \in [Chunk -> FileContent]
      BY <2>1, <3>1 DEF TypeOK
    <3> QED BY <2>1, <2>3, <3>1, <3>2 DEF TaskSucceeds, TypeOK
  <2>4. CASE TaskFails(t)
    BY <2>1, <2>4 DEF TaskFails, Fault, TypeOK
  <2> QED BY <1>5, <2>2, <2>3, <2>4
<1>6. CASE ClosePool
  BY <1>6 DEF ClosePool, TypeOK, Results
<1>7. ASSUME NEW e \in Events, Merge(e) PROVE TypeOK'
  <2>1. CASE MarkFailed(e)
    BY <2>1 DEF MarkFailed, NextToMerge, TypeOK, Statuses, Nobody
  <2>2. CASE AbortOnTornPart(e)
    BY <2>2, ProcessEndsType DEF AbortOnTornPart, TypeOK
  <2>3. CASE SaveFragment(e)
    <3>1. PartContents(e) \subseteq Plans
      <4>1. Chunks(e) \subseteq Chunk
        BY <2>3, PlanAssumption DEF SaveFragment, Mergeable, NextToMerge, Chunks, TypeOK
      <4>2. PartContents(e) \subseteq FileContent
        BY <4>1 DEF PartContents, TypeOK
      <4> QED BY <2>3, <4>2 DEF SaveFragment, Mergeable, FileContent
    <3> QED BY <2>3, <3>1 DEF SaveFragment, Mergeable, NextToMerge, TypeOK, Nobody
  <2>4. CASE SaveManifest(e)
    BY <2>4 DEF SaveManifest, TypeOK, FileContent, Statuses, Nobody
  <2> QED BY <1>7, <2>1, <2>2, <2>3, <2>4 DEF Merge
<1>8. CASE WriteReport
  BY <1>8, ProcessEndsType DEF WriteReport, TypeOK
<1>9. CASE LlmUnavailable \/ Kill
  BY <1>9, ProcessEndsType DEF LlmUnavailable, Kill, Fault, TypeOK
<1>10. CASE KillTearsParts
  BY <1>10, ProcessEndsType DEF KillTearsParts, Fault, TypeOK, FileContent
<1>11. ASSUME NEW e \in Events, KillTearsFragment(e) \/ KillTearsManifest(e) PROVE TypeOK'
  <2>1. CASE KillTearsFragment(e)
    <3>1. fragment' \in [Events -> (SUBSET Plans) \cup {TornFragment}]
      BY <2>1 DEF KillTearsFragment, TypeOK
    <3> QED BY <2>1, <3>1, ProcessEndsType DEF KillTearsFragment, Fault, TypeOK
  <2>2. CASE KillTearsManifest(e)
    <3>1. manifest' \in [Events -> FileContent]
      BY <2>2 DEF KillTearsManifest, TypeOK, FileContent
    <3> QED BY <2>2, <3>1, ProcessEndsType DEF KillTearsManifest, Fault, TypeOK
  <2> QED BY <1>11, <2>1, <2>2
<1>12. CASE KillTearsReport
  BY <1>12, ProcessEndsType DEF KillTearsReport, Fault, TypeOK, Statuses
<1> QED
  BY <1>1, <1>2, <1>3, <1>4, <1>5, <1>6, <1>7, <1>8, <1>9, <1>10, <1>11, <1>12
  DEF Next, Progress, Faulty

\* The initial files and process are well typed.
LEMMA TypeInit == Init => TypeOK
BY DEF Init, TypeOK, FileContent, Statuses, NoFragment, Running

\* Files, report and process keep their types in every reachable state.
THEOREM TypeCorrect == Spec => []TypeOK
BY TypeInit, TypeStep, PTL DEF Spec

-----------------------------------------------------------------------------
(* The inductive invariant. *)

\* When the process ends, nothing is said about it any more.
LEMMA IdleShape ==
  ASSUME ProcessEnds
  PROVE  ProcessShape' /\ ScanOutcome' /\ TaskCoverage' /\ SavedFragment' /\ ResultsMatchPlan'
BY DEF ProcessEnds, ProcessShape, ScanOutcome, TaskCoverage, SavedFragment, ResultsMatchPlan,
       Scanned, Clearing, Saving, Results, None

\* Ending without touching a file keeps what manifests vouch for, if no event
\* is half way or if --no-resume is never used.
LEMMA IdleVouch ==
  ASSUME IInv, ProcessEnds, UNCHANGED files, cur = Nobody \/ FALSE \notin ResumeModes
  PROVE  PartsVouched' /\ ManifestVouches'
<1>1. PartsVouched'
  BY MarkerAssumption
  DEF IInv, ProcessEnds, files, PartsVouched, Clearing, Nobody
<1>2. ManifestVouches'
  <2> SUFFICES ASSUME NEW e \in Events, manifest[e] \in Plans, Readable(fragment[e])
               PROVE  fragment[e] = {manifest[e]}
    BY DEF ManifestVouches, ProcessEnds, files, Readable
  <2>1. CASE ~Saving(e)
    BY <2>1 DEF IInv, ManifestVouches, Saving
  <2>2. CASE Saving(e)
    <3>1. FALSE \notin ResumeModes /\ resume
      BY <2>2, MarkerAssumption DEF IInv, Saving, Nobody, ProcessShape
    <3>2. manifest[e] = plan[e]
      BY <2>2, <3>1, MarkerAssumption DEF IInv, Saving, ScanOutcome, Scanned, ProcessShape, Nobody
    <3> QED BY <2>2, <3>2 DEF IInv, SavedFragment
  <2> QED BY <2>1, <2>2
<1> QED BY <1>1, <1>2

\* A process that ends without touching a file preserves the invariant.
LEMMA EndStep ==
  ASSUME IInv, TypeOK', ProcessEnds, UNCHANGED files, cur = Nobody \/ FALSE \notin ResumeModes
  PROVE  IInv'
BY IdleShape, IdleVouch DEF IInv

\* Starting a run: no event is scanned yet.
LEMMA StartStep == ASSUME IInv, TypeOK', StartRun PROVE IInv'
<1>1. ProcessShape'
  BY BoundAssumption DEF IInv, StartRun, ProcessShape, pool, Scanned, TypeOK, Running
<1>2. PartsVouched' /\ ManifestVouches'
  BY DEF IInv, StartRun, PartsVouched, ManifestVouches, files, Clearing, Readable, ProcessShape
<1>3. ScanOutcome' /\ TaskCoverage' /\ SavedFragment' /\ ResultsMatchPlan'
  BY MarkerAssumption DEF IInv, StartRun, ScanOutcome, TaskCoverage, SavedFragment, ResultsMatchPlan,
         ProcessShape, Scanned, Clearing, Saving, Results, None, Nobody
<1> QED BY <1>1, <1>2, <1>3 DEF IInv

(* The planning loop. *)

\* A skipped event keeps the fragment and the manifest it was skipped for.
LEMMA SkipStep == ASSUME IInv, TypeOK', NEW e \in Events, SkipCompleted(e) PROVE IInv'
<1> USE DEF files, config, pool
<1>1. fragment[e] = {plan[e]} /\ manifest[e] \in Plans
  BY MarkerAssumption
  DEF IInv, SkipCompleted, NextToScan, ManifestMatches, ManifestVouches, TypeOK, Running, Nobody
<1>2. ProcessShape'
  BY <1>1, MarkerAssumption
  DEF IInv, SkipCompleted, NextToScan, ProcessShape, Scanned, TypeOK, Nobody
<1>3. PartsVouched' /\ ManifestVouches' /\ SavedFragment'
  BY DEF IInv, SkipCompleted, NextToScan, PartsVouched, ManifestVouches, SavedFragment,
         Readable, Clearing, Saving
<1>4. ScanOutcome'
  BY <1>1, MarkerAssumption DEF IInv, SkipCompleted, NextToScan, ManifestMatches, ScanOutcome,
         Scanned, Clearing, Saving, Results, Nobody, TypeOK
<1>5. TaskCoverage'
  BY DEF IInv, SkipCompleted, NextToScan, TaskCoverage, Scanned, Chunks, None, TypeOK
<1>6. ResultsMatchPlan'
  BY <1>1 DEF IInv, SkipCompleted, ManifestMatches, ResultsMatchPlan, Results, TypeOK
<1> QED BY <1>2, <1>3, <1>4, <1>5, <1>6 DEF IInv

\* Dropping a fragment touches no event that already has a result.
LEMMA DropStep == ASSUME IInv, TypeOK', NEW e \in Events, DropFragment(e) PROVE IInv'
<1> USE DEF files, config, pool
<1>1. ProcessShape'
  BY DEF IInv, DropFragment, NextToScan, ProcessShape, Scanned, TypeOK
<1>2. PartsVouched' /\ ManifestVouches' /\ SavedFragment'
  BY MarkerAssumption
  DEF IInv, DropFragment, NextToScan, PartsVouched, ManifestVouches, SavedFragment,
      Readable, Clearing, Saving, TypeOK, Nobody
<1>3. ScanOutcome'
  BY DEF IInv, DropFragment, NextToScan, ScanOutcome, Scanned, Clearing, Saving, Results, TypeOK
<1>4. TaskCoverage'
  BY DEF IInv, DropFragment, NextToScan, TaskCoverage, Scanned, Chunks
<1>5. ResultsMatchPlan'
  BY DEF IInv, DropFragment, NextToScan, ResultsMatchPlan, Results, TypeOK, ProcessShape, None
<1> QED BY <1>1, <1>2, <1>3, <1>4, <1>5 DEF IInv

\* Parts and manifest of the event being cleared.
LEMMA ClearStep ==
  ASSUME IInv, TypeOK', NEW e \in Events,
         (\E i \in Chunk : ClearPart(e, i)) \/ ClearManifest(e)
  PROVE  IInv'
<1> USE DEF files, config, pool, loop
<1>1. /\ phase = "scan" /\ cur = e /\ e \in todo
      /\ UNCHANGED <<fragment, report, phase, config, loop, pool, status, faults>>
  BY MarkerAssumption DEF ClearPart, ClearManifest, IInv, ProcessShape, Nobody
<1>2. \A f \in Events : f # e => parts'[f] = parts[f] /\ manifest'[f] = manifest[f]
  BY DEF ClearPart, ClearManifest, IInv, TypeOK
<1>3. /\ manifest'[e] \in {manifest[e], Absent}
      /\ \A i \in Chunk : parts'[e][i] \in {parts[e][i], Absent}
  BY DEF ClearPart, ClearManifest, IInv, TypeOK
<1>4. ProcessShape'
  BY <1>1 DEF IInv, ProcessShape, Scanned
<1>5. PartsVouched'
  BY <1>1, <1>2, <1>3, MarkerAssumption, PlanAssumption DEF IInv, PartsVouched, Clearing
<1>6. ManifestVouches' /\ SavedFragment'
  BY <1>1, <1>2, <1>3, MarkerAssumption DEF IInv, ManifestVouches, SavedFragment, Readable, Saving
<1>7. ScanOutcome'
  BY <1>1, <1>2, <1>3 DEF IInv, ScanOutcome, Scanned, Clearing, Saving, Results
<1>8. TaskCoverage'
  BY <1>1, <1>2 DEF IInv, TaskCoverage, Scanned, Chunks
<1>9. ResultsMatchPlan'
  BY <1>1, <1>2 DEF IInv, ResultsMatchPlan, Results, ProcessShape, None
<1> QED BY <1>4, <1>5, <1>6, <1>7, <1>8, <1>9 DEF IInv

\* Every chunk of a scanned event has a part of this plan or a task.
LEMMA SubmitStep == ASSUME IInv, TypeOK', NEW e \in Events, SubmitChunks(e) PROVE IInv'
<1> USE DEF files, config, pool
<1>1. plan[e] \in Plans /\ Chunks(e) \subseteq Chunk
  BY PlanAssumption DEF IInv, TypeOK, SubmitChunks, Running, Chunks
<1>2. ProcessShape'
  <2>1. \A t \in queue' : t[1] = e \/ t \in queue
    BY DEF SubmitChunks
  <2>2. e \in selected /\ running = {}
    BY DEF IInv, SubmitChunks, ProcessShape
  <2>3. \A t \in queue' \cup running' : Scanned(t[1])'
    BY <2>1, <2>2 DEF IInv, SubmitChunks, ProcessShape, Scanned
  <2> QED
    BY <2>2, <2>3 DEF IInv, SubmitChunks, ProcessShape
<1>3. PartsVouched' /\ ManifestVouches' /\ SavedFragment'
  BY MarkerAssumption DEF IInv, SubmitChunks, PartsVouched, ManifestVouches, SavedFragment,
         Readable, Clearing, Saving, Cleared, Nobody
<1>4. ScanOutcome'
  BY MarkerAssumption DEF IInv, SubmitChunks, Cleared, ManifestMatches, ScanOutcome, ProcessShape,
         Scanned, Clearing, Saving, Results, Nobody
<1>5. \A i \in Chunks(e) : parts[e][i] = plan[e] \/ parts[e][i] = Torn \/ <<e, i>> \in queue'
  <2> SUFFICES ASSUME NEW i \in Chunks(e), <<e, i>> \notin queue'
               PROVE  parts[e][i] \in {plan[e], Torn}
    OBVIOUS
  <2>1. resume /\ parts[e][i] # Absent
    BY DEF SubmitChunks, ChunksToInfer, Chunks
  <2>2. cur = Nobody /\ manifest[e] = plan[e] /\ fragment[e] = NoFragment
    BY <1>1, <2>1 DEF SubmitChunks, Cleared, PartsOf, ManifestMatches
  <2>3. FALSE \notin ResumeModes
    BY <1>1, <2>2, MarkerAssumption DEF IInv, PartsVouched, Clearing, Nobody
  <2> QED BY <1>1, <2>1, <2>2, <2>3 DEF IInv, PartsVouched, Chunks
<1>6. TaskCoverage'
  BY <1>5 DEF IInv, SubmitChunks, TaskCoverage, Scanned, Chunks
<1>7. ResultsMatchPlan'
  BY DEF IInv, SubmitChunks, ResultsMatchPlan, Results
<1> QED BY <1>2, <1>3, <1>4, <1>6, <1>7 DEF IInv

(* The worker pool. *)

\* Opening and joining the pool.
LEMMA PoolStep == ASSUME IInv, TypeOK', OpenPool \/ ClosePool PROVE IInv'
<1> USE DEF files, config, pool, loop
<1>1. ProcessShape'
  <2>1. CASE OpenPool
    BY <2>1 DEF IInv, OpenPool, ScanDone, ProcessShape, Scanned
  <2>2. CASE ClosePool
    <3>1. /\ todo = {} /\ cur = Nobody /\ queue = {} /\ running = {}
          /\ todo' = selected \ Results
          /\ \A e \in todo' : status[e] = None
      BY <2>2 DEF IInv, ClosePool, ProcessShape, Results, TypeOK
    <3> QED BY <2>2, <3>1 DEF IInv, ClosePool, ProcessShape, Scanned
  <2> QED BY <2>1, <2>2
<1>2. PartsVouched' /\ ManifestVouches' /\ SavedFragment'
  BY MarkerAssumption DEF IInv, OpenPool, ClosePool, ScanDone, PartsVouched, ManifestVouches,
         SavedFragment, ProcessShape, Readable, Clearing, Saving, Nobody
<1>3. ScanOutcome' /\ TaskCoverage'
  BY MarkerAssumption DEF IInv, OpenPool, ClosePool, ScanDone, ScanOutcome, TaskCoverage,
         ProcessShape, Scanned, Clearing, Saving, Results, Chunks, Nobody
<1>4. ResultsMatchPlan'
  BY DEF IInv, OpenPool, ClosePool, ResultsMatchPlan, Results
<1> QED BY <1>1, <1>2, <1>3, <1>4 DEF IInv

\* A task taken, answered or failed.
LEMMA TaskStep ==
  ASSUME IInv, TypeOK', NEW t \in Tasks, TakeTask(t) \/ TaskSucceeds(t) \/ TaskFails(t)
  PROVE  IInv'
<1> USE DEF files, config, pool, loop
<1>1. /\ UNCHANGED <<fragment, manifest, report, phase, config, loop, status>>
      /\ t \in queue \cup running /\ phase = "pool"
      /\ queue' \cup running' \subseteq queue \cup running
  BY DEF TakeTask, TaskSucceeds, TaskFails, IInv, ProcessShape
<1>2. t[1] \in Events /\ t[2] \in Chunk /\ Scanned(t[1]) /\ plan[t[1]] \in Plans
  BY <1>1 DEF IInv, ProcessShape, Tasks, TypeOK, Running, Scanned
<1>3. \A e \in Events, i \in Chunk :
        \/ parts'[e][i] = parts[e][i]
        \/ e = t[1] /\ i = t[2] /\ parts'[e][i] = plan[t[1]]
  BY <1>2 DEF TakeTask, TaskSucceeds, TaskFails, IInv, TypeOK
<1>4. ProcessShape'
  BY <1>1 DEF TakeTask, TaskSucceeds, TaskFails, IInv, ProcessShape, Scanned
<1>5. PartsVouched'
  <2>1. FALSE \notin ResumeModes => manifest[t[1]] \in {Absent, plan[t[1]]}
    BY <1>2 DEF IInv, ProcessShape, ScanOutcome
  <2>2. CASE FALSE \in ResumeModes
    BY <1>1, <2>2 DEF IInv, PartsVouched, Clearing
  <2>3. CASE FALSE \notin ResumeModes
    <3> SUFFICES ASSUME NEW e \in Events, manifest[e] \in Plans, NEW i \in ChunksOf[manifest[e]]
                 PROVE  parts'[e][i] \in {Absent, Torn, manifest[e]}
      BY <1>1, <2>3 DEF PartsVouched
    <3>1. i \in Chunk /\ parts[e][i] \in {Absent, Torn, manifest[e]}
      BY <2>3, PlanAssumption DEF IInv, PartsVouched
    <3> QED BY <1>3, <2>1, <2>3, <3>1, MarkerAssumption
  <2> QED BY <2>2, <2>3
<1>6. ManifestVouches' /\ SavedFragment' /\ ScanOutcome' /\ ResultsMatchPlan'
  BY <1>1, MarkerAssumption DEF IInv, ManifestVouches, SavedFragment, ScanOutcome, ResultsMatchPlan,
         Readable, Saving, Clearing, Scanned, Results
<1>7. TaskCoverage'
  <2> SUFFICES ASSUME NEW e \in Events, Scanned(e), status[e] = None, e \notin failed',
                      NEW i \in Chunks(e)
               PROVE  parts'[e][i] \in {plan[e], Torn} \/ <<e, i>> \in queue' \cup running'
    BY <1>1 DEF TaskCoverage, Scanned, Chunks
  <2>1. i \in Chunk
    BY <1>1, PlanAssumption DEF IInv, TypeOK, Running, Chunks, Scanned
  <2>2. failed \subseteq failed'
    BY DEF TakeTask, TaskSucceeds, TaskFails
  <2>3. parts[e][i] \in {plan[e], Torn} \/ <<e, i>> \in queue \cup running
    BY <2>2 DEF IInv, TaskCoverage
  <2>4. CASE parts[e][i] \in {plan[e], Torn}
    BY <2>4, <2>1, <1>3
  <2>5. CASE <<e, i>> # t
    BY <2>3, <2>4, <2>5 DEF TakeTask, TaskSucceeds, TaskFails
  <2>6. CASE <<e, i>> = t
    BY <2>6, <2>1 DEF TakeTask, TaskSucceeds, TaskFails, IInv, TypeOK
  <2> QED BY <2>5, <2>6
<1> QED BY <1>4, <1>5, <1>6, <1>7 DEF IInv

(* The merging loop. *)

\* A failed event.
LEMMA MarkFailedStep == ASSUME IInv, TypeOK', NEW e \in Events, MarkFailed(e) PROVE IInv'
<1> USE DEF files, config, pool
<1>1. ProcessShape'
  <2>1. e \in selected /\ phase = "merge" /\ queue = {} /\ running = {}
    BY DEF IInv, MarkFailed, NextToMerge, ProcessShape
  <2> QED BY <2>1 DEF IInv, MarkFailed, NextToMerge, ProcessShape, TypeOK
<1>2. PartsVouched' /\ ManifestVouches' /\ SavedFragment'
  BY DEF IInv, MarkFailed, NextToMerge, PartsVouched, ManifestVouches, SavedFragment,
         Readable, Clearing, Saving
<1>3. ScanOutcome' /\ TaskCoverage' /\ ResultsMatchPlan'
  BY MarkerAssumption DEF IInv, MarkFailed, NextToMerge, ScanOutcome, TaskCoverage,
         ResultsMatchPlan, ProcessShape, Scanned, Clearing, Saving, Results, Chunks, None,
         TypeOK, Nobody
<1> QED BY <1>1, <1>2, <1>3 DEF IInv

\* A merged event's parts are all of this run's plan.
LEMMA MergedParts == ASSUME IInv, NEW e \in Events, Mergeable(e) PROVE PartContents(e) = {plan[e]}
<1>1. /\ phase = "merge" /\ e \in selected /\ status[e] = None /\ e \notin failed
      /\ queue = {} /\ running = {} /\ plan[e] \in Plans
  BY DEF Mergeable, NextToMerge, IInv, ProcessShape, TypeOK, Running
<1>2. \A i \in Chunks(e) : parts[e][i] \in {plan[e], Torn}
  BY <1>1 DEF IInv, TaskCoverage, Scanned
<1>3. Chunks(e) # {}
  BY <1>1, PlanAssumption DEF Chunks
<1> QED BY <1>2, <1>3 DEF Mergeable, PartContents

\* The fragment is written while the manifest is still the old one.
LEMMA SaveFragmentStep == ASSUME IInv, TypeOK', NEW e \in Events, SaveFragment(e) PROVE IInv'
<1> USE DEF files, config, pool
<1>1. /\ phase = "merge" /\ cur = Nobody /\ e \in todo /\ status[e] = None /\ e \notin failed
      /\ fragment' = [fragment EXCEPT ![e] = {plan[e]}] /\ cur' = e
      /\ UNCHANGED <<parts, manifest, report, phase, config, selected, todo, pool, status, faults>>
  BY MergedParts DEF SaveFragment, Mergeable, NextToMerge, IInv, ProcessShape
<1>2. ProcessShape'
  BY <1>1 DEF IInv, ProcessShape, Scanned
<1>3. PartsVouched' /\ ManifestVouches' /\ SavedFragment'
  BY <1>1, MarkerAssumption DEF IInv, PartsVouched, ManifestVouches, SavedFragment,
         Readable, Clearing, Saving, TypeOK, Nobody, NoFragment
<1>4. ScanOutcome' /\ TaskCoverage' /\ ResultsMatchPlan'
  BY <1>1, MarkerAssumption DEF IInv, ScanOutcome, TaskCoverage, ResultsMatchPlan, ProcessShape,
         Scanned, Clearing, Saving, Results, Chunks, None, TypeOK, Nobody
<1> QED BY <1>2, <1>3, <1>4 DEF IInv

\* The manifest then vouches for it.
LEMMA SaveManifestStep == ASSUME IInv, TypeOK', NEW e \in Events, SaveManifest(e) PROVE IInv'
<1> USE DEF files, config, pool
<1>1. fragment[e] = {plan[e]} /\ plan[e] \in Plans /\ e \in selected
  BY MarkerAssumption
  DEF SaveManifest, IInv, SavedFragment, Saving, TypeOK, Running, ProcessShape, Nobody
<1>2. ProcessShape'
  <2>1. phase = "merge" /\ queue = {} /\ running = {}
    BY DEF IInv, SaveManifest, ProcessShape
  <2> QED BY <1>1, <2>1 DEF IInv, SaveManifest, ProcessShape, TypeOK
<1>3. \A i \in Chunks(e) : parts[e][i] \in {plan[e], Torn}
  <2>1. /\ phase = "merge" /\ Saving(e) /\ Scanned(e) /\ status[e] = None
        /\ e \notin failed /\ queue = {} /\ running = {}
    BY <1>1, MarkerAssumption
    DEF SaveManifest, Saving, IInv, ProcessShape, Scanned, Nobody, SavedFragment
  <2> QED BY <2>1 DEF IInv, TaskCoverage
<1>4. PartsVouched'
  BY <1>1, <1>3, MarkerAssumption
  DEF IInv, SaveManifest, PartsVouched, Clearing, NoFragment, Chunks, TypeOK, Nobody
<1>5. ManifestVouches' /\ SavedFragment' /\ ResultsMatchPlan'
  BY <1>1, MarkerAssumption DEF IInv, SaveManifest, ManifestVouches, SavedFragment,
         ResultsMatchPlan, Readable, Saving, Results, TypeOK, Nobody
<1>6. ScanOutcome' /\ TaskCoverage'
  BY <1>1, MarkerAssumption DEF IInv, SaveManifest, ScanOutcome, TaskCoverage, ProcessShape,
         Scanned, Clearing, Saving, Results, Chunks, None, TypeOK, Nobody
<1> QED BY <1>2, <1>4, <1>5, <1>6 DEF IInv

(* Kills and truncated files. *)

\* A fault that only a kill explains means that --no-resume is never used.
LEMMA KillMode ==
  ASSUME SafeOperation, Fault("kill") \/ Fault("tear")
  PROVE  FALSE \notin ResumeModes
BY DEF SafeOperation, Fault

\* Truncated files vouch for nothing.
LEMMA TearStep ==
  ASSUME IInv, TypeOK', SafeOperation,
         \/ KillTearsParts
         \/ \E e \in Events : KillTearsFragment(e) \/ KillTearsManifest(e)
  PROVE  IInv'
<1> USE DEF files, config, pool, loop
<1>1. FALSE \notin ResumeModes /\ ProcessEnds
  BY KillMode DEF KillTearsParts, KillTearsFragment, KillTearsManifest
<1>2. /\ \A e \in Events, i \in Chunk : parts'[e][i] \in {parts[e][i], Torn}
      /\ \A e \in Events : manifest'[e] \in {manifest[e], Torn}
  <2>1. CASE KillTearsParts
    BY <2>1 DEF KillTearsParts
  <2>2. ASSUME NEW f \in Events, KillTearsFragment(f) \/ KillTearsManifest(f)
        PROVE  /\ parts' = parts
               /\ \A e \in Events : manifest'[e] \in {manifest[e], Torn}
    BY <2>2 DEF KillTearsFragment, KillTearsManifest, IInv, TypeOK
  <2> QED BY <2>1, <2>2
<1>3. PartsVouched'
  BY <1>1, <1>2, MarkerAssumption, PlanAssumption DEF IInv, PartsVouched
<1>4. ManifestVouches'
  <2> SUFFICES ASSUME NEW e \in Events, manifest'[e] \in Plans, Readable(fragment'[e])
               PROVE  fragment'[e] = {manifest'[e]}
    BY DEF ManifestVouches
  <2>1. manifest'[e] = manifest[e] /\ fragment'[e] = fragment[e] /\ ~Saving(e)
    <3>1. CASE KillTearsParts
      BY <3>1 DEF KillTearsParts, Fault, IInv, ProcessShape, Saving
    <3>2. ASSUME NEW f \in Events, KillTearsFragment(f)
          PROVE  manifest'[e] = manifest[e] /\ fragment'[e] = fragment[e] /\ ~Saving(e)
      BY <3>2, MarkerAssumption
      DEF KillTearsFragment, Mergeable, NextToMerge, IInv, TypeOK, Readable, Saving, Nobody
    <3>3. ASSUME NEW f \in Events, KillTearsManifest(f)
          PROVE  manifest'[e] = manifest[e] /\ fragment'[e] = fragment[e] /\ ~Saving(e)
      BY <3>3, MarkerAssumption DEF KillTearsManifest, IInv, TypeOK, Saving
    <3> QED BY <3>1, <3>2, <3>3
  <2> QED BY <2>1 DEF IInv, ManifestVouches, Saving
<1> QED BY <1>1, <1>3, <1>4, IdleShape DEF IInv

\* Every step preserves the invariant.
LEMMA InvariantStep == ASSUME IInv, SafeOperation, [Next]_vars PROVE IInv'
<1>0. TypeOK'
  BY TypeStep DEF IInv
<1>1. CASE UNCHANGED vars
  BY <1>1 DEF vars, files, config, loop, pool, IInv, TypeOK, ProcessShape, PartsVouched, ScanOutcome,
              TaskCoverage, SavedFragment, ManifestVouches, ResultsMatchPlan, Running, Scanned,
              Clearing, Saving, Results, Chunks
<1>2. CASE StartRun
  BY <1>0, <1>2, StartStep
<1>3. ASSUME NEW e \in Events, Scan(e) PROVE IInv'
  <2>1. CASE AbortOnTornFragment(e)
    BY <1>0, <2>1, EndStep DEF AbortOnTornFragment, NextToScan
  <2> QED BY <1>0, <1>3, <2>1, SkipStep, DropStep, ClearStep, SubmitStep DEF Scan
<1>4. ASSUME NEW e \in Events, Merge(e) PROVE IInv'
  <2>1. CASE AbortOnTornPart(e)
    BY <1>0, <2>1, EndStep DEF AbortOnTornPart, NextToMerge
  <2> QED BY <1>0, <1>4, <2>1, MarkFailedStep, SaveFragmentStep, SaveManifestStep DEF Merge
<1>5. CASE OpenPool \/ ClosePool
  BY <1>0, <1>5, PoolStep
<1>6. ASSUME NEW t \in Tasks, TakeTask(t) \/ TaskSucceeds(t) \/ TaskFails(t) PROVE IInv'
  BY <1>0, <1>6, TaskStep
<1>7. CASE WriteReport \/ LlmUnavailable
  <2>1. cur = Nobody
    BY <1>7 DEF WriteReport, MergeDone, LlmUnavailable, ScanDone, IInv, ProcessShape
  <2> QED BY <1>0, <1>7, <2>1, EndStep DEF WriteReport, LlmUnavailable
<1>8. CASE Kill \/ KillTearsReport
  BY <1>0, <1>8, KillMode, EndStep DEF Kill, KillTearsReport
<1>9. CASE KillTearsParts \/ \E e \in Events : KillTearsFragment(e) \/ KillTearsManifest(e)
  BY <1>0, <1>9, TearStep
<1> QED
  BY <1>1, <1>2, <1>3, <1>4, <1>5, <1>6, <1>7, <1>8, <1>9 DEF Next, Progress, Faulty

\* The initial state: no file, no process.
LEMMA InvariantInit == Init => IInv
BY TypeInit, MarkerAssumption
DEF Init, IInv, ProcessShape, PartsVouched, ScanOutcome, TaskCoverage, SavedFragment,
    ManifestVouches, ResultsMatchPlan, Scanned, Clearing, Saving, Results, Nobody, None

\* Under safe operation the inductive invariant holds in every reachable state.
THEOREM InvariantHolds == ASSUME SafeOperation PROVE Spec => []IInv
BY InvariantInit, InvariantStep, PTL DEF Spec

\* Whatever is killed and truncated, a run with resume returns only fragments of
\* its own markets and chunk settings (and so does any run that is never killed).
THEOREM ResultsCorrect == ASSUME SafeOperation PROVE Spec => []ResultsMatchPlan
<1>1. IInv => ResultsMatchPlan
  BY DEF IInv
<1> QED BY <1>1, InvariantHolds, PTL

\* A manifest on disk never vouches for a fragment of another plan.
THEOREM ManifestsCorrect == ASSUME SafeOperation PROVE Spec => []ManifestVouches
<1>1. IInv => ManifestVouches
  BY DEF IInv
<1> QED BY <1>1, InvariantHolds, PTL

\* A failed event was scanned, and the scan has dropped what was not of this plan.
LEMMA FailedLeft == ASSUME IInv PROVE FailedLeavesNoFragment
<1> SUFFICES ASSUME NEW e \in Events, resume, status[e] = "failed"
             PROVE  fragment[e] = NoFragment
  BY DEF FailedLeavesNoFragment
<1>1. e \in selected /\ e \notin todo /\ phase = "merge"
  BY DEF IInv, ProcessShape, TypeOK, None
<1> QED BY <1>1, MarkerAssumption
  DEF IInv, ProcessShape, ScanOutcome, Scanned, Saving, Results, Nobody

\* A failed event leaves build nothing to load, when resume is on.
THEOREM FailedCorrect == ASSUME SafeOperation PROVE Spec => []FailedLeavesNoFragment
BY FailedLeft, InvariantHolds, PTL

\* "Missing part fragments" is never the outcome of a joined pool.
THEOREM PartsPresent == ASSUME SafeOperation PROVE Spec => []NoPartGoesMissing
<1>1. IInv => NoPartGoesMissing
  <2> SUFFICES ASSUME IInv, phase = "merge", NEW e \in todo \ failed, NEW i \in Chunks(e)
               PROVE  parts[e][i] # Absent
    BY DEF NoPartGoesMissing, PartContents
  <2>1. /\ e \in Events /\ Scanned(e) /\ status[e] = None /\ queue = {} /\ running = {}
        /\ plan[e] \in Plans
    BY DEF IInv, ProcessShape, TypeOK, Scanned, Running
  <2> QED BY <2>1, MarkerAssumption DEF IInv, TaskCoverage
<1> QED BY <1>1, InvariantHolds, PTL

-----------------------------------------------------------------------------
(* The cumulative report.  A run that aborts has dropped fragments without   *)
(* touching the report, so this takes runs in which only tasks may fail.     *)

\* No file is truncated, an event reported done has its fragment unless the
\* running process has it in hand, and the merge leaves no event undecided.
ReportInv ==
  /\ NothingTorn
  /\ \A e \in Events \ selected : report[e] \in {"skipped", "success"} => Readable(fragment[e])
  /\ phase = "merge" => \A e \in selected \ todo : status[e] # None

\* A fragment of a plan of the run is one that build can load.
LEMMA PlanReadable == ASSUME NEW p \in Plans PROVE Readable({p})
BY MarkerAssumption DEF Readable, NoFragment, TornFragment

\* The planning loop touches the fragments of selected events only, and never
\* meets a truncated one.
LEMMA ReportScan ==
  ASSUME IInv, ReportInv, NEW e \in Events, Scan(e)
  PROVE  ReportInv'
<1> USE DEF files, config, pool
<1>1. CASE SkipCompleted(e)
  BY <1>1 DEF SkipCompleted, NextToScan, ReportInv, NothingTorn
<1>2. CASE AbortOnTornFragment(e)
  BY <1>2 DEF AbortOnTornFragment, ReportInv, NothingTorn
<1>3. CASE DropFragment(e)
  <2>1. e \in selected
    BY <1>3 DEF DropFragment, NextToScan, IInv, TypeOK
  <2>2. \A f \in Events : fragment'[f] # TornFragment
    BY <1>3 DEF DropFragment, ReportInv, NothingTorn, IInv, TypeOK, NoFragment, TornFragment
  <2> QED BY <1>3, <2>1, <2>2 DEF DropFragment, NextToScan, ReportInv, NothingTorn, IInv, TypeOK
<1>4. ASSUME NEW i \in Chunk, ClearPart(e, i) PROVE ReportInv'
  <2>1. \A f \in Events, j \in Chunk : parts'[f][j] # Torn
    BY <1>4, MarkerAssumption DEF ClearPart, ReportInv, NothingTorn, IInv, TypeOK
  <2> QED BY <1>4, <2>1 DEF ClearPart, ReportInv, NothingTorn, loop
<1>5. CASE ClearManifest(e)
  BY <1>5 DEF ClearManifest, ReportInv, NothingTorn, loop
<1>6. CASE SubmitChunks(e)
  BY <1>6 DEF SubmitChunks, ReportInv, NothingTorn
<1> QED BY <1>1, <1>2, <1>3, <1>4, <1>5, <1>6 DEF Scan

\* So does the merging loop, which decides every event it leaves.
LEMMA ReportMerge ==
  ASSUME IInv, ReportInv, NEW e \in Events, Merge(e)
  PROVE  ReportInv'
<1> USE DEF files, config, pool
<1>1. CASE MarkFailed(e)
  BY <1>1 DEF MarkFailed, NextToMerge, ReportInv, NothingTorn, IInv, TypeOK, None
<1>2. CASE AbortOnTornPart(e)
  <2>1. Chunks(e) \subseteq Chunk
    BY <1>2, PlanAssumption DEF AbortOnTornPart, NextToMerge, Chunks, IInv, TypeOK
  <2> QED BY <1>2, <2>1 DEF AbortOnTornPart, PartContents, ReportInv, NothingTorn
<1>3. CASE SaveFragment(e)
  <2>1. e \in selected /\ plan[e] \in Plans /\ fragment' = [fragment EXCEPT ![e] = {plan[e]}]
    BY <1>3, MergedParts DEF SaveFragment, Mergeable, NextToMerge, IInv, TypeOK
  <2>2. \A f \in Events : fragment'[f] # TornFragment
    BY <2>1, PlanReadable DEF ReportInv, NothingTorn, IInv, TypeOK, Readable
  <2> QED BY <1>3, <2>1, <2>2 DEF SaveFragment, ReportInv, NothingTorn, IInv, TypeOK
<1>4. CASE SaveManifest(e)
  BY <1>4 DEF SaveManifest, ReportInv, NothingTorn, IInv, TypeOK, None
<1> QED BY <1>1, <1>2, <1>3, <1>4 DEF Merge

\* The report is written when every selected event is decided: the successful
\* and skipped ones have their fragment, the failed ones are reported so.
LEMMA ReportWritten == ASSUME IInv, ReportInv, WriteReport PROVE ReportInv'
<1>1. phase = "merge" /\ todo = {} /\ UNCHANGED files /\ ProcessEnds
  BY DEF WriteReport, MergeDone
<1>2. ASSUME NEW e \in Events, report'[e] \in {"skipped", "success"}
      PROVE  Readable(fragment[e])
  <2>1. CASE status[e] = None
    <3>1. report'[e] = report[e] /\ e \notin selected
      BY <1>1, <2>1 DEF WriteReport, ReportInv
    <3> QED BY <1>2, <3>1 DEF ReportInv
  <2>2. CASE status[e] # None
    <3>1. e \in Results /\ e \in selected
      BY <1>2, <2>2 DEF WriteReport, Results, IInv, ProcessShape
    <3> QED BY <3>1, PlanReadable DEF IInv, ResultsMatchPlan, TypeOK
  <2> QED BY <2>1, <2>2
<1>3. NothingTorn'
  BY <1>1 DEF ReportInv, NothingTorn, files
<1>4. selected' = {} /\ phase' = "idle"
  BY <1>1 DEF ProcessEnds
<1> QED BY <1>1, <1>2, <1>3, <1>4 DEF ReportInv, files, Readable

\* Every step of such runs keeps it.
LEMMA ReportStep ==
  ASSUME IInv, ReportInv, FaultKinds \subseteq {"task"}, [Next]_vars
  PROVE  ReportInv'
<1>1. CASE UNCHANGED vars
  BY <1>1 DEF vars, files, config, loop, pool, ReportInv, NothingTorn, Readable
<1>2. CASE StartRun
  <2>1. selected = {}
    BY <1>2 DEF StartRun, IInv, ProcessShape
  <2> QED BY <1>2, <2>1 DEF StartRun, files, ReportInv, NothingTorn, Readable
<1>3. ASSUME NEW e \in Events, Scan(e) \/ Merge(e) PROVE ReportInv'
  BY <1>3, ReportScan, ReportMerge
<1>4. CASE OpenPool \/ ClosePool
  <2>1. CASE OpenPool
    BY <2>1 DEF OpenPool, files, loop, ReportInv, NothingTorn, Readable
  <2>2. CASE ClosePool
    <3>1. \A e \in selected' \ todo' : status'[e] # None
      BY <2>2 DEF ClosePool, Results, None
    <3> QED BY <2>2, <3>1 DEF ClosePool, files, ReportInv, NothingTorn, Readable
  <2> QED BY <1>4, <2>1, <2>2
<1>5. ASSUME NEW t \in Tasks, TakeTask(t) \/ TaskSucceeds(t) \/ TaskFails(t) PROVE ReportInv'
  <2>1. t[1] \in Events /\ t[2] \in Chunk
    BY DEF Tasks
  <2>2. \A e \in Events, i \in Chunk : parts'[e][i] # Torn
    <3>1. CASE TaskSucceeds(t)
      <4>1. plan[t[1]] # Torn
        BY <2>1, MarkerAssumption DEF IInv, TypeOK
      <4> QED BY <3>1, <4>1, <2>1 DEF TaskSucceeds, ReportInv, NothingTorn, IInv, TypeOK
    <3>2. CASE TakeTask(t) \/ TaskFails(t)
      BY <3>2 DEF TakeTask, TaskFails, files, ReportInv, NothingTorn
    <3> QED BY <1>5, <3>1, <3>2
  <2>3. UNCHANGED <<fragment, report, phase, selected, todo, status>>
    BY <1>5 DEF TakeTask, TaskSucceeds, TaskFails, files, loop
  <2> QED BY <2>2, <2>3 DEF ReportInv, NothingTorn, Readable
<1>6. CASE WriteReport
  BY <1>6, ReportWritten
<1>7. CASE \/ LlmUnavailable \/ Kill \/ KillTearsParts \/ KillTearsReport
           \/ \E e \in Events : KillTearsFragment(e) \/ KillTearsManifest(e)
  BY <1>7 DEF LlmUnavailable, Kill, KillTearsParts, KillTearsReport, KillTearsFragment,
              KillTearsManifest, Fault
<1> QED
  BY <1>1, <1>2, <1>3, <1>4, <1>5, <1>6, <1>7 DEF Next, Progress, Faulty

\* As long as nothing but an LLM call fails, an event whose last report is
\* success or skipped has a fragment between the runs: the cumulative report is
\* true, although each run sees only the events it selects and drops the
\* fragments of those it infers again.
THEOREM ReportIsTrue ==
  ASSUME FaultKinds \subseteq {"task"} PROVE Spec => []ReportedEventsHaveFragments
<1>1. SafeOperation
  BY DEF SafeOperation
<1>2. Init => ReportInv
  BY MarkerAssumption DEF Init, ReportInv, NothingTorn, NoFragment, TornFragment, None
<1>3. IInv /\ ReportInv /\ [Next]_vars => ReportInv'
  BY ReportStep
<1>4. IInv /\ ReportInv => ReportedEventsHaveFragments
  BY DEF IInv, ProcessShape, ReportInv, ReportedEventsHaveFragments
<1>5. Spec => []IInv
  BY <1>1, InvariantHolds
<1> QED BY <1>2, <1>3, <1>4, <1>5, PTL DEF Spec

-----------------------------------------------------------------------------
(* Refinement of FragmentCache. *)

\* The cache entries depend on fragment and manifest only.
LEMMA CacheFrame ==
  ASSUME UNCHANGED <<fragment, manifest>> PROVE CachedPlans' = CachedPlans
BY DEF CachedPlans, CachedPlan

\* One event's entry changes when only its files do.
LEMMA CacheUpdate ==
  ASSUME NEW e \in Events, NEW v,
         \A f \in Events \ {e} : fragment'[f] = fragment[f] /\ manifest'[f] = manifest[f],
         CachedPlan(e)' = v
  PROVE  CachedPlans' = [CachedPlans EXCEPT ![e] = v]
<1>1. \A f \in Events \ {e} : CachedPlan(f)' = CachedPlan(f)
  BY DEF CachedPlan
<1> QED BY <1>1 DEF CachedPlans

\* Steps that change neither files nor results are invisible to the cache.
LEMMA CacheStutter ==
  ASSUME CachedPlans' = CachedPlans, UNCHANGED <<selected, plan, status>>
  PROVE  UNCHANGED Cache!vars
BY DEF Cache!vars, WantedPlans, Results

\* A process that ends gives up its wants and what it was served.
LEMMA CacheEnd ==
  ASSUME ProcessEnds PROVE WantedPlans' = Cache!Nothing /\ Results' = {}
BY DEF ProcessEnds, WantedPlans, Cache!Nothing, Results, None

\* The initial state maps to an empty cache.
LEMMA CacheInit == Init => Cache!Init
BY DEF Init, Cache!Init, Cache!Nothing, CachedPlans, CachedPlan, WantedPlans, Results, Readable, None

\* Every step maps to a cache step or a stutter.
LEMMA CacheStep ==
  ASSUME IInv, FALSE \notin ResumeModes, [Next]_vars PROVE [Cache!Next]_(Cache!vars)
<1> USE DEF files, config, loop, pool
<1> DEFINE Goal == Cache!Next \/ UNCHANGED Cache!vars
<1>1. resume /\ TypeOK
  BY DEF IInv, ProcessShape
<1>2. ASSUME NEW e \in Events, e \in selected
      PROVE  WantedPlans[e] = plan[e] /\ (plan[e] \in Plans => plan[e] # Absent)
  BY <1>2, MarkerAssumption DEF WantedPlans
<1>3. CASE StartRun
  <2>1. WantedPlans = Cache!Nothing
    BY <1>3 DEF StartRun, IInv, ProcessShape, WantedPlans, Cache!Nothing
  <2>2. WantedPlans' \in [Events -> Plans \cup {Absent}]
    BY <1>3 DEF StartRun, WantedPlans
  <2>3. CachedPlans' = CachedPlans /\ Results' = Results
    BY <1>3, CacheFrame DEF StartRun, Results
  <2> QED BY <2>1, <2>2, <2>3 DEF Cache!Next, Cache!Begin
<1>4. ASSUME NEW e \in Events, SkipCompleted(e) PROVE Goal
  <2>1. e \in selected /\ plan[e] \in Plans /\ plan[e] # Absent /\ e \notin Results
    BY <1>1, <1>4, MarkerAssumption
    DEF SkipCompleted, NextToScan, IInv, ProcessShape, TypeOK, Running, Results, None
  <2>2. CachedPlans[e] = plan[e] /\ CachedPlans' = CachedPlans
    BY <1>4, <2>1, CacheFrame DEF SkipCompleted, ManifestMatches, CachedPlans, CachedPlan
  <2>3. Results' = Results \cup {e} /\ WantedPlans' = WantedPlans
    BY <1>1, <1>4 DEF SkipCompleted, Results, WantedPlans, TypeOK
  <2>4. CachedPlans = [CachedPlans EXCEPT ![e] = plan[e]]
    BY <2>2 DEF CachedPlans
  <2> QED BY <1>2, <2>1, <2>2, <2>3, <2>4 DEF Cache!Next, Cache!Serve, Cache!Wanted
<1>5. ASSUME NEW e \in Events, DropFragment(e) PROVE Goal
  <2>1. e \in selected /\ plan[e] \in Plans /\ plan[e] # Absent /\ e \notin Results
    BY <1>1, <1>5, MarkerAssumption
    DEF DropFragment, NextToScan, IInv, ProcessShape, TypeOK, Running, Results, None
  <2>2. CachedPlans' = [CachedPlans EXCEPT ![e] = Absent]
    <3>1. CachedPlan(e)' = Absent
      BY <1>1, <1>5 DEF DropFragment, CachedPlan, Readable, TypeOK
    <3> QED BY <1>1, <1>5, <3>1, CacheUpdate DEF DropFragment, TypeOK
  <2>3. CachedPlans[e] # plan[e]
    BY <1>5, <2>1 DEF DropFragment, ManifestMatches, CachedPlans, CachedPlan
  <2>4. Results' = Results /\ WantedPlans' = WantedPlans
    BY <1>5 DEF DropFragment, Results, WantedPlans
  <2> QED BY <1>2, <2>1, <2>2, <2>3, <2>4 DEF Cache!Next, Cache!Evict, Cache!Wanted
<1>6. ASSUME NEW e \in Events, NEW i \in Chunk, ClearPart(e, i) PROVE Goal
  BY <1>6, CacheFrame, CacheStutter DEF ClearPart
<1>7. ASSUME NEW e \in Events, ClearManifest(e) PROVE Goal
  <2>1. fragment[e] = NoFragment
    BY <1>7 DEF ClearManifest, IInv, ScanOutcome, Clearing
  <2>2. \A f \in Events : CachedPlan(f)' = CachedPlan(f)
    BY <1>1, <1>7, <2>1 DEF ClearManifest, CachedPlan, Readable, TypeOK
  <2> QED BY <1>7, <2>2, CacheStutter DEF ClearManifest, CachedPlans
<1>8. CASE \/ \E e \in Events : SubmitChunks(e)
           \/ OpenPool
           \/ \E t \in Tasks : TakeTask(t) \/ TaskSucceeds(t) \/ TaskFails(t)
           \/ ClosePool
           \/ UNCHANGED vars
  BY <1>8, CacheFrame, CacheStutter
  DEF SubmitChunks, OpenPool, TakeTask, TaskSucceeds, TaskFails, ClosePool, vars
<1>9. ASSUME NEW e \in Events, MarkFailed(e) PROVE Goal
  <2>1. Results' = Results
    BY <1>1, <1>9 DEF MarkFailed, NextToMerge, Results, TypeOK, IInv, ProcessShape, None
  <2> QED BY <1>9, <2>1, CacheFrame DEF MarkFailed, Cache!vars, WantedPlans
<1>10. ASSUME NEW e \in Events, SaveFragment(e) PROVE Goal
  <2>1. /\ e \in selected /\ e \notin Results /\ plan[e] \in Plans /\ plan[e] # Absent
        /\ phase = "merge" /\ ~Saving(e) /\ Scanned(e)
    BY <1>1, <1>10, MarkerAssumption
    DEF SaveFragment, Mergeable, NextToMerge, IInv, ProcessShape, TypeOK, Running, Results, None,
        Saving, Scanned, Nobody
  <2>2. fragment[e] = NoFragment /\ manifest[e] \in {Absent, plan[e]}
    BY <1>1, <2>1 DEF IInv, ScanOutcome
  <2>3. fragment'[e] = {plan[e]} /\ Readable(fragment'[e])
    <3>1. PartContents(e) = {plan[e]}
      BY <1>10, MergedParts DEF SaveFragment
    <3>2. fragment'[e] = {plan[e]}
      BY <1>1, <1>10, <3>1 DEF SaveFragment, TypeOK
    <3>3. Torn \notin {plan[e]}
      BY <2>1, MarkerAssumption
    <3> QED BY <3>2, <3>3 DEF Readable, NoFragment, TornFragment
  <2>4. Results' = Results /\ WantedPlans' = WantedPlans
    BY <1>10 DEF SaveFragment, Results, WantedPlans
  <2>5. CASE manifest[e] = plan[e]
    <3>1. CachedPlan(e)' = plan[e]
      BY <1>10, <2>1, <2>3, <2>5 DEF SaveFragment, CachedPlan
    <3>2. CachedPlans' = [CachedPlans EXCEPT ![e] = plan[e]]
      BY <1>1, <1>10, <3>1, CacheUpdate DEF SaveFragment, TypeOK
    <3>3. CachedPlans[e] = Absent
      BY <2>2 DEF CachedPlans, CachedPlan, Readable
    <3> QED BY <1>2, <2>1, <2>4, <3>2, <3>3 DEF Cache!Next, Cache!Store, Cache!Wanted
  <2>6. CASE manifest[e] = Absent
    <3>1. \A f \in Events : CachedPlan(f)' = CachedPlan(f)
      BY <1>1, <1>10, <2>6, MarkerAssumption DEF SaveFragment, CachedPlan, TypeOK
    <3> QED BY <1>10, <3>1, CacheStutter DEF SaveFragment, CachedPlans
  <2> QED BY <2>2, <2>5, <2>6
<1>11. ASSUME NEW e \in Events, SaveManifest(e) PROVE Goal
  <2>1. /\ e \in selected /\ e \notin Results /\ plan[e] \in Plans /\ plan[e] # Absent
        /\ Saving(e) /\ Scanned(e)
    BY <1>1, <1>11, MarkerAssumption
    DEF SaveManifest, IInv, ProcessShape, TypeOK, Running, Results, None, Saving, Scanned, Nobody
  <2>2. manifest[e] \in {Absent, plan[e]} /\ fragment[e] = {plan[e]}
    BY <1>1, <2>1 DEF IInv, ScanOutcome, SavedFragment
  <2>3. CachedPlan(e)' = plan[e]
    BY <1>1, <1>11, <2>1, <2>2, MarkerAssumption
    DEF SaveManifest, CachedPlan, Readable, NoFragment, TornFragment, TypeOK
  <2>4. CachedPlans' = [CachedPlans EXCEPT ![e] = plan[e]]
    BY <1>1, <1>11, <2>3, CacheUpdate DEF SaveManifest, TypeOK
  <2>5. CachedPlans[e] \in {Absent, plan[e]}
    BY <2>2 DEF CachedPlans, CachedPlan
  <2>6. Results' = Results \cup {e} /\ WantedPlans' = WantedPlans
    BY <1>1, <1>11 DEF SaveManifest, Results, WantedPlans, TypeOK
  <2> QED BY <1>2, <2>1, <2>4, <2>5, <2>6 DEF Cache!Next, Cache!Serve, Cache!Wanted
<1>12. CASE ProcessEnds /\ UNCHANGED <<fragment, manifest>>
  BY <1>12, CacheEnd, CacheFrame DEF Cache!Next, Cache!End
<1>13. ASSUME NEW e \in Events, KillTearsFragment(e) PROVE Goal
  <2>1. fragment[e] = NoFragment
    BY <1>1, <1>13, MarkerAssumption
    DEF KillTearsFragment, Mergeable, NextToMerge, IInv, ScanOutcome, ProcessShape, Scanned,
        Saving, Results, None, Nobody
  <2>2. \A f \in Events : CachedPlan(f)' = CachedPlan(f)
    BY <1>1, <1>13, <2>1 DEF KillTearsFragment, CachedPlan, Readable, TypeOK
  <2> QED BY <1>13, <2>2, CacheEnd DEF KillTearsFragment, CachedPlans, Cache!Next, Cache!End
<1>14. ASSUME NEW e \in Events, KillTearsManifest(e) PROVE Goal
  <2>1. e \in selected /\ e \notin Results /\ plan[e] \in Plans /\ plan[e] # Absent
    BY <1>1, <1>14, MarkerAssumption
    DEF KillTearsManifest, IInv, ProcessShape, TypeOK, Running, Results, None, Nobody
  <2>2. CachedPlan(e)' = Absent
    BY <1>1, <1>14, MarkerAssumption DEF KillTearsManifest, CachedPlan, TypeOK
  <2>3. CachedPlans' = [CachedPlans EXCEPT ![e] = Absent]
    BY <1>1, <1>14, <2>2, CacheUpdate DEF KillTearsManifest, TypeOK
  <2> QED BY <1>2, <1>14, <2>1, <2>3, CacheEnd
    DEF KillTearsManifest, Cache!Next, Cache!End, Cache!Wanted
<1> QED
  BY <1>3, <1>4, <1>5, <1>6, <1>7, <1>8, <1>9, <1>10, <1>11, <1>12, <1>13, <1>14
  DEF Next, Progress, Faulty, Scan, Merge, AbortOnTornFragment, AbortOnTornPart, WriteReport,
      LlmUnavailable, Kill, KillTearsParts, KillTearsReport

\* With resume always on, the files of every event behave as one cache entry:
\* kills, truncated files and failed LLM calls included.
THEOREM CacheImplemented == ASSUME FALSE \notin ResumeModes PROVE Spec => ImplementsCache
<1>1. SafeOperation
  BY DEF SafeOperation
<1>2. IInv /\ [Next]_vars => [Cache!Next]_(Cache!vars)
  BY CacheStep
<1> QED BY <1>1, <1>2, CacheInit, InvariantHolds, PTL DEF ImplementsCache, Spec, Cache!Spec
=============================================================================
