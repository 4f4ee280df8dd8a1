---------------------------- MODULE ResidualInfer ----------------------------
(***************************************************************************)
(* The residual path of oddsgraph/infer.py: events that the deterministic  *)
(* templates do not cover are cut into chunks, every chunk is sent to the  *)
(* LLM by a worker pool, the parts are merged into one fragment.  Parts,    *)
(* fragment and chunk manifest are files under build/fragments; the next    *)
(* `oddsgraph infer --resume` decides from them what it may reuse.          *)
(*                                                                         *)
(* A run is a process: it may die between any two file operations, or in    *)
(* the middle of a write (write_text is not atomic), and it aborts when an  *)
(* exception escapes infer_event_fragments.  Files survive, the rest does   *)
(* not.                                                                     *)
(***************************************************************************)
EXTENDS Naturals, FiniteSets

CONSTANTS
  Events,       \* event ids with markets in semantic_markets.parquet
  Plans,        \* chunkings an event may get: what _build_chunk_manifest records
                \* (chunk settings and the market ids of every chunk)
  Chunk,        \* chunk indexes
  ChunksOf,     \* the indexes of each plan
  Concurrency,  \* _effective_concurrency
  ResumeModes,  \* values of settings.resume the operator uses
  FaultKinds,   \* the faults that may happen, see AllFaults
  MaxFaults,    \* bound on the faults of a behaviour
  Absent,       \* no such file
  Torn          \* a truncated file: json.loads raises

\* The process is killed between two file operations, or inside a write; the
\* LLM cannot be built at all; one LLM call raises.
AllFaults == {"kill", "tear", "llm_down", "task"}

ASSUME PlanAssumption ==
  /\ ChunksOf \in [Plans -> SUBSET Chunk]
  /\ \A p \in Plans : ChunksOf[p] # {}

ASSUME BoundAssumption ==
  /\ Concurrency \in Nat \ {0}
  /\ MaxFaults \in Nat
  /\ ResumeModes \subseteq BOOLEAN
  /\ FaultKinds \subseteq AllFaults

ASSUME MarkerAssumption ==
  /\ Absent # Torn
  /\ {Absent, Torn} \cap (Plans \cup Events) = {}

VARIABLES
  \* files
  fragment,   \* <e>.json: the plans its parts were inferred from, {} without a file
  parts,      \* <e>__part<i>.json: the plan whose i-th chunk it answers
  manifest,   \* <e>__chunk_manifest.json: the plan it records
  report,     \* per_event_status of inference_report.json
  \* the running process
  phase,      \* where infer_event_fragments is
  resume,     \* settings.resume
  plan,       \* the plan of every selected event under this run's markets and settings
  selected,   \* event_ids
  todo,       \* event_ids the current loop has not treated yet
  cur,        \* the event whose files the current loop is half way through
  queue,      \* submitted tasks that no worker has taken
  running,    \* tasks in a worker
  failed,     \* failed_events
  status,     \* this run's status of every event
  \* bound
  faults

files == <<fragment, parts, manifest>>
loop == <<selected, todo, cur>>
pool == <<queue, running, failed>>
config == <<resume, plan>>
vars == <<files, report, phase, config, loop, pool, status, faults>>

Tasks == Events \X Chunk
None == "none"
Statuses == {"skipped", "success", "failed", None}
Nobody == Absent
Running == phase # "idle"

-----------------------------------------------------------------------------
(* What a run reads off the disk. *)

NoFragment == {}
TornFragment == {Torn}
Readable(f) == f \notin {NoFragment, TornFragment}

\* Slip: any manifest will do.
ManifestPresent(e) == manifest[e] # Absent

\* _chunk_manifest_matches: an absent or unparsable manifest does not match.
ManifestMatches(e) == manifest[e] = plan[e]

PartsOf(e) == {i \in Chunk : parts[e][i] # Absent}

\* Slip: parts of an earlier run are taken for a complete set.
ChunksOfFreshEvent(e) ==
  {i \in ChunksOf[plan[e]] : resume => PartsOf(e) = {}}

\* The chunks of e this run sends to the LLM.
ChunksToInfer(e) ==
  {i \in ChunksOf[plan[e]] : resume => parts[e][i] = Absent}

\* The keys of `results`.
Results == {e \in Events : status[e] \in {"skipped", "success"}}

-----------------------------------------------------------------------------
(* The life of a run. *)

Init ==
  /\ fragment = [e \in Events |-> NoFragment]
  /\ parts = [e \in Events |-> [i \in Chunk |-> Absent]]
  /\ manifest = [e \in Events |-> Absent]
  /\ report = [e \in Events |-> None]
  /\ phase = "idle"
  /\ resume = TRUE
  /\ plan = [e \in Events |-> Absent]
  /\ selected = {} /\ todo = {} /\ cur = Nobody
  /\ queue = {} /\ running = {} /\ failed = {}
  /\ status = [e \in Events |-> None]
  /\ faults = 0

\* A new `oddsgraph infer`: its settings and the markets on disk fix the plan
\* of every event it works on; --event-id and --limit-events select those.
StartRun ==
  /\ phase = "idle"
  /\ phase' = "scan"
  /\ resume' \in ResumeModes
  /\ selected' \in SUBSET Events
  /\ \E p \in [selected' -> Plans] :
       plan' = [e \in Events |-> IF e \in selected' THEN p[e] ELSE Absent]
  /\ todo' = selected'
  /\ UNCHANGED <<files, report, cur, pool, status, faults>>

\* The process is gone; nothing of it but the files is left.
ProcessEnds ==
  /\ phase' = "idle"
  /\ resume' = TRUE
  /\ plan' = [e \in Events |-> Absent]
  /\ selected' = {} /\ todo' = {} /\ cur' = Nobody
  /\ queue' = {} /\ running' = {} /\ failed' = {}
  /\ status' = [e \in Events |-> None]

Fault(kind) ==
  /\ kind \in FaultKinds
  /\ faults < MaxFaults
  /\ faults' = faults + 1

-----------------------------------------------------------------------------
(* The planning loop over event_ids. *)

NextToScan(e) == phase = "scan" /\ cur = Nobody /\ e \in todo

\* Slip: the manifest is taken for the fragment.
SkipOnManifest(e) ==
  /\ NextToScan(e)
  /\ resume /\ ManifestMatches(e)
  /\ status' = [status EXCEPT ![e] = "skipped"]
  /\ todo' = todo \ {e}
  /\ UNCHANGED <<files, report, phase, config, selected, cur, pool, faults>>

\* resume, a fragment and a matching manifest: the event is not inferred again.
SkipCompleted(e) ==
  /\ NextToScan(e)
  /\ resume /\ ManifestMatches(e)
  /\ Readable(fragment[e])
  /\ status' = [status EXCEPT ![e] = "skipped"]
  /\ todo' = todo \ {e}
  /\ UNCHANGED <<files, report, phase, config, selected, cur, pool, faults>>

\* _load_fragment raises on a truncated fragment and nothing catches it.
AbortOnTornFragment(e) ==
  /\ NextToScan(e)
  /\ resume /\ ManifestMatches(e)
  /\ fragment[e] = TornFragment
  /\ ProcessEnds
  /\ UNCHANGED <<files, report, faults>>

\* Slip: the stale fragment is left in place.
ClearPartsOnly(e) ==
  /\ NextToScan(e)
  /\ resume /\ ~ManifestMatches(e)
  /\ cur' = e
  /\ UNCHANGED <<files, report, phase, config, selected, todo, pool, status, faults>>

\* Without a matching manifest the fragment goes (if there is one), and then
\* what _clear_part_fragments removes.
DropFragment(e) ==
  /\ NextToScan(e)
  /\ resume /\ ~ManifestMatches(e)
  /\ fragment' = [fragment EXCEPT ![e] = NoFragment]
  /\ cur' = e
  /\ UNCHANGED <<parts, manifest, report, phase, config, selected, todo, pool, status, faults>>

ClearPart(e, i) ==
  /\ phase = "scan" /\ cur = e
  /\ i \in PartsOf(e)
  /\ parts' = [parts EXCEPT ![e][i] = Absent]
  /\ UNCHANGED <<fragment, manifest, report, phase, config, loop, pool, status, faults>>

ClearManifest(e) ==
  /\ phase = "scan" /\ cur = e
  /\ PartsOf(e) = {} /\ manifest[e] # Absent
  /\ manifest' = [manifest EXCEPT ![e] = Absent]
  /\ UNCHANGED <<fragment, parts, report, phase, config, loop, pool, status, faults>>

\* Nothing (more) to clear for e: without resume nothing ever is, and parts of
\* a matching manifest are kept when the fragment is missing.
Cleared(e) ==
  \/ cur = e /\ PartsOf(e) = {} /\ manifest[e] = Absent
  \/ cur = Nobody /\ ~resume
  \/ cur = Nobody /\ ManifestMatches(e) /\ fragment[e] = NoFragment

SubmitChunks(e) ==
  /\ phase = "scan" /\ e \in todo
  /\ Cleared(e)
  /\ queue' = queue \cup ({e} \X ChunksToInfer(e))
  /\ todo' = todo \ {e}
  /\ cur' = Nobody
  /\ UNCHANGED <<files, report, phase, config, selected, running, failed, status, faults>>

ScanDone == phase = "scan" /\ todo = {}

OpenPool ==
  /\ ScanDone
  /\ phase' = "pool"
  /\ UNCHANGED <<files, report, config, loop, pool, status, faults>>

\* build_graph_llm raises: the run aborts after the files were cleared.
LlmUnavailable ==
  /\ ScanDone /\ queue # {}
  /\ Fault("llm_down")
  /\ ProcessEnds
  /\ UNCHANGED <<files, report>>

-----------------------------------------------------------------------------
(* The worker pool. *)

TakeTask(t) ==
  /\ phase = "pool"
  /\ t \in queue
  /\ Cardinality(running) < Concurrency
  /\ queue' = queue \ {t}
  /\ running' = running \cup {t}
  /\ UNCHANGED <<files, report, phase, config, loop, failed, status, faults>>

\* _run_infer_task: the LLM's answer is written to the part's path.
TaskSucceeds(t) ==
  /\ t \in running
  /\ parts' = [parts EXCEPT ![t[1]][t[2]] = plan[t[1]]]
  /\ running' = running \ {t}
  /\ UNCHANGED <<fragment, manifest, report, phase, config, loop, queue, failed, status, faults>>

\* generate_fragment raises: the event has failed, the other tasks go on.
TaskFails(t) ==
  /\ t \in running
  /\ Fault("task")
  /\ running' = running \ {t}
  /\ failed' = failed \cup {t[1]}
  /\ UNCHANGED <<files, report, phase, config, loop, queue, status>>

\* Slip: the merge waits for tasks that will never succeed.
ClosePoolUnlessFailed ==
  /\ phase = "pool" /\ queue = {} /\ running = {} /\ failed = {}
  /\ phase' = "merge"
  /\ todo' = selected \ Results
  /\ UNCHANGED <<files, report, config, selected, cur, pool, status, faults>>

\* Leaving the `with` block waits for every future.
ClosePool ==
  /\ phase = "pool" /\ queue = {} /\ running = {}
  /\ phase' = "merge"
  /\ todo' = selected \ Results
  /\ UNCHANGED <<files, report, config, selected, cur, pool, status, faults>>

-----------------------------------------------------------------------------
(* The merging loop over event_ids. *)

NextToMerge(e) == phase = "merge" /\ cur = Nobody /\ e \in todo

Chunks(e) == ChunksOf[plan[e]]
PartContents(e) == {parts[e][i] : i \in Chunks(e)}

\* A failed task or a missing part: the event's files stay as they are.
MarkFailed(e) ==
  /\ NextToMerge(e)
  /\ e \in failed \/ Absent \in PartContents(e)
  /\ status' = [status EXCEPT ![e] = "failed"]
  /\ todo' = todo \ {e}
  /\ UNCHANGED <<files, report, phase, config, selected, cur, pool, faults>>

\* _load_fragment raises on a truncated part.
AbortOnTornPart(e) ==
  /\ NextToMerge(e)
  /\ e \notin failed
  /\ Torn \in PartContents(e)
  /\ ProcessEnds
  /\ UNCHANGED <<files, report, faults>>

Mergeable(e) ==
  /\ NextToMerge(e)
  /\ e \notin failed
  /\ PartContents(e) \cap {Absent, Torn} = {}

\* merge_fragments over the parts, then the fragment and after it the manifest.
SaveFragment(e) ==
  /\ Mergeable(e)
  /\ fragment' = [fragment EXCEPT ![e] = PartContents(e)]
  /\ cur' = e
  /\ UNCHANGED <<parts, manifest, report, phase, config, selected, todo, pool, status, faults>>

SaveManifest(e) ==
  /\ phase = "merge" /\ cur = e
  /\ manifest' = [manifest EXCEPT ![e] = plan[e]]
  /\ status' = [status EXCEPT ![e] = "success"]
  /\ todo' = todo \ {e}
  /\ cur' = Nobody
  /\ UNCHANGED <<fragment, parts, report, phase, config, selected, pool, faults>>

MergeDone == phase = "merge" /\ todo = {}

\* Slip: {**this run's, **existing}, the older status wins.
WriteReportKeepsOld ==
  /\ MergeDone
  /\ report' = [e \in Events |-> IF report[e] = None THEN status[e] ELSE report[e]]
  /\ ProcessEnds
  /\ UNCHANGED <<files, faults>>

\* merge_per_event_status: {**existing, **this run's}; the run returns results.
WriteReport ==
  /\ MergeDone
  /\ report' = [e \in Events |-> IF status[e] = None THEN report[e] ELSE status[e]]
  /\ ProcessEnds
  /\ UNCHANGED <<files, faults>>

-----------------------------------------------------------------------------
(* The process is killed. *)

Kill ==
  /\ Running
  /\ Fault("kill")
  /\ ProcessEnds
  /\ UNCHANGED <<files, report>>

\* Any of the parts being written is truncated.
KillTearsParts ==
  /\ Fault("tear")
  /\ \E torn \in (SUBSET running) \ {{}} :
       parts' = [e \in Events |-> [i \in Chunk |->
                   IF <<e, i>> \in torn THEN Torn ELSE parts[e][i]]]
  /\ ProcessEnds
  /\ UNCHANGED <<fragment, manifest, report>>

KillTearsFragment(e) ==
  /\ Mergeable(e)
  /\ Fault("tear")
  /\ fragment' = [fragment EXCEPT ![e] = TornFragment]
  /\ ProcessEnds
  /\ UNCHANGED <<parts, manifest, report>>

KillTearsManifest(e) ==
  /\ phase = "merge" /\ cur = e
  /\ Fault("tear")
  /\ manifest' = [manifest EXCEPT ![e] = Torn]
  /\ ProcessEnds
  /\ UNCHANGED <<fragment, parts, report>>

\* A truncated report is read as an empty one.
KillTearsReport ==
  /\ MergeDone
  /\ Fault("tear")
  /\ report' = [e \in Events |-> None]
  /\ ProcessEnds
  /\ UNCHANGED files

-----------------------------------------------------------------------------
Scan(e) ==
  \/ SkipCompleted(e)
  \/ AbortOnTornFragment(e)
  \/ DropFragment(e)
  \/ \E i \in Chunk : ClearPart(e, i)
  \/ ClearManifest(e)
  \/ SubmitChunks(e)

Merge(e) ==
  \/ MarkFailed(e)
  \/ AbortOnTornPart(e)
  \/ SaveFragment(e)
  \/ SaveManifest(e)

\* What the code does when nothing fails.
Progress ==
  \/ \E e \in Events : Scan(e) \/ Merge(e)
  \/ OpenPool
  \/ \E t \in Tasks : TakeTask(t) \/ TaskSucceeds(t)
  \/ ClosePool
  \/ WriteReport

Faulty ==
  \/ LlmUnavailable
  \/ \E t \in Tasks : TaskFails(t)
  \/ Kill
  \/ KillTearsParts
  \/ \E e \in Events : KillTearsFragment(e) \/ KillTearsManifest(e)
  \/ KillTearsReport

Next == StartRun \/ Progress \/ Faulty

Spec == Init /\ [][Next]_vars

\* Once started a run keeps running: the loops of the main thread advance, and
\* a worker's call to the LLM returns or raises (both backends have timeouts or
\* bounded generation, and retries are counted).
FairSpec == Spec /\ WF_vars(Progress)

-----------------------------------------------------------------------------
(* Type invariant. *)

FileContent == Plans \cup {Absent, Torn}

\* The files hold what infer.py writes, or a truncation of it.
TypeOK ==
  /\ fragment \in [Events -> (SUBSET Plans) \cup {TornFragment}]
  /\ parts \in [Events -> [Chunk -> FileContent]]
  /\ manifest \in [Events -> FileContent]
  /\ report \in [Events -> Statuses]
  /\ phase \in {"idle", "scan", "pool", "merge"}
  /\ resume \in BOOLEAN
  /\ plan \in [Events -> Plans \cup {Absent}]
  /\ \A e \in selected : plan[e] \in Plans
  /\ selected \in SUBSET Events
  /\ todo \in SUBSET selected
  /\ cur \in Events \cup {Nobody}
  /\ queue \in SUBSET Tasks
  /\ running \in SUBSET Tasks
  /\ failed \in SUBSET Events
  /\ status \in [Events -> Statuses]
  /\ faults \in Nat

(* Safety. *)

\* What a run returns for an event, whether skipped or merged, was inferred
\* from the markets and chunk settings of this very run, and a later resume
\* under the same plan will find it reusable (infer.py:461-466, 553-557).
ResultsMatchPlan ==
  \A e \in Results : fragment[e] = {plan[e]} /\ manifest[e] = plan[e]

\* A manifest on disk vouches only for a fragment of its own plan, at every
\* instant but the one between the two writes of a merge (infer.py:555-556).
ManifestVouches ==
  \A e \in Events :
    (manifest[e] \in Plans /\ Readable(fragment[e]) /\ ~(phase = "merge" /\ cur = e))
      => fragment[e] = {manifest[e]}

\* When the pool has been joined, an event without a failed task has all the
\* parts of its plan: "Missing part fragments" is never the outcome
\* (infer.py:548-551).
NoPartGoesMissing ==
  phase = "merge" => \A e \in todo \ failed : Absent \notin PartContents(e)

\* A resume run that reports an event as failed leaves no fragment of it that a
\* later build would load as if it were current (infer.py:467, 534-536).
FailedLeavesNoFragment ==
  \A e \in Events : resume /\ status[e] = "failed" => fragment[e] = NoFragment

\* Between runs, an event whose last report is success or skipped has a
\* fragment (reporting.py:29: the report is cumulative over runs).
ReportedEventsHaveFragments ==
  phase = "idle" =>
    \A e \in Events : report[e] \in {"skipped", "success"} => Readable(fragment[e])

\* "Resume reuses completed event fragments and matching chunk parts"
\* (docs/concepts/troubleshooting.md:59): a resume run does not delete a part
\* that answers the chunk it is about to infer.
MatchingPartsAreReused ==
  [][phase = "scan" /\ resume =>
       \A e \in selected, i \in Chunk :
         (parts[e][i] = plan[e] /\ i \in ChunksOf[plan[e]]) => parts'[e][i] # Absent]_vars

(* The inductive invariant behind the safety properties. *)

\* Either --no-resume is never used or the process is never killed.
SafeOperation ==
  FALSE \notin ResumeModes \/ FaultKinds \cap {"kill", "tear"} = {}

Scanned(e) ==
  e \in selected /\ (phase \in {"pool", "merge"} \/ (phase = "scan" /\ e \notin todo))
Clearing(e) == phase = "scan" /\ cur = e
Saving(e) == phase = "merge" /\ cur = e

\* Nothing of a run outlives it in memory, and its tasks are of scanned events.
ProcessShape ==
  /\ phase = "idle" => selected = {} /\ cur = Nobody /\ queue = {} /\ failed = {}
  /\ todo \subseteq selected /\ cur \in todo \cup {Nobody}
  /\ running # {} => phase = "pool"
  /\ queue # {} => phase \in {"scan", "pool"}
  /\ \A t \in queue \cup running : Scanned(t[1])
  /\ phase = "pool" => todo = {}
  /\ phase \in {"scan", "pool"} => \A e \in Events : status[e] \in {None, "skipped"}
  /\ \A e \in Events : e \notin selected \/ e \in todo => status[e] = None
  /\ FALSE \notin ResumeModes => resume

\* The parts a matching manifest makes reusable are parts of its plan.
PartsVouched ==
  \A e \in Events : manifest[e] \in Plans =>
    IF FALSE \notin ResumeModes
    THEN \A i \in ChunksOf[manifest[e]] : parts[e][i] \in {Absent, Torn, manifest[e]}
    ELSE fragment[e] = NoFragment => Clearing(e)

\* What the scan leaves of an event that has to be inferred.
ScanOutcome ==
  \A e \in Events :
    /\ Clearing(e) => resume /\ fragment[e] = NoFragment
    /\ resume /\ Scanned(e) => manifest[e] \in {Absent, plan[e]}
    /\ (resume /\ Scanned(e) /\ e \notin Results /\ ~Saving(e)) => fragment[e] = NoFragment

\* Every chunk of an event to be inferred has its part, is a task, or failed.
TaskCoverage ==
  \A e \in Events : Scanned(e) /\ status[e] = None /\ e \notin failed =>
    \A i \in Chunks(e) :
      parts[e][i] \in {plan[e], Torn} \/ <<e, i>> \in queue \cup running

\* Between the two writes of a merge the new fragment is already there.
SavedFragment ==
  \A e \in Events : Saving(e) => e \notin failed /\ fragment[e] = {plan[e]}

\* The inductive invariant: an event's files and its place in the loops of the
\* running process fit together at every instant, whatever was interrupted
\* before (infer.py:440-558).
IInv ==
  /\ TypeOK
  /\ ProcessShape
  /\ PartsVouched
  /\ ScanOutcome
  /\ TaskCoverage
  /\ SavedFragment
  /\ ManifestVouches
  /\ ResultsMatchPlan

(* Refinement. *)

\* The entry a resume run could reuse for e.
CachedPlan(e) ==
  IF Readable(fragment[e]) /\ manifest[e] \in Plans THEN manifest[e] ELSE Absent

CachedPlans == [e \in Events |-> CachedPlan(e)]
WantedPlans == [e \in Events |-> IF e \in selected THEN plan[e] ELSE Absent]

Cache == INSTANCE FragmentCache WITH
  cache <- CachedPlans, want <- WantedPlans, served <- Results

\* With resume on, kills and truncated files included, the three kinds of
\* files together behave as one cache entry per event (infer.py:460-470, 553-557).
ImplementsCache == Cache!Spec

(* Liveness. *)

\* Every run ends, whatever the LLM answers and wherever an exception escapes.
RunTerminates == Running ~> phase = "idle"

\* No fragment or part that _load_fragment would raise on.
NothingTorn ==
  \A e \in Events : fragment[e] # TornFragment /\ \A i \in Chunk : parts[e][i] # Torn

\* Once nothing fails any more, a run completes every event it selects: a
\* truncated fragment or part apart (it aborts every later run), no file an
\* earlier, interrupted run left behind can stop it (infer.py:440-558).
FaultFreeRunCompletes ==
  \A e \in Events, p \in Plans :
    (phase = "scan" /\ e \in todo /\ plan[e] = p /\ faults = MaxFaults /\ NothingTorn)
      ~> (fragment[e] = {p} /\ manifest[e] = p)
=============================================================================
