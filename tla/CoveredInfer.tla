---------------------------- MODULE CoveredInfer ----------------------------
(***************************************************************************)
(* The covered path of oddsgraph/infer.py: events that a deterministic     *)
(* template recognises.  Their topology is written for the build and, with *)
(* --verify-deterministic, an LLM confirms or corrects it; its answer is a  *)
(* second file, and a verify manifest fingerprints the candidate it         *)
(* answers, so that a later run can reuse it.                               *)
(*                                                                         *)
(* What a template extracts for one event may depend on which other events  *)
(* are classified with it (a match only learns its group from a group       *)
(* winner event), hence on --event-id and --limit-events.                   *)
(***************************************************************************)
EXTENDS Naturals, FiniteSets

CONSTANTS
  Events,
  Fragments,    \* graph fragments, equal when _fragments_equal
  Worlds,       \* contents of semantic_markets.parquet and of the template data
  Topology,     \* classify_events: world, classified events, event |-> fragment
  Uncovered,    \* no template recognises the event
  Concurrency,  \* _effective_concurrency
  ResumeModes, VerifyModes, TemplateModes,
                \* values of settings.resume, settings.verify_deterministic
                \* and settings.deterministic_topology the operator uses
  FaultKinds,   \* the faults that may happen
  MaxFaults,    \* bound on the faults of a behaviour
  Absent,       \* no such file
  Torn          \* a truncated file

\* Killed between two file operations or inside a write; the LLM cannot be
\* built; a verification raises.
AllFaults == {"kill", "tear", "llm_down", "task"}

\* Every template looks only at the event's own markets to recognise it.
ASSUME TopologyAssumption ==
  /\ Topology \in [Worlds -> [SUBSET Events -> [Events -> Fragments \cup {Uncovered}]]]
  /\ Uncovered \notin Fragments
  /\ \A w \in Worlds, S \in SUBSET Events, e \in Events :
       Topology[w][S][e] = Uncovered <=> Topology[w][Events][e] = Uncovered

\* What the two verify files hold; the candidate an answer is of is not in the
\* file, it is what the manifest is meant to tell.
Record == [topology : Fragments, of : Fragments]
Manifest == [fingerprint : Fragments, status : {"verified", "corrected"}]

ASSUME MarkerAssumption ==
  /\ Absent # Torn
  /\ \A m \in {Absent, Torn} : m \notin Fragments /\ m \notin Record /\ m \notin Manifest

ASSUME BoundAssumption ==
  /\ Concurrency \in Nat \ {0} /\ MaxFaults \in Nat
  /\ ResumeModes \subseteq BOOLEAN
  /\ VerifyModes \subseteq BOOLEAN
  /\ TemplateModes \subseteq BOOLEAN
  /\ FaultKinds \subseteq AllFaults

VARIABLES
  \* files
  topology,   \* <e>__topology.json
  verified,   \* <e>__verified.json, and the candidate it was the answer to
  vmanifest,  \* <e>__verify_manifest.json
  world,      \* what the next process reads
  \* the running process
  phase,
  settings,   \* resume, verify, templates
  scope,      \* event_ids
  todo,       \* events the current loop has not treated yet
  cur,        \* the event of whose two verify files only one has been treated
  queue,      \* submitted verifications that no worker has taken
  running,    \* verifications in a worker
  answer,     \* finished futures the main thread has not looked at
  status,     \* verify_status
  \* bound
  faults

files == <<topology, verified, vmanifest>>
loop == <<todo, cur>>
pool == <<queue, running, answer>>
config == <<settings, scope>>
vars == <<files, world, phase, config, loop, pool, status, faults>>

None == {}            \* no answer, no status
Failure == {"raised"} \* future.result() raises
Answers == {{f} : f \in Fragments}
Nobody == {}

\* Settings(): what a process starts from.
Defaults == [resume |-> TRUE, verify |-> FALSE, templates |-> TRUE]
Modes == [resume : ResumeModes, verify : VerifyModes, templates : TemplateModes]
NoFile == {Absent, Torn}

-----------------------------------------------------------------------------
(* What the templates and the files say. *)

\* The covered set of a run: none with --no-deterministic-topology.
Covered ==
  {e \in scope : settings.templates /\ Topology[world][scope][e] # Uncovered}

\* verify_deterministic_fragments classifies the covered events again.
Candidate(e) == Topology[world][Covered][e]

\* Slip: any manifest of an older template will do.
ReusableByStatus(e) ==
  settings.resume /\ verified[e] # Absent /\ vmanifest[e] \notin NoFile

\* _resume_verified_fragment; a truncated manifest does not count.
Reusable(e) ==
  /\ settings.resume /\ verified[e] # Absent
  /\ vmanifest[e] \notin NoFile
  /\ vmanifest[e].fingerprint = Candidate(e)

\* _run_verify: the label of an answer.
Label(e, f) == IF f = Candidate(e) THEN "verified" ELSE "corrected"

-----------------------------------------------------------------------------
(* The life of a run. *)

NoProcess ==
  /\ phase = "idle"
  /\ scope = {} /\ todo = {} /\ cur = Nobody
  /\ queue = {} /\ running = {}
  /\ answer = [e \in Events |-> None]
  /\ status = [e \in Events |-> None]

Init ==
  /\ topology = [e \in Events |-> Absent]
  /\ verified = [e \in Events |-> Absent]
  /\ vmanifest = [e \in Events |-> Absent]
  /\ world \in Worlds
  /\ settings = Defaults
  /\ NoProcess
  /\ faults = 0

\* `oddsgraph reduce` on other data, or another version of the templates.
WorldChanges ==
  /\ phase = "idle"
  /\ world' \in Worlds \ {world}
  /\ UNCHANGED <<files, phase, config, loop, pool, status, faults>>

StartRun ==
  /\ phase = "idle"
  /\ phase' = "topology"
  /\ settings' \in Modes
  /\ scope' \in (SUBSET Events) \ {{}}
  /\ UNCHANGED <<files, world, cur, pool, status, faults>>
  /\ todo' = Covered'

ProcessEnds ==
  /\ phase' = "idle"
  /\ scope' = {} /\ todo' = {} /\ cur' = Nobody
  /\ queue' = {} /\ running' = {}
  /\ answer' = [e \in Events |-> None]
  /\ status' = [e \in Events |-> None]
  /\ settings' = Defaults

Fault(kind) ==
  /\ kind \in FaultKinds
  /\ faults < MaxFaults
  /\ faults' = faults + 1

-----------------------------------------------------------------------------
(* The templates' topology is written before anything else. *)

SaveTopology(e) ==
  /\ phase = "topology" /\ e \in todo
  /\ topology' = [topology EXCEPT ![e] = Topology[world][scope][e]]
  /\ todo' = todo \ {e}
  /\ UNCHANGED <<verified, vmanifest, world, phase, config, cur, pool, status, faults>>

TopologySaved == phase = "topology" /\ todo = {}

\* The residual path plans its chunks, then verification starts if it is on;
\* otherwise covered events are done.
BeginVerify ==
  /\ TopologySaved
  /\ IF settings.verify /\ Covered # {}
     THEN phase' = "scan" /\ todo' = Covered
     ELSE phase' = "residual" /\ todo' = {}
  /\ UNCHANGED <<files, world, config, cur, pool, status, faults>>

\* The run ends inside the residual path, before or after verification, for
\* any of the reasons of ResidualInfer.
ResidualAborts ==
  /\ TopologySaved \/ phase = "residual"
  /\ ProcessEnds
  /\ UNCHANGED <<files, world, faults>>

-----------------------------------------------------------------------------
(* Verification: planning. *)

Unplanned(e) == phase = "scan" /\ e \in todo

ReuseVerified(e) ==
  /\ Unplanned(e) /\ Reusable(e)
  /\ verified[e] # Torn
  /\ status' = [status EXCEPT ![e] = {vmanifest[e].status}]
  /\ todo' = todo \ {e}
  /\ UNCHANGED <<files, world, phase, config, cur, pool, faults>>

\* _load_fragment raises on a truncated file.
AbortOnTornVerified(e) ==
  /\ Unplanned(e) /\ Reusable(e)
  /\ verified[e] = Torn
  /\ ProcessEnds
  /\ UNCHANGED <<files, world, faults>>

SubmitVerify(e) ==
  /\ Unplanned(e) /\ ~Reusable(e)
  /\ queue' = queue \cup {e}
  /\ todo' = todo \ {e}
  /\ UNCHANGED <<files, world, phase, config, cur, running, answer, status, faults>>

VerifyPlanned == phase = "scan" /\ todo = {}

OpenPool ==
  /\ VerifyPlanned
  /\ phase' = "pool"
  /\ UNCHANGED <<files, world, config, loop, pool, status, faults>>

LlmUnavailable ==
  /\ VerifyPlanned /\ queue # {}
  /\ Fault("llm_down")
  /\ ProcessEnds
  /\ UNCHANGED <<files, world>>

-----------------------------------------------------------------------------
(* Verification: the workers only answer, the main thread writes. *)

TakeTask(e) ==
  /\ phase = "pool" /\ e \in queue
  /\ Cardinality(running) < Concurrency
  /\ queue' = queue \ {e}
  /\ running' = running \cup {e}
  /\ UNCHANGED <<files, world, phase, config, loop, answer, status, faults>>

TaskAnswers(e, f) ==
  /\ e \in running
  /\ answer' = [answer EXCEPT ![e] = {f}]
  /\ running' = running \ {e}
  /\ UNCHANGED <<files, world, phase, config, loop, queue, status, faults>>

TaskRaises(e) ==
  /\ e \in running
  /\ Fault("task")
  /\ answer' = [answer EXCEPT ![e] = Failure]
  /\ running' = running \ {e}
  /\ UNCHANGED <<files, world, phase, config, loop, queue, status>>

Handled(e) == phase = "pool" /\ cur = Nobody /\ answer[e] # None

SaveVerified(e, f) ==
  /\ Handled(e) /\ answer[e] = {f} /\ answer[e] # Failure
  /\ verified' = [verified EXCEPT ![e] = [topology |-> f, of |-> Candidate(e)]]
  /\ status' = [status EXCEPT ![e] = {Label(e, f)}]
  /\ cur' = {e}
  /\ UNCHANGED <<topology, vmanifest, world, phase, config, todo, pool, faults>>

\* Slip: the fingerprint is that of the answer.
SaveVerifyManifestOfAnswer(e, f) ==
  /\ cur = {e} /\ answer[e] = {f} /\ answer[e] # Failure
  /\ vmanifest' = [vmanifest EXCEPT ![e] = [fingerprint |-> f, status |-> Label(e, f)]]
  /\ answer' = [answer EXCEPT ![e] = None]
  /\ cur' = Nobody
  /\ UNCHANGED <<topology, verified, world, phase, config, todo, queue, running, status, faults>>

SaveVerifyManifest(e, f) ==
  /\ cur = {e} /\ answer[e] = {f} /\ answer[e] # Failure
  /\ vmanifest' = [vmanifest EXCEPT ![e] =
                     [fingerprint |-> Candidate(e), status |-> Label(e, f)]]
  /\ answer' = [answer EXCEPT ![e] = None]
  /\ cur' = Nobody
  /\ UNCHANGED <<topology, verified, world, phase, config, todo, queue, running, status, faults>>

\* "Drop stale verified artifacts so build cannot prefer them."
DropVerified(e) ==
  /\ Handled(e) /\ answer[e] = Failure
  /\ status' = [status EXCEPT ![e] = {"deterministic"}]
  /\ verified' = [verified EXCEPT ![e] = Absent]
  /\ cur' = {e}
  /\ UNCHANGED <<topology, vmanifest, world, phase, config, todo, pool, faults>>

\* Slip: the manifest is forgotten.
DropVerifiedOnly(e) ==
  /\ cur = {e} /\ answer[e] = Failure
  /\ answer' = [answer EXCEPT ![e] = None]
  /\ cur' = Nobody
  /\ UNCHANGED <<files, world, phase, config, todo, queue, running, status, faults>>

DropVerifyManifest(e) ==
  /\ cur = {e} /\ answer[e] = Failure
  /\ vmanifest' = [vmanifest EXCEPT ![e] = Absent]
  /\ answer' = [answer EXCEPT ![e] = None]
  /\ cur' = Nobody
  /\ UNCHANGED <<topology, verified, world, phase, config, todo, queue, running, status, faults>>

\* Slip: the last finished futures are not looked at.
ClosePoolEarly ==
  /\ phase = "pool" /\ cur = Nobody
  /\ queue = {} /\ running = {}
  /\ phase' = "residual"
  /\ UNCHANGED <<files, world, config, loop, pool, status, faults>>

ClosePool ==
  /\ phase = "pool" /\ cur = Nobody
  /\ queue = {} /\ running = {}
  /\ \A e \in Events : answer[e] = None
  /\ phase' = "residual"
  /\ UNCHANGED <<files, world, config, loop, pool, status, faults>>

\* The residual path finishes, the report is written.
FinishRun ==
  /\ phase = "residual"
  /\ ProcessEnds
  /\ UNCHANGED <<files, world, faults>>

-----------------------------------------------------------------------------
(* The process is killed. *)

Kill ==
  /\ phase # "idle"
  /\ Fault("kill")
  /\ ProcessEnds
  /\ UNCHANGED <<files, world>>

KillTearsTopology(e) ==
  /\ phase = "topology" /\ e \in todo
  /\ Fault("tear")
  /\ topology' = [topology EXCEPT ![e] = Torn]
  /\ ProcessEnds
  /\ UNCHANGED <<verified, vmanifest, world>>

KillTearsVerified(e) ==
  /\ Handled(e) /\ answer[e] # Failure
  /\ Fault("tear")
  /\ verified' = [verified EXCEPT ![e] = Torn]
  /\ ProcessEnds
  /\ UNCHANGED <<topology, vmanifest, world>>

KillTearsManifest(e) ==
  /\ cur = {e} /\ answer[e] # Failure
  /\ Fault("tear")
  /\ vmanifest' = [vmanifest EXCEPT ![e] = Torn]
  /\ ProcessEnds
  /\ UNCHANGED <<topology, verified, world>>

-----------------------------------------------------------------------------
Verify(e) ==
  \/ ReuseVerified(e) \/ AbortOnTornVerified(e) \/ SubmitVerify(e)
  \/ TakeTask(e)
  \/ \E f \in Fragments :
       TaskAnswers(e, f) \/ SaveVerified(e, f) \/ SaveVerifyManifest(e, f)
  \/ DropVerified(e) \/ DropVerifyManifest(e)

\* What the code does once it has been started and nothing fails.
Progress ==
  \/ \E e \in Events : SaveTopology(e) \/ Verify(e)
  \/ BeginVerify
  \/ OpenPool \/ ClosePool
  \/ FinishRun

Faulty ==
  \/ ResidualAborts \/ LlmUnavailable \/ Kill
  \/ \E e \in Events :
       \/ TaskRaises(e)
       \/ KillTearsTopology(e) \/ KillTearsVerified(e) \/ KillTearsManifest(e)

Next == WorldChanges \/ StartRun \/ Progress \/ Faulty

Spec == Init /\ [][Next]_vars

\* A started run keeps running: the main thread handles what the workers
\* answer, and a worker's LLM call returns or raises.
FairSpec == Spec /\ WF_vars(Progress)

-----------------------------------------------------------------------------
VerifyStatus == {{"verified"}, {"corrected"}}

\* The files hold what infer.py writes, or a truncation of it.
TypeOK ==
  /\ topology \in [Events -> Fragments \cup NoFile]
  /\ verified \in [Events -> Record \cup NoFile]
  /\ vmanifest \in [Events -> Manifest \cup NoFile]
  /\ world \in Worlds
  /\ phase \in {"idle", "topology", "scan", "pool", "residual"}
  /\ settings \in Modes \cup {Defaults}
  /\ scope \in SUBSET Events /\ todo \in SUBSET Events
  /\ cur \in {Nobody} \cup {{e} : e \in Events}
  /\ queue \in SUBSET Events /\ running \in SUBSET Events
  /\ answer \in [Events -> Answers \cup {None, Failure}]
  /\ status \in [Events -> VerifyStatus \cup {None, {"deterministic"}}]
  /\ faults \in Nat

Verified == {e \in Events : status[e] \in VerifyStatus}

\* What a run reports as verified or corrected, fresh or reused, is an answer
\* to this run's own candidate, and the label is the right one (infer.py:275,
\* 361-363).
VerifiedAnswersCandidate ==
  \A e \in Verified :
    /\ verified[e] \notin NoFile
    /\ verified[e].of = Candidate(e)
    /\ status[e] = {Label(e, verified[e].topology)}

\* After a failed verification the event has neither of the two files the
\* build would need to prefer it, kills and torn files notwithstanding
\* (infer.py:378-382).
FailedVerificationLeavesNothing ==
  \A e \in Events : status[e] = {"deterministic"} /\ cur # {e} =>
    verified[e] = Absent /\ vmanifest[e] = Absent

\* When verification is over, every covered event of a verifying run has been
\* verified, corrected or given up: no answer is lost between worker and main
\* thread (infer.py:365-389).
EveryAnswerIsHandled ==
  phase = "residual" /\ settings.verify => \A e \in Covered : status[e] # None

(* The inductive invariant behind the safety properties. *)

\* Nothing of a run outlives it in memory; verifications are of covered
\* events, only in the pool phase are answers written.
ProcessShape ==
  /\ phase = "idle" => scope = {}
  /\ todo \subseteq Covered
  /\ phase \in {"idle", "pool", "residual"} => todo = {}
  /\ queue # {} => phase \in {"scan", "pool"}
  /\ running # {} => phase = "pool"
  /\ queue \cup running \subseteq Covered
  /\ cur # Nobody => phase = "pool"
  /\ \A e \in Events : cur = {e} => answer[e] # None
  /\ \A e \in Events : answer[e] # None => phase = "pool" /\ e \in Covered
  /\ \A e \in Events : status[e] # None => phase \in {"scan", "pool", "residual"}

\* An event is planned, queued, with a worker, answered or done: one of these.
OneStage ==
  \A e \in Events :
    /\ e \in queue \cup running => e \notin todo /\ answer[e] = None /\ status[e] = None
    /\ e \in queue => e \notin running
    /\ (answer[e] # None /\ cur # {e}) => status[e] = None
    /\ (phase = "scan" /\ e \in todo) => status[e] = None

NoneLost ==
  phase \in {"scan", "pool", "residual"} /\ settings.verify =>
    \A e \in Covered :
      e \in todo \cup queue \cup running \/ answer[e] # None \/ status[e] # None

\* The event whose two files the main thread is half way through.
HalfWay ==
  \A e \in Events : cur = {e} =>
    IF answer[e] = Failure
    THEN verified[e] = Absent /\ status[e] = {"deterministic"}
    ELSE \A f \in Fragments : answer[e] = {f} =>
           /\ verified[e] = [topology |-> f, of |-> Candidate(e)]
           /\ status[e] = {Label(e, f)}

\* Processes are not killed between two writes; a write may still be cut short.
Unkilled == "kill" \notin FaultKinds

\* The two files of an event belong together when both can be read.
FilesVouched ==
  \A e \in Events :
    cur # {e} /\ verified[e] \notin NoFile /\ vmanifest[e] \notin NoFile =>
      /\ verified[e].of = vmanifest[e].fingerprint
      /\ vmanifest[e].status =
           IF verified[e].topology = verified[e].of THEN "verified" ELSE "corrected"

\* The inductive invariant: the stage of an event in the running verify pass
\* and its two files fit together; without kills between two writes the manifest
\* always describes the verified file (infer.py:302-391).
IInv ==
  /\ TypeOK
  /\ ProcessShape
  /\ OneStage
  /\ NoneLost
  /\ HalfWay
  /\ FailedVerificationLeavesNothing
  /\ Unkilled => FilesVouched /\ VerifiedAnswersCandidate

(* Refinement: with resume on, and unless a process is killed between the    *)
(* two writes, the two files are one cache entry, keyed by the candidate.     *)

CachedCandidate(e) ==
  IF /\ verified[e] \notin NoFile /\ vmanifest[e] \notin NoFile
     /\ verified[e].of = vmanifest[e].fingerprint
  THEN vmanifest[e].fingerprint ELSE Absent

CachedCandidates == [e \in Events |-> CachedCandidate(e)]
WantedCandidates ==
  [e \in Events |-> IF settings.verify /\ e \in Covered THEN Candidate(e) ELSE Absent]

ServedEvents == {e \in Verified : cur # {e}}

Cache == INSTANCE FragmentCache WITH
  Plans <- Fragments,
  cache <- CachedCandidates, want <- WantedCandidates, served <- ServedEvents

\* The verify pass implements the abstract cache (infer.py:261-284, 377-389).
ImplementsCache == Cache!Spec

(* Liveness. *)

\* Once nothing fails any more, a verifying run leaves files for every event
\* it plans that a later run can reuse, whatever a killed run left behind,
\* unless that is a truncated answer: reading it aborts every later run that
\* would reuse it (infer.py:261-284, 302-391).
FaultFreeVerifyCompletes ==
  \A e \in Events, c \in Fragments :
    (/\ Unplanned(e) /\ Candidate(e) = c /\ faults = MaxFaults
     /\ \A x \in Events : verified[x] # Torn)
      ~> (verified[e] # Absent /\ vmanifest[e] \notin NoFile /\ vmanifest[e].fingerprint = c)
=============================================================================
