------------------------- MODULE CoveredInfer_proofs -------------------------
(***************************************************************************)
(* Proofs about CoveredInfer, for any events, fragments, templates and     *)
(* concurrency, and any number of faults.                                  *)
(***************************************************************************)
EXTENDS CoveredInfer, TLAPS

-----------------------------------------------------------------------------
\* The candidates of a run do not change while it runs.
LEMMA Frame ==
  ASSUME UNCHANGED <<world, config>>
  PROVE  /\ Covered' = Covered
         /\ \A x : Candidate(x)' = Candidate(x)
         /\ \A x, y : Label(x, y)' = Label(x, y)
<1>1. UNCHANGED <<world, settings, scope>>
  BY DEF config
<1>2. Covered' = Covered
  BY <1>1 DEF Covered
<1>3. \A x : Candidate(x)' = Candidate(x)
  BY <1>1, <1>2 DEF Candidate
<1> QED BY <1>2, <1>3 DEF Label

\* A covered event has a candidate: recognition looks at its own markets only.
LEMMA CandidateExists ==
  ASSUME TypeOK, NEW e \in Covered
  PROVE  e \in Events /\ Candidate(e) \in Fragments
<1>1. /\ Covered \subseteq scope /\ scope \in SUBSET Events /\ e \in Events
      /\ Covered \in SUBSET Events /\ world \in Worlds
      /\ Topology[world][scope][e] # Uncovered
  BY DEF Covered, TypeOK
<1>2. Topology[world][Covered][e] # Uncovered
  BY <1>1, TopologyAssumption
<1>3. Topology[world][Covered][e] \in Fragments \cup {Uncovered}
  BY <1>1, TopologyAssumption
<1> QED BY <1>1, <1>2, <1>3 DEF Candidate

\* Every answer gets one of the two labels.
LEMMA LabelType ==
  ASSUME NEW e, NEW f PROVE Label(e, f) \in {"verified", "corrected"}
BY DEF Label

\* Topology files say nothing about verification.
LEMMA SaveTopologyStep ==
  ASSUME IInv, NEW e \in Events, SaveTopology(e) PROVE IInv'
<1> USE DEF files, config, loop, pool
<1>0. /\ Covered' = Covered
      /\ \A x : Candidate(x)' = Candidate(x)
      /\ \A x, y : Label(x, y)' = Label(x, y)
  BY Frame DEF SaveTopology
<1>1. TypeOK'
  <2>1. e \in Covered /\ e \in scope /\ scope \in SUBSET Events /\ world \in Worlds
    BY DEF IInv, TypeOK, ProcessShape, SaveTopology, Covered
  <2>2. Topology[world][scope][e] \in Fragments
    BY <2>1, TopologyAssumption DEF Covered
  <2> QED BY <2>1, <2>2 DEF IInv, SaveTopology, TypeOK
<1>2. ProcessShape'
  BY <1>0, MarkerAssumption DEF IInv, SaveTopology, TypeOK, ProcessShape, None, Nobody
<1>3. OneStage'
  BY <1>0, MarkerAssumption DEF IInv, SaveTopology, TypeOK, OneStage, ProcessShape, None, Nobody
<1>4. NoneLost'
  BY <1>0, MarkerAssumption DEF IInv, SaveTopology, TypeOK, NoneLost, ProcessShape, None, Nobody
<1>5. HalfWay'
  BY <1>0, MarkerAssumption DEF IInv, SaveTopology, TypeOK, HalfWay, ProcessShape, None, Nobody, Failure
<1>6. FailedVerificationLeavesNothing'
  BY <1>0, MarkerAssumption DEF IInv, SaveTopology, TypeOK, FailedVerificationLeavesNothing, OneStage, HalfWay, ProcessShape, None, Nobody
<1>7. ASSUME Unkilled PROVE FilesVouched'
  BY <1>0, <1>7, MarkerAssumption DEF IInv, SaveTopology, TypeOK, FilesVouched, HalfWay, None, Nobody, NoFile
<1>8. ASSUME Unkilled PROVE VerifiedAnswersCandidate'
  BY <1>0, <1>7, <1>8, MarkerAssumption DEF IInv, SaveTopology, TypeOK, VerifiedAnswersCandidate, FilesVouched, Verified, VerifyStatus, OneStage, HalfWay, NoFile, None, Nobody
<1> QED BY <1>1, <1>2, <1>3, <1>4, <1>5, <1>6, <1>7, <1>8 DEF IInv, Unkilled

\* Verification starts from all the covered events.
LEMMA BeginVerifyStep ==
  ASSUME IInv, BeginVerify PROVE IInv'
<1> USE DEF files, config, loop, pool
<1>0. /\ Covered' = Covered
      /\ \A x : Candidate(x)' = Candidate(x)
      /\ \A x, y : Label(x, y)' = Label(x, y)
  BY Frame DEF BeginVerify, TopologySaved
<1>1. TypeOK'
  <2>1. Covered \in SUBSET Events
    BY DEF IInv, TypeOK, Covered
  <2> QED BY <2>1 DEF IInv, BeginVerify, TypeOK
<1>2. ProcessShape'
  BY <1>0, MarkerAssumption DEF IInv, BeginVerify, TopologySaved, TypeOK, ProcessShape, None, Nobody
<1>3. OneStage'
  BY <1>0, MarkerAssumption DEF IInv, BeginVerify, TopologySaved, TypeOK, OneStage, ProcessShape, None, Nobody
<1>4. NoneLost'
  BY <1>0, MarkerAssumption DEF IInv, BeginVerify, TopologySaved, TypeOK, NoneLost, ProcessShape, None, Nobody
<1>5. HalfWay'
  BY <1>0, MarkerAssumption DEF IInv, BeginVerify, TopologySaved, TypeOK, HalfWay, ProcessShape, None, Nobody, Failure
<1>6. FailedVerificationLeavesNothing'
  BY <1>0, MarkerAssumption DEF IInv, BeginVerify, TopologySaved, TypeOK, FailedVerificationLeavesNothing, OneStage, HalfWay, ProcessShape, None, Nobody
<1>7. ASSUME Unkilled PROVE FilesVouched'
  BY <1>0, <1>7, MarkerAssumption DEF IInv, BeginVerify, TopologySaved, TypeOK, FilesVouched, HalfWay, None, Nobody, NoFile
<1>8. ASSUME Unkilled PROVE VerifiedAnswersCandidate'
  BY <1>0, <1>7, <1>8, MarkerAssumption DEF IInv, BeginVerify, TopologySaved, TypeOK, VerifiedAnswersCandidate, FilesVouched, Verified, VerifyStatus, OneStage, HalfWay, NoFile, None, Nobody
<1> QED BY <1>1, <1>2, <1>3, <1>4, <1>5, <1>6, <1>7, <1>8 DEF IInv, Unkilled

\* A reused event's manifest is of its candidate.
LEMMA ReuseStep ==
  ASSUME IInv, NEW e \in Events, ReuseVerified(e) PROVE IInv'
<1> USE DEF files, config, loop, pool
<1>0. /\ Covered' = Covered
      /\ \A x : Candidate(x)' = Candidate(x)
      /\ \A x, y : Label(x, y)' = Label(x, y)
  BY Frame DEF ReuseVerified, Unplanned, Reusable
<1>a. /\ e \in Covered /\ phase = "scan" /\ cur # {e} /\ vmanifest[e] \in Manifest /\ verified[e] \in Record
      /\ status' = [status EXCEPT ![e] = {vmanifest[e].status}]
  BY DEF IInv, TypeOK, ProcessShape, ReuseVerified, Unplanned, Reusable, NoFile, Nobody
<1>b. vmanifest[e].status \in {"verified", "corrected"}
  BY <1>a DEF Manifest
<1>c. {vmanifest[e].status} \in VerifyStatus
  BY <1>b DEF VerifyStatus
<1>d. status \in [Events -> VerifyStatus \cup {None, {"deterministic"}}] /\ status'[e] = {vmanifest[e].status}
  BY <1>a DEF IInv, TypeOK
<1>e. \A x \in Events : x # e => status'[x] = status[x]
  BY <1>a DEF IInv, TypeOK
<1>f. status'[e] # None /\ status'[e] # {"deterministic"}
  BY <1>b, <1>d DEF None
<1>1. TypeOK'
  BY <1>a, <1>c, <1>d DEF IInv, ReuseVerified, Unplanned, TypeOK
<1>2. ProcessShape'
  BY <1>0, MarkerAssumption DEF IInv, ReuseVerified, Unplanned, Reusable, TypeOK, ProcessShape, None, Nobody
<1>3. OneStage'
  BY <1>0, MarkerAssumption DEF IInv, ReuseVerified, Unplanned, Reusable, TypeOK, OneStage, ProcessShape, None, Nobody
<1>4. NoneLost'
  BY <1>0, <1>e, <1>f DEF IInv, ReuseVerified, TypeOK, NoneLost, Covered
<1>5. HalfWay'
  BY <1>0, MarkerAssumption DEF IInv, ReuseVerified, Unplanned, Reusable, TypeOK, HalfWay, ProcessShape, None, Nobody, Failure
<1>6. FailedVerificationLeavesNothing'
  BY <1>e, <1>f DEF IInv, ReuseVerified, FailedVerificationLeavesNothing
<1>7. ASSUME Unkilled PROVE FilesVouched'
  BY <1>0, <1>7, MarkerAssumption DEF IInv, ReuseVerified, Unplanned, Reusable, TypeOK, FilesVouched, HalfWay, None, Nobody, NoFile
<1>8. ASSUME Unkilled PROVE VerifiedAnswersCandidate'
  <2>1. /\ verified[e] \notin NoFile /\ verified[e].of = Candidate(e)
        /\ vmanifest[e].status = Label(e, verified[e].topology)
    BY <1>a, <1>8, MarkerAssumption DEF IInv, ReuseVerified, Reusable, FilesVouched, Label, NoFile
  <2>2. \A x \in Verified' : x = e \/ x \in Verified
    BY <1>e DEF Verified
  <2>3. UNCHANGED verified
    BY DEF ReuseVerified
  <2>4. ASSUME NEW x \in Verified', x # e
        PROVE  /\ verified'[x] \notin NoFile /\ verified'[x].of = Candidate(x)
               /\ status'[x] = {Label(x, verified'[x].topology)}
    BY <1>e, <1>8, <2>2, <2>3, <2>4 DEF IInv, VerifiedAnswersCandidate, Verified
  <2>5. /\ verified'[e] \notin NoFile /\ verified'[e].of = Candidate(e)
        /\ status'[e] = {Label(e, verified'[e].topology)}
    BY <1>d, <2>1, <2>3
  <2> QED BY <1>0, <2>4, <2>5 DEF VerifiedAnswersCandidate
<1> QED BY <1>1, <1>2, <1>3, <1>4, <1>5, <1>6, <1>7, <1>8 DEF IInv, Unkilled

\* Any other planned event is queued.
LEMMA SubmitStep ==
  ASSUME IInv, NEW e \in Events, SubmitVerify(e) PROVE IInv'
<1> USE DEF files, config, loop, pool
<1>0. /\ Covered' = Covered
      /\ \A x : Candidate(x)' = Candidate(x)
      /\ \A x, y : Label(x, y)' = Label(x, y)
  BY Frame DEF SubmitVerify, Unplanned
<1>1. TypeOK'
  BY <1>0, MarkerAssumption DEF IInv, SubmitVerify, Unplanned, TypeOK, VerifyStatus, Answers, None, Failure, Nobody, NoFile
<1>2. ProcessShape'
  BY <1>0, MarkerAssumption DEF IInv, SubmitVerify, Unplanned, TypeOK, ProcessShape, None, Nobody
<1>3. OneStage'
  BY <1>0, MarkerAssumption DEF IInv, SubmitVerify, Unplanned, TypeOK, OneStage, ProcessShape, None, Nobody
<1>4. NoneLost'
  BY <1>0, MarkerAssumption DEF IInv, SubmitVerify, Unplanned, TypeOK, NoneLost, ProcessShape, None, Nobody
<1>5. HalfWay'
  BY <1>0, MarkerAssumption DEF IInv, SubmitVerify, Unplanned, TypeOK, HalfWay, ProcessShape, None, Nobody, Failure
<1>6. FailedVerificationLeavesNothing'
  BY <1>0, MarkerAssumption DEF IInv, SubmitVerify, Unplanned, TypeOK, FailedVerificationLeavesNothing, OneStage, HalfWay, ProcessShape, None, Nobody
<1>7. ASSUME Unkilled PROVE FilesVouched'
  BY <1>0, <1>7, MarkerAssumption DEF IInv, SubmitVerify, Unplanned, TypeOK, FilesVouched, HalfWay, None, Nobody, NoFile
<1>8. ASSUME Unkilled PROVE VerifiedAnswersCandidate'
  BY <1>0, <1>7, <1>8, MarkerAssumption DEF IInv, SubmitVerify, Unplanned, TypeOK, VerifiedAnswersCandidate, FilesVouched, Verified, VerifyStatus, OneStage, HalfWay, NoFile, None, Nobody
<1> QED BY <1>1, <1>2, <1>3, <1>4, <1>5, <1>6, <1>7, <1>8 DEF IInv, Unkilled

\* The pool takes over when all is planned, and is left when all is handled.
LEMMA PoolStep ==
  ASSUME IInv, OpenPool \/ ClosePool PROVE IInv'
<1> USE DEF files, config, loop, pool
<1>0. /\ Covered' = Covered
      /\ \A x : Candidate(x)' = Candidate(x)
      /\ \A x, y : Label(x, y)' = Label(x, y)
  BY Frame DEF OpenPool, ClosePool, VerifyPlanned
<1>1. TypeOK'
  BY <1>0, MarkerAssumption DEF IInv, OpenPool, ClosePool, VerifyPlanned, TypeOK, VerifyStatus, Answers, None, Failure, Nobody, NoFile
<1>2. ProcessShape'
  BY <1>0, MarkerAssumption DEF IInv, OpenPool, ClosePool, VerifyPlanned, TypeOK, ProcessShape, None, Nobody
<1>3. OneStage'
  BY <1>0, MarkerAssumption DEF IInv, OpenPool, ClosePool, VerifyPlanned, TypeOK, OneStage, ProcessShape, None, Nobody
<1>4. NoneLost'
  BY <1>0, MarkerAssumption DEF IInv, OpenPool, ClosePool, VerifyPlanned, TypeOK, NoneLost, ProcessShape, None, Nobody
<1>5. HalfWay'
  BY <1>0, MarkerAssumption DEF IInv, OpenPool, ClosePool, VerifyPlanned, TypeOK, HalfWay, ProcessShape, None, Nobody, Failure
<1>6. FailedVerificationLeavesNothing'
  BY <1>0, MarkerAssumption DEF IInv, OpenPool, ClosePool, VerifyPlanned, TypeOK, FailedVerificationLeavesNothing, OneStage, HalfWay, ProcessShape, None, Nobody
<1>7. ASSUME Unkilled PROVE FilesVouched'
  BY <1>0, <1>7, MarkerAssumption DEF IInv, OpenPool, ClosePool, VerifyPlanned, TypeOK, FilesVouched, HalfWay, None, Nobody, NoFile
<1>8. ASSUME Unkilled PROVE VerifiedAnswersCandidate'
  BY <1>0, <1>7, <1>8, MarkerAssumption DEF IInv, OpenPool, ClosePool, VerifyPlanned, TypeOK, VerifiedAnswersCandidate, FilesVouched, Verified, VerifyStatus, OneStage, HalfWay, NoFile, None, Nobody
<1> QED BY <1>1, <1>2, <1>3, <1>4, <1>5, <1>6, <1>7, <1>8 DEF IInv, Unkilled

\* A worker takes a task.
LEMMA TakeStep ==
  ASSUME IInv, NEW e \in Events, TakeTask(e) PROVE IInv'
<1> USE DEF files, config, loop, pool
<1>0. /\ Covered' = Covered
      /\ \A x : Candidate(x)' = Candidate(x)
      /\ \A x, y : Label(x, y)' = Label(x, y)
  BY Frame DEF TakeTask
<1>1. TypeOK'
  BY <1>0, MarkerAssumption DEF IInv, TakeTask, TypeOK, VerifyStatus, Answers, None, Failure, Nobody, NoFile
<1>2. ProcessShape'
  BY <1>0, MarkerAssumption DEF IInv, TakeTask, TypeOK, ProcessShape, None, Nobody
<1>3. OneStage'
  BY <1>0, MarkerAssumption DEF IInv, TakeTask, TypeOK, OneStage, ProcessShape, None, Nobody
<1>4. NoneLost'
  BY <1>0, MarkerAssumption DEF IInv, TakeTask, TypeOK, NoneLost, ProcessShape, None, Nobody
<1>5. HalfWay'
  BY <1>0, MarkerAssumption DEF IInv, TakeTask, TypeOK, HalfWay, ProcessShape, None, Nobody, Failure
<1>6. FailedVerificationLeavesNothing'
  BY <1>0, MarkerAssumption DEF IInv, TakeTask, TypeOK, FailedVerificationLeavesNothing, OneStage, HalfWay, ProcessShape, None, Nobody
<1>7. ASSUME Unkilled PROVE FilesVouched'
  BY <1>0, <1>7, MarkerAssumption DEF IInv, TakeTask, TypeOK, FilesVouched, HalfWay, None, Nobody, NoFile
<1>8. ASSUME Unkilled PROVE VerifiedAnswersCandidate'
  BY <1>0, <1>7, <1>8, MarkerAssumption DEF IInv, TakeTask, TypeOK, VerifiedAnswersCandidate, FilesVouched, Verified, VerifyStatus, OneStage, HalfWay, NoFile, None, Nobody
<1> QED BY <1>1, <1>2, <1>3, <1>4, <1>5, <1>6, <1>7, <1>8 DEF IInv, Unkilled

\* A worker answers or raises.
LEMMA AnswerStep ==
  ASSUME IInv, NEW e \in Events, TaskRaises(e) \/ \E f \in Fragments : TaskAnswers(e, f) PROVE IInv'
<1> USE DEF files, config, loop, pool
<1>0. /\ Covered' = Covered
      /\ \A x : Candidate(x)' = Candidate(x)
      /\ \A x, y : Label(x, y)' = Label(x, y)
  BY Frame DEF TaskAnswers, TaskRaises, Fault
<1>a. /\ e \in running /\ e \in Covered /\ phase = "pool" /\ e \notin queue /\ cur # {e}
      /\ status[e] = None /\ answer \in [Events -> Answers \cup {None, Failure}]
  BY DEF IInv, TypeOK, ProcessShape, OneStage, TaskAnswers, TaskRaises
<1>b. /\ running' = running \ {e}
      /\ UNCHANGED <<files, world, phase, config, loop, queue, status>>
      /\ \E a \in Answers \cup {Failure} : a # None /\ answer' = [answer EXCEPT ![e] = a]
  BY DEF TaskAnswers, TaskRaises, Answers, None, Failure
<1>c. answer'[e] # None /\ \A x \in Events : x # e => answer'[x] = answer[x]
  BY <1>a, <1>b
<1>1. TypeOK'
  <2>1. faults' \in Nat
    BY DEF IInv, TypeOK, TaskAnswers, TaskRaises, Fault
  <2> QED BY <1>a, <1>b, <2>1 DEF IInv, TypeOK
<1>2. ProcessShape'
  BY <1>0, <1>a, <1>b, <1>c DEF IInv, TypeOK, ProcessShape
<1>3. OneStage'
  BY <1>0, <1>a, <1>b, <1>c DEF IInv, TypeOK, OneStage
<1>4. NoneLost'
  BY <1>0, <1>a, <1>b, <1>c DEF IInv, NoneLost, TypeOK, Covered
<1>5. HalfWay'
  BY <1>0, <1>a, <1>b, <1>c DEF IInv, HalfWay
<1>6. FailedVerificationLeavesNothing'
  BY <1>b DEF IInv, FailedVerificationLeavesNothing
<1>7. ASSUME Unkilled PROVE FilesVouched'
  BY <1>7, <1>b DEF IInv, FilesVouched
<1>8. ASSUME Unkilled PROVE VerifiedAnswersCandidate'
  BY <1>0, <1>8, <1>b DEF IInv, VerifiedAnswersCandidate, Verified
<1> QED BY <1>1, <1>2, <1>3, <1>4, <1>5, <1>6, <1>7, <1>8 DEF IInv, Unkilled

\* The verified file is written first.
LEMMA SaveStep ==
  ASSUME IInv, NEW e \in Events, NEW f \in Fragments, SaveVerified(e, f) PROVE IInv'
<1> USE DEF files, config, loop, pool
<1>0. /\ Covered' = Covered
      /\ \A x : Candidate(x)' = Candidate(x)
      /\ \A x, y : Label(x, y)' = Label(x, y)
  BY Frame DEF SaveVerified, Handled
<1>a. /\ e \in Covered /\ phase = "pool" /\ cur = Nobody /\ answer[e] = {f} /\ answer[e] # Failure
      /\ status[e] = None /\ e \notin queue \cup running
  BY DEF IInv, TypeOK, ProcessShape, OneStage, SaveVerified, Handled, None, Nobody
<1>b. Candidate(e) \in Fragments
  BY <1>a, CandidateExists DEF IInv
<1>c. [topology |-> f, of |-> Candidate(e)] \in Record
  BY <1>b DEF Record
<1>d. {Label(e, f)} \in VerifyStatus /\ {Label(e, f)} # None /\ {Label(e, f)} # {"deterministic"}
  BY LabelType DEF VerifyStatus, None
<1>e. /\ verified' = [verified EXCEPT ![e] = [topology |-> f, of |-> Candidate(e)]]
      /\ status' = [status EXCEPT ![e] = {Label(e, f)}]
      /\ cur' = {e}
      /\ UNCHANGED <<topology, vmanifest, world, phase, config, todo, pool, faults>>
      /\ verified \in [Events -> Record \cup NoFile]
      /\ status \in [Events -> VerifyStatus \cup {None, {"deterministic"}}]
  BY DEF SaveVerified, IInv, TypeOK
<1>f. /\ verified'[e] = [topology |-> f, of |-> Candidate(e)] /\ status'[e] = {Label(e, f)}
      /\ \A x \in Events : x # e => verified'[x] = verified[x] /\ status'[x] = status[x]
      /\ \A x \in Events : cur' = {x} <=> x = e
  BY <1>e
<1>g. [topology |-> f, of |-> Candidate(e)] # Absent /\ [topology |-> f, of |-> Candidate(e)] # Torn
  BY <1>c, MarkerAssumption
<1>1. TypeOK'
  BY <1>c, <1>d, <1>e DEF IInv, TypeOK
<1>2. ProcessShape'
  BY <1>0, <1>a, <1>d, <1>e, <1>f DEF IInv, TypeOK, ProcessShape, None
<1>3. OneStage'
  BY <1>0, <1>a, <1>e, <1>f DEF IInv, OneStage, ProcessShape, Nobody
<1>4. NoneLost'
  BY <1>0, <1>d, <1>e, <1>f DEF IInv, NoneLost, TypeOK, Covered
<1>5. HalfWay'
  BY <1>0, <1>a, <1>e, <1>f DEF IInv, HalfWay
<1>6. FailedVerificationLeavesNothing'
  BY <1>a, <1>d, <1>e, <1>f DEF IInv, FailedVerificationLeavesNothing, Nobody
<1>7. ASSUME Unkilled PROVE FilesVouched'
  BY <1>a, <1>e, <1>f, <1>g, <1>7 DEF IInv, FilesVouched, Nobody
<1>8. ASSUME Unkilled PROVE VerifiedAnswersCandidate'
  <2>1. /\ verified'[e] \notin NoFile /\ verified'[e].of = Candidate(e)
        /\ status'[e] = {Label(e, verified'[e].topology)}
    BY <1>f, <1>g DEF NoFile
  <2>2. \A x \in Verified' : x \in Events /\ (x = e \/ x \in Verified)
    BY <1>f DEF Verified
  <2>3. ASSUME NEW x \in Verified', x # e
        PROVE  /\ verified'[x] \notin NoFile /\ verified'[x].of = Candidate(x)
               /\ status'[x] = {Label(x, verified'[x].topology)}
    BY <1>f, <1>8, <2>2, <2>3 DEF IInv, VerifiedAnswersCandidate
  <2> QED BY <1>0, <2>1, <2>3 DEF VerifiedAnswersCandidate
<1> QED BY <1>1, <1>2, <1>3, <1>4, <1>5, <1>6, <1>7, <1>8 DEF IInv, Unkilled

\* Then its manifest.
LEMMA SaveManifestStep ==
  ASSUME IInv, NEW e \in Events, NEW f \in Fragments, SaveVerifyManifest(e, f) PROVE IInv'
<1> USE DEF files, config, loop, pool
<1>0. /\ Covered' = Covered
      /\ \A x : Candidate(x)' = Candidate(x)
      /\ \A x, y : Label(x, y)' = Label(x, y)
  BY Frame DEF SaveVerifyManifest
<1>a. /\ cur = {e} /\ answer[e] = {f} /\ answer[e] # Failure /\ answer[e] # None
      /\ e \in Covered /\ phase = "pool" /\ e \notin queue \cup running
      /\ verified[e] = [topology |-> f, of |-> Candidate(e)] /\ status[e] = {Label(e, f)}
  BY DEF IInv, TypeOK, ProcessShape, OneStage, HalfWay, SaveVerifyManifest
<1>b. Candidate(e) \in Fragments
  BY <1>a, CandidateExists DEF IInv
<1>c. [fingerprint |-> Candidate(e), status |-> Label(e, f)] \in Manifest
  BY <1>b, LabelType DEF Manifest
<1>d. status[e] # None /\ status[e] # {"deterministic"}
  BY <1>a, LabelType DEF None
<1>e. /\ vmanifest' = [vmanifest EXCEPT ![e] = [fingerprint |-> Candidate(e), status |-> Label(e, f)]]
      /\ answer' = [answer EXCEPT ![e] = None]
      /\ cur' = Nobody
      /\ UNCHANGED <<topology, verified, world, phase, config, todo, queue, running, status, faults>>
      /\ vmanifest \in [Events -> Manifest \cup NoFile]
      /\ answer \in [Events -> Answers \cup {None, Failure}]
  BY DEF SaveVerifyManifest, IInv, TypeOK
<1>f. /\ vmanifest'[e] = [fingerprint |-> Candidate(e), status |-> Label(e, f)] /\ answer'[e] = None
      /\ \A x \in Events : x # e => vmanifest'[x] = vmanifest[x] /\ answer'[x] = answer[x]
      /\ \A x \in Events : cur' # {x}
      /\ \A x \in Events : x # e => cur # {x}
  BY <1>a, <1>e DEF Nobody
<1>g. /\ vmanifest'[e] # Absent /\ vmanifest'[e] # Torn
      /\ verified[e] \in Record /\ verified[e] # Absent
  <2>1. verified[e] \in Record
    BY <1>a, <1>b DEF Record
  <2> QED BY <1>c, <1>f, <2>1, MarkerAssumption
<1>1. TypeOK'
  BY <1>c, <1>e DEF IInv, TypeOK
<1>2. ProcessShape'
  BY <1>0, <1>a, <1>e, <1>f DEF IInv, TypeOK, ProcessShape
<1>3. OneStage'
  BY <1>0, <1>a, <1>e, <1>f DEF IInv, OneStage, ProcessShape
<1>4. NoneLost'
  BY <1>0, <1>d, <1>e, <1>f DEF IInv, NoneLost, TypeOK, Covered
<1>5. HalfWay'
  BY <1>f DEF HalfWay
<1>6. FailedVerificationLeavesNothing'
  BY <1>a, <1>d, <1>e, <1>f DEF IInv, FailedVerificationLeavesNothing
<1>7. ASSUME Unkilled PROVE FilesVouched'
  <2>1. ASSUME NEW x \in Events, x # e, verified'[x] \notin NoFile, vmanifest'[x] \notin NoFile
        PROVE  /\ verified'[x].of = vmanifest'[x].fingerprint
               /\ vmanifest'[x].status =
                    IF verified'[x].topology = verified'[x].of THEN "verified" ELSE "corrected"
    BY <1>e, <1>f, <1>7, <2>1 DEF IInv, FilesVouched
  <2>2. /\ verified'[e].of = vmanifest'[e].fingerprint
        /\ vmanifest'[e].status =
             IF verified'[e].topology = verified'[e].of THEN "verified" ELSE "corrected"
    BY <1>a, <1>e, <1>f DEF Label
  <2> QED BY <2>1, <2>2 DEF FilesVouched
<1>8. ASSUME Unkilled PROVE VerifiedAnswersCandidate'
  BY <1>0, <1>e, <1>8, <1>a DEF IInv, VerifiedAnswersCandidate, Verified
<1> QED BY <1>1, <1>2, <1>3, <1>4, <1>5, <1>6, <1>7, <1>8 DEF IInv, Unkilled

\* After a failure the verified file goes first.
LEMMA DropStep ==
  ASSUME IInv, NEW e \in Events, DropVerified(e) PROVE IInv'
<1> USE DEF files, config, loop, pool
<1>0. /\ Covered' = Covered
      /\ \A x : Candidate(x)' = Candidate(x)
      /\ \A x, y : Label(x, y)' = Label(x, y)
  BY Frame DEF DropVerified, Handled
<1>1. TypeOK'
  BY <1>0, MarkerAssumption DEF IInv, DropVerified, Handled, TypeOK, VerifyStatus, Answers, None, Failure, Nobody, NoFile
<1>2. ProcessShape'
  BY <1>0, MarkerAssumption DEF IInv, DropVerified, Handled, TypeOK, ProcessShape, None, Nobody
<1>3. OneStage'
  BY <1>0, MarkerAssumption DEF IInv, DropVerified, Handled, TypeOK, OneStage, ProcessShape, None, Nobody
<1>4. NoneLost'
  BY <1>0, MarkerAssumption DEF IInv, DropVerified, Handled, TypeOK, NoneLost, ProcessShape, None, Nobody
<1>5. HalfWay'
  BY <1>0, MarkerAssumption DEF IInv, DropVerified, Handled, TypeOK, HalfWay, ProcessShape, None, Nobody, Failure
<1>6. FailedVerificationLeavesNothing'
  BY <1>0, MarkerAssumption DEF IInv, DropVerified, Handled, TypeOK, FailedVerificationLeavesNothing, OneStage, HalfWay, ProcessShape, None, Nobody
<1>7. ASSUME Unkilled PROVE FilesVouched'
  BY <1>0, <1>7, MarkerAssumption DEF IInv, DropVerified, Handled, TypeOK, FilesVouched, HalfWay, None, Nobody, NoFile
<1>8. ASSUME Unkilled PROVE VerifiedAnswersCandidate'
  <2>1. /\ status' = [status EXCEPT ![e] = {"deterministic"}]
        /\ verified' = [verified EXCEPT ![e] = Absent]
        /\ status \in [Events -> VerifyStatus \cup {None, {"deterministic"}}]
        /\ verified \in [Events -> Record \cup NoFile]
    BY DEF IInv, TypeOK, DropVerified
  <2>2. status'[e] \notin VerifyStatus
    BY <2>1 DEF VerifyStatus
  <2>3. \A x \in Verified' : x \in Verified /\ verified'[x] = verified[x] /\ status'[x] = status[x]
    BY <2>1, <2>2 DEF Verified
  <2> QED BY <1>0, <1>8, <2>3 DEF IInv, VerifiedAnswersCandidate
<1> QED BY <1>1, <1>2, <1>3, <1>4, <1>5, <1>6, <1>7, <1>8 DEF IInv, Unkilled

\* Then its manifest.
LEMMA DropManifestStep ==
  ASSUME IInv, NEW e \in Events, DropVerifyManifest(e) PROVE IInv'
<1> USE DEF files, config, loop, pool
<1>0. /\ Covered' = Covered
      /\ \A x : Candidate(x)' = Candidate(x)
      /\ \A x, y : Label(x, y)' = Label(x, y)
  BY Frame DEF DropVerifyManifest
<1>a. cur = {e} /\ status[e] = {"deterministic"} /\ e \in Events
  BY DEF IInv, HalfWay, DropVerifyManifest
<1>b. status[e] # None
  BY <1>a DEF None
<1>1. TypeOK'
  BY <1>0, MarkerAssumption DEF IInv, DropVerifyManifest, TypeOK, VerifyStatus, Answers, None, Failure, Nobody, NoFile
<1>2. ProcessShape'
  BY <1>0, MarkerAssumption DEF IInv, DropVerifyManifest, TypeOK, ProcessShape, None, Nobody
<1>3. OneStage'
  BY <1>0, MarkerAssumption DEF IInv, DropVerifyManifest, TypeOK, OneStage, ProcessShape, None, Nobody
<1>4. NoneLost'
  BY <1>0, <1>a, <1>b DEF IInv, DropVerifyManifest, TypeOK, NoneLost, Covered
<1>5. HalfWay'
  BY <1>0, MarkerAssumption DEF IInv, DropVerifyManifest, TypeOK, HalfWay, ProcessShape, None, Nobody, Failure
<1>6. FailedVerificationLeavesNothing'
  BY <1>0, MarkerAssumption DEF IInv, DropVerifyManifest, TypeOK, FailedVerificationLeavesNothing, OneStage, HalfWay, ProcessShape, None, Nobody
<1>7. ASSUME Unkilled PROVE FilesVouched'
  BY <1>0, <1>7, MarkerAssumption DEF IInv, DropVerifyManifest, TypeOK, FilesVouched, HalfWay, None, Nobody, NoFile
<1>8. ASSUME Unkilled PROVE VerifiedAnswersCandidate'
  BY <1>0, <1>7, <1>8, MarkerAssumption DEF IInv, DropVerifyManifest, TypeOK, VerifiedAnswersCandidate, FilesVouched, Verified, VerifyStatus, OneStage, HalfWay, NoFile, None, Nobody
<1> QED BY <1>1, <1>2, <1>3, <1>4, <1>5, <1>6, <1>7, <1>8 DEF IInv, Unkilled

\* The end of a process, however it comes about: files that can still be read
\* are those of before, and of an event whose files were both treated.
LEMMA EndStep ==
  ASSUME IInv, ProcessEnds, UNCHANGED world, faults' \in Nat,
         topology' \in [Events -> Fragments \cup NoFile],
         verified' \in [Events -> Record \cup NoFile],
         vmanifest' \in [Events -> Manifest \cup NoFile],
         Unkilled => \A e \in Events :
           verified'[e] \notin NoFile /\ vmanifest'[e] \notin NoFile =>
             cur # {e} /\ verified'[e] = verified[e] /\ vmanifest'[e] = vmanifest[e]
  PROVE  IInv'
<1>1. /\ scope' = {} /\ todo' = {} /\ cur' = Nobody /\ queue' = {} /\ running' = {} /\ phase' = "idle"
      /\ \A e \in Events : answer'[e] = None /\ status'[e] = None
      /\ \A e \in Events : cur' # {e}
  BY DEF ProcessEnds, Nobody
<1>2. TypeOK'
  BY DEF ProcessEnds, IInv, TypeOK, Nobody, None
<1>3. Covered' = {}
  BY <1>1 DEF Covered
<1>4. ProcessShape' /\ OneStage' /\ NoneLost' /\ HalfWay'
  BY <1>1, <1>3 DEF ProcessShape, OneStage, NoneLost, HalfWay
<1>5. FailedVerificationLeavesNothing'
  BY <1>1 DEF FailedVerificationLeavesNothing, None
<1>6. ASSUME Unkilled PROVE FilesVouched'
  BY <1>6 DEF IInv, FilesVouched, NoFile
<1>7. VerifiedAnswersCandidate'
  BY <1>1 DEF VerifiedAnswersCandidate, Verified, VerifyStatus, None
<1> QED BY <1>2, <1>4, <1>5, <1>6, <1>7 DEF IInv, Unkilled

\* An end that touches no file, of a process that is not killed.
LEMMA QuietEnd ==
  ASSUME IInv, ProcessEnds, UNCHANGED <<world, topology, verified, vmanifest>>, faults' \in Nat,
         Unkilled => cur = Nobody
  PROVE  IInv'
BY EndStep DEF IInv, TypeOK, Nobody

\* A new run has no verification yet; what was on disk stays.
LEMMA StartStep == ASSUME IInv, StartRun PROVE IInv'
<1> USE DEF files, pool
<1>1. /\ phase = "idle" /\ phase' = "topology" /\ settings' \in Modes
      /\ scope' \in SUBSET Events /\ todo' = Covered' /\ Covered' \subseteq scope'
      /\ UNCHANGED <<files, world, cur, pool, status, faults>>
  BY DEF StartRun, Covered
<1>2. TypeOK'
  BY <1>1 DEF IInv, TypeOK
<1>3. /\ queue = {} /\ running = {} /\ cur = Nobody
      /\ \A e \in Events : answer[e] = None /\ status[e] = None /\ cur # {e}
  BY <1>1 DEF IInv, ProcessShape, Nobody
<1>4. ProcessShape' /\ OneStage' /\ NoneLost' /\ HalfWay'
  BY <1>1, <1>3 DEF ProcessShape, OneStage, NoneLost, HalfWay
<1>5. FailedVerificationLeavesNothing' /\ VerifiedAnswersCandidate'
  BY <1>1, <1>3 DEF FailedVerificationLeavesNothing, VerifiedAnswersCandidate, Verified, VerifyStatus, None
<1>6. ASSUME Unkilled PROVE FilesVouched'
  BY <1>1, <1>6 DEF IInv, FilesVouched
<1> QED BY <1>2, <1>4, <1>5, <1>6 DEF IInv, Unkilled

\* Between runs the world may change without touching a file.
LEMMA WorldStep == ASSUME IInv, WorldChanges PROVE IInv'
<1> USE DEF files, loop, pool, config
<1>1. /\ phase = "idle" /\ world' \in Worlds
      /\ UNCHANGED <<files, phase, config, loop, pool, status, faults>>
  BY DEF WorldChanges
<1>2. TypeOK'
  BY <1>1 DEF IInv, TypeOK
<1>3. /\ scope = {} /\ todo = {} /\ queue = {} /\ running = {} /\ cur = Nobody
      /\ \A e \in Events : answer[e] = None /\ status[e] = None /\ cur # {e}
  BY <1>1 DEF IInv, ProcessShape, Nobody
<1>4. Covered' = {}
  BY <1>1, <1>3 DEF Covered
<1>5. ProcessShape' /\ OneStage' /\ NoneLost' /\ HalfWay'
  BY <1>1, <1>3, <1>4 DEF ProcessShape, OneStage, NoneLost, HalfWay
<1>6. FailedVerificationLeavesNothing' /\ VerifiedAnswersCandidate'
  BY <1>1, <1>3 DEF FailedVerificationLeavesNothing, VerifiedAnswersCandidate, Verified, VerifyStatus, None
<1>7. ASSUME Unkilled PROVE FilesVouched'
  BY <1>1, <1>7 DEF IInv, FilesVouched
<1> QED BY <1>2, <1>5, <1>6, <1>7 DEF IInv, Unkilled

\* Nothing changes, nothing is lost.
LEMMA StutterStep == ASSUME IInv, UNCHANGED vars PROVE IInv'
<1>1. UNCHANGED <<world, config>>
  BY DEF vars
<1>2. /\ Covered' = Covered
      /\ \A x : Candidate(x)' = Candidate(x)
      /\ \A x, y : Label(x, y)' = Label(x, y)
  BY <1>1, Frame
<1> USE DEF vars, files, loop, pool, config
<1>3. TypeOK' /\ ProcessShape' /\ OneStage' /\ NoneLost'
  BY <1>2 DEF IInv, TypeOK, ProcessShape, OneStage, NoneLost
<1>4. HalfWay' /\ FailedVerificationLeavesNothing'
  BY <1>2 DEF IInv, HalfWay, FailedVerificationLeavesNothing
<1>5. ASSUME Unkilled PROVE FilesVouched' /\ VerifiedAnswersCandidate'
  BY <1>2, <1>5 DEF IInv, FilesVouched, VerifiedAnswersCandidate, Verified
<1> QED BY <1>3, <1>4, <1>5 DEF IInv, Unkilled

\* A kill between two writes is what Unkilled excludes.
LEMMA KilledNotUnkilled == ASSUME Fault("kill") PROVE ~Unkilled
BY DEF Fault, Unkilled

\* The faults stay a number.
LEMMA FaultType == ASSUME TypeOK, NEW k, Fault(k) PROVE faults' \in Nat
BY DEF Fault, TypeOK

\* Every fault preserves the invariant.
LEMMA FaultyStep == ASSUME IInv, Faulty PROVE IInv'
<1> USE DEF files
<1>0. phase # "pool" => cur = Nobody
  BY DEF IInv, ProcessShape
<1>1. CASE ResidualAborts
  BY <1>0, <1>1, QuietEnd DEF ResidualAborts, TopologySaved, IInv, TypeOK
<1>2. CASE LlmUnavailable
  BY <1>0, <1>2, QuietEnd, FaultType DEF LlmUnavailable, VerifyPlanned, IInv
<1>3. CASE Kill
  BY <1>3, QuietEnd, FaultType, KilledNotUnkilled DEF Kill, IInv
<1>4. ASSUME NEW e \in Events, TaskRaises(e) PROVE IInv'
  BY <1>4, AnswerStep
<1>5. ASSUME NEW e \in Events, KillTearsTopology(e) PROVE IInv'
  <2>1. topology' \in [Events -> Fragments \cup NoFile] /\ cur = Nobody
    BY <1>0, <1>5 DEF KillTearsTopology, IInv, TypeOK, NoFile
  <2>2. /\ ProcessEnds /\ UNCHANGED <<verified, vmanifest, world>> /\ faults' \in Nat
        /\ verified' \in [Events -> Record \cup NoFile]
        /\ vmanifest' \in [Events -> Manifest \cup NoFile]
    BY <1>5, FaultType DEF KillTearsTopology, IInv, TypeOK
  <2>3. \A x \in Events : cur # {x}
    BY <2>1 DEF Nobody
  <2> QED BY <2>1, <2>2, <2>3, EndStep
<1>6. ASSUME NEW e \in Events, KillTearsVerified(e) PROVE IInv'
  <2>1. /\ verified' \in [Events -> Record \cup NoFile] /\ verified'[e] = Torn /\ cur = Nobody
        /\ \A x \in Events : x # e => verified'[x] = verified[x]
    BY <1>6 DEF KillTearsVerified, Handled, IInv, TypeOK, NoFile
  <2>2. /\ ProcessEnds /\ UNCHANGED <<topology, vmanifest, world>> /\ faults' \in Nat
        /\ topology' \in [Events -> Fragments \cup NoFile]
        /\ vmanifest' \in [Events -> Manifest \cup NoFile]
    BY <1>6, FaultType DEF KillTearsVerified, IInv, TypeOK
  <2>3. \A x \in Events : cur # {x}
    BY <2>1 DEF Nobody
  <2>4. \A x \in Events : verified'[x] \notin NoFile => verified'[x] = verified[x]
    BY <2>1 DEF NoFile
  <2> QED BY <2>1, <2>2, <2>3, <2>4, EndStep
<1>7. ASSUME NEW e \in Events, KillTearsManifest(e) PROVE IInv'
  <2>1. /\ vmanifest' \in [Events -> Manifest \cup NoFile] /\ vmanifest'[e] = Torn /\ cur = {e}
        /\ \A x \in Events : x # e => vmanifest'[x] = vmanifest[x]
    BY <1>7 DEF KillTearsManifest, IInv, TypeOK, NoFile
  <2>2. /\ ProcessEnds /\ UNCHANGED <<topology, verified, world>> /\ faults' \in Nat
        /\ topology' \in [Events -> Fragments \cup NoFile]
        /\ verified' \in [Events -> Record \cup NoFile]
    BY <1>7, FaultType DEF KillTearsManifest, IInv, TypeOK
  <2>3. \A x \in Events : vmanifest'[x] \notin NoFile => cur # {x} /\ vmanifest'[x] = vmanifest[x]
    BY <2>1 DEF NoFile
  <2> QED BY <2>1, <2>2, <2>3, EndStep
<1> QED BY <1>1, <1>2, <1>3, <1>4, <1>5, <1>6, <1>7 DEF Faulty

\* So does every step of the code.
LEMMA ProgressStep == ASSUME IInv, Progress PROVE IInv'
<1>0. phase # "pool" => cur = Nobody
  BY DEF IInv, ProcessShape
<1>1. ASSUME NEW e \in Events, SaveTopology(e) PROVE IInv'
  BY <1>1, SaveTopologyStep
<1>2. ASSUME NEW e \in Events, Verify(e) PROVE IInv'
  <2>1. CASE AbortOnTornVerified(e)
    BY <1>0, <2>1, QuietEnd DEF AbortOnTornVerified, Unplanned, IInv, TypeOK, files
  <2> QED BY <1>2, <2>1, ReuseStep, SubmitStep, TakeStep, AnswerStep, SaveStep,
             SaveManifestStep, DropStep, DropManifestStep DEF Verify
<1>3. CASE FinishRun
  BY <1>0, <1>3, QuietEnd DEF FinishRun, IInv, TypeOK, files
<1> QED BY <1>1, <1>2, <1>3, BeginVerifyStep, PoolStep DEF Progress

\* Initially there is no process and no file.
LEMMA InvariantInit == Init => IInv
<1> SUFFICES ASSUME Init PROVE IInv
  OBVIOUS
<1>1. /\ scope = {} /\ todo = {} /\ cur = Nobody /\ queue = {} /\ running = {} /\ phase = "idle"
      /\ \A e \in Events : answer[e] = None /\ status[e] = None /\ cur # {e}
      /\ \A e \in Events : verified[e] = Absent /\ vmanifest[e] = Absent
  BY DEF Init, NoProcess, Nobody
<1>2. TypeOK
  BY DEF Init, NoProcess, TypeOK, NoFile, Nobody, BoundAssumption
<1>3. Covered = {}
  BY <1>1 DEF Covered
<1>4. ProcessShape /\ OneStage /\ NoneLost /\ HalfWay
  BY <1>1, <1>3 DEF ProcessShape, OneStage, NoneLost, HalfWay
<1>5. FailedVerificationLeavesNothing /\ VerifiedAnswersCandidate
  BY <1>1 DEF FailedVerificationLeavesNothing, VerifiedAnswersCandidate, Verified, VerifyStatus, None
<1>6. FilesVouched
  BY <1>1, MarkerAssumption DEF FilesVouched, NoFile
<1> QED BY <1>2, <1>4, <1>5, <1>6 DEF IInv

\* The covered path keeps its inductive invariant, whatever is killed, torn or
\* raised (infer.py:302-391).
THEOREM VerifyInvariantHolds == Spec => []IInv
<1>1. IInv /\ [Next]_vars => IInv'
  BY StartStep, WorldStep, StutterStep, FaultyStep, ProgressStep DEF Next
<1> QED BY InvariantInit, <1>1, PTL DEF Spec

\* Type correctness is not inductive by itself: that a covered event has a
\* candidate at all is part of the invariant.
THEOREM TypeCorrect == Spec => []TypeOK
<1>1. IInv => TypeOK
  BY DEF IInv
<1> QED BY <1>1, VerifyInvariantHolds, PTL

\* A failed verification leaves neither verified file nor manifest, also when
\* processes are killed and files truncated (infer.py:378-382).
THEOREM FailedVerificationClean == Spec => []FailedVerificationLeavesNothing
<1>1. IInv => FailedVerificationLeavesNothing
  BY DEF IInv
<1> QED BY <1>1, VerifyInvariantHolds, PTL

\* When verification is over no covered event of a verifying run is without an
\* outcome (infer.py:365-389).
THEOREM AnswersHandled == Spec => []EveryAnswerIsHandled
<1>1. IInv => EveryAnswerIsHandled
  <2> SUFFICES ASSUME IInv, phase = "residual", settings.verify, NEW e \in Covered
               PROVE  status[e] # None
    BY DEF EveryAnswerIsHandled
  <2>1. e \in Events
    BY DEF IInv, TypeOK, Covered
  <2>2. todo = {} /\ queue = {} /\ running = {} /\ answer[e] = None
    BY <2>1 DEF IInv, ProcessShape
  <2> QED BY <2>2 DEF IInv, NoneLost
<1> QED BY <1>1, VerifyInvariantHolds, PTL

\* As long as no process is killed between two writes, what a run reports as verified, reused or
\* not, answers its own candidate (infer.py:261-284).
THEOREM VerifiedCorrect == ASSUME Unkilled PROVE Spec => []VerifiedAnswersCandidate
<1>1. IInv => VerifiedAnswersCandidate
  BY DEF IInv
<1> QED BY <1>1, VerifyInvariantHolds, PTL

-----------------------------------------------------------------------------
(* Refinement of FragmentCache. *)

\* Only verifying runs verify, and only what they could not reuse; nothing makes
\* a submitted event reusable before its answer is written (infer.py:318-344).
PlannedInv ==
  /\ phase \in {"scan", "pool"} => settings.verify
  /\ \A e \in Events :
       e \in queue \cup running \/ (answer[e] # None /\ cur # {e}) => ~Reusable(e)

\* No submitted event becomes reusable while its files stay as they are.
LEMMA ReusableFrame ==
  ASSUME UNCHANGED <<world, config>>, NEW e, verified'[e] = verified[e], vmanifest'[e] = vmanifest[e]
  PROVE  Reusable(e)' = Reusable(e)
BY Frame DEF Reusable, config

\* A process that ends has nothing planned.
LEMMA PlannedEnd == ASSUME ProcessEnds PROVE PlannedInv'
BY DEF ProcessEnds, PlannedInv, None

\* Every step plans and submits only what is not reusable.
LEMMA PlannedStep == ASSUME IInv, PlannedInv, [Next]_vars PROVE PlannedInv'
<1> USE DEF files, config, loop, pool
<1>1. TypeOK /\ ProcessShape /\ OneStage
  BY DEF IInv
<1>2. CASE WorldChanges
  BY <1>1, <1>2 DEF WorldChanges, PlannedInv, ProcessShape, Nobody
<1>3. CASE StartRun
  BY <1>1, <1>3 DEF StartRun, PlannedInv, ProcessShape, Nobody
<1>4. ASSUME NEW e \in Events, SaveTopology(e) PROVE PlannedInv'
  BY <1>4, ReusableFrame DEF SaveTopology, PlannedInv
<1>5. CASE BeginVerify
  BY <1>1, <1>5, ReusableFrame DEF BeginVerify, TopologySaved, PlannedInv, ProcessShape
<1>6. ASSUME NEW e \in Events, ReuseVerified(e) PROVE PlannedInv'
  BY <1>6, ReusableFrame DEF ReuseVerified, PlannedInv
<1>7. ASSUME NEW e \in Events, SubmitVerify(e) PROVE PlannedInv'
  BY <1>7, ReusableFrame DEF SubmitVerify, PlannedInv
<1>8. CASE OpenPool \/ ClosePool \/ UNCHANGED vars
  BY <1>8, ReusableFrame DEF OpenPool, VerifyPlanned, ClosePool, vars, PlannedInv
<1>9. ASSUME NEW e \in Events, TakeTask(e) PROVE PlannedInv'
  BY <1>9, ReusableFrame DEF TakeTask, PlannedInv
<1>10. ASSUME NEW e \in Events, NEW f, TaskAnswers(e, f) \/ TaskRaises(e) PROVE PlannedInv'
  <2>1. \A x \in Events : x # e => answer'[x] = answer[x]
    BY <1>1, <1>10 DEF TaskAnswers, TaskRaises, TypeOK
  <2>2. ~Reusable(e)
    BY <1>10 DEF TaskAnswers, TaskRaises, PlannedInv
  <2>3. \A x \in Events : Reusable(x)' = Reusable(x)
    BY <1>10, ReusableFrame DEF TaskAnswers, TaskRaises
  <2>4. UNCHANGED <<phase, settings, cur>> /\ queue' = queue /\ running' \subseteq running
    BY <1>10 DEF TaskAnswers, TaskRaises
  <2> QED BY <2>1, <2>2, <2>3, <2>4 DEF PlannedInv
<1>11. ASSUME NEW e \in Events,
              \/ \E f \in Fragments : SaveVerified(e, f)
              \/ DropVerified(e)
       PROVE  PlannedInv'
  <2>1. /\ \A x \in Events \ {e} : verified'[x] = verified[x]
        /\ UNCHANGED <<vmanifest, world, config, phase, queue, running, answer>>
        /\ cur = Nobody /\ cur' = {e} /\ answer[e] # None
    BY <1>1, <1>11 DEF SaveVerified, DropVerified, Handled, TypeOK
  <2>2. \A x \in Events \ {e} : Reusable(x)' = Reusable(x)
    BY <2>1, ReusableFrame
  <2>3. e \notin queue' \cup running'
    BY <1>1, <2>1 DEF OneStage
  <2>4. \A x \in Events \ {e} : answer'[x] # None => answer[x] # None /\ cur # {x}
    BY <2>1 DEF Nobody
  <2> QED BY <2>1, <2>2, <2>3, <2>4 DEF PlannedInv
<1>12. ASSUME NEW e \in Events,
              \/ \E f \in Fragments : SaveVerifyManifest(e, f)
              \/ DropVerifyManifest(e)
       PROVE  PlannedInv'
  <2>1. /\ \A x \in Events \ {e} : vmanifest'[x] = vmanifest[x]
        /\ UNCHANGED <<verified, world, config, phase, queue, running>>
        /\ answer' = [answer EXCEPT ![e] = None] /\ cur = {e} /\ cur' = Nobody
    BY <1>1, <1>12 DEF SaveVerifyManifest, DropVerifyManifest, TypeOK
  <2>2. \A x \in Events \ {e} : Reusable(x)' = Reusable(x)
    BY <2>1, ReusableFrame
  <2>3. e \notin queue' \cup running' /\ answer'[e] = None
    BY <1>1, <2>1 DEF OneStage, ProcessShape, TypeOK
  <2>4. \A x \in Events \ {e} : answer'[x] # None => answer[x] # None /\ cur # {x}
    BY <1>1, <2>1 DEF TypeOK
  <2> QED BY <2>1, <2>2, <2>3, <2>4 DEF PlannedInv
<1>13. CASE ProcessEnds
  BY <1>13, PlannedEnd
<1> QED
  BY <1>2, <1>3, <1>4, <1>5, <1>6, <1>7, <1>8, <1>9, <1>10, <1>11, <1>12, <1>13
  DEF Next, Progress, Faulty, Verify, AbortOnTornVerified, FinishRun, ResidualAborts,
      LlmUnavailable, Kill, KillTearsTopology, KillTearsVerified, KillTearsManifest

\* No verification is submitted for what could have been reused.
LEMMA PlannedHolds == Spec => []PlannedInv
<1>1. Init => PlannedInv
  BY DEF Init, NoProcess, PlannedInv, None
<1> QED BY <1>1, PlannedStep, VerifyInvariantHolds, PTL DEF Spec

\* One event's entry changes when only its files do.
LEMMA CacheUpdate ==
  ASSUME NEW e \in Events, NEW v,
         \A x \in Events \ {e} : verified'[x] = verified[x] /\ vmanifest'[x] = vmanifest[x],
         CachedCandidate(e)' = v
  PROVE  CachedCandidates' = [CachedCandidates EXCEPT ![e] = v]
<1>1. \A x \in Events \ {e} : CachedCandidate(x)' = CachedCandidate(x)
  BY DEF CachedCandidate
<1> QED BY <1>1 DEF CachedCandidates

\* The cache entries depend on the verified files and their manifests only.
LEMMA CacheFrame ==
  ASSUME UNCHANGED <<verified, vmanifest>> PROVE CachedCandidates' = CachedCandidates
BY DEF CachedCandidates, CachedCandidate

\* What a run wants is settled when it starts.
LEMMA WantFrame ==
  ASSUME UNCHANGED <<world, config>> PROVE WantedCandidates' = WantedCandidates
<1>1. Covered' = Covered /\ (\A x : Candidate(x)' = Candidate(x)) /\ UNCHANGED settings
  BY Frame DEF config
<1> QED BY <1>1 DEF WantedCandidates

\* Steps that change neither files nor outcomes are invisible to the cache.
LEMMA CacheStutter ==
  ASSUME CachedCandidates' = CachedCandidates, UNCHANGED <<world, config, status, cur>>
  PROVE  UNCHANGED Cache!vars
BY WantFrame DEF Cache!vars, ServedEvents, Verified

\* A process that ends gives up its wants and what it was served.
LEMMA CacheEnd ==
  ASSUME ProcessEnds PROVE WantedCandidates' = Cache!Nothing /\ ServedEvents' = {}
BY DEF ProcessEnds, WantedCandidates, Cache!Nothing, ServedEvents, Verified, VerifyStatus, None,
       Covered

\* Without files the cache is empty.
LEMMA CacheInit == Init => Cache!Init
BY MarkerAssumption
DEF Init, NoProcess, NoFile, Cache!Init, Cache!Nothing, CachedCandidates, CachedCandidate,
    WantedCandidates, Covered, ServedEvents, Verified, VerifyStatus, None

\* The submitted events of a run are wanted and not served, and their entries
\* are of other candidates.
LEMMA Submitted ==
  ASSUME IInv, PlannedInv, settings.resume, NEW e \in Events, phase = "pool", e \in Covered,
         status[e] = None \/ cur = {e}
  PROVE  /\ Cache!Wanted(e) /\ WantedCandidates[e] = Candidate(e) /\ Candidate(e) # Absent
         /\ e \notin ServedEvents
         /\ ~Reusable(e) => CachedCandidate(e) # Candidate(e)
<1>1. Candidate(e) # Absent
  BY CandidateExists, MarkerAssumption DEF IInv
<1>2. WantedCandidates[e] = Candidate(e)
  BY DEF PlannedInv, WantedCandidates
<1>3. e \notin ServedEvents
  BY DEF ServedEvents, Verified, VerifyStatus, None
<1>4. ASSUME ~Reusable(e) PROVE CachedCandidate(e) # Candidate(e)
  BY <1>1, <1>4 DEF Reusable, CachedCandidate, NoFile
<1> QED BY <1>1, <1>2, <1>3, <1>4 DEF Cache!Wanted

\* Every step maps to a cache step or a stutter.
LEMMA CacheStep ==
  ASSUME IInv, PlannedInv, Unkilled, FALSE \notin ResumeModes, [Next]_vars
  PROVE  [Cache!Next]_(Cache!vars)
<1> USE DEF files, config, loop, pool
<1> DEFINE Goal == Cache!Next \/ UNCHANGED Cache!vars
<1>1. TypeOK /\ ProcessShape /\ OneStage /\ HalfWay /\ FilesVouched
  BY DEF IInv
<1>2. settings.resume
  <2>1. settings \in Modes \/ settings = Defaults
    BY <1>1 DEF TypeOK
  <2>2. settings \in Modes => settings.resume \in ResumeModes
    BY DEF Modes
  <2>3. \A b \in ResumeModes : b
    BY BoundAssumption
  <2>4. settings = Defaults => settings.resume
    BY DEF Defaults
  <2> QED BY <2>1, <2>2, <2>3, <2>4
<1>3. CASE WorldChanges
  <2>1. Covered = {} /\ Covered' = {}
    BY <1>1, <1>3 DEF WorldChanges, ProcessShape, Covered
  <2>2. WantedCandidates' = WantedCandidates
    BY <2>1 DEF WantedCandidates
  <2> QED BY <1>3, <2>2, CacheFrame DEF WorldChanges, Cache!vars, ServedEvents, Verified
<1>4. CASE StartRun
  <2>1. WantedCandidates = Cache!Nothing
    BY <1>1, <1>4 DEF StartRun, ProcessShape, WantedCandidates, Cache!Nothing, Covered
  <2>2. TypeOK'
    BY <1>4, StartStep DEF IInv
  <2>3. \A e \in Covered' : Candidate(e)' \in Fragments
    <3>1. \A e \in Covered' : Topology[world'][Covered'][e] \in Fragments
      <4> SUFFICES ASSUME NEW e \in Covered' PROVE Topology[world'][Covered'][e] \in Fragments
        OBVIOUS
      <4>1. /\ Covered' \subseteq scope' /\ scope' \in SUBSET Events /\ e \in Events
            /\ Covered' \in SUBSET Events /\ world' \in Worlds
            /\ Topology[world'][scope'][e] # Uncovered
        BY <2>2 DEF Covered, TypeOK
      <4>2. Topology[world'][Covered'][e] # Uncovered
        BY <4>1, TopologyAssumption
      <4> QED BY <4>1, <4>2, TopologyAssumption
    <3> QED BY <3>1 DEF Candidate
  <2>4. WantedCandidates' \in [Events -> Fragments \cup {Absent}]
    BY <2>3 DEF WantedCandidates
  <2>5. CachedCandidates' = CachedCandidates /\ ServedEvents' = ServedEvents
    BY <1>4, CacheFrame DEF StartRun, ServedEvents, Verified
  <2> QED BY <2>1, <2>4, <2>5 DEF Cache!Next, Cache!Begin
<1>5. CASE \/ \E e \in Events : SaveTopology(e) \/ SubmitVerify(e) \/ TakeTask(e) \/ TaskRaises(e)
           \/ \E e \in Events, f \in Fragments : TaskAnswers(e, f)
           \/ BeginVerify \/ OpenPool \/ ClosePool
           \/ UNCHANGED vars
  <2>1. UNCHANGED <<verified, vmanifest, world, config, status, cur>>
    BY <1>5
    DEF SaveTopology, SubmitVerify, TakeTask, TaskRaises, TaskAnswers, BeginVerify, OpenPool,
        ClosePool, vars
  <2> QED BY <2>1, CacheFrame, CacheStutter
<1>6. ASSUME NEW e \in Events, ReuseVerified(e) PROVE Goal
  <2>1. /\ phase = "scan" /\ e \in Covered /\ status[e] = None /\ cur = Nobody
        /\ UNCHANGED <<verified, vmanifest, world, config, cur>>
    BY <1>1, <1>6 DEF ReuseVerified, Unplanned, ProcessShape, OneStage, Nobody
  <2>2. Candidate(e) \in Fragments /\ Candidate(e) # Absent
    BY <1>1, <2>1, CandidateExists, MarkerAssumption
  <2>3. WantedCandidates[e] = Candidate(e) /\ e \notin ServedEvents
    BY <2>1 DEF PlannedInv, WantedCandidates, ServedEvents, Verified, VerifyStatus, None
  <2>4. vmanifest[e] \in Manifest /\ verified[e] \in Record /\ vmanifest[e].fingerprint = Candidate(e)
    BY <1>1, <1>6 DEF ReuseVerified, Reusable, TypeOK, NoFile
  <2>5. verified[e].of = vmanifest[e].fingerprint
    BY <1>1, <2>1, <2>4, MarkerAssumption DEF FilesVouched, NoFile, Nobody
  <2>6. CachedCandidates[e] = Candidate(e)
    BY <2>4, <2>5, MarkerAssumption DEF CachedCandidates, CachedCandidate, NoFile
  <2>7. CachedCandidates' = [CachedCandidates EXCEPT ![e] = Candidate(e)]
    BY <2>1, <2>6, CacheFrame DEF CachedCandidates
  <2>8. ServedEvents' = ServedEvents \cup {e}
    <3>1. vmanifest[e].status \in {"verified", "corrected"}
      BY <2>4 DEF Manifest
    <3>2. /\ status'[e] = {vmanifest[e].status}
          /\ \A x \in Events \ {e} : status'[x] = status[x]
      BY <1>1, <1>6 DEF ReuseVerified, TypeOK
    <3>3. status'[e] \in VerifyStatus
      BY <3>1, <3>2 DEF VerifyStatus
    <3> QED BY <2>1, <3>2, <3>3 DEF ServedEvents, Verified, Nobody
  <2>9. WantedCandidates' = WantedCandidates
    BY <2>1, WantFrame
  <2> QED BY <2>2, <2>3, <2>6, <2>7, <2>8, <2>9 DEF Cache!Next, Cache!Serve, Cache!Wanted
<1>7. ASSUME NEW e \in Events, NEW f \in Fragments, SaveVerified(e, f) PROVE Goal
  <2>1. /\ phase = "pool" /\ cur = Nobody /\ answer[e] # None /\ e \in Covered /\ status[e] = None
        /\ UNCHANGED <<vmanifest, world, config>> /\ cur' = {e}
    BY <1>1, <1>7 DEF SaveVerified, Handled, ProcessShape, OneStage, Nobody
  <2>2. /\ Cache!Wanted(e) /\ WantedCandidates[e] = Candidate(e) /\ Candidate(e) # Absent
        /\ CachedCandidate(e) # Candidate(e)
    BY <1>2, <2>1, Submitted DEF PlannedInv, Nobody
  <2>3. WantedCandidates' = WantedCandidates
    BY <2>1, WantFrame
  <2>4. ServedEvents' = ServedEvents
    <3>1. \A x \in Events \ {e} : status'[x] = status[x]
      BY <1>1, <1>7 DEF SaveVerified, TypeOK
    <3>2. e \notin ServedEvents /\ e \notin ServedEvents'
      BY <2>1 DEF ServedEvents, Verified, VerifyStatus, None
    <3>3. \A x \in Events \ {e} : cur # {x} /\ cur' # {x}
      BY <2>1 DEF Nobody
    <3> QED BY <3>1, <3>2, <3>3 DEF ServedEvents, Verified
  <2>5. /\ verified'[e] = [topology |-> f, of |-> Candidate(e)] /\ verified'[e] \notin NoFile
        /\ \A x \in Events \ {e} : verified'[x] = verified[x] /\ vmanifest'[x] = vmanifest[x]
    <3>1. Candidate(e) \in Fragments
      BY <1>1, <2>1, CandidateExists
    <3>2. [topology |-> f, of |-> Candidate(e)] \in Record
      BY <3>1 DEF Record
    <3> QED BY <1>1, <1>7, <2>1, <3>2, MarkerAssumption DEF SaveVerified, TypeOK, NoFile
  <2>6. CachedCandidate(e)' =
          IF vmanifest[e] \notin NoFile /\ vmanifest[e].fingerprint = Candidate(e)
          THEN Candidate(e) ELSE Absent
    BY <2>1, <2>5 DEF CachedCandidate
  <2>7. CASE vmanifest[e] \notin NoFile /\ vmanifest[e].fingerprint = Candidate(e)
    <3>1. CachedCandidates' = [CachedCandidates EXCEPT ![e] = Candidate(e)]
      BY <2>5, <2>6, <2>7, CacheUpdate
    <3>2. CachedCandidates[e] = Absent
      BY <2>2, <2>7 DEF CachedCandidates, CachedCandidate
    <3> QED BY <2>2, <2>3, <2>4, <3>1, <3>2 DEF Cache!Next, Cache!Store
  <2>8. CASE ~(vmanifest[e] \notin NoFile /\ vmanifest[e].fingerprint = Candidate(e))
    <3>1. CachedCandidates' = [CachedCandidates EXCEPT ![e] = Absent]
      BY <2>5, <2>6, <2>8, CacheUpdate
    <3>2. CachedCandidates[e] # Candidate(e)
      BY <2>2 DEF CachedCandidates
    <3> QED BY <2>2, <2>3, <2>4, <3>1, <3>2 DEF Cache!Next, Cache!Evict
  <2> QED BY <2>7, <2>8
<1>8. ASSUME NEW e \in Events, NEW f \in Fragments, SaveVerifyManifest(e, f) PROVE Goal
  <2>1. /\ phase = "pool" /\ cur = {e} /\ answer[e] = {f} /\ answer[e] # Failure /\ e \in Covered
        /\ UNCHANGED <<verified, world, config, status>> /\ cur' = Nobody
    BY <1>1, <1>8 DEF SaveVerifyManifest, ProcessShape, Nobody, None
  <2>2. Cache!Wanted(e) /\ WantedCandidates[e] = Candidate(e) /\ Candidate(e) # Absent
    BY <1>2, <2>1, Submitted
  <2>3. WantedCandidates' = WantedCandidates
    BY <2>1, WantFrame
  <2>4. /\ verified[e] = [topology |-> f, of |-> Candidate(e)]
        /\ status[e] = {Label(e, f)}
    BY <1>1, <2>1 DEF HalfWay
  <2>5. verified[e] \notin NoFile /\ Candidate(e) \in Fragments
    <3>1. Candidate(e) \in Fragments
      BY <1>1, <2>1, CandidateExists
    <3>2. verified[e] \in Record
      BY <2>4, <3>1 DEF Record
    <3> QED BY <3>1, <3>2, MarkerAssumption DEF NoFile
  <2>6. ServedEvents' = ServedEvents \cup {e}
    <3>1. status[e] \in VerifyStatus
      BY <2>4, LabelType DEF VerifyStatus
    <3> QED BY <2>1, <3>1 DEF ServedEvents, Verified, Nobody
  <2>7. CachedCandidates[e] \in {Absent, Candidate(e)}
    BY <2>4 DEF CachedCandidates, CachedCandidate
  <2>8. CachedCandidate(e)' = Candidate(e)
    <3>1. /\ vmanifest'[e] = [fingerprint |-> Candidate(e), status |-> Label(e, f)]
          /\ vmanifest'[e] \in Manifest
      BY <1>1, <1>8, <2>5, LabelType DEF SaveVerifyManifest, TypeOK, Manifest
    <3>2. vmanifest'[e] \notin NoFile
      BY <3>1, MarkerAssumption DEF NoFile
    <3> QED BY <2>1, <2>4, <2>5, <3>1, <3>2 DEF CachedCandidate
  <2>9. CachedCandidates' = [CachedCandidates EXCEPT ![e] = Candidate(e)]
    BY <1>1, <1>8, <2>1, <2>8, CacheUpdate DEF SaveVerifyManifest, TypeOK
  <2> QED BY <2>2, <2>3, <2>6, <2>7, <2>9 DEF Cache!Next, Cache!Serve
<1>9. ASSUME NEW e \in Events, DropVerified(e) PROVE Goal
  <2>1. /\ phase = "pool" /\ cur = Nobody /\ answer[e] # None /\ e \in Covered /\ status[e] = None
        /\ UNCHANGED <<vmanifest, world, config>> /\ cur' = {e}
    BY <1>1, <1>9 DEF DropVerified, Handled, ProcessShape, OneStage, Nobody
  <2>2. /\ Cache!Wanted(e) /\ WantedCandidates[e] = Candidate(e)
        /\ CachedCandidate(e) # Candidate(e)
    BY <1>2, <2>1, Submitted DEF PlannedInv, Nobody
  <2>3. WantedCandidates' = WantedCandidates
    BY <2>1, WantFrame
  <2>4. ServedEvents' = ServedEvents
    <3>1. \A x \in Events \ {e} : status'[x] = status[x]
      BY <1>1, <1>9 DEF DropVerified, TypeOK
    <3>2. e \notin ServedEvents /\ e \notin ServedEvents'
      BY <2>1 DEF ServedEvents, Verified, VerifyStatus, None
    <3>3. \A x \in Events \ {e} : cur # {x} /\ cur' # {x}
      BY <2>1 DEF Nobody
    <3> QED BY <3>1, <3>2, <3>3 DEF ServedEvents, Verified
  <2>5. CachedCandidate(e)' = Absent /\ \A x \in Events \ {e} : verified'[x] = verified[x]
    BY <1>1, <1>9 DEF DropVerified, TypeOK, CachedCandidate, NoFile
  <2>6. CachedCandidates' = [CachedCandidates EXCEPT ![e] = Absent]
    BY <2>1, <2>5, CacheUpdate
  <2>7. CachedCandidates[e] # Candidate(e)
    BY <2>2 DEF CachedCandidates
  <2> QED BY <2>2, <2>3, <2>4, <2>6, <2>7 DEF Cache!Next, Cache!Evict
<1>10. ASSUME NEW e \in Events, DropVerifyManifest(e) PROVE Goal
  <2>1. /\ cur = {e} /\ verified[e] = Absent /\ status[e] = {"deterministic"}
        /\ UNCHANGED <<verified, world, config, status>> /\ cur' = Nobody
    BY <1>1, <1>10 DEF DropVerifyManifest, HalfWay
  <2>2. \A x \in Events : CachedCandidate(x)' = CachedCandidate(x)
    BY <1>1, <1>10, <2>1 DEF DropVerifyManifest, TypeOK, CachedCandidate, NoFile
  <2>3. CachedCandidates' = CachedCandidates
    BY <2>2 DEF CachedCandidates
  <2>4. status[e] \notin VerifyStatus
    BY <2>1 DEF VerifyStatus
  <2>5. ServedEvents' = ServedEvents
    BY <2>1, <2>4 DEF ServedEvents, Verified, Nobody
  <2> QED BY <2>1, <2>3, <2>5, WantFrame DEF Cache!vars
<1>11. CASE ProcessEnds /\ UNCHANGED <<verified, vmanifest>>
  BY <1>11, CacheEnd, CacheFrame DEF Cache!Next, Cache!End
<1>12. ASSUME NEW e \in Events, KillTearsVerified(e) PROVE Goal
  <2>1. phase = "pool" /\ e \in Covered /\ status[e] = None
    BY <1>1, <1>12 DEF KillTearsVerified, Handled, ProcessShape, OneStage, Nobody
  <2>2. Cache!Wanted(e)
    BY <1>2, <2>1, Submitted
  <2>3. CachedCandidate(e)' = Absent
    BY <1>1, <1>12 DEF KillTearsVerified, TypeOK, CachedCandidate, NoFile
  <2>4. CachedCandidates' = [CachedCandidates EXCEPT ![e] = Absent]
    BY <1>1, <1>12, <2>3, CacheUpdate DEF KillTearsVerified, TypeOK
  <2> QED BY <1>12, <2>2, <2>4, CacheEnd DEF KillTearsVerified, Cache!Next, Cache!End
<1>13. ASSUME NEW e \in Events, KillTearsManifest(e) PROVE Goal
  <2>1. phase = "pool" /\ e \in Covered /\ cur = {e}
    BY <1>1, <1>13 DEF KillTearsManifest, ProcessShape, Nobody
  <2>2. Cache!Wanted(e)
    BY <1>2, <2>1, Submitted
  <2>3. CachedCandidate(e)' = Absent
    BY <1>1, <1>13 DEF KillTearsManifest, TypeOK, CachedCandidate, NoFile
  <2>4. CachedCandidates' = [CachedCandidates EXCEPT ![e] = Absent]
    BY <1>1, <1>13, <2>3, CacheUpdate DEF KillTearsManifest, TypeOK
  <2> QED BY <1>13, <2>2, <2>4, CacheEnd DEF KillTearsManifest, Cache!Next, Cache!End
<1> QED
  BY <1>3, <1>4, <1>5, <1>6, <1>7, <1>8, <1>9, <1>10, <1>11, <1>12, <1>13
  DEF Next, Progress, Faulty, Verify, AbortOnTornVerified, FinishRun, ResidualAborts,
      LlmUnavailable, Kill, KillTearsTopology

\* With resume always on, and unless a process is killed between two writes, the
\* two verify files of every event behave as one cache entry keyed by the
\* candidate: truncated files and failed verifications included
\* (infer.py:261-284, 302-391).
THEOREM CacheImplemented ==
  ASSUME Unkilled, FALSE \notin ResumeModes PROVE Spec => ImplementsCache
<1>1. IInv /\ PlannedInv /\ [Next]_vars => [Cache!Next]_(Cache!vars)
  BY CacheStep
<1> QED
  BY <1>1, CacheInit, VerifyInvariantHolds, PlannedHolds, PTL DEF ImplementsCache, Spec, Cache!Spec
=============================================================================
