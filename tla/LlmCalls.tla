------------------------------ MODULE LlmCalls ------------------------------
(***************************************************************************)
(* The LLM pass over the chunks of an event: _run_infer_task in the workers *)
(* of a thread pool, generate_fragment with its retries, and the backend    *)
(* they share, which gets ready on its first use: the remote client checks  *)
(* the server's health, the local ones load the model.                      *)
(*                                                                         *)
(* The prompts are those of Chunking.  What a model answers is only valid,  *)
(* malformed (nothing, no JSON, or not a fragment), or an exception of any  *)
(* other kind: a transport error, an HTTP error, a list of choices that is  *)
(* empty.                                                                   *)
(***************************************************************************)
EXTENDS Chunking

CONSTANTS
  Backends,         \* values of settings.llm_backend
  llm_concurrency,  \* settings
  max_retries       \* settings

ASSUME SettingsAssumption ==
  /\ Backends \subseteq {"server", "inprocess", "mlx"}
  /\ llm_concurrency \in Nat /\ max_retries \in Nat

VARIABLES
  backend,  \* settings.llm_backend
  ready,    \* _health_checked, or _outlines_model is not None
  call,     \* the task of every chunk: where its call is, and its attempt
  dump,     \* _failed/<event_id>.txt: the chunk whose answers it is about
  \* history
  prepared  \* the backend has once answered, or loaded

callVars == <<backend, ready, call, dump, prepared>>
vars == <<chunkVars, callVars>>

Tasks == DOMAIN chunks
NoDump == 0
At(stage) == {t \in DOMAIN call : call[t].stage = stage}
Move(t, stage) == call' = [call EXCEPT ![t] = [stage |-> stage, attempt |-> @.attempt]]

Busy == At("attempt") \cup At("preparing") \cup At("asking")

---------------------------------------------------------------------------
\* Slip: local backends get as many workers as the server.
UnclampedWorkers == IF llm_concurrency = 0 THEN 1 ELSE llm_concurrency

\* _effective_concurrency
Workers ==
  IF backend = "server" /\ llm_concurrency > 1 THEN llm_concurrency ELSE 1

Init ==
  /\ ChunkingInit
  /\ backend \in Backends
  /\ ready = FALSE /\ prepared = FALSE
  /\ call = <<>> /\ dump = NoDump

CutMarkets == ChunkingNext /\ UNCHANGED callVars

\* One task is submitted for every chunk.
OpenPool ==
  /\ ChunkingDone /\ call = <<>> /\ Tasks # {}
  /\ call' = [t \in Tasks |-> [stage |-> "queued", attempt |-> 0]]
  /\ UNCHANGED <<chunkVars, backend, ready, dump, prepared>>

\* Slip: the executor starts a worker for every task.
TakeTaskUnbounded(t) ==
  /\ t \in At("queued") /\ \A u \in At("queued") : t <= u
  /\ Move(t, "attempt")
  /\ UNCHANGED <<chunkVars, backend, ready, dump, prepared>>

\* A worker is free for the first task of the queue.
TakeTask(t) ==
  /\ t \in At("queued") /\ \A u \in At("queued") : t <= u
  /\ Cardinality(Busy) < Workers
  /\ Move(t, "attempt")
  /\ UNCHANGED <<chunkVars, backend, ready, dump, prepared>>

\* An attempt begins: _ensure_server_ready or _ensure_loaded looks at the flag
\* that all calls share.
Prepare(t) ==
  /\ t \in At("attempt")
  /\ Move(t, IF ready THEN "asking" ELSE "preparing")
  /\ UNCHANGED <<chunkVars, backend, ready, dump, prepared>>

PrepareSucceeds(t) ==
  /\ t \in At("preparing")
  /\ ready' = TRUE /\ prepared' = TRUE
  /\ Move(t, "asking")
  /\ UNCHANGED <<chunkVars, backend, dump>>

\* No server, no model: not an error that is retried.
PrepareFails(t) ==
  /\ t \in At("preparing")
  /\ Move(t, "failed")
  /\ UNCHANGED <<chunkVars, backend, ready, dump, prepared>>

\* A fragment: it is filtered, and the worker writes it to the part's file.
Answered(t) ==
  /\ t \in At("asking")
  /\ Move(t, "answered")
  /\ UNCHANGED <<chunkVars, backend, ready, dump, prepared>>

\* Any other exception escapes generate_fragment at once.
Raises(t) ==
  /\ t \in At("asking")
  /\ Move(t, "failed")
  /\ UNCHANGED <<chunkVars, backend, ready, dump, prepared>>

\* Slip: the retries start over with every malformed answer.
RetryForEver(t) ==
  /\ t \in At("asking") /\ max_retries > 0
  /\ Move(t, "attempt")
  /\ UNCHANGED <<chunkVars, backend, ready, dump, prepared>>

\* A malformed answer is asked for again, with a stricter prompt.
Retry(t) ==
  /\ t \in At("asking") /\ call[t].attempt < max_retries
  /\ call' = [call EXCEPT ![t] = [stage |-> "attempt", attempt |-> @.attempt + 1]]
  /\ UNCHANGED <<chunkVars, backend, ready, dump, prepared>>

\* _write_failed_output, under the event's name, and LLMInferenceError.
GiveUp(t) ==
  /\ t \in At("asking") /\ call[t].attempt = max_retries
  /\ dump' = t
  /\ Move(t, "failed")
  /\ UNCHANGED <<chunkVars, backend, ready, prepared>>

Call(t) ==
  \/ TakeTask(t)
  \/ Prepare(t) \/ PrepareSucceeds(t) \/ PrepareFails(t)
  \/ Answered(t) \/ Raises(t) \/ Retry(t) \/ GiveUp(t)

Next == CutMarkets \/ OpenPool \/ \E t \in DOMAIN call : Call(t)

\* The loop of the main thread goes on, and no call blocks for ever: the client
\* has a timeout, local generation is bounded by max_tokens.
Spec == Init /\ [][Next]_vars /\ WF_vars(Next)

---------------------------------------------------------------------------
\* No prompt goes to a backend that has not once answered a health check or
\* loaded its model, however the workers' first attempts interleave
\* (llm_remote.py:36-52, 60).
NoPromptBeforeReady == At("asking") # {} => prepared

\* A local model is loaded by one call at a time and never again once it is
\* there: the flag is no lock, and two loads would hold the model twice
\* (llm.py:146-177, infer.py:158-167).
ModelLoadsOnce ==
  backend # "server" => /\ Cardinality(At("preparing")) <= 1
                        /\ prepared => At("preparing") = {}

\* The calls share the backend through one flag without a lock: however their
\* checks interleave, none goes past it too early and none repeats the work it
\* marks as done.
BackendGuarded == NoPromptBeforeReady /\ ModelLoadsOnce

Pool == INSTANCE TaskPool WITH
  Task <- UNION {DOMAIN in.sizes : in \in Inputs},
  workers <- Workers,
  waiting <- At("queued"), busy <- Busy, answered <- At("answered"), failed <- At("failed")

\* To the rest of the program a call is a task of the event that is at work only
\* with a worker and ends once, with an answer or an exception, whatever the
\* retries and the shared backend do in between: the pool that ResidualInfer and
\* CoveredInfer assume (infer.py:509-527, llm.py:49-93),
ImplementsPool == Pool!Safety

\* and ends at last.
EveryCallEnds == Pool!EveryTaskEnds

\* The steps a call can still take, were every answer malformed.
StepsBehind == [queued |-> 4, attempt |-> 3, preparing |-> 2, asking |-> 1, answered |-> 0, failed |-> 0]
StepsLeft(t) == 3 * (max_retries - call[t].attempt) + StepsBehind[call[t].stage]

\* What that rests on, whoever is scheduled: a call that moves has fewer steps
\* left, whatever the model answers, the backend does and the other calls do
\* (llm.py:62-93).
AttemptsRunOut ==
  [][\A t \in DOMAIN call :
       call'[t] # call[t] => StepsLeft(t)' < StepsLeft(t) /\ StepsLeft(t)' \in Nat]_vars
=============================================================================
