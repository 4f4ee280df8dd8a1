-------------------------- MODULE LlmCalls_proofs --------------------------
(***************************************************************************)
(* Proofs about LlmCalls, and the chunks of Chunking that it works on, for  *)
(* any events, limits, backends and settings.                               *)
(***************************************************************************)
EXTENDS LlmCalls, FiniteSetTheorems, WellFoundedInduction, TLAPS

---------------------------------------------------------------------------
(***************************************************************************)
(* The chunks.  The next market is i, cur is the chunk being filled, cs are *)
(* the closed ones: the markets before i are in them, in order.             *)
(***************************************************************************)
Typed(i, cur, cs) ==
  i \in Nat \ {0} /\ cur \in SUBSET Nat /\ cs \in Seq(SUBSET Nat)

OnlyRead(i, cur, cs) ==
  /\ \A a \in cur : 1 <= a /\ a < i
  /\ \A k \in 1..Len(cs) : \A a \in cs[k] : 1 <= a /\ a < i

AllRead(i, cur, cs) ==
  \A a \in Nat : 1 <= a /\ a < i => a \in cur \/ \E k \in 1..Len(cs) : a \in cs[k]

Ordered(cur, cs) ==
  /\ \A k \in 1..Len(cs) : cs[k] # {}
  /\ \A j, k \in 1..Len(cs) : j < k => \A a \in cs[j], b \in cs[k] : a < b
  /\ \A k \in 1..Len(cs) : \A a \in cs[k], b \in cur : a < b

Cutting(i, cur, cs) ==
  Typed(i, cur, cs) /\ OnlyRead(i, cur, cs) /\ AllRead(i, cur, cs) /\ Ordered(cur, cs)

\* Closing a chunk that holds a market.
LEMMA CloseChunk ==
  ASSUME NEW i, NEW cur, NEW cs, Cutting(i, cur, cs), cur # {}
  PROVE  Cutting(i, {}, Append(cs, cur))
<1> DEFINE ds == Append(cs, cur)
<1> USE DEF Cutting
<1>1. Typed(i, {}, ds)
  BY DEF Typed
<1>2. /\ Len(cs) \in Nat /\ Len(ds) = Len(cs) + 1
      /\ \A k \in 1..Len(cs) : ds[k] = cs[k]
      /\ ds[Len(cs) + 1] = cur
  BY DEF Typed
<1> HIDE DEF ds
<1>3. \A k \in 1..Len(ds) : k \in 1..Len(cs) \/ k = Len(cs) + 1
  BY <1>2
<1>4. OnlyRead(i, {}, ds)
  BY <1>2, <1>3 DEF OnlyRead
<1>5. AllRead(i, {}, ds)
  <2> SUFFICES ASSUME NEW a \in Nat, 1 <= a, a < i
               PROVE  \E k \in 1..Len(ds) : a \in ds[k]
    BY DEF AllRead
  <2>1. CASE a \in cur
    BY <2>1, <1>2
  <2>2. CASE \E k \in 1..Len(cs) : a \in cs[k]
    <3> PICK k \in 1..Len(cs) : a \in cs[k]
      BY <2>2
    <3>1. k \in 1..Len(ds) /\ ds[k] = cs[k]
      BY <1>2
    <3> QED
      BY <3>1
  <2> QED
    BY <2>1, <2>2 DEF AllRead
<1>6. Ordered({}, ds)
  <2>1. \A k \in 1..Len(ds) : ds[k] # {}
    BY <1>2, <1>3 DEF Ordered
  <2>2. ASSUME NEW j \in 1..Len(ds), NEW k \in 1..Len(ds), j < k,
               NEW a \in ds[j], NEW b \in ds[k]
        PROVE  a < b
    <3>1. j \in 1..Len(cs)
      BY <1>2, <2>2
    <3>2. CASE k \in 1..Len(cs)
      BY <1>2, <2>2, <3>1, <3>2 DEF Ordered
    <3>3. CASE k = Len(cs) + 1
      BY <1>2, <2>2, <3>1, <3>3 DEF Ordered
    <3> QED
      BY <1>3, <3>2, <3>3
  <2> QED
    BY <2>1, <2>2 DEF Ordered
<1> QED
  BY <1>1, <1>4, <1>5, <1>6 DEF ds

\* The next market joins the chunk, be it empty or not.
LEMMA TakeMarket ==
  ASSUME NEW i, NEW cur, NEW cs, Cutting(i, cur, cs)
  PROVE  Cutting(i + 1, cur \cup {i}, cs)
<1> USE DEF Cutting
<1>1. Typed(i + 1, cur \cup {i}, cs)
  BY DEF Typed
<1>2. \A k \in 1..Len(cs) : cs[k] \subseteq Nat
  BY DEF Typed
<1>3. OnlyRead(i + 1, cur \cup {i}, cs)
  BY <1>2 DEF OnlyRead, Typed
<1>4. AllRead(i + 1, cur \cup {i}, cs)
  BY DEF AllRead, Typed
<1>5. Ordered(cur \cup {i}, cs)
  BY <1>2 DEF Ordered, OnlyRead, Typed
<1> QED
  BY <1>1, <1>3, <1>4, <1>5

ChunkInv == Cutting(index, current, chunks)

\* The loop begins with no market read.
LEMMA ChunkingStarts == ChunkingInit => ChunkInv
BY DEF ChunkingInit, ChunkInv, Cutting, Typed, OnlyRead, AllRead, Ordered

\* Every round of the loop keeps the chunks in order.
LEMMA ChunkingKeepsInv ==
  ASSUME ChunkInv, [ChunkingNext]_chunkVars
  PROVE  ChunkInv'
<1> USE DEF ChunkInv
<1>1. CASE Extend
  BY <1>1, TakeMarket DEF Extend, Trial
<1>2. CASE Cut
  <2>1. Cutting(index, {}, Append(chunks, current))
    BY <1>2, CloseChunk DEF Cut
  <2>2. Cutting(index + 1, {index}, Append(chunks, current))
    <3>1. Cutting(index + 1, {} \cup {index}, Append(chunks, current))
      BY <2>1, TakeMarket
    <3> QED
      BY <3>1
  <2>3. CASE ExceedsBudget({index})
    <3>1. chunks' = Append(Append(chunks, current), {index})
      BY <1>2, <2>3 DEF Cut, CloseAround, Cutting, Typed
    <3>2. index' = index + 1 /\ current' = {}
      BY <1>2, <2>3 DEF Cut
    <3>3. Cutting(index + 1, {}, Append(Append(chunks, current), {index}))
      BY <2>2, CloseChunk
    <3> QED
      BY <3>1, <3>2, <3>3
  <2>4. CASE ~ExceedsBudget({index})
    BY <1>2, <2>2, <2>4 DEF Cut
  <2> QED
    BY <2>3, <2>4
<1>3. CASE CloseLast
  BY <1>3, CloseChunk DEF CloseLast
<1>4. CASE UNCHANGED chunkVars
  BY <1>4 DEF chunkVars
<1> QED
  BY <1>1, <1>2, <1>3, <1>4 DEF ChunkingNext

\* Chunks closed and open partition the markets read, in order.
LEMMA ChunkInvCovers == ChunkInv => ChunksCoverInOrder
<1> SUFFICES ASSUME ChunkInv PROVE ChunksCoverInOrder
  OBVIOUS
<1>1. Cutting(index, {}, Cuts)
  BY CloseChunk DEF ChunkInv, Cuts
<1>2. DOMAIN Cuts = 1..Len(Cuts) /\ index \in Nat \ {0}
      /\ \A k \in 1..Len(Cuts) : Cuts[k] \subseteq Nat
  BY <1>1 DEF Cutting, Typed
<1>3. UNION {Cuts[k] : k \in DOMAIN Cuts} = 1..(index - 1)
  BY <1>1, <1>2 DEF Cutting, OnlyRead, AllRead
<1> QED
  BY <1>1, <1>2, <1>3 DEF Cutting, Ordered, ChunksCoverInOrder

---------------------------------------------------------------------------
(***************************************************************************)
(* The calls.                                                               *)
(***************************************************************************)
Stages == {"queued", "attempt", "preparing", "asking", "answered", "failed"}

CallTypes ==
  /\ call = [t \in DOMAIN call |-> call[t]]
  /\ \A t \in DOMAIN call : call[t] \in [stage : Stages, attempt : Nat]
  /\ IsFiniteSet(DOMAIN call)

\* The flag says what it stands for, and only under it a prompt is sent.
ReadyMeansPrepared ==
  /\ ready \in BOOLEAN /\ prepared = ready
  /\ At("asking") # {} => prepared

\* The single worker of a local backend, who loads the model only when it is
\* not there.
Solo ==
  backend # "server" =>
    /\ \A t, u \in Busy : t = u
    /\ ready => At("preparing") = {}

CallInv == CallTypes /\ ReadyMeansPrepared /\ Solo

\* The stage of a task changes, that of no other.
LEMMA MoveStage ==
  ASSUME NEW t \in DOMAIN call, NEW r \in [stage : Stages, attempt : Nat], CallTypes,
         call' = [call EXCEPT ![t] = r]
  PROVE  /\ CallTypes'
         /\ \A x \in Stages : At(x)' = IF x = r.stage THEN At(x) \cup {t} ELSE At(x) \ {t}
<1>1. DOMAIN call' = DOMAIN call /\ \A u \in DOMAIN call : call'[u] = IF u = t THEN r ELSE call[u]
  BY DEF CallTypes
<1>2. CallTypes'
  BY <1>1 DEF CallTypes
<1>3. ASSUME NEW x \in Stages
      PROVE  At(x)' = IF x = r.stage THEN At(x) \cup {t} ELSE At(x) \ {t}
  BY <1>1 DEF At, CallTypes
<1> QED
  BY <1>2, <1>3

\* Every step of a call is such a change, within these stages.
LEMMA CallMoves ==
  ASSUME NEW t \in DOMAIN call, CallTypes, Call(t)
  PROVE  \E r \in [stage : Stages, attempt : Nat] : call' = [call EXCEPT ![t] = r]
<1>1. ASSUME NEW stage \in Stages, Move(t, stage)
      PROVE  call' = [call EXCEPT ![t] = [stage |-> stage, attempt |-> call[t].attempt]]
  BY <1>1 DEF Move, CallTypes
<1>2. call[t] \in [stage : Stages, attempt : Nat]
  BY DEF CallTypes
<1>3. CASE Retry(t)
  <2> DEFINE r == [stage |-> "attempt", attempt |-> call[t].attempt + 1]
  <2>1. r \in [stage : Stages, attempt : Nat]
    BY <1>2 DEF Stages
  <2>2. call' = [call EXCEPT ![t] = r]
    BY <1>3 DEF Retry
  <2> HIDE DEF r
  <2> QED
    BY <2>1, <2>2
<1>4. CASE ~Retry(t)
  <2>1. \E stage \in Stages : Move(t, stage)
    BY <1>4 DEF Call, TakeTask, Prepare, PrepareSucceeds, PrepareFails, Answered, Raises,
                GiveUp, Stages
  <2> PICK stage \in Stages : Move(t, stage)
    BY <2>1
  <2> DEFINE r == [stage |-> stage, attempt |-> call[t].attempt]
  <2>2. r \in [stage : Stages, attempt : Nat]
    BY <1>2
  <2>3. call' = [call EXCEPT ![t] = r]
    BY <1>1
  <2> HIDE DEF r
  <2> QED
    BY <2>2, <2>3
<1> QED
  BY <1>3, <1>4

\* A worker of a local backend takes a task only when no other is at work.
LEMMA TakesWhenIdle ==
  ASSUME NEW t \in DOMAIN call, CallTypes, TakeTask(t), backend # "server"
  PROVE  Busy = {}
<1>1. IsFiniteSet(Busy)
  <2>1. Busy \subseteq DOMAIN call
    BY DEF Busy, At
  <2> QED
    BY <2>1, FS_Subset DEF CallTypes
<1>2. Cardinality(Busy) \in Nat /\ Cardinality(Busy) < 1
  BY <1>1, FS_CardinalityType DEF TakeTask, Workers
<1> QED
  BY <1>1, <1>2, FS_EmptySet

\* No step of a call breaks the agreement on the shared flag.
LEMMA CallKeepsInv ==
  ASSUME CallInv, NEW t \in DOMAIN call, Call(t)
  PROVE  CallInv'
<1> USE DEF CallInv
<1> PICK r \in [stage : Stages, attempt : Nat] : call' = [call EXCEPT ![t] = r]
  BY CallMoves
<1>1. CallTypes' /\ \A x \in Stages : At(x)' = IF x = r.stage THEN At(x) \cup {t} ELSE At(x) \ {t}
  BY MoveStage
<1>2. call'[t] = r /\ t \in DOMAIN call
  BY DEF CallTypes
<1>3. /\ t \in Busy <=> t \in At("attempt") \cup At("preparing") \cup At("asking")
      /\ Busy' \subseteq Busy \cup {t}
  BY <1>1 DEF Busy, Stages
<1>4. CASE TakeTask(t)
  <2>1. r.stage = "attempt" /\ UNCHANGED <<backend, ready, prepared>>
    BY <1>2, <1>4 DEF TakeTask, Move
  <2>2. At("asking")' = At("asking") \ {t} /\ At("preparing")' = At("preparing") \ {t}
    BY <1>1, <2>1 DEF Stages
  <2>3. Solo'
    BY <1>3, <1>4, <2>1, <2>2, TakesWhenIdle DEF Solo
  <2> QED
    BY <1>1, <2>1, <2>2, <2>3 DEF ReadyMeansPrepared
<1>5. CASE ~TakeTask(t)
  <2>1. t \in Busy /\ backend' = backend
    BY <1>5 DEF Call, Prepare, PrepareSucceeds, PrepareFails, Answered, Raises, Retry, GiveUp, Busy
  <2>2. backend # "server" => \A u, v \in Busy' : u = v
    BY <1>3, <2>1 DEF Solo
  <2>3. CASE Prepare(t)
    <3>1. r.stage = (IF ready THEN "asking" ELSE "preparing") /\ UNCHANGED <<ready, prepared>>
      BY <1>2, <2>3 DEF Prepare, Move
    <3> QED
      BY <1>1, <2>1, <2>2, <3>1 DEF ReadyMeansPrepared, Solo, Stages
  <2>4. CASE PrepareSucceeds(t)
    <3>1. r.stage = "asking" /\ ready' = TRUE /\ prepared' = TRUE
      BY <1>2, <2>4 DEF PrepareSucceeds, Move
    <3>2. backend # "server" => At("preparing")' = {}
      BY <1>1, <1>3, <2>1, <3>1 DEF Solo, Busy, Stages
    <3> QED
      BY <1>1, <2>1, <2>2, <3>1, <3>2 DEF ReadyMeansPrepared, Solo
  <2>5. CASE PrepareFails(t) \/ Answered(t) \/ Raises(t) \/ Retry(t) \/ GiveUp(t)
    <3>1. r.stage \in {"failed", "answered", "attempt"} /\ UNCHANGED <<ready, prepared>>
      BY <1>2, <2>5 DEF PrepareFails, Answered, Raises, Retry, GiveUp, Move
    <3>2. At("asking")' = At("asking") \ {t} /\ At("preparing")' = At("preparing") \ {t}
      BY <1>1, <3>1 DEF Stages
    <3> QED
      BY <1>1, <2>1, <2>2, <3>1, <3>2 DEF ReadyMeansPrepared, Solo
  <2> QED
    BY <1>5, <2>3, <2>4, <2>5 DEF Call
<1> QED
  BY <1>4, <1>5

\* The pool opens with every task queued.
LEMMA PoolStartsIdle ==
  ASSUME ChunkInv, CallInv, OpenPool
  PROVE  CallInv'
<1> USE DEF CallInv
<1>1. DOMAIN call' = Tasks /\ \A t \in Tasks : call'[t] = [stage |-> "queued", attempt |-> 0]
  BY DEF OpenPool
<1>2. \A x \in Stages : x # "queued" => At(x)' = {}
  BY <1>1 DEF At
<1>3. CallTypes'
  <2>1. IsFiniteSet(Tasks)
    <3>1. Tasks = 1..Len(chunks) /\ Len(chunks) \in Nat
      BY DEF Tasks, ChunkInv, Cutting, Typed
    <3> QED
      BY <3>1, FS_Interval
  <2> QED
    BY <1>1, <2>1 DEF CallTypes, Stages, OpenPool
<1> QED
  BY <1>2, <1>3 DEF OpenPool, Stages, Busy, ReadyMeansPrepared, Solo

---------------------------------------------------------------------------
LlmInv == ChunkInv /\ CallInv

\* Before the first market there is no call.
LEMMA LlmStarts == Init => LlmInv
<1> SUFFICES ASSUME Init PROVE LlmInv
  OBVIOUS
<1>1. ChunkInv
  BY ChunkingStarts DEF Init
<1>2. DOMAIN call = {} /\ IsFiniteSet(DOMAIN call)
  <2>1. DOMAIN call = {}
    BY DEF Init
  <2> QED
    BY <2>1, FS_EmptySet
<1>3. \A x : At(x) = {}
  BY <1>2 DEF At
<1>4. CallTypes
  BY <1>2 DEF Init, CallTypes
<1>5. ReadyMeansPrepared /\ Solo
  BY <1>3 DEF Init, ReadyMeansPrepared, Solo, Busy
<1> QED
  BY <1>1, <1>4, <1>5 DEF LlmInv, CallInv

\* Chunking and calls together.
LEMMA LlmKeepsInv ==
  ASSUME LlmInv, [Next]_vars
  PROVE  LlmInv'
<1> USE DEF LlmInv
<1>1. CASE CutMarkets
  <2>1. ChunkInv'
    BY <1>1, ChunkingKeepsInv DEF CutMarkets
  <2>2. CallInv'
    BY <1>1 DEF CutMarkets, callVars, CallInv, CallTypes, ReadyMeansPrepared, Solo, At, Busy
  <2> QED
    BY <2>1, <2>2
<1>2. CASE OpenPool
  <2>1. ChunkInv'
    BY <1>2 DEF OpenPool, chunkVars, ChunkInv
  <2> QED
    BY <1>2, <2>1, PoolStartsIdle
<1>3. ASSUME NEW t \in DOMAIN call, Call(t)
      PROVE  LlmInv'
  <2>1. ChunkInv'
    BY <1>3 DEF Call, TakeTask, Prepare, PrepareSucceeds, PrepareFails, Answered, Raises, Retry,
                GiveUp, chunkVars, ChunkInv
  <2> QED
    BY <1>3, <2>1, CallKeepsInv
<1>4. CASE UNCHANGED vars
  BY <1>4 DEF vars, chunkVars, callVars, ChunkInv, CallInv, CallTypes, ReadyMeansPrepared, Solo,
              At, Busy
<1> QED
  BY <1>1, <1>2, <1>3, <1>4 DEF Next

\* The chunks are in order and the calls agree on the backend at every step, for
\* any event, limits, workers and retries (prompts.py:294-347, llm.py:62).
THEOREM LlmInvHolds == Spec => []LlmInv
BY LlmStarts, LlmKeepsInv, PTL DEF Spec

\* For events of any length, market sizes and limits, the chunks partition the
\* markets in their order (chunk_markets_for_prompt).
THEOREM ChunksCover == Spec => []ChunksCoverInOrder
<1>1. LlmInv => ChunksCoverInOrder
  BY ChunkInvCovers DEF LlmInv
<1> QED
  BY <1>1, LlmInvHolds, PTL

\* For any number of workers and retries, no prompt goes to a backend that is
\* not ready (_ensure_server_ready, _ensure_loaded).
THEOREM PromptsWaitForBackend == Spec => []NoPromptBeforeReady
<1>1. LlmInv => NoPromptBeforeReady
  BY DEF LlmInv, CallInv, ReadyMeansPrepared, NoPromptBeforeReady
<1> QED
  BY <1>1, LlmInvHolds, PTL

\* Whatever llm_concurrency says, a local model is loaded by one call and once
\* (_effective_concurrency).
THEOREM LoadsOnce == Spec => []ModelLoadsOnce
<1>1. LlmInv => ModelLoadsOnce
  <2> SUFFICES ASSUME LlmInv, backend # "server"
               PROVE  /\ Cardinality(At("preparing")) <= 1
                      /\ prepared => At("preparing") = {}
    BY DEF ModelLoadsOnce
  <2>1. \A t, u \in At("preparing") : t = u
    BY DEF LlmInv, CallInv, Solo, Busy
  <2>2. Cardinality(At("preparing")) <= 1
    <3>1. CASE At("preparing") = {}
      BY <3>1, FS_EmptySet
    <3>2. CASE At("preparing") # {}
      <4> PICK t : t \in At("preparing")
        BY <3>2
      <4>1. At("preparing") = {t}
        BY <2>1
      <4> QED
        BY <4>1, FS_Singleton
    <3> QED
      BY <3>1, <3>2
  <2> QED
    BY <2>2 DEF LlmInv, CallInv, Solo, ReadyMeansPrepared
<1> QED
  BY <1>1, LlmInvHolds, PTL

\* The shared backend as a whole: no call is past the flag too early, none
\* repeats the load.
THEOREM BackendIsGuarded == Spec => []BackendGuarded
  BY PromptsWaitForBackend, LoadsOnce, PTL DEF BackendGuarded
---------------------------------------------------------------------------
(***************************************************************************)
(* The cut is best.  First, what is needed of numbers.                     *)
(***************************************************************************)

\* The numbers below one another.
Order == OpToRel(<, Nat)

\* Every nonempty set of numbers has a least one.
LEMMA LeastNatural ==
  ASSUME NEW S \in SUBSET Nat, S # {}
  PROVE  \E n \in S : \A m \in S : n <= m
<1>1. IsWellFoundedOn(Order, Nat)
  BY NatLessThanWellFounded DEF Order
<1>2. PICK n \in S : \A m \in S : ~(<<m, n>> \in Order)
  BY <1>1, WFMin
<1>3. \A m \in S : m \in Nat /\ (m < n => <<m, n>> \in Order)
  BY DEF Order, OpToRel
<1>4. ASSUME NEW m \in S PROVE n <= m
  <2>1. m \in Nat /\ n \in Nat /\ ~(m < n)
    BY <1>2, <1>3
  <2> QED BY <2>1
<1> QED BY <1>4

\* Induction, for a set of numbers.
LEMMA NatSetInduction ==
  ASSUME NEW S, 0 \in S, \A n \in Nat : n \in S => n + 1 \in S
  PROVE  Nat \subseteq S
<1> SUFFICES ASSUME Nat \ S # {} PROVE FALSE
  OBVIOUS
<1>1. PICK n \in Nat \ S : \A m \in Nat \ S : n <= m
  BY LeastNatural
<1>2. n # 0 /\ n - 1 \in Nat
  OBVIOUS
<1>3. n - 1 \in S
  BY <1>1, <1>2
<1> QED BY <1>2, <1>3

\* Every nonempty set of numbers that is bounded has a greatest one.
LEMMA GreatestNatural ==
  ASSUME NEW S \in SUBSET Nat, S # {}, NEW b \in Nat, \A m \in S : m <= b
  PROVE  \E n \in S : \A m \in S : m <= n
<1> DEFINE U == {c \in Nat : \A m \in S : m <= c}
<1>1. PICK c \in U : \A d \in U : c <= d
  BY LeastNatural
<1>2. CASE c \in S
  BY <1>2
<1>3. CASE c \notin S
  <2>1. PICK m \in S : TRUE
    OBVIOUS
  <2>2. m <= c /\ m # c /\ m \in Nat
    BY <1>3
  <2>3. c - 1 \in U
    BY <1>3, <2>2
  <2> QED BY <1>1, <2>3
<1> QED BY <1>2, <1>3

---------------------------------------------------------------------------
(***************************************************************************)
(* The fold over the sizes is their sum: the community module folds by a   *)
(* recursive function over the subsets, whose existence and values are shown *)
(* by induction on the number of markets.                                  *)
(***************************************************************************)

\* The fold, and the function it takes its value from.
Some(S) == CHOOSE x \in S : TRUE
Sums(S, f) ==
  f = [s \in SUBSET S |-> IF s = {} THEN Header ELSE sizes[Some(s)] + f[s \ {Some(s)}]]
Total(S) == FoldFunctionOnSet(+, Header, sizes, S)

\* The community module folds by a recursive function on the subsets.
LEMMA TotalIsSum == \A S : Total(S) = (CHOOSE f : Sums(S, f))[S]
BY Zenon DEF Total, FoldFunctionOnSet, MapThenFoldSet, Sums, Some

\* That function exists, and its values do not depend on the set it is for.
Summed(S) == (\E f : Sums(S, f)) /\ \A f : Sums(S, f) => \A s \in SUBSET S : f[s] = Total(s)

\* What the fold computes, where the function exists.
LEMMA SummedUnfolds ==
  ASSUME NEW S, Summed(S), S # {}
  PROVE  Total(S) = sizes[Some(S)] + Total(S \ {Some(S)})
<1>1. PICK f : Sums(S, f)
  BY DEF Summed
<1>2. f[S] = sizes[Some(S)] + f[S \ {Some(S)}]
  BY <1>1 DEF Sums
<1>3. f[S] = Total(S) /\ f[S \ {Some(S)}] = Total(S \ {Some(S)})
  BY <1>1 DEF Summed
<1> QED BY <1>2, <1>3

\* The sum over no market is the header.
LEMMA EmptyTotal == Summed({}) /\ Total({}) = Header
<1> DEFINE g == [s \in SUBSET {} |-> Header]
<1>1. \A f : Sums({}, f) <=> f = g
  BY DEF Sums
<1> HIDE DEF g
<1>2. Total({}) = g[{}]
  BY <1>1, TotalIsSum
<1>3. g[{}] = Header
  BY DEF g
<1>4. \A s \in SUBSET {} : s = {}
  OBVIOUS
<1> QED BY <1>1, <1>2, <1>3, <1>4 DEF Summed

\* The function for a set, from those for its subsets.
LEMMA SummedStep ==
  ASSUME NEW S, S # {}, \A s \in SUBSET S : s # S => Summed(s)
  PROVE  Summed(S)
<1> DEFINE c == Some(S)
           K == sizes[c] + Total(S \ {c})
           Value(s) == IF s = S THEN K ELSE Total(s)
           G == [s \in SUBSET S |-> Value(s)]
           Step(f, s) == IF s = {} THEN Header ELSE sizes[Some(s)] + f[s \ {Some(s)}]
<1>1. \A s : s # {} => Some(s) \in s
  BY DEF Some
<1>2. c \in S /\ S \ {c} \in SUBSET S /\ S \ {c} # S
  BY <1>1
<1>3. \A f : Sums(S, f) <=> f = [s \in SUBSET S |-> Step(f, s)]
  BY DEF Sums
<1> HIDE DEF c
<1>4. Sums(S, G)
  <2>1. ASSUME NEW s \in SUBSET S PROVE G[s] = Step(G, s)
    <3>1. CASE s = S
      <4>1. G[S] = K /\ G[S \ {c}] = Total(S \ {c})
        BY <1>2
      <4> QED BY <3>1, <4>1 DEF c
    <3>2. CASE s = {}
      BY <3>2, EmptyTotal
    <3>3. CASE s # S /\ s # {}
      <4>1. Total(s) = sizes[Some(s)] + Total(s \ {Some(s)})
        BY <3>3, SummedUnfolds
      <4>2. s \ {Some(s)} \in SUBSET S /\ s \ {Some(s)} # S
        BY <1>1, <3>3
      <4>3. G[s] = Total(s) /\ G[s \ {Some(s)}] = Total(s \ {Some(s)})
        BY <3>3, <4>2
      <4> QED BY <3>3, <4>1, <4>3
    <3> QED BY <3>1, <3>2, <3>3
  <2>2. G = [s \in SUBSET S |-> Step(G, s)]
    <3> HIDE DEF Step, Value
    <3>1. \A s \in SUBSET S : Value(s) = Step(G, s)
      <4> TAKE s \in SUBSET S
      <4>1. G[s] = Value(s)
        OBVIOUS
      <4> QED BY <2>1, <4>1
    <3> HIDE DEF G
    <3>2. [s \in SUBSET S |-> Value(s)] = [s \in SUBSET S |-> Step(G, s)]
      BY <3>1
    <3> QED BY <3>2, Zenon DEF G
  <2> QED BY <1>3, <2>2
<1>5. ASSUME NEW f, Sums(S, f) PROVE (\A s \in SUBSET S : s # S => f[s] = Total(s)) /\ f[S] = K
  <2>1. f = [s \in SUBSET S |-> Step(f, s)]
    BY <1>3, <1>5
  <2>2. \A s \in SUBSET S : f[s] = Step(f, s)
    BY <2>1
  <2>3. ASSUME NEW s \in SUBSET S, s # S PROVE f[s] = Total(s)
    <3> DEFINE r == [u \in SUBSET s |-> f[u]]
    <3>1. \A u \in SUBSET s : f[u] = Step(r, u)
      <4> TAKE u \in SUBSET s
      <4>1. f[u] = Step(f, u)
        BY <2>2
      <4>2. u \ {Some(u)} \in SUBSET s
        OBVIOUS
      <4>3. r[u \ {Some(u)}] = f[u \ {Some(u)}]
        BY <4>2
      <4> QED BY <4>1, <4>3
    <3>2. Sums(s, r)
      BY <3>1 DEF Sums
    <3>3. r[s] = Total(s)
      BY <2>3, <3>2 DEF Summed
    <3> QED BY <3>3
  <2>4. f[S] = sizes[c] + f[S \ {c}]
    BY <2>2 DEF c
  <2>5. f[S \ {c}] = Total(S \ {c})
    BY <1>2, <2>3
  <2> QED BY <2>3, <2>4, <2>5
<1>6. Total(S) = K
  <2>1. Sums(S, CHOOSE f : Sums(S, f))
    BY <1>4
  <2> HIDE DEF K
  <2>2. (CHOOSE f : Sums(S, f))[S] = K
    BY <1>5, <2>1
  <2> QED BY <2>2, TotalIsSum
<1> HIDE DEF K, G
<1>7. ASSUME NEW f, Sums(S, f), NEW s \in SUBSET S PROVE f[s] = Total(s)
  BY <1>5, <1>6, <1>7
<1> QED BY <1>4, <1>7 DEF Summed

\* So it exists for every finite set.
LEMMA FiniteSummed == \A S : IsFiniteSet(S) => Summed(S)
<1> DEFINE T == {n \in Nat : \A S : IsFiniteSet(S) /\ Cardinality(S) <= n => Summed(S)}
<1>1. 0 \in T
  <2>1. ASSUME NEW S, IsFiniteSet(S), Cardinality(S) <= 0 PROVE Summed(S)
    <3>1. S = {}
      BY <2>1, FS_EmptySet, FS_CardinalityType
    <3> QED BY <3>1, EmptyTotal
  <2> QED BY <2>1
<1>2. ASSUME NEW n \in Nat, n \in T PROVE n + 1 \in T
  <2>1. ASSUME NEW S, IsFiniteSet(S), Cardinality(S) <= n + 1 PROVE Summed(S)
    <3>1. ASSUME NEW s \in SUBSET S, s # S PROVE Summed(s)
      <4>1. IsFiniteSet(s) /\ Cardinality(s) <= Cardinality(S) /\ Cardinality(s) # Cardinality(S)
        BY <2>1, <3>1, FS_Subset
      <4>2. Cardinality(s) \in Nat /\ Cardinality(S) \in Nat
        BY <2>1, <4>1, FS_CardinalityType
      <4>3. Cardinality(s) <= n
        BY <2>1, <4>1, <4>2
      <4> QED BY <1>2, <4>1, <4>3
    <3> QED BY <3>1, EmptyTotal, SummedStep
  <2> QED BY <2>1
<1>3. Nat \subseteq T
  <2> HIDE DEF T
  <2> QED BY <1>1, <1>2, NatSetInduction
<1> SUFFICES ASSUME NEW S, IsFiniteSet(S) PROVE Summed(S)
  OBVIOUS
<1>4. Cardinality(S) \in T /\ Cardinality(S) <= Cardinality(S)
  BY <1>3, FS_CardinalityType
<1> QED BY <1>4

\* A sum is that without one of the markets, and that one's size.
LEMMA TotalOfMarket ==
  ASSUME sizes \in Seq(Nat), NEW S \in SUBSET DOMAIN sizes, NEW x \in S
  PROVE  Total(S \ {x}) \in Nat /\ Total(S) = sizes[x] + Total(S \ {x})
<1> DEFINE T == {n \in Nat : \A R \in SUBSET DOMAIN sizes : Cardinality(R) <= n =>
                   Total(R) \in Nat /\ \A y \in R : Total(R) = sizes[y] + Total(R \ {y})}
<1>0. /\ DOMAIN sizes = 1..Len(sizes) /\ Len(sizes) \in Nat
      /\ \A y \in DOMAIN sizes : sizes[y] \in Nat
  OBVIOUS
<1>a. \A R \in SUBSET DOMAIN sizes : IsFiniteSet(R) /\ Cardinality(R) \in Nat
  <2>1. 1 \in Int /\ Len(sizes) \in Int
    BY <1>0
  <2>2. IsFiniteSet(DOMAIN sizes)
    BY <1>0, <2>1, FS_Interval
  <2> QED BY <2>2, FS_Subset, FS_CardinalityType
<1>1. 0 \in T
  <2>1. ASSUME NEW R \in SUBSET DOMAIN sizes, Cardinality(R) <= 0 PROVE R = {}
    BY <2>1, <1>a, FS_EmptySet
  <2> QED BY <2>1, EmptyTotal, InputAssumption
<1>2. ASSUME NEW n \in Nat, n \in T PROVE n + 1 \in T
  <2> SUFFICES ASSUME NEW R \in SUBSET DOMAIN sizes, Cardinality(R) <= n + 1, R # {}
               PROVE  Total(R) \in Nat /\ \A y \in R : Total(R) = sizes[y] + Total(R \ {y})
    BY EmptyTotal, InputAssumption
  <2> DEFINE c == Some(R)
  <2>1. c \in R /\ sizes[c] \in Nat
    BY <1>0 DEF Some
  <2>2. \A y \in R : R \ {y} \in SUBSET DOMAIN sizes /\ Cardinality(R \ {y}) <= n
    <3> TAKE y \in R
    <3>1. Cardinality(R \ {y}) = Cardinality(R) - 1
      BY <1>a, FS_RemoveElement
    <3> QED BY <1>a, <3>1
  <2>3. \A y \in R : /\ Total(R \ {y}) \in Nat
                     /\ \A z \in R \ {y} : Total(R \ {y}) = sizes[z] + Total((R \ {y}) \ {z})
    BY <1>2, <2>2
  <2>4. Total(R) = sizes[c] + Total(R \ {c})
    BY <1>a, FiniteSummed, SummedUnfolds
  <2> HIDE DEF c
  <2>5. ASSUME NEW y \in R PROVE Total(R) = sizes[y] + Total(R \ {y})
    <3>1. CASE y = c
      BY <2>4, <3>1
    <3>2. CASE y # c
      <4>1. Total(R \ {c}) = sizes[y] + Total((R \ {c}) \ {y})
        BY <2>1, <2>3, <3>2
      <4>2. Total(R \ {y}) = sizes[c] + Total((R \ {y}) \ {c})
        BY <2>1, <2>3, <3>2
      <4>3. (R \ {c}) \ {y} = (R \ {y}) \ {c}
        OBVIOUS
      <4>4. Total((R \ {y}) \ {c}) \in Nat
        <5>1. Cardinality((R \ {y}) \ {c}) <= n
          BY <1>a, <2>2, FS_Subset
        <5> QED BY <1>2, <2>2, <5>1
      <4>5. sizes[c] \in Nat /\ sizes[y] \in Nat
        BY <1>0, <2>1
      <4>6. Total(R \ {c}) = sizes[y] + Total((R \ {y}) \ {c})
        BY <4>1, <4>3
      <4>7. \A a, b, t \in Nat : a + (b + t) = b + (a + t)
        OBVIOUS
      <4>8. sizes[c] + (sizes[y] + Total((R \ {y}) \ {c})) = sizes[y] + (sizes[c] + Total((R \ {y}) \ {c}))
        BY <4>4, <4>5, <4>7
      <4> QED BY <2>4, <4>2, <4>6, <4>8, Zenon
    <3> QED BY <3>1, <3>2
  <2>6. Total(R) \in Nat
    BY <2>1, <2>3, <2>4
  <2> QED BY <2>5, <2>6
<1>3. Nat \subseteq T
  <2> HIDE DEF T
  <2> QED BY <1>1, <1>2, NatSetInduction
<1>4. \A R \in SUBSET DOMAIN sizes : Total(R) \in Nat /\ \A y \in R : Total(R) = sizes[y] + Total(R \ {y})
  <2> TAKE R \in SUBSET DOMAIN sizes
  <2>1. Cardinality(R) \in T /\ Cardinality(R) <= Cardinality(R)
    BY <1>3, <1>a
  <2> QED BY <2>1
<1> HIDE DEF T
<1> QED BY <1>4

\* More markets, no fewer tokens.
LEMMA TotalGrows ==
  ASSUME sizes \in Seq(Nat), NEW B \in SUBSET DOMAIN sizes, NEW A \in SUBSET B
  PROVE  Total(A) \in Nat /\ Total(B) \in Nat /\ Total(A) <= Total(B)
<1> DEFINE T == {n \in Nat : \A R \in SUBSET DOMAIN sizes : Cardinality(R) <= n =>
                   Total(R) \in Nat /\ \A Q \in SUBSET R : Total(Q) \in Nat /\ Total(Q) <= Total(R)}
<1>0. /\ DOMAIN sizes = 1..Len(sizes) /\ Len(sizes) \in Nat
      /\ \A y \in DOMAIN sizes : sizes[y] \in Nat
  OBVIOUS
<1>a. \A R \in SUBSET DOMAIN sizes : IsFiniteSet(R) /\ Cardinality(R) \in Nat
  <2>1. 1 \in Int /\ Len(sizes) \in Int
    BY <1>0
  <2>2. IsFiniteSet(DOMAIN sizes)
    BY <1>0, <2>1, FS_Interval
  <2> QED BY <2>2, FS_Subset, FS_CardinalityType
<1>b. Total({}) \in Nat
  BY EmptyTotal, InputAssumption
<1>1. 0 \in T
  <2>1. ASSUME NEW R \in SUBSET DOMAIN sizes, Cardinality(R) <= 0 PROVE R = {}
    BY <2>1, <1>a, FS_EmptySet
  <2>2. ASSUME NEW R \in SUBSET DOMAIN sizes, Cardinality(R) <= 0
        PROVE  Total(R) \in Nat /\ \A Q \in SUBSET R : Total(Q) \in Nat /\ Total(Q) <= Total(R)
    <3>1. R = {}
      BY <2>1, <2>2
    <3>2. ASSUME NEW Q \in SUBSET R PROVE Total(Q) \in Nat /\ Total(Q) <= Total(R)
      <4>1. Q = {}
        BY <3>1
      <4> QED BY <1>b, <3>1, <4>1
    <3> QED BY <1>b, <3>1, <3>2
  <2> QED BY <2>2
<1>2. ASSUME NEW n \in Nat, n \in T PROVE n + 1 \in T
  <2> SUFFICES ASSUME NEW R \in SUBSET DOMAIN sizes, Cardinality(R) <= n + 1
               PROVE  Total(R) \in Nat /\ \A Q \in SUBSET R : Total(Q) \in Nat /\ Total(Q) <= Total(R)
    OBVIOUS
  <2>1. ASSUME NEW y \in R
        PROVE  /\ Total(R) = sizes[y] + Total(R \ {y}) /\ Total(R \ {y}) \in Nat /\ sizes[y] \in Nat
               /\ \A Q \in SUBSET (R \ {y}) : Total(Q) \in Nat /\ Total(Q) <= Total(R \ {y})
    <3>1. Cardinality(R \ {y}) = Cardinality(R) - 1
      BY <1>a, FS_RemoveElement
    <3>2. Cardinality(R \ {y}) <= n /\ R \ {y} \in SUBSET DOMAIN sizes
      BY <1>a, <3>1
    <3> QED BY <1>0, <1>2, <3>2, TotalOfMarket
  <2>2. Total(R) \in Nat
    <3>1. CASE R = {}
      BY <1>b, <3>1
    <3>2. CASE R # {}
      <4>1. PICK y \in R : TRUE
        BY <3>2
      <4>2. Total(R) = sizes[y] + Total(R \ {y}) /\ Total(R \ {y}) \in Nat /\ sizes[y] \in Nat
        BY <2>1
      <4> QED BY <4>2
    <3> QED BY <3>1, <3>2
  <2>3. ASSUME NEW Q \in SUBSET R PROVE Total(Q) \in Nat /\ Total(Q) <= Total(R)
    <3>1. CASE Q = R
      BY <2>2, <3>1
    <3>2. CASE Q # R
      <4>1. PICK y \in R : y \notin Q
        BY <3>2
      <4>2. Q \in SUBSET (R \ {y})
        BY <4>1
      <4>3. Total(R) = sizes[y] + Total(R \ {y}) /\ Total(R \ {y}) \in Nat /\ sizes[y] \in Nat
        BY <2>1
      <4>4. Total(Q) \in Nat /\ Total(Q) <= Total(R \ {y})
        BY <2>1, <4>2
      <4> QED BY <4>3, <4>4
    <3> QED BY <3>1, <3>2
  <2> QED BY <2>2, <2>3
<1>3. Nat \subseteq T
  <2> HIDE DEF T
  <2> QED BY <1>1, <1>2, NatSetInduction
<1>4. Cardinality(B) \in T /\ Cardinality(B) <= Cardinality(B)
  BY <1>3, <1>a
<1> QED BY <1>4

---------------------------------------------------------------------------
(* What the limits allow.                                                  *)

Sized ==
  /\ sizes \in Seq(Nat)
  /\ limits \in [markets : Nat, prompt : Nat, answer : Nat, context : Nat]

\* Sets of markets are finite.
LEMMA MarketsFinite ==
  ASSUME Sized, NEW S \in SUBSET DOMAIN sizes
  PROVE  IsFiniteSet(S) /\ Cardinality(S) \in Nat
<1>1. DOMAIN sizes = 1..Len(sizes) /\ 1 \in Int /\ Len(sizes) \in Int
  BY DEF Sized
<1>2. IsFiniteSet(DOMAIN sizes)
  BY <1>1, FS_Interval
<1> QED BY <1>2, FS_Subset, FS_CardinalityType

\* A multiple of more is no less.
LEMMA TimesGrows == \A a, b, c \in Nat : b <= c => a * b \in Nat /\ a * c \in Nat /\ a * b <= a * c
OBVIOUS

\* What breaks a limit of tokens breaks it with more markets, too.
LEMMA BudgetGrows ==
  ASSUME Sized, NEW B \in SUBSET DOMAIN sizes, NEW A \in SUBSET B, ExceedsBudget(A), A # {}
  PROVE  ExceedsBudget(B)
<1> DEFINE a == Cardinality(A)
           b == Cardinality(B)
<1>1. a \in Nat /\ b \in Nat /\ a <= b /\ a # 0
  BY MarketsFinite, FS_Subset, FS_EmptySet
<1>2. \A S : PromptTokens(S) = Total(S) + Separator * Cardinality(S)
  BY Zenon DEF PromptTokens, Total
<1>3. Total(A) \in Nat /\ Total(B) \in Nat /\ Total(A) <= Total(B)
  BY TotalGrows DEF Sized
<1> HIDE DEF a, b
<1>4. Separator * a \in Nat /\ Separator * b \in Nat /\ Separator * a <= Separator * b
  BY <1>1, TimesGrows, InputAssumption
<1>5. PromptTokens(A) \in Nat /\ PromptTokens(B) \in Nat /\ PromptTokens(A) <= PromptTokens(B)
  <2>1. PromptTokens(A) = Total(A) + Separator * a /\ PromptTokens(B) = Total(B) + Separator * b
    BY <1>2 DEF a, b
  <2> QED BY <1>3, <1>4, <2>1
<1>6. PerMarket * a \in Nat /\ PerMarket * b \in Nat /\ PerMarket * a <= PerMarket * b
  BY <1>1, TimesGrows, InputAssumption
<1>7. estimate_output_tokens(a) = PerMarket * a /\ estimate_output_tokens(b) = PerMarket * b
  BY <1>1 DEF estimate_output_tokens
<1>8. limits.context \in Nat /\ limits.prompt \in Nat /\ limits.answer \in Nat
  BY DEF Sized
<1>9. \/ PromptTokens(A) + estimate_output_tokens(a) > limits.context
      \/ PromptTokens(A) > limits.prompt
      \/ estimate_output_tokens(a) > limits.answer
  BY DEF ExceedsBudget, a
<1>10. \/ PromptTokens(B) + estimate_output_tokens(b) > limits.context
       \/ PromptTokens(B) > limits.prompt
       \/ estimate_output_tokens(b) > limits.answer
  BY <1>5, <1>6, <1>7, <1>8, <1>9
<1> QED BY <1>10 DEF ExceedsBudget, b

\* A chunk of a cut that no end divides from a onwards reaches back to a.
LEMMA ChunkReaches ==
  ASSUME NEW ends \in SUBSET Nat, NEW to \in Nat, NEW a \in Nat \ {0},
         \A e \in ends : e < to => e < a
  PROVE  a..to \subseteq Chunk(ends, to) /\ Chunk(ends, to) \subseteq 1..to
<1> DEFINE before == {e \in ends : e < to}
           m == CHOOSE x \in before : \A e \in before : e <= x
           from == IF before = {} THEN 1 ELSE 1 + m
<1>1. Chunk(ends, to) = from..to
  BY DEF Chunk
<1>2. ASSUME before # {} PROVE m \in before
  <2>1. before \in SUBSET Nat /\ \A e \in before : e <= to
    <3>1. ASSUME NEW e \in before PROVE e \in Nat /\ e <= to
      <4>1. e \in Nat /\ e < to
        OBVIOUS
      <4> QED BY <4>1
    <3> QED BY <3>1
  <2> HIDE DEF before
  <2>2. \E x \in before : \A e \in before : e <= x
    BY <1>2, <2>1, GreatestNatural
  <2> QED BY <2>2
<1> HIDE DEF m
<1>3. before # {} => m \in Nat /\ m < a
  BY <1>2
<1>4. from \in Nat /\ 1 <= from /\ from <= a
  BY <1>3
<1> HIDE DEF from
<1> QED BY <1>1, <1>4

\* A way to cut that keeps the limits has an end among markets that break them.
LEMMA EndInside ==
  ASSUME Sized, NEW ends \in LegalCuts, NEW a \in Nat \ {0}, NEW b \in Nat, a < b, b <= Len(sizes),
         Cardinality(a..b) > limits.markets \/ ExceedsBudget(a..b)
  PROVE  \E e \in ends : a <= e /\ e < b
<1> SUFFICES ASSUME \A e \in ends : a <= e => ~(e < b) PROVE FALSE
  OBVIOUS
<1> DEFINE n == Len(sizes)
           L == {e \in ends \cup {n} : b <= e}
<1>0. n \in Nat /\ DOMAIN sizes = 1..n /\ limits.markets \in Nat
  BY DEF Sized
<1>1. ends \in SUBSET (1..(n - 1)) /\ \A to \in ends \cup {n} : Legal(Chunk(ends, to))
  BY DEF LegalCuts
<1> HIDE DEF n
<1>2. \A e \in ends : e \in Nat /\ 1 <= e /\ e <= n
  BY <1>0, <1>1
<1>3. L \in SUBSET Nat /\ L # {}
  BY <1>0, <1>2 DEF n
<1>4. PICK to \in L : \A e \in L : to <= e
  BY <1>3, LeastNatural
<1>5. to \in Nat /\ b <= to /\ to <= n /\ to \in ends \cup {n}
  BY <1>0, <1>2, <1>4
<1>6. ASSUME NEW e \in ends, e < to PROVE e < a
  <2>1. e \notin L
    BY <1>2, <1>4, <1>5, <1>6
  <2>2. e < b
    BY <1>2, <2>1
  <2> QED BY <1>2, <2>2
<1> DEFINE C == Chunk(ends, to)
<1>7. a..to \subseteq C /\ C \subseteq 1..to
  <2>1. ends \in SUBSET Nat
    BY <1>2
  <2> QED BY <1>5, <1>6, <2>1, ChunkReaches
<1>8. Legal(C)
  BY <1>1, <1>5
<1> HIDE DEF C, L
<1>9. a..b \in SUBSET C /\ C \in SUBSET DOMAIN sizes
  BY <1>0, <1>5, <1>7
<1>10. IsFiniteSet(C) /\ Cardinality(C) \in Nat
  BY <1>9, MarketsFinite
<1>11. Cardinality(a..b) <= Cardinality(C) /\ Cardinality(a..b) = b - a + 1
  <2>1. a \in Int /\ b \in Int
    OBVIOUS
  <2>2. Cardinality(a..b) = b - a + 1
    BY <2>1, FS_Interval
  <2> QED BY <1>9, <1>10, <2>2, FS_Subset
<1>12. Cardinality(C) # 1 /\ (Cardinality(a..b) > limits.markets => Cardinality(C) > limits.markets)
  BY <1>0, <1>10, <1>11
<1>13. ExceedsBudget(a..b) => ExceedsBudget(C)
  <2>1. a \in a..b
    OBVIOUS
  <2>2. a..b # {}
    BY <2>1
  <2> QED BY <1>9, <2>2, BudgetGrows
<1>14. Cardinality(C) <= limits.markets /\ ~ExceedsBudget(C)
  BY <1>8, <1>12 DEF Legal
<1> QED BY <1>0, <1>10, <1>12, <1>13, <1>14

---------------------------------------------------------------------------
(***************************************************************************)
(* The greedy cut stays ahead of every other one.                          *)
(***************************************************************************)

EndsUntil(ends, s) == {e \in ends : e < s}

\* Of the chunks of another way to cut, as many end before market s as are
\* closed; after the last market the one that ends there counts as well.
Ahead(ends, s) ==
  \/ Len(chunks) <= Cardinality(EndsUntil(ends, s))
  \/ s > Len(sizes) /\ Len(chunks) <= Cardinality(ends) + 1

\* Closed chunks keep the limits, and so does the open one, which begins where
\* no other cut has more chunks behind it.
GreedyInv ==
  /\ Sized
  /\ index \in 1..(Len(sizes) + 1)
  /\ chunks \in Seq(SUBSET Nat)
  /\ \A k \in 1..Len(chunks) : Legal(chunks[k])
  /\ current # {} => Legal(current)
  /\ \E s \in 1..index : current = s..(index - 1) /\ \A ends \in LegalCuts : Ahead(ends, s)

\* While the markets and the limits stay, so does what they allow.
LEMMA SameLimits ==
  ASSUME sizes' = sizes, limits' = limits
  PROVE  /\ \A S : Legal(S)' <=> Legal(S)
         /\ LegalCuts' = LegalCuts
<1> DEFINE T(f, S) == FoldFunctionOnSet(+, Header, f, S)
<1>1. \A S : PromptTokens(S) = T(sizes, S) + Separator * Cardinality(S)
  BY Zenon DEF PromptTokens
<1>2. \A S : PromptTokens(S)' = T(sizes', S) + Separator * Cardinality(S)
  BY Zenon DEF PromptTokens, FoldFunctionOnSet, MapThenFoldSet
<1> HIDE DEF T
<1>3. \A S : PromptTokens(S)' = PromptTokens(S)
  BY <1>1, <1>2
<1>4. \A S : ExceedsBudget(S)' <=> ExceedsBudget(S)
  BY <1>3 DEF ExceedsBudget
<1>5. \A S : Legal(S)' <=> Legal(S)
  BY <1>4 DEF Legal
<1>6. LegalCuts' = LegalCuts
  BY <1>5 DEF LegalCuts
<1> QED BY <1>5, <1>6

\* The ends before a market, and one more of them further on.
LEMMA EndsBefore ==
  ASSUME Sized, NEW ends \in LegalCuts, NEW s \in Nat \ {0}, NEW t \in Nat, s <= t
  PROVE  /\ Cardinality(EndsUntil(ends, s)) \in Nat /\ Cardinality(EndsUntil(ends, t)) \in Nat
         /\ Cardinality(ends) \in Nat /\ Cardinality(EndsUntil(ends, t)) <= Cardinality(ends)
         /\ Cardinality(EndsUntil(ends, s)) <= Cardinality(EndsUntil(ends, t))
         /\ (\E e \in ends : s <= e /\ e < t) =>
              Cardinality(EndsUntil(ends, s)) + 1 <= Cardinality(EndsUntil(ends, t))
<1>0. DOMAIN sizes = 1..Len(sizes) /\ Len(sizes) \in Nat
  BY DEF Sized
<1>1. ends \in SUBSET DOMAIN sizes /\ ends \in SUBSET Nat
  <2>1. ends \in SUBSET (1..(Len(sizes) - 1))
    BY DEF LegalCuts
  <2>2. 1..(Len(sizes) - 1) \subseteq DOMAIN sizes /\ 1..(Len(sizes) - 1) \subseteq Nat
    BY <1>0
  <2> QED BY <2>1, <2>2
<1>2. EndsUntil(ends, s) \in SUBSET EndsUntil(ends, t)
  BY <1>1 DEF EndsUntil
<1>3. EndsUntil(ends, t) \in SUBSET ends
  BY DEF EndsUntil
<1>4. IsFiniteSet(ends) /\ IsFiniteSet(EndsUntil(ends, t)) /\ IsFiniteSet(EndsUntil(ends, s))
  BY <1>1, <1>2, <1>3, MarketsFinite, FS_Subset
<1>5. ASSUME NEW e \in ends, s <= e, e < t
      PROVE  Cardinality(EndsUntil(ends, s)) + 1 <= Cardinality(EndsUntil(ends, t))
  <2>1. e \notin EndsUntil(ends, s) /\ EndsUntil(ends, s) \cup {e} \in SUBSET EndsUntil(ends, t)
    BY <1>1, <1>2, <1>5 DEF EndsUntil
  <2>2. Cardinality(EndsUntil(ends, s) \cup {e}) = Cardinality(EndsUntil(ends, s)) + 1
    BY <1>4, <2>1, FS_AddElement
  <2>3. Cardinality(EndsUntil(ends, s) \cup {e}) <= Cardinality(EndsUntil(ends, t))
    BY <1>4, <2>1, FS_Subset
  <2> QED BY <2>2, <2>3
<1> QED BY <1>2, <1>3, <1>4, <1>5, FS_Subset, FS_CardinalityType

\* Before the first market nothing is behind.
LEMMA GreedyStarts == ChunkingInit => GreedyInv
<1> SUFFICES ASSUME ChunkingInit PROVE GreedyInv
  OBVIOUS
<1>1. Sized
  BY InputAssumption DEF ChunkingInit, Sized
<1>2. index = 1 /\ current = {} /\ chunks = <<>> /\ Len(sizes) \in Nat
  BY <1>1 DEF ChunkingInit, Sized
<1>3. current = 1..(index - 1) /\ 1 \in 1..index
  BY <1>2
<1>4. ASSUME NEW ends \in LegalCuts PROVE Ahead(ends, 1)
  <2>1. Cardinality(EndsUntil(ends, 1)) \in Nat
    BY <1>1, EndsBefore
  <2> QED BY <1>2, <2>1 DEF Ahead
<1> QED BY <1>1, <1>2, <1>3, <1>4 DEF GreedyInv

\* The limits allow a single market always.
LEMMA SingleLegal == \A i : Legal({i})
BY FS_Singleton DEF Legal

\* Closing a chunk adds a legal one.
LEMMA AppendLegal ==
  ASSUME chunks \in Seq(SUBSET Nat), \A k \in 1..Len(chunks) : Legal(chunks[k]),
         NEW S \in SUBSET Nat, Legal(S)
  PROVE  /\ Append(chunks, S) \in Seq(SUBSET Nat)
         /\ Len(Append(chunks, S)) = Len(chunks) + 1
         /\ \A k \in 1..Len(Append(chunks, S)) : Legal(Append(chunks, S)[k])
<1> DEFINE ds == Append(chunks, S)
<1>1. /\ ds \in Seq(SUBSET Nat) /\ Len(ds) = Len(chunks) + 1 /\ Len(chunks) \in Nat
      /\ \A k \in 1..Len(chunks) : ds[k] = chunks[k]
      /\ ds[Len(chunks) + 1] = S
  OBVIOUS
<1> HIDE DEF ds
<1>2. ASSUME NEW k \in 1..Len(ds) PROVE Legal(ds[k])
  <2>1. k \in 1..Len(chunks) \/ k = Len(chunks) + 1
    BY <1>1
  <2> QED BY <1>1, <2>1
<1> QED BY <1>1, <1>2 DEF ds

\* Every round of the loop keeps ahead of every other way to cut.
LEMMA GreedyKeepsInv ==
  ASSUME GreedyInv, [ChunkingNext]_chunkVars
  PROVE  GreedyInv'
<1> DEFINE n == Len(sizes)
           m == Len(chunks)
<1>1. /\ Sized /\ index \in 1..(n + 1) /\ n \in Nat /\ index \in Nat
      /\ chunks \in Seq(SUBSET Nat) /\ m \in Nat
      /\ \A k \in 1..m : Legal(chunks[k])
      /\ current # {} => Legal(current)
  BY DEF GreedyInv, Sized
<1>2. PICK s \in 1..index : current = s..(index - 1) /\ \A ends \in LegalCuts : Ahead(ends, s)
  BY DEF GreedyInv
<1>3. s \in Nat \ {0} /\ s <= index /\ current \in SUBSET Nat /\ (current = {} <=> s = index)
  BY <1>1, <1>2
<1>4. sizes' = sizes /\ limits' = limits
  BY DEF ChunkingNext, Extend, Cut, CloseLast, chunkVars
<1>5. (\A S : Legal(S)' <=> Legal(S)) /\ LegalCuts' = LegalCuts /\ (Sized <=> Sized')
  BY <1>4, SameLimits DEF Sized
<1>6. CASE Extend
  <2>1. /\ index <= n /\ (Exceeds => current = {})
        /\ current' = current \cup {index} /\ index' = index + 1 /\ chunks' = chunks
    BY <1>6 DEF Extend, Trial
  <2>2. current' = s..(index' - 1) /\ s \in 1..index' /\ index' \in 1..(n + 1)
    BY <1>1, <1>2, <1>3, <2>1
  <2>3. Legal(current')
    <3>1. CASE current = {}
      BY <2>1, <3>1, SingleLegal
    <3>2. CASE ~Exceeds
      <4>1. current' = Trial
        BY <2>1 DEF Trial
      <4>2. Trial \in SUBSET DOMAIN sizes
        BY <1>1, <1>2, <1>3, <2>1 DEF Trial, Sized
      <4>3. Cardinality(Trial) \in Nat /\ limits.markets \in Nat
        BY <1>1, <4>2, MarketsFinite DEF Sized
      <4> QED BY <3>2, <4>1, <4>3 DEF Legal, Exceeds
    <3> QED BY <2>1, <3>1, <3>2
  <2>4. \A ends \in LegalCuts : Ahead(ends, s)'
    BY <1>2, <1>4, <2>1 DEF Ahead
  <2> QED BY <1>1, <1>4, <1>5, <2>1, <2>2, <2>3, <2>4 DEF GreedyInv
<1>7. CASE Cut
  <2>0. index <= n /\ Exceeds /\ current # {} /\ index' = index + 1
    BY <1>7 DEF Cut
  <2>00. s < index
    <3>1. s # index
      BY <1>3, <2>0
    <3> QED BY <1>1, <1>3, <3>1
  <2>1. index <= n /\ Exceeds /\ current # {} /\ index' = index + 1 /\ s < index
    BY <2>0, <2>00
  <2>2. ASSUME NEW ends \in LegalCuts
        PROVE  m + 1 <= Cardinality(EndsUntil(ends, index)) /\ Cardinality(EndsUntil(ends, index)) \in Nat
    <3>1. Trial = s..index
      BY <1>1, <1>2, <1>3, <2>1 DEF Trial
    <3>2. Cardinality(s..index) > limits.markets \/ ExceedsBudget(s..index)
      BY <2>1, <3>1 DEF Exceeds
    <3>3. \E e \in ends : s <= e /\ e < index
      BY <1>1, <1>3, <2>1, <3>2, EndInside
    <3>4. m <= Cardinality(EndsUntil(ends, s))
      BY <1>1, <1>2, <2>1 DEF Ahead
    <3>5. /\ Cardinality(EndsUntil(ends, s)) \in Nat
          /\ Cardinality(EndsUntil(ends, index)) \in Nat
          /\ Cardinality(EndsUntil(ends, s)) + 1 <= Cardinality(EndsUntil(ends, index))
      BY <1>1, <1>3, <3>3, EndsBefore
    <3> QED BY <1>1, <3>4, <3>5
  <2>3. CASE ExceedsBudget({index})
    <3>1. chunks' = chunks \o <<current, {index}>> /\ current' = {}
      BY <1>7, <2>3 DEF Cut, CloseAround
    <3> DEFINE ds == Append(chunks, current)
    <3>2. /\ ds \in Seq(SUBSET Nat) /\ Len(ds) = m + 1
          /\ \A k \in 1..Len(ds) : Legal(ds[k])
      BY <1>1, <1>3, <2>1, AppendLegal
    <3>3. chunks' = Append(ds, {index})
      BY <1>1, <1>3, <3>1
    <3> HIDE DEF ds
    <3>4. /\ chunks' \in Seq(SUBSET Nat) /\ Len(chunks') = m + 2
          /\ \A k \in 1..Len(chunks') : Legal(chunks'[k])
      <4>1. Legal({index}) /\ {index} \in SUBSET Nat
        BY <1>1, SingleLegal
      <4>2. \A k \in 1..(Len(ds) + 1) : k \in 1..Len(ds) \/ k = Len(ds) + 1
        BY <1>1, <3>2
      <4> QED BY <1>1, <3>2, <3>3, <4>1, <4>2
    <3> PICK t : t = index + 1
      OBVIOUS
    <3>5. ASSUME NEW ends \in LegalCuts PROVE Ahead(ends, t)'
      <4>1. CASE index < n
        <5>1. index..(index + 1) \in SUBSET DOMAIN sizes /\ {index} \in SUBSET (index..(index + 1))
          BY <1>1, <4>1 DEF Sized
        <5>2. ExceedsBudget(index..(index + 1))
          BY <1>1, <2>3, <5>1, BudgetGrows
        <5>3. \E e \in ends : index <= e /\ e < index + 1
          BY <1>1, <4>1, <5>2, EndInside
        <5>4. /\ Cardinality(EndsUntil(ends, index)) + 1 <= Cardinality(EndsUntil(ends, index + 1))
              /\ Cardinality(EndsUntil(ends, index + 1)) \in Nat
          <6>1. index \in Nat \ {0} /\ index + 1 \in Nat /\ index <= index + 1
            BY <1>1
          <6> QED BY <1>1, <5>3, <6>1, EndsBefore
        <5>5. m + 2 <= Cardinality(EndsUntil(ends, index + 1))
          BY <1>1, <2>2, <5>4
        <5>6. Len(chunks') <= Cardinality(EndsUntil(ends, t))
          BY <3>4, <5>5
        <5> QED BY <5>6 DEF Ahead, EndsUntil
      <4>2. CASE index = n
        <5>1. Cardinality(EndsUntil(ends, index)) <= Cardinality(ends) /\ Cardinality(ends) \in Nat
          BY <1>1, EndsBefore
        <5>2. m + 2 <= Cardinality(ends) + 1 /\ index + 1 > n
          BY <1>1, <2>2, <4>2, <5>1
        <5>3. Len(chunks') <= Cardinality(ends) + 1 /\ t > Len(sizes')
          BY <1>4, <3>4, <5>2
        <5> QED BY <5>3 DEF Ahead
      <4> QED BY <1>1, <2>1, <4>1, <4>2
    <3>6. current' = t..(index' - 1) /\ t \in 1..index' /\ index' \in 1..(n + 1)
      BY <1>1, <2>1, <3>1
    <3> QED BY <1>1, <1>4, <1>5, <3>1, <3>4, <3>5, <3>6 DEF GreedyInv
  <2>4. CASE ~ExceedsBudget({index})
    <3>1. chunks' = Append(chunks, current) /\ current' = {index}
      BY <1>7, <2>4 DEF Cut
    <3>2. /\ chunks' \in Seq(SUBSET Nat) /\ Len(chunks') = m + 1
          /\ \A k \in 1..Len(chunks') : Legal(chunks'[k])
      BY <1>1, <1>3, <2>1, <3>1, AppendLegal
    <3> PICK t : t = index
      OBVIOUS
    <3>3. ASSUME NEW ends \in LegalCuts PROVE Ahead(ends, t)'
      <4>1. Len(chunks') <= Cardinality(EndsUntil(ends, t))
        BY <2>2, <3>2
      <4> QED BY <4>1 DEF Ahead, EndsUntil
    <3>4. current' = t..(index' - 1) /\ t \in 1..index' /\ index' \in 1..(n + 1)
      BY <1>1, <2>1, <3>1
    <3> QED BY <1>1, <1>4, <1>5, <3>1, <3>2, <3>3, <3>4, SingleLegal DEF GreedyInv
  <2> QED BY <2>3, <2>4
<1>8. CASE CloseLast
  <2>1. index > n /\ current # {} /\ chunks' = Append(chunks, current) /\ current' = {} /\ index' = index
    BY <1>8 DEF CloseLast
  <2>2. /\ chunks' \in Seq(SUBSET Nat) /\ Len(chunks') = m + 1
        /\ \A k \in 1..Len(chunks') : Legal(chunks'[k])
    BY <1>1, <1>3, <2>1, AppendLegal
  <2> PICK t : t = index
    OBVIOUS
  <2>3. ASSUME NEW ends \in LegalCuts PROVE Ahead(ends, t)'
    <3>1. m <= Cardinality(EndsUntil(ends, s))
      <4>1. s # index
        BY <1>3, <2>1
      <4>2. ~(s > n)
        BY <1>1, <1>3, <4>1
      <4> QED BY <1>2, <4>2 DEF Ahead
    <3>2. Cardinality(EndsUntil(ends, s)) <= Cardinality(ends) /\ Cardinality(ends) \in Nat
          /\ Cardinality(EndsUntil(ends, s)) \in Nat
      BY <1>1, <1>3, EndsBefore
    <3>3. m + 1 <= Cardinality(ends) + 1
      BY <1>1, <3>1, <3>2
    <3>4. t > Len(sizes') /\ Len(chunks') <= Cardinality(ends) + 1
      BY <1>1, <1>4, <2>1, <2>2, <3>3
    <3> QED BY <3>4 DEF Ahead
  <2>4. current' = t..(index' - 1) /\ t \in 1..index'
    BY <1>1, <2>1
  <2> QED BY <1>1, <1>4, <1>5, <2>1, <2>2, <2>3, <2>4 DEF GreedyInv
<1>9. CASE UNCHANGED chunkVars
  <2>1. index' = index /\ current' = current /\ chunks' = chunks
    BY <1>9 DEF chunkVars
  <2>2. \A ends \in LegalCuts : Ahead(ends, s)'
    BY <1>2, <1>4, <2>1 DEF Ahead
  <2> QED BY <1>1, <1>2, <1>4, <1>5, <2>1, <2>2 DEF GreedyInv
<1> QED BY <1>6, <1>7, <1>8, <1>9 DEF ChunkingNext

\* What is ahead at every step is best at the end.
LEMMA GreedyIsBest == GreedyInv => CutIsBest
<1> SUFFICES ASSUME GreedyInv, ChunkingDone
             PROVE  /\ \A k \in DOMAIN chunks : Legal(chunks[k])
                    /\ \A ends \in LegalCuts : Len(chunks) <= Cardinality(ends) + 1
  BY DEF CutIsBest
<1>1. chunks \in Seq(SUBSET Nat) /\ DOMAIN chunks = 1..Len(chunks) /\ Len(chunks) \in Nat
  BY DEF GreedyInv
<1>2. Sized /\ index \in Nat
  BY DEF GreedyInv, Sized
<1>3. PICK s \in 1..index : current = s..(index - 1) /\ \A ends \in LegalCuts : Ahead(ends, s)
  BY DEF GreedyInv
<1>4. s \in Nat \ {0}
  BY <1>2, <1>3
<1>5. ASSUME NEW ends \in LegalCuts PROVE Len(chunks) <= Cardinality(ends) + 1
  <2>1. /\ Cardinality(EndsUntil(ends, s)) <= Cardinality(ends) /\ Cardinality(ends) \in Nat
        /\ Cardinality(EndsUntil(ends, s)) \in Nat
    BY <1>2, <1>4, EndsBefore
  <2> QED BY <1>1, <1>3, <2>1 DEF Ahead
<1> QED BY <1>1, <1>5 DEF GreedyInv

\* The loop and the calls together.
LEMMA GreedyHolds == Spec => []GreedyInv
<1>1. Init => GreedyInv
  BY GreedyStarts DEF Init
<1>2. ASSUME GreedyInv, [Next]_vars PROVE GreedyInv'
  <2>1. [ChunkingNext]_chunkVars
    BY <1>2 DEF Next, CutMarkets, OpenPool, Call, TakeTask, Prepare, PrepareSucceeds, PrepareFails,
                Answered, Raises, Retry, GiveUp, vars, chunkVars
  <2> QED
    BY <1>2, <2>1, GreedyKeepsInv
<1> QED
  BY <1>1, <1>2, PTL DEF Spec

\* For events of any length, market sizes and limits: every chunk keeps all the
\* limits or is a single market, and no other way to cut the markets into chunks
\* that do takes fewer (chunk_markets_for_prompt, prompts.py:313-347).
THEOREM CutsAreBest == Spec => []CutIsBest
BY GreedyHolds, GreedyIsBest, PTL

---------------------------------------------------------------------------
(***************************************************************************)
(* The calls are a task pool.                                               *)
(***************************************************************************)

\* There are no more chunks than markets read, so that the number of a chunk,
\* which names its task, is that of a market too.
CountInv ==
  /\ \E in \in Inputs : sizes = in.sizes
  /\ sizes \in Seq(Nat) /\ index \in 1..(Len(sizes) + 1)
  /\ Len(chunks) < index /\ (current # {} => Len(chunks) + 1 < index)
  /\ DOMAIN call \subseteq DOMAIN sizes

\* A chunk is closed for a market, and at most the last one beside it.
LEMMA CountKept ==
  ASSUME LlmInv, CountInv, [Next]_vars
  PROVE  CountInv'
<1>1. chunks \in Seq(SUBSET Nat) /\ Len(chunks) \in Nat
  BY DEF LlmInv, ChunkInv, Cutting, Typed
<1>2. Len(sizes) \in Nat /\ index \in Nat /\ DOMAIN sizes = 1..Len(sizes)
  BY DEF CountInv
<1>3. CASE CutMarkets
  <2>1. CASE Extend
    BY <1>1, <1>2, <1>3, <2>1 DEF CountInv, CutMarkets, callVars, Extend
  <2>2. CASE Cut
    <3>1. /\ current # {} /\ index <= Len(sizes) /\ index' = index + 1
          /\ sizes' = sizes /\ call' = call
      BY <1>3, <2>2 DEF Cut, CutMarkets, callVars
    <3>2. CASE chunks' = CloseAround /\ current' = {}
      <4>1. Len(chunks') = Len(chunks) + 2
        BY <1>1, <3>2 DEF CloseAround
      <4> QED BY <1>1, <1>2, <3>1, <3>2, <4>1 DEF CountInv
    <3>3. CASE chunks' = Append(chunks, current) /\ current' = {index}
      <4>1. Len(chunks') = Len(chunks) + 1
        BY <1>1, <3>3
      <4> QED BY <1>1, <1>2, <3>1, <4>1 DEF CountInv
    <3> QED BY <2>2, <3>2, <3>3 DEF Cut
  <2>3. CASE CloseLast
    <3>1. Len(chunks') = Len(chunks) + 1
      BY <1>1, <2>3 DEF CloseLast
    <3> QED BY <1>1, <1>2, <1>3, <2>3, <3>1 DEF CountInv, CutMarkets, callVars, CloseLast
  <2> QED BY <1>3, <2>1, <2>2, <2>3 DEF CutMarkets, ChunkingNext
<1>4. CASE OpenPool
  <2>1. DOMAIN call' = 1..Len(chunks)
    BY <1>1, <1>4 DEF OpenPool, Tasks
  <2> QED BY <1>1, <1>2, <1>4, <2>1 DEF CountInv, OpenPool, chunkVars
<1>5. ASSUME NEW t \in DOMAIN call, Call(t) PROVE CountInv'
  <2>1. UNCHANGED chunkVars
    BY <1>5 DEF Call, TakeTask, Prepare, PrepareSucceeds, PrepareFails, Answered, Raises, Retry, GiveUp
  <2>2. DOMAIN call' = DOMAIN call
    BY <1>5, CallMoves DEF LlmInv, CallInv
  <2> QED BY <2>1, <2>2 DEF CountInv, chunkVars
<1>6. CASE UNCHANGED vars
  BY <1>6 DEF CountInv, vars, chunkVars, callVars
<1> QED BY <1>3, <1>4, <1>5, <1>6 DEF Next

\* The loop begins with no chunk, and no call.
LEMMA CountStarts == Init => CountInv
<1> SUFFICES ASSUME Init PROVE CountInv
  OBVIOUS
<1>1. PICK in \in Inputs : sizes = in.sizes
  BY DEF Init, ChunkingInit
<1>2. sizes \in Seq(Nat)
  BY <1>1, InputAssumption
<1>3. Len(chunks) = 0 /\ DOMAIN call = {} /\ index = 1 /\ current = {}
  BY DEF Init, ChunkingInit
<1> QED BY <1>1, <1>2, <1>3 DEF CountInv

\* A call's step moves its task through the pool, or stays with its worker.
LEMMA CallStepsPool ==
  ASSUME LlmInv, CountInv, NEW t \in DOMAIN call, Call(t)
  PROVE  [Pool!Next]_Pool!poolVars
<1>1. t \in UNION {DOMAIN in.sizes : in \in Inputs}
  BY DEF CountInv
<1>2. Workers' = Workers
  <2>1. backend' = backend
    BY DEF Call, TakeTask, Prepare, PrepareSucceeds, PrepareFails, Answered, Raises, Retry, GiveUp
  <2> QED BY <2>1 DEF Workers
<1>3. CallTypes
  BY DEF LlmInv, CallInv
<1> PICK r \in [stage : Stages, attempt : Nat] : call' = [call EXCEPT ![t] = r]
  BY <1>3, CallMoves
<1>4. CallTypes' /\ \A x \in Stages : At(x)' = IF x = r.stage THEN At(x) \cup {t} ELSE At(x) \ {t}
  BY <1>3, MoveStage
<1>5. call'[t] = r /\ call[t].stage \in Stages
  BY <1>3 DEF CallTypes
<1>6. \A x \in Stages : t \in At(x) <=> call[t].stage = x
  BY DEF At
<1>7. CASE TakeTask(t)
  <2>1. r.stage = "attempt" /\ call[t].stage = "queued"
    BY <1>3, <1>5, <1>7 DEF TakeTask, Move, At
  <2>2. /\ t \in At("queued") /\ At("queued")' = At("queued") \ {t}
        /\ Busy' = Busy \cup {t} /\ At("answered")' = At("answered") /\ At("failed")' = At("failed")
    BY <1>4, <1>6, <2>1 DEF Busy, Stages
  <2>3. Pool!Cardinality(Busy) < Workers
    <3>1. Pool!Cardinality(Busy) = Cardinality(Busy)
      BY Zenon DEF Pool!Cardinality, Cardinality
    <3> QED BY <1>7, <3>1 DEF TakeTask
  <2>4. Pool!Take(t)
    BY <1>2, <2>2, <2>3 DEF Pool!Take
  <2> QED BY <1>1, <2>4 DEF Pool!Next
<1>8. CASE ~TakeTask(t)
  <2>1. call[t].stage \in {"attempt", "preparing", "asking"}
    BY <1>8 DEF Call, Prepare, PrepareSucceeds, PrepareFails, Answered, Raises, Retry, GiveUp, At
  <2>2. t \in Busy /\ At("queued")' = At("queued") \ {t} /\ t \notin At("queued")
    <3>1. r.stage # "queued"
      BY <1>5, <1>8 DEF Call, Prepare, PrepareSucceeds, PrepareFails, Answered, Raises, Retry, GiveUp,
                        Move
    <3> QED BY <1>4, <1>6, <2>1, <3>1 DEF Busy, Stages
  <2>3. CASE r.stage = "answered"
    <3>1. /\ Busy' = Busy \ {t} /\ At("answered")' = At("answered") \cup {t}
          /\ At("failed")' = At("failed")
      BY <1>4, <1>6, <2>1, <2>3 DEF Busy, Stages
    <3>2. Pool!Answer(t)
      BY <1>2, <2>2, <3>1 DEF Pool!Answer
    <3> QED BY <1>1, <3>2 DEF Pool!Next
  <2>4. CASE r.stage = "failed"
    <3>1. /\ Busy' = Busy \ {t} /\ At("failed")' = At("failed") \cup {t}
          /\ At("answered")' = At("answered")
      BY <1>4, <1>6, <2>1, <2>4 DEF Busy, Stages
    <3>2. Pool!Fail(t)
      BY <1>2, <2>2, <3>1 DEF Pool!Fail
    <3> QED BY <1>1, <3>2 DEF Pool!Next
  <2>5. CASE r.stage \in {"attempt", "preparing", "asking"}
    <3>1. Busy' = Busy /\ At("answered")' = At("answered") /\ At("failed")' = At("failed")
      BY <1>4, <1>6, <2>1, <2>5 DEF Busy, Stages
    <3> QED BY <1>2, <2>2, <3>1 DEF Pool!poolVars
  <2>6. r.stage \in {"answered", "failed", "attempt", "preparing", "asking"}
    BY <1>5, <1>8 DEF Call, Prepare, PrepareSucceeds, PrepareFails, Answered, Raises, Retry, GiveUp,
                      Move
  <2> QED BY <2>3, <2>4, <2>5, <2>6
<1> QED BY <1>7, <1>8

\* A call is a task of the abstract pool, whose workers, retries and shared
\* backend nobody sees (infer.py, infer_event_fragments; llm.py, generate_fragment).
THEOREM PoolImplemented == Spec => ImplementsPool
<1>1. Init => CountInv /\ Pool!Init
  <2> SUFFICES ASSUME Init PROVE CountInv /\ Pool!Init
    OBVIOUS
  <2>1. \A x : At(x) = {}
    BY DEF Init, At
  <2>2. Busy = {}
    BY <2>1 DEF Busy
  <2>3. Workers \in Nat \ {0}
    BY SettingsAssumption DEF Workers
  <2> QED BY CountStarts, <2>1, <2>2, <2>3 DEF Pool!Init
<1>2. LlmInv /\ CountInv /\ [Next]_vars => CountInv'
  BY CountKept
<1>3. LlmInv /\ CountInv /\ [Next]_vars => [Pool!Next]_Pool!poolVars
  <2> SUFFICES ASSUME LlmInv, CountInv, [Next]_vars PROVE [Pool!Next]_Pool!poolVars
    OBVIOUS
  <2>1. CASE CutMarkets \/ UNCHANGED vars
    <3>1. call' = call /\ backend' = backend
      BY <2>1 DEF CutMarkets, vars, callVars
    <3>2. /\ Workers' = Workers /\ Busy' = Busy /\ At("queued")' = At("queued")
          /\ At("answered")' = At("answered") /\ At("failed")' = At("failed")
      BY <3>1 DEF Workers, Busy, At
    <3> QED BY <3>2 DEF Pool!poolVars
  <2>2. CASE OpenPool
    <3>1. \A x : At(x) = {}
      BY <2>2 DEF OpenPool, At
    <3>2. /\ \A x \in Stages : x # "queued" => At(x)' = {}
          /\ At("queued")' = DOMAIN call'
      BY <2>2 DEF OpenPool, At
    <3>3. DOMAIN call' \subseteq UNION {DOMAIN in.sizes : in \in Inputs}
      <4>1. CountInv' /\ sizes' = sizes
        BY <2>2, CountKept DEF OpenPool, chunkVars
      <4> QED BY <4>1 DEF CountInv
    <3>4. Workers' = Workers
      BY <2>2 DEF OpenPool, Workers
    <3>5. Busy = {} /\ Busy' = {}
      BY <3>1, <3>2 DEF Busy, Stages
    <3>6. Pool!Submit
      BY <3>1, <3>2, <3>3, <3>4, <3>5 DEF Pool!Submit, Stages
    <3> QED BY <3>6 DEF Pool!Next
  <2>3. ASSUME NEW t \in DOMAIN call, Call(t) PROVE [Pool!Next]_Pool!poolVars
    BY <2>3, CallStepsPool
  <2> QED BY <2>1, <2>2, <2>3 DEF Next
<1> QED BY <1>1, <1>2, <1>3, LlmInvHolds, PTL DEF Spec, ImplementsPool, Pool!Safety

---------------------------------------------------------------------------
(* No call goes on for ever.                                               *)

AttemptsInv == \A t \in DOMAIN call : call[t].attempt \in 0..max_retries

\* A step of a call moves the call alone, and brings it nearer to its end.
LEMMA CallWears ==
  ASSUME CallTypes, AttemptsInv, NEW t \in DOMAIN call, Call(t)
  PROVE  /\ DOMAIN call' = DOMAIN call
         /\ \A u \in DOMAIN call \ {t} : call'[u] = call[u]
         /\ StepsLeft(t)' < StepsLeft(t) /\ StepsLeft(t)' \in Nat
         /\ call'[t].attempt \in 0..max_retries
<1> PICK r \in [stage : Stages, attempt : Nat] : call' = [call EXCEPT ![t] = r]
  BY CallMoves
<1>1. /\ DOMAIN call' = DOMAIN call /\ call'[t] = r
      /\ \A u \in DOMAIN call \ {t} : call'[u] = call[u]
  BY DEF CallTypes
<1> DEFINE a == call[t].attempt
           c == call[t].stage
<1>2. a \in Nat /\ a <= max_retries /\ c \in Stages /\ max_retries \in Nat
  BY SettingsAssumption DEF CallTypes, AttemptsInv
<1>3. \/ /\ r.attempt = a
         /\ \/ c = "queued" /\ r.stage = "attempt"
            \/ c = "attempt" /\ r.stage \in {"preparing", "asking"}
            \/ c = "preparing" /\ r.stage \in {"asking", "failed"}
            \/ c = "asking" /\ r.stage \in {"answered", "failed"}
      \/ r.attempt = a + 1 /\ a < max_retries /\ c = "asking" /\ r.stage = "attempt"
  BY <1>1 DEF Call, TakeTask, Prepare, PrepareSucceeds, PrepareFails, Answered, Raises, Retry, GiveUp,
              Move, At
<1>4. /\ StepsLeft(t)' = 3 * (max_retries - r.attempt) + StepsBehind[r.stage]
      /\ StepsLeft(t) = 3 * (max_retries - a) + StepsBehind[c]
  BY <1>1 DEF StepsLeft, StepsBehind
<1> HIDE DEF a, c
<1>5. r.attempt \in 0..max_retries
  BY <1>2, <1>3
<1>6. StepsLeft(t)' < StepsLeft(t) /\ StepsLeft(t)' \in Nat
  BY <1>2, <1>3, <1>4, <1>5 DEF StepsBehind
<1> QED BY <1>1, <1>5, <1>6

\* Whatever the model answers, a call has fewer steps left with every one it takes
\* (llm.py, generate_fragment).
THEOREM NoCallGoesOn == Spec => AttemptsRunOut
<1> DEFINE Wears ==
             \A t \in DOMAIN call :
               call'[t] # call[t] => StepsLeft(t)' < StepsLeft(t) /\ StepsLeft(t)' \in Nat
<1>1. Init => AttemptsInv
  BY DEF Init, AttemptsInv
<1>2. LlmInv /\ AttemptsInv /\ [Next]_vars => AttemptsInv' /\ [Wears]_vars
  <2> SUFFICES ASSUME LlmInv, AttemptsInv, [Next]_vars PROVE AttemptsInv' /\ Wears
    OBVIOUS
  <2>1. CASE CutMarkets \/ UNCHANGED vars
    <3>1. call' = call
      BY <2>1 DEF CutMarkets, vars, callVars
    <3> QED BY <3>1 DEF AttemptsInv
  <2>2. CASE OpenPool
    <3>1. DOMAIN call = {} /\ \A t \in DOMAIN call' : call'[t].attempt = 0
      BY <2>2 DEF OpenPool
    <3> QED BY <3>1, SettingsAssumption DEF AttemptsInv
  <2>3. ASSUME NEW t \in DOMAIN call, Call(t) PROVE AttemptsInv' /\ Wears
    <3>1. /\ DOMAIN call' = DOMAIN call
          /\ \A u \in DOMAIN call \ {t} : call'[u] = call[u]
          /\ StepsLeft(t)' < StepsLeft(t) /\ StepsLeft(t)' \in Nat
          /\ call'[t].attempt \in 0..max_retries
      BY <2>3, CallWears DEF LlmInv, CallInv
    <3> QED BY <3>1 DEF AttemptsInv
  <2> QED BY <2>1, <2>2, <2>3 DEF Next
<1> QED BY <1>1, <1>2, LlmInvHolds, PTL DEF Spec, AttemptsRunOut
=============================================================================
