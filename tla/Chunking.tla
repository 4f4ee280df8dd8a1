------------------------------ MODULE Chunking ------------------------------
(***************************************************************************)
(* chunk_markets_for_prompt in prompts.py: the markets of an event are cut, *)
(* in their order, into the chunks that become the prompts of the residual  *)
(* path.  A market is its size in estimated tokens; a chunk is a set of     *)
(* market indexes.  Four limits are kept: the markets of a chunk, the       *)
(* tokens of its prompt, the tokens of its answer, and both together in the *)
(* context window.  A market that breaks a limit on its own gets a chunk of *)
(* its own.                                                                 *)
(***************************************************************************)
EXTENDS Naturals, Sequences, FiniteSets, Functions

CONSTANTS
  Inputs,      \* events to chunk: the sizes of their markets, and the limits
  Header,      \* _event_header_tokens
  Separator,   \* tokens counted for every market beside its own
  PerMarket    \* tokens of the answer estimated for a market

ASSUME InputAssumption ==
  /\ \A in \in Inputs :
       /\ in.sizes \in Seq(Nat)
       /\ in.limits \in [markets : Nat, prompt : Nat, answer : Nat, context : Nat]
  /\ Header \in Nat /\ Separator \in Nat /\ PerMarket \in Nat \ {0}

VARIABLES
  sizes,    \* market_token_sizes
  limits,   \* max_markets_per_chunk, token_budget, output_token_budget, and
            \* n_ctx less the safety margin
  index,    \* the market the loop treats next
  current,  \* current_indices
  chunks    \* chunks

chunkVars == <<sizes, limits, index, current, chunks>>

---------------------------------------------------------------------------
\* _chunk_exceeds_budget_incremental
PromptTokens(S) ==
  FoldFunctionOnSet(+, Header, sizes, S) + Separator * Cardinality(S)

estimate_output_tokens(n) == IF n = 0 THEN 1 ELSE PerMarket * n

ExceedsBudget(S) ==
  LET output == estimate_output_tokens(Cardinality(S))
  IN \/ PromptTokens(S) + output > limits.context
     \/ PromptTokens(S) > limits.prompt
     \/ output > limits.answer

Trial == current \cup {index}

\* Slip: the chunk as it is, not the one the market would make, is tested.
ExceedsLate == Cardinality(current) > limits.markets \/ ExceedsBudget(current)

Exceeds == Cardinality(Trial) > limits.markets \/ ExceedsBudget(Trial)

ChunkingInit ==
  /\ \E in \in Inputs : sizes = in.sizes /\ limits = in.limits
  /\ index = 1 /\ current = {} /\ chunks = <<>>

\* The market joins the current chunk; an empty chunk takes any market.
Extend ==
  /\ index <= Len(sizes)
  /\ Exceeds => current = {}
  /\ current' = Trial
  /\ index' = index + 1
  /\ UNCHANGED <<sizes, limits, chunks>>

\* Slip: a market too large for any chunk is left out.
CloseBoth == Append(chunks, current)

\* The chunks closed when the market fits no chunk at all.
CloseAround == chunks \o <<current, {index}>>

\* The market does not fit: the current chunk is closed before it.
Cut ==
  /\ index <= Len(sizes)
  /\ Exceeds /\ current # {}
  /\ IF ExceedsBudget({index})
     THEN chunks' = CloseAround /\ current' = {}
     ELSE chunks' = Append(chunks, current) /\ current' = {index}
  /\ index' = index + 1
  /\ UNCHANGED <<sizes, limits>>

\* After the last market.
CloseLast ==
  /\ index > Len(sizes) /\ current # {}
  /\ chunks' = Append(chunks, current)
  /\ current' = {}
  /\ UNCHANGED <<sizes, limits, index>>

ChunkingDone == index > Len(sizes) /\ current = {}

ChunkingNext == Extend \/ Cut \/ CloseLast

---------------------------------------------------------------------------
\* Chunks in order, with the one being filled.
Cuts == IF current = {} THEN chunks ELSE Append(chunks, current)

\* Every market read so far is in exactly one chunk, chunks follow the order of
\* the markets, and none is empty: no market is lost or asked twice, at the
\* market that is too large for any chunk included (prompts.py:329-342).
ChunksCoverInOrder ==
  /\ UNION {Cuts[k] : k \in DOMAIN Cuts} = 1..(index - 1)
  /\ \A k \in DOMAIN Cuts : Cuts[k] # {}
  /\ \A j, k \in DOMAIN Cuts : j < k => \A a \in Cuts[j], b \in Cuts[k] : a < b

\* A chunk the limits allow.
Legal(S) ==
  Cardinality(S) = 1 \/ (Cardinality(S) <= limits.markets /\ ~ExceedsBudget(S))

\* Chunks [from, to] of a way to cut the markets, given by the last markets of
\* its chunks but the final one.
Chunk(ends, to) ==
  LET before == {e \in ends : e < to}
      from == IF before = {} THEN 1 ELSE 1 + CHOOSE m \in before : \A e \in before : e <= m
  IN from..to

LegalCuts ==
  {ends \in SUBSET (1..(Len(sizes) - 1)) :
     \A to \in ends \cup {Len(sizes)} : Legal(Chunk(ends, to))}

\* The loop is greedy, and loses nothing by it: every chunk keeps all four
\* limits unless it is a single market, and no other way to cut the markets
\* that keeps them takes fewer calls of the LLM (prompts.py:313-347).
CutIsBest ==
  ChunkingDone =>
    /\ \A k \in DOMAIN chunks : Legal(chunks[k])
    /\ sizes # <<>> => \A ends \in LegalCuts : Len(chunks) <= Cardinality(ends) + 1
=============================================================================
