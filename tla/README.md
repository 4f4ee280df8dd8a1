# A TLA+ model of oddsgraph

`oddsgraph` turns hourly Polymarket rows about the 2026 World Cup into a typed
graph: markets are reduced to one row each, every event becomes a *fragment*
(by a deterministic template, or by an LLM over chunks of its markets), the
fragments' nodes are resolved to canonical entities, edges are deduplicated and
checked, a rule engine adds logical edges, and the result is exported and
validated.  Most of its intelligence is in what may be *reused*: fragments,
parts, topologies, verified answers and manifests live as files under
`build/fragments`, and later runs, with other settings, other events and other
data, decide from them what need not be done again.

This directory holds a TLA+ model of that program, TLC configurations that
check it on small instances, and theorems that TLAPS checks for every value of
the constants.  Paths like `infer.py:461` are relative to `src/oddsgraph/`.

Contents: [inventory](#the-system) · [modules](#modules) · [runs](#runs) ·
[fairness](#fairness) · [proofs](#proofs) · [what was found](#what-the-model-shows-of-the-code) ·
[limits](#abstractions-and-what-is-not-modelled) · [plan](#plan)

## The system

| Component | State it keeps | Operations | Talks to |
|---|---|---|---|
| Reduce (`reduce.py`) | `semantic_markets.parquet` | one DuckDB query, batched write, load and select by event | all later steps read it |
| Chunking and prompts (`prompts.py`) | – | greedy cut of an event's markets against four limits | residual inference |
| LLM backends (`llm*.py`) | lazily loaded model or health-checked client, shared by all workers; `_failed/<e>.txt` | `generate_fragment` with bounded retries, one dump per event that fails | called from worker threads |
| Residual inference (`infer.py:394-558`) | `<e>.json`, `<e>__partN.json`, `<e>__chunk_manifest.json`; in memory: pending tasks, results, failed events | planning loop (skip, drop, clear, submit), worker pool, merge loop | report, LLM |
| Covered inference (`infer.py:302-391, 412-426`) | `<e>__topology.json`, `<e>__verified.json`, `<e>__verify_manifest.json` | save topologies, plan, verify in a pool, save or drop | templates, LLM, build |
| Topology templates (`topology.py`, `fragments.py`) | – | `classify_events` (a match learns its group from *another* event) | covered inference, build |
| Report (`reporting.py`) | `inference_report.json` | cumulative merge, tolerant load | written by infer and build |
| Build inputs (`load_all_fragments`, `deterministic.py`) | – | which file wins: verified, saved topology, fresh template, residual | pipeline |
| Pipeline (`pipeline.py`) | – | orders the fragments, runs resolution, build, compiler, rules, export, validation | everything below |
| Entity resolution (`resolution.py`, `match_merge.py`, `ids.py`) | canonical nodes, slug/label/alias/fuzzy indexes, evidence sets, `local_to_canonical` | five tiers per node, merge, re-key of a MATCH, final copy of evidence | graph build |
| Graph build (`graphbuild.py`, `ontology.py`) | accepted and rejected edges | dedupe, accept, break progression cycles, reject implication cycles, validate | pipeline |
| Proposition compiler (`propositions.py`) | propositions of outcomes | complements, exclusive partitions | rules, resolution (a fragment) |
| Rule engine (`rules.py`) | rule registry | pairs propositions that share a team or match | graph |
| Closure (`closure.py`) | – | transitive IMPLIES edges with premises | exported graph |
| Official bracket (`bracket.py`, `scripts/export_wc2026_schedule.py`) | bundled schedule, with curated winners | export that keeps curated winners; stages, matches, continuity edges, winners | a fragment of the pipeline |
| Odds histories (`odds_history.py`, `stage_odds_history.py`, `hourly_scan.py`) | two Parquet files | one scan, join to fixtures, dedupe by hour | none |
| Export, schema, settings, CLI | Parquet/JSON, pydantic types | – | – |

Interactions are calls within one process and files between processes.
Concurrency is a `ThreadPoolExecutor` in each of the two inference paths:
residual workers write part files themselves, verify workers hand answers to
the main thread, which writes.  There is no locking and no atomic rename.

What is hard:

* **Crashes and partial writes.** Every artifact is a plain `write_text`; a
  fragment and the manifest that vouches for it are two of them.
* **Reuse across runs that differ** in markets, chunk settings, selected events,
  `--resume`, `--verify-deterministic` and `--deterministic-topology`.
* **Partial failure** of one chunk, one verification, one market of a partition.
* **Order.** Resolution is a fold over all fragments in which every merge can
  re-key what earlier steps indexed; cycles are broken one at a time, on the
  one a library happens to find.
* **Meaning.** A logical edge is right only if it holds in every tournament,
  whichever subset of the markets is listed.

What makes each component correct:

* *residual*: a result answers this run's plan; a manifest never vouches for a
  fragment of another plan; failed events leave nothing stale; runs end, and
  finish what they select once nothing fails;
* *covered*: a verified event carries an answer to this run's candidate with the
  right label; a failed verification leaves nothing the build could prefer; no
  answer gets lost;
* *build inputs*: the graph's topology is what the templates extract now, or an
  answer to it;
* *resolution*: the indexes agree, every local id resolves, evidence is neither
  lost nor invented, fixtures and teams merge only when they are the same;
* *graph build*: the loop ends, only cycle edges go, nothing is unaccounted for,
  the export validates;
* *logic*: emitted edges hold in every tournament, none of the promised ones is
  missing, implications have no cycle;
* *closure*: exactly the missing transitive pairs, each with a shortest path;
* *chunking*: every market in exactly one chunk, in order, with as few chunks as
  the limits allow;
* *LLM backends*: no prompt before the backend is ready, a local model loaded
  once, and every call ends once, answered or failed;
* *bracket*: a winner it gives is the true one, its edges are the draw's, and
  nothing it gave is taken back by a later feed or export;
* *odds*: a match is locked when some file says so, to the team that won.

`PROJECT.json` lists the hazards at their lines, with the properties aimed at them.

## Modules

```
FragmentCache          abstract: one reusable entry per event
  ^ refined by ResidualInfer (resume runs)      ^ refined by CoveredInfer (resume runs, no kill between writes)
ResidualInfer          <- MC_ResidualInfer, ResidualInfer_proofs
CoveredInfer           <- MC_CoveredInfer,  CoveredInfer_proofs
  ^ extended by BuildInputs, which has ResidualInfer as an instance
                         <- MC_BuildInputs, BuildInputs_proofs   (one infer of both paths, and build)
Resolution             <- MC_Resolution, Resolution_proofs
LogicalLayer           <- MC_LogicalLayer, LogicalLayer_proofs
GraphBuild, ImpliesClosure
  ^ composed by ClosedGraph  <- MC_ClosedGraph, ClosedGraph_proofs   (build, export, closure)
TaskPool               abstract: tasks wait, are with a worker, end
  ^ refined by LlmCalls, which extends Chunking  <- MC_LlmCalls, LlmCalls_proofs
Bracket
  ^ extended by OddsHistory  <- MC_OddsHistory, OddsHistory_proofs   (schedule and odds, composed)
```

A definition whose slip a property is meant to catch has the slipped variant
just before it, marked `Slip` and named for it; nothing in the specifications
uses these variants.

**FragmentCache** – what `--resume` promises, without files: `cache[e]` is the
plan of the reusable fragment of `e`; a run wants a plan per event, is served
only an entry of exactly that plan, and evicts only entries of others.

**ResidualInfer** – the residual path.  `fragment`, `parts`, `manifest`,
`report` are the files (contents: the plan they were inferred for, `Absent` or
`Torn`; a merged fragment holds the *set* of plans its parts came from, so a
mixture is visible).  `phase`, `selected`, `plan`, `todo`, `cur`, `queue`,
`running`, `failed`, `status` are the process.  A *plan* stands for what a chunk
manifest records: chunk settings and the market ids of every chunk.  The
planning loop is `SkipCompleted`, `AbortOnTornFragment`, `DropFragment`,
`ClearPart`, `ClearManifest`, `SubmitChunks`: one action per file operation,
because a process can be killed between any two.  Then `OpenPool`, `TakeTask`,
`TaskSucceeds`, `TaskFails`, `ClosePool` (workers interleave), and the merge loop
`MarkFailed`, `AbortOnTornPart`, `SaveFragment`, `SaveManifest`, `WriteReport`.
`StartRun` chooses settings, events and the plans their markets yield today.
Faults: `Kill`, the `KillTears…` actions (killed inside a write), `LlmUnavailable`,
`TaskFails`.

**CoveredInfer** – the covered path.  `Topology[w][S][e]` is what the templates
extract for `e` in data `w` when the events `S` are classified together.  A
verified file is a record of the answer and of the candidate it answers; the
latter is a ghost, it is what the manifest's fingerprint is meant to tell.
`SaveVerified`/`SaveVerifyManifest` and `DropVerified`/`DropVerifyManifest` are
two steps each, with `cur` naming the event in between.

**BuildInputs** – the two paths in one process, and what a build makes of their
files.  It extends CoveredInfer and has ResidualInfer as the instance `R`, whose
settings, events and plans are CoveredInfer's settings, the scope's uncovered events
and what their markets yield in this world (`PlanNow`).  The actions are those of the
two modules in the order of `infer_event_fragments`: templates' topology, planning of
the residual events, verification, residual inference (`Planning`, `Inferring`), with
every file operation, kill, truncation and exception of either.  The one part of
ResidualInfer left out is the report, which no build reads.  `RunBuilds` builds with
the settings, scope and markets of its own run; `Build` with defaults and every
market.  `TopologyUsed` is the preference of `build_deterministic_fragments_by_event`,
`LlmUsed` that of `load_all_fragments`.

**Resolution** – `Resolve(n)` binds one node through `ByExactId`, `BySlug`,
`ByAlias`, `ByFuzzy`, `AsNew`, exactly in that order, with the MATCH policy
(`BindAllowed`, `Upgrades`) and the re-key (`Rekey`, `Relocate`, `Remap`) inside
every bind.  The fragments' order is the pipeline's (`MethodRank`); within one
rank nodes come in every order.  `Finalize` copies the evidence sets.  A
behaviour starts with one of the sets of nodes in `Inputs`.

**GraphBuild** – a behaviour starts with one of the `Builds`: the edges that the
fragments bring and the edges the rules will bring.  `AcceptEdges` deduplicates
the former and judges them; `BreakCycle` drops one simple cycle of the
progression edges, any one; `NoCycleLeft`, `RejectImpliesCycle`; then
`MergeRules` merges the rules' edges.

**LogicalLayer** – a behaviour starts with one of the `Listings` of markets.  A market
has its template, what its event asks about, the event, the subject and an id, so that
two markets can ask the same, in one event or in two, and an advance market has the
outcomes it offers.  A constraint node is fed by each event that gathers outcomes for
it (`ConstraintOutcomes`), and counts outcomes, as the code does.
`compile_propositions` and `apply_rules` run once.  Soundness is judged against
*tournaments*: `Worlds` are all ways the cup can go (the stage each team's run
ends at, one champion; a ninety-minute result and a winner per fixture; a winner
per group), `Tournaments` the ones a run looks at, and `Holds(p, w)` says when a
proposition is true.  Nothing from `rules.py` is used
in the definition of a world, so the rules can be wrong about it.

**ImpliesClosure** – the double loop and `_shortest_path` with its `queue` and
`parent`, one queue entry per step, neighbours in any order; `Start` takes the
implications it is given.

**ClosedGraph** – the pipeline's last steps in one behaviour: GraphBuild until
the graph is exported, then the closure of the implications that it exported.
Its initial states are GraphBuild's.

**Chunking** – `chunk_markets_for_prompt`, one market of the loop per step:
`Extend`, `Cut` (with `CloseAround` for a market that fits no chunk), and
`CloseLast`.  A market is its size in tokens; the header, the two tokens a market
costs beside its own and the answer per market are constants.

**LlmCalls** – the pool of one event whose chunks are all missing, with what
happens inside a task.  `call[t]` says where the call of chunk `t` is: `queued`,
`attempt` (about to look at the shared flag), `preparing` (health check or model
load), `asking`, `answered` or `failed`.  `ready` is the flag
(`_health_checked`, or `_outlines_model` being set), `prepared` a history
variable for what it stands for.  `Retry` and `GiveUp` are the malformed answers,
`Raises` and `PrepareFails` the exceptions that are not retried, timeouts among
them.

**TaskPool** – what ResidualInfer and CoveredInfer take such a pool for: a task
is taken when a worker is free, ends once (`Safety`), and does end.

**Bracket** – the tournament (`lineup`, `result`) and the feed (`named`,
`completed`) are external and move on by themselves, the feed behind the
tournament and in any order, except that it fills in a match before those it
leads to.  `winner_team` is what the schedule file holds beside the feed.
`NameSlot` and `Complete` come with a run of the exporter; `Curate` is the
operator, who may misspell.  `Winner`, `HasEnd` and `Advances` are what
`bracket.py` derives from the file; a match is known by its place in the draw,
not by the local id, which changes when its teams are named.

**OddsHistory** – extends Bracket with one execution of the odds command at any
moment: `BuildHistory` reads the rows of a market (`Scans`, in the order of the
scan) and joins them to the fixture.  A row's `says` stands for
`event_finished_at`, `is_resolved` and `winning_outcome`.

**MC_…** modules only define constants, small inputs and symmetry.

## Runs

`tlc -config <cfg> <module>`; each run takes between a few seconds and about
two minutes.  A run asks everything it can of one instance: the properties of a
component that need the same faults and the same inputs are checked together.

| Run | Instance | Shows |
|---|---|---|
| `residual` | fair; 2 events, 2 plans of different length, 2 workers, resume only, at most 2 faults of any kind (kill, truncation, missing LLM, failing task) | results answer their run's plan, a failed event leaves no fragment, the files refine `FragmentCache`, every run ends, and once nothing fails any more every selected event is completed |
| `residual_mixed` | plans of different length, resume and no-resume, failing tasks | the cumulative report never promises a fragment that is gone, in whatever order resume and no-resume runs follow one another |
| `residual_parts_lost` | *violation* | see below |
| `verify_faults` | fair; a match and the group event it depends on, 2 data worlds, verifying or not, resume or not, two faults of any kind | a failed verification leaves nothing the build could prefer; an event planned after the faults ends with reusable files |
| `build_verified` | both paths of infer, and build, composed; every run resumes and verifies, templates on or off; the group event's markets differ in the two worlds; one residual fault of any kind (kill, truncation, missing LLM, failing chunk) and one of the covered path (truncation, missing LLM, failing verification) | verified means an answer to this run's candidate, no answer is lost, the verify files refine `FragmentCache`, a `run` builds covered events from fresh topology and uncovered ones from the LLM's answer to their present markets |
| `build_stale_verified` | *violation* | see below |
| `resolve` | 9 kinds of node for a pair that meets twice; the same with a label of the LLM's own, so that the alias, fuzzy and new-entity tiers bind; 7 with overlapping codes, aliases and spellings; up to 7 read, in any order | evidence is conserved, the official kickoff wins, the indexes agree, only adjacent days coalesce, a shared code never merges two teams |
| `resolve_chain` | *violation* | see below |
| `graph` | fair; all 512 sets of progression edges on 3 matches and 128 on two stages and a team, with every choice of cycle; up to 3 of 10 fragment edges (equal keys, bad pattern, unknown end, low confidence, implications both ways and of a market) with up to 2 rule edges; every acyclic graph of implications on 5 outcomes (edges along one order) | build and closure end, the loop rejects only edges on cycles, the export validates, evidence and edges are accounted for, the merge never takes a fragment's edge; the closure of what was exported is exact, its premises shortest, and neither graph nor closure holds more than what was brought implies |
| `logic` | every choice of up to 4 markets of three families: one team's run (13 markets), two teams' runs, two fixtures and a group (with moneylines on a team that is not playing, twins of a market, and a second event on one fixture) | rule edges hold in every tournament, the reach ladder is complete, implications are acyclic, complements and mutexes exclude, the outcomes of a constraint on a match are a partition unless twins are listed |
| `calls` | fair; every event of up to 3 markets of 3 sizes, the largest too large for any prompt, and three longer ones, under 4 settings of which each makes another limit the tightest; server with 2 workers or a local model; one retry | chunks partition the markets in order, no legal cut has fewer, no prompt precedes readiness, a model loads once, the calls refine `TaskPool`, and every call ends |
| `schedule` | a quarterfinal, its semifinal, the final and the match for the third place; every result, every lag of the feed, a curated final; 38 scans of two rows for the semifinal's market | winners are true and given when the next round shows them, edges follow the draw, the odds lock agrees with the schedule, nothing is taken back |

**Bounds and why they suffice.**  `MaxFaults` bounds the faults of a behaviour:
each failure met while modelling needs one; a second, where a run allows it,
hits the recovery from another (a truncated fragment under a good manifest needs
both), and the theorems hold for any number.  Two events are what one event's failure can
harm; two plans what can be confused; two workers what can overtake.  Two worlds are one
change of the data, and a behaviour may change it back.  `build_verified` has one chunk
an event, since what becomes of several is `residual`'s question, and bounds the faults
of the two paths apart, so that one can meet the other; `LlmFresh` is for any number.  `MaxNodes` = 7 lets a
fixture be created undated, dated, re-keyed twice and bound by the bracket and
the compiler afterwards.  `Builds` has an implication cycle that only a fragment
and a rule close together, with a duplicate on top.  `Listings` has any two
markets a rule relates, with others around, and a match partition with one
outcome too many.  `Tournaments` varies the stages at which two teams' runs end
(all eight for one, four for the other) for one set of results, and all results
and winners for one way the cup goes: no proposition speaks of both, and the
proof of `RulesAreSound` covers every tournament.  Events of four and five
markets let a chunk be cut twice and a market too large come last; two tasks or
more meet on the flag of the backend, and one retry separates a first from a last
attempt.  Four matches have every kind of route: a winner over two rounds, a
winner to the final, a loser to the third place; the other sides of the draw
would repeat them.  `Curated` is the final, whose winner no later match shows,
and `Traded` the semifinal, whose teams get named on the way.

Deadlock is checked in the inference runs, where a new run can always start.
It is off where a behaviour is one call that returns: resolution, graph build with
its closure, logical layer and an LLM pass end in a final state, and a tournament is
over after its final.

## Fairness

`WF_vars(Progress)` in ResidualInfer and CoveredInfer: once started, a run
keeps running.  That is justified by the code: the main thread only waits for
futures, a worker's call returns or raises (bounded tokens in process, a request
timeout with the server backend), and retries are counted (`llm.py:62`).
Nothing forces the operator to start a run, and faults are never forced.
ClosedGraph has weak fairness of its next step: build and closure are one call of
straight-line code and loops.  So has LlmCalls, for the reasons above: the pool
goes on, and a call returns, raises or times out; *which* of them is never
assumed, and TaskPool's `EveryTaskEnds` follows because attempts are counted.
BuildInputs, Resolution, LogicalLayer and OddsHistory state no fairness, for they
claim no liveness: nobody has to play, to update the feed or to export.

## Proofs

All theorems are proved by TLAPS without gaps, for any sets of events, plans,
workers, nodes, edges, markets, matches, and so on.  TLC evaluates the constant
assumptions in every run.  The inductive invariants, and the proved properties that
no run names (`NoPartGoesMissing`, `ManifestVouches`, `SearchesSucceed`,
`AttemptsRunOut`), can be checked by naming them in a run's cfg.

| Module | Theorems about the runs' properties | Assuming |
|---|---|---|
| ResidualInfer_proofs | `ResultsCorrect`, `ManifestsCorrect`, `FailedCorrect`, `PartsPresent` | `SafeOperation` |
| | `CacheImplemented` (refinement of FragmentCache) | resume runs |
| | `ReportIsTrue` | only LLM calls fail |
| CoveredInfer_proofs | `FailedVerificationClean`, `AnswersHandled` | – |
| | `VerifiedCorrect` | `Unkilled` |
| | `CacheImplemented` (refinement of FragmentCache) | `Unkilled`, resume runs |
| BuildInputs_proofs | `LlmFresh` | `SafeOperation` |
| | `TopologyFresh` | `Unkilled`, verifying runs |
| Resolution_proofs | `IndexesStayCurrent`, `LocalsResolve`, `EvidenceIsConserved` | – |
| | `OnlyAdjacentDaysCoalesce` | `PairsNamed` of every input |
| | `OfficialDatesWin` | `Scheduled`, every input |
| | `CodesMergeNoTeams`, and `TeamsNeverMerge` of any two teams | `CodesTold`, `TeamsTold`, every input |
| ClosedGraph_proofs | `ExportIsValid`, `NoEvidenceLost`, `CycleRejectionsJustified`, `MergeKeepsFragments` | – |
| | `ClosureIsExact`, `PremisesAreShort`, `SearchesFind`, `NothingIsInvented` | – |
| LogicalLayer_proofs | `RulesAreSound`, `RulesAreAcyclic`, `ExclusionsAreSound`, `MatchPartitionsAreSound` | – |
| | `LadderIsComplete` | `Tournaments = Worlds` |
| LlmCalls_proofs | `ChunksCover`, `BackendIsGuarded` (from `PromptsWaitForBackend` and `LoadsOnce`), `CutsAreBest` | – |
| | `PoolImplemented` (refinement of TaskPool's `Safety`), `NoCallGoesOn` | – |
| OddsHistory_proofs | `WinnersTrue`, `EdgesFollowTheDraw`, `NothingIsTakenBack`, `LocksAgree` | – |

Each module has its inductive invariant as a theorem of its own (`InvariantHolds`,
`VerifyInvariantHolds`, `ResolutionInvariant`, `BuildInvHolds`, `ClosureInvHolds`, `LogicInvHolds`,
`LlmInvHolds`, `BracketInvHolds`) and, where it is not part of that one,
`TypeCorrect`.

**ResidualInfer_proofs.**  `TypeCorrect` is inductive by itself.  The safety
properties are not: that a skipped event matches its plan depends on what an
earlier, interrupted run left behind.  `IInv` adds that a matching manifest has
only parts of its plan beside it (`PartsVouched`), what the planning loop leaves
of an event that must be inferred (`ScanOutcome`), that every missing chunk is a
task, being worked on, or has failed (`TaskCoverage`), and that the fragment is
there while its manifest is being written (`SavedFragment`).  One lemma per
action shows it is preserved.  The safety theorems assume `SafeOperation`:
*either --no-resume is never used or processes are never killed*.  The
assumption cannot be dropped: see [below](#what-the-model-shows-of-the-code).
`CacheImplemented` proves the refinement of FragmentCache, step by step, for
resume runs with every fault.  `ReportIsTrue` needs more: a run that aborts has
dropped fragments and does not write the report, so the theorem is about runs in
which only LLM calls fail; `ReportInv` says that an event reported done has its
fragment unless the running process has it in hand.

**CoveredInfer_proofs.**  `VerifyInvariantHolds`: `IInv` says in which stage
(planned, queued, with a worker, answered, half way through its files, done) an
event is and that it is in one only.  Even `TypeCorrect` needs it: a write is
well typed only because a planned event is a covered one, hence has a candidate.
`FailedVerificationClean` and `AnswersHandled` hold with kills and truncations;
`VerifiedCorrect` assumes `Unkilled`, no kill *between* two writes (a write cut short
is allowed), and needs it: see [below](#what-the-model-shows-of-the-code).
`CacheImplemented` maps each step to a step of FragmentCache or a stutter: a
dropped or torn file evicts an entry, the manifest's write makes one.  It needs
`PlannedHolds`, that what a run has planned or submitted is not reusable, so that
an eviction never takes the entry that the run was served.

**BuildInputs_proofs.**  `BuildKeepsInference` shows that builds and the residual path
leave the covered one alone, so that all of the above holds with them in between.
`LlmFresh` works the same way for the residual path: every step of the composition
is a step of ResidualInfer or leaves its state alone (`ResidualStep`), so its `IInv` holds
here too, for the plans this run makes of its markets.  `TurnInv` adds where in the run
each path's turn is: nothing of the residual path has begun before its planning, all of
its events are treated when the run ends.  Then an event that has succeeded has the
fragment of its plan, and a failed one has none.  It assumes `SafeOperation`, as the
residual path does.  `TopologyFresh` follows an
event through the run: its topology file holds what this run's templates extract
(`TopologyInv`), its answer was handled before the run built, and the answer
belongs to the candidate.  The build classifies only the events that have
fragments to offer, infer classifies its whole scope: `CoveredAssumption` says that
dropping uncovered events changes no template's result.  `topology.py` reads other
events for their group and their fixture only (`topology.py:217-233`, `320-380`,
`522-560`), and it is true of the instance; it can fail for a group-winner event
whose teams appear only in player-prop markets.

**Resolution_proofs.**  `ResolutionInvariant`, from which `IndexesStayCurrent`
and `LocalsResolve` follow.  The heart of the argument is that an index holds
*objects*, so that a merge must rewrite every entry that led to the old one: the
keys that lead to a node are always among the slug and alias keys a merge writes
(`k \in AliasKeys(byAlias[k])`), and a re-key moves canonical map, evidence,
local ids and fuzzy lists together.  `EvidenceIsConserved` adds `EvidenceInv`: while
nodes are being read the evidence *sets* hold what the nodes named and the
objects hold no more than their set, since only the final copy brings the two together.

What resolution makes of fixtures and teams is not true of every set of nodes, and the
hypotheses of the other theorems say of which.  `PairsNamed`: an id with the prefix of
a fixture names the pair its MATCH is labelled with; every builder makes id and label
from one pair (`topology.py:251`, `bracket.py:270-280`, `propositions.py:190`).  Then
`DatesInv` holds: a pair has at most one node without a date, and a dated local id has
a path, day by day, to the node it leads to (`OnlyAdjacentDaysCoalesce`).  `Scheduled`
adds that a MATCH has no other id, and that two official kickoffs of one pair are more
than a day apart.  `OfficialDatesWin` then follows from the label's index leading to
the date its pair's node has (`SlugLeads`) and from the official node being at its own
date from when it was read (`OfficialStays`).  `TeamsTold` speaks of any reading `T` of
labels as teams: the names of one node, codes excepted, mean one team, and labels that
are alike do.  `TeamsInv` says the same of the canonical nodes, the aliases' index and
the fuzzy list, so that no tier hands a node of one team a node of another.  `resolve`'s
inputs satisfy these hypotheses, except that `MCRelabelled` has a fixture's id under
another label and `MCUnnamed` a MATCH of the LLM without one: they stay with TLC.

**ClosedGraph_proofs**, the build.  `BuildInv` has a part per question: what fragments and
rules bring (`InputInv`), that accepted edges are good ones (`GraphInv`), that they stay acyclic
(`AcyclicInv`), why an edge was rejected (`RejectedInv`), and that an accepted or
rejected edge carries the key and the markets of each edge it stands for
(`CarriedInv`).  Two facts about graphs carry it: a graph is cyclic by the ends of its
edges alone, so deduplication and merging keep it acyclic (`CyclicMonotone`), and an
edge of a simple cycle lies on a cycle in the sense of `OnCycle`.  That a rejected
edge was on a cycle *of the graph given* takes the first one: later rounds look at
fewer edges.

**ClosedGraph_proofs**, the closure.  `ClosedSpecBuilds` carries `BuildInv` over to
both commands; it gives the closure implications that join claims (outcomes and markets, the only
nodes an accepted implication leads between).
`rx.descendants` is a recursive function: that its last ball is closed takes an
induction (a ball that is not closed has grown with every step, and there are
finitely many nodes, as `BuildAssumption` says), and then it is the set of what follows
(`WithinIsFollows`).  The induction is `NatSetInduction`, proved from the
library's well-foundedness of finite subsets, for sets of numbers in place of an
operator.  `ClosureInv` has three parts.  `PairsInv`: a pair is to be searched for,
being searched for, or found.  `SearchInv`: the parents spell out one path for
every node met (`Grounded`, kept by each expansion, so that it takes no
induction), and `Frontier`: distances do not fall along the queue and differ by
one at most, a met node's successors are met unless it still queues, and all that
is as near to the source as the head is met.  The last makes the path to the
target a shortest one.  The third part is `PremisesAreShortest` itself, and a fourth,
`FoundInv`, has the target unmet while it is searched for.  If the queue ran empty the
nodes met would be closed under the implications and hold the target, so it does not
(`SearchesFind`): the code's `path is None or len(path) < 3` never drops a pair, and
the model needs no such exit.

`NothingIsInvented` goes through both commands: every key in the graph was brought
(`OriginInv`), and a closure edge follows from the export.  It speaks of any set of
claims, and so of those that come true in one tournament; with `RulesAreSound`, which
says that the rules respect every such set, closure edges of rules hold in every
tournament.

**LogicalLayer_proofs.**  `LogicInvHolds` says where edges come from.
`RulesAreSound`: each rule is a lemma about two propositions and one team's
fate (a run that reached a stage has visited the stages below it, Third Place
and Final apart).  `RulesAreAcyclic`: along an implication `Height` falls, so no
set of outcomes has every member implying another.  `MatchPartitionsAreSound`:
a constraint on a match exists because one event has gathered a draw and two wins, or
two advances.  Unless two markets of the fixture offer one and the same result
(`NoTwins`, which is part of the property) each result is offered by one outcome at most
(`OfferedOnce`), and as three different results of a two-sided match exhaust it, and two
advances do, by one at least (`AllOffered`); a tournament has exactly one of them.
`LadderIsComplete` is stated against every tournament (`Tournaments = Worlds`, groups
not empty), since a run that looks at a few may find an entailment that is an accident
of those.

**LlmCalls_proofs.**  The chunks: `Cutting` says of the next market, the open chunk
and the closed ones that together they hold exactly the markets read, in order.
`CloseChunk` and `TakeMarket` keep it, and the three ways through the loop are
compositions of these two (`ChunksCover`).  The calls: the flag equals what it
stands for, and under a local backend at most one task is at work, because a task
is taken only when none is (`TakesWhenIdle`); from the latter follows that no
second call is on its way to load the model when the first has done so
(`PromptsWaitForBackend` and `LoadsOnce`, together `BackendIsGuarded`).

`PoolImplemented` maps the cutting of the markets to a stutter, the opening of the pool
to `Submit`, and each step of a call to a move of its task or, while it stays with its
worker, to a stutter.  A task is named after its chunk, and is one of the event's
because there are no more chunks than markets read (`CountInv`).  That every task ends
takes fairness and is left to TLC; what it rests on is proved: attempts are bounded
(`AttemptsInv`), and a call that moves has fewer steps left (`NoCallGoesOn`), so that no
schedule and no answers keep it going.

That no other cut takes fewer calls (`CutsAreBest`) is not a matter of the last
state.  `GreedyInv` compares at every step: the open chunk begins at a market
before which every legal cut has ended at least as many chunks as are closed
(`Ahead`).  A chunk is closed when its markets and the next one break a limit, and a
limit broken by some markets is broken by more of them (`BudgetGrows`), so every
other cut has an end among them too (`EndInside`).  A market that fits no chunk
closes two; the other cut then has an end on either side of it.  Underneath, the
fold over the sizes has to be their sum (`TotalOfMarket`), whatever order it takes
them in: an induction on the number of markets, again over a set of numbers.

**OddsHistory_proofs.**  The feed gives only names, so a winner has to be read off the
team's later appearance.  That it is sound rests on the tournament: a team is in one
slot of a round (`OneSlot`) and plays on only after its earlier matches are over
(`PlaysOn`).  That it is complete rests on the feed: a slot is named after the slots
of the match that fills it (`WayNamed`).  Both need only that the draw starts every
team once and leads from round to round, the loser's way being to the third place
only (`DrawAssumption`); the proof holds for any number of matches in the six
stages the schedule knows.

**Only model-checked**, and why:

* liveness, all of which rests on fairness: `RunTerminates`, `FaultFreeRunCompletes`,
  `FaultFreeVerifyCompletes`, `Terminates`, and `EveryCallEnds`, TaskPool's promise that
  a task ends;
* `resolve`'s two inputs outside the hypotheses of `OfficialDatesWin` and
  `OnlyAdjacentDaysCoalesce` (see above).

Every invariant and action property of the passing runs is stated by a theorem.

## What the model shows of the code

Three runs are expected to find a violation; `PROJECT.json` quotes the text the
code disagrees with.

| Run | Where | What |
|---|---|---|
| `residual_parts_lost` | `infer.py:469` | matching parts of an interrupted run are deleted, not reused, because the manifest is only written on success |
| `build_stale_verified` | `infer.py:630` | a build uses verified files whatever template they answer |
| `resolve_chain` | `match_merge.py:95` | three dates in a row coalesce into one fixture |

Further disagreements seen while modelling are kept out of the runs' way, each
by the condition named here:

* `infer.py:555` – a `--no-resume` run killed between fragment and manifest
  leaves an old manifest vouching for the new fragment, and the next resume run
  returns it.  TLC finds it for `ResultsMatchPlan` with one event, both
  `ResumeModes` and `FaultKinds = {"kill"}`; hence `SafeOperation` in the
  theorems and `ResumeModes = {TRUE}` in `residual`.  A `run` builds from such a fragment
  as well, so `build_verified` and `LlmFresh` have the same restriction.
* `infer.py:441` – the planning loop passes over an event that a template covers and
  leaves its old `<e>.json` where it is; the build loads it (`infer.py:645`) and unites it
  with the template's topology, whatever markets it was inferred from.
  `docs/concepts/troubleshooting.md:60-63` has changed markets invalidate `<event>.json`.
  `RunLlmIsFresh` is about uncovered events.
* `infer.py:464` – a truncated fragment under a matching manifest aborts every
  later resume run; `FaultFreeRunCompletes` is stated for runs that meet
  `NothingTorn`.  A truncated verified file does the same at `infer.py:284`.
* `infer.py:386` – killed between the verified file and its manifest (386 and 387), an
  answer to another candidate is reused.  TLC finds it for `VerifiedAnswersCandidate`
  with `FaultKinds = {"kill"}`; hence `Unkilled` in `VerifiedCorrect`.
* `deterministic.py:115` – `--no-deterministic-topology` does not keep topology
  saved by an earlier run out of a build; `RunBuildIsFresh` is about runs that
  use templates.
* `resolution.py:201` – an official kickoff date does not win when a node under
  another label already has the dated id: the upgrade gives way, and the official
  node is bound to the undated id although `docs/concepts/entity-resolution.md:37`
  has the official id preferred.  TLC finds it for `OfficialDateWins` when the
  "opener" of `MCRelabelled` is on day 2, the official day; in the run it is on day 1.
* `resolution.py:198-204` – nor does it win when the pair meets again and a date is a
  day off: market slugs on days 5, 2, 5 and 1, read in this order, leave a node on day 2
  and one on day 1, as the label led to the other meeting in between, and an official
  kickoff on day 2 is bound to the label's node, that of day 1, which it may not
  re-key because day 2 is taken.  `OfficialDateWins` is about pairs that meet once, and about
  dates that agree.
* `resolution.py:52` – the second meeting of a pair is never offered by any tier
  (slug and label lead to the first); the models bind it the way the code does
  and state no property against it.
* `resolution.py:309` – local ids are shared by all fragments, so one fragment's
  edge may follow another's binding; `EveryLocalResolves` (proved) only says that
  every local id leads to a node.
* `propositions.py:304`, `:318` – the comment (302) asks for "both team moneylines and a
  draw market", the code counts outcomes: a draw and two moneylines on *one* team make an
  EXACTLY_ONE without the other side, and advance markets that offer a team twice make
  one with two true outcomes, or none.  TLC finds both when `MatchPartitionsHold` is
  stated without `NoTwins`.  Two events on one fixture can do it too, as their outcomes
  go to one constraint node (`ids.constraint_id` leaves the event out).
* `propositions.py:379` – EXACTLY_ONE over an incomplete list of teams;
  `MatchPartitionsHold` is about the partitions of a match.
* `prompts.py:288` – the context check counts 120 tokens of answer for a market,
  while `_chunk_max_tokens` (`infer.py:154`) lets a call generate 180, and the
  exemplars of a few-shot prompt are taken off the prompt's budget
  (`infer.py:436`), never off the context.  A chunk that just passed may overrun
  `n_ctx`.  `CutIsBest` is about the limits as the code counts them.
* `scripts/export_wc2026_schedule.py:78` – a schedule that does not parse, as after
  a kill in the middle of line 122, counts as one without curated winners, and the
  export that follows drops them.  Bracket's exports are whole.
* `odds_history.py:141` – a match that is over but whose outcome no file names is
  locked to the favourite of the last hour read, whoever that is;
  `LocksAgreeWithSchedule` is silent about it.

## Abstractions and what is not modelled

* Fragment contents are the plan or the candidate they answer; two fragments are
  equal iff `_fragments_equal`.
* A label is its slug.  `by_label` is written together with `by_slug` under the
  same key, so the exact-label tier never finds what exact-slug did not; it is
  left out.  Confidence is left out of Resolution and is a level in GraphBuild.
  Fuzzy scores are a constant function.  The competition is fixed.  The order of
  a node's alias keys is nondeterministic.
* GraphBuild has every edge type and pattern of the ontology.  Parallel progression
  edges (ADVANCES_TO and QUALIFIES_FOR on one pair) lie on no cycle: both types are
  allowed only from a TEAM, which no progression edge enters.  Stages and matches are
  the nodes that a cycle of accepted edges can have (`ontology.py:74-85`).  The loop's two safety exits (`graphbuild.py:176`, `:190`)
  need a cyclic graph in which rustworkx finds no cycle and are unreachable.
  Fragment implications come only from supplied fragment files: neither the
  templates nor the LLM filter produce them.
* LlmCalls treats one event whose parts are all missing; the parts a resume finds
  are ResidualInfer's subject.  An exception of a retried class while the backend
  gets ready does not happen.
* Bracket: names are canonical (`canonical_team_name`, the exporter's remap), and
  the slots of unplayed matches have names of their own.  OddsHistory has one market
  per fixture; a second one would be a series of its own under the same match.
  Start and end epochs are whether there is an end.
* LogicalLayer: outcome labels of one market are distinct canonical names, and
  the titles that tell templates apart are a market's kind.
* Two-phase reads (`exists`, then read) of one process are one step: only one
  oddsgraph process works on a build directory at a time.
* Not modelled: reduce, export, benchmarks and fine-tuning, prompt texts, schema
  declarations (pure I/O, formatting or declarations); the templates' parsing of
  titles (`topology.py`), which enters as the constant `Topology`; the stage odds
  (`stage_odds_history.py`), a renaming and a deduplication by key.

## Plan

Done: all modules above and the eight proof modules.  Runs are grouped by component,
so that parts are checked together with what they feed.

Next, in this order:

1. LogicalLayer in front of ClosedGraph, so that the edges of the rules are those
   that are merged; `NothingIsInvented` and `RulesAreSound` meet there.
2. Templates: which event a match takes its group from, in place of the constant
   `Topology`.
