----------------------------- MODULE Resolution -----------------------------
(***************************************************************************)
(* Entity resolution (oddsgraph/resolution.py) with the MATCH merge policy  *)
(* (oddsgraph/match_merge.py): the nodes of all fragments, in the order of  *)
(* the fragments, are bound one by one to a canonical node through the      *)
(* tiers exact id, exact slug, alias, fuzzy, new entity.                    *)
(*                                                                          *)
(* A label stands for its slug: normalize_label and slugify are the same    *)
(* function, by_slug and by_label are written together with the same key,   *)
(* so that the exact_label tier finds what exact_slug has already tried.    *)
(* Confidence, of which a merge keeps the maximum, is left out.             *)
(***************************************************************************)
EXTENDS Naturals, Sequences, FiniteSets, SequencesExt

CONSTANTS
  Inputs,      \* sets of nodes that the fragments of one run may hold
  Labels,      \* slugs of labels and of aliases
  Markets,     \* evidence
  TeamCodes,   \* team_codes.json: code |-> team name
  TeamNames,   \* team_name_aliases.json: variant |-> display name
  Score,       \* token_sort_ratio >= fuzzy_threshold, and by how much
  MaxDay,      \* days are 1 .. MaxDay
  MaxNodes     \* bound on the nodes of a behaviour

\* The order in which build_pipeline_from_markets lists its fragments.
MethodRank == [deterministic |-> 1, verified |-> 2, llm |-> 2,
               official_bracket |-> 3, proposition_compiler |-> 4]

\* STAGE stands for the types that carry the name of their label: COMPETITION,
\* GROUP and ROUND too.
Types == {"TEAM", "MATCH", "STAGE", "CONSTRAINT", "EVENT", "MARKET", "OUTCOME"}
Prefix == [TEAM |-> "team", MATCH |-> "match", STAGE |-> "stage",
           CONSTRAINT |-> "constraint", EVENT |-> "event", MARKET |-> "market",
           OUTCOME |-> "outcome"]
Undated == 0
Id(kind, name, day) == [kind |-> kind, name |-> name, day |-> day]

\* "any" stands for a local id that has none of the known prefixes.
Kinds == {"team", "match", "stage", "constraint", "event", "market", "outcome", "any"}
Ids == [kind : Kinds, name : Seq(Labels \cup Markets),
        day : 0 .. MaxDay]
Node == [local : Ids, type : Types, label : Labels, aliases : SUBSET Labels,
         evidence : Seq(Markets), method : DOMAIN MethodRank]
Tiers == {"exact_id", "exact_slug", "alias", "fuzzy", "new_entity"}
Canonical == [id : Ids, type : Types, label : Labels, aliases : SUBSET Labels,
              evidence : SUBSET Markets, how : Tiers, method : DOMAIN MethodRank]
Key == Types \X Labels

Nodes == UNION Inputs

ASSUME InputAssumption ==
  /\ Nodes \subseteq Node
  /\ \A n \in Nodes : n.evidence # << >>   \* schema.Node: min_length=1
  /\ DOMAIN TeamCodes \subseteq Labels /\ DOMAIN TeamNames \subseteq Labels
  /\ Range(TeamCodes) \cup Range(TeamNames) \subseteq Labels
  /\ Score \in [Labels \X Labels -> Nat]
  /\ MaxDay \in Nat /\ MaxNodes \in Nat

VARIABLES
  nodes,      \* the nodes of the fragments that resolve_fragments is given
  canonical,  \* state.canonical_nodes
  l2c,        \* state.local_to_canonical
  bySlug,     \* indexes.by_slug and by_label: key |-> canonical node object
  byAlias,    \* indexes.by_alias
  fuzzy,      \* indexes.fuzzy_index: type |-> sequence of label and id
  evidence,   \* indexes.evidence_sets
  tiers,      \* state.tier_counts
  seen,       \* the nodes resolved so far
  rank,       \* of the fragment being read
  count,      \* nodes read, duplicates included
  done        \* _finalize_evidence has run

state == <<canonical, l2c, bySlug, byAlias, fuzzy, evidence, tiers>>
vars == <<nodes, state, seen, rank, count, done>>

-----------------------------------------------------------------------------
\* match_merge.py

MoreSpecific(candidate, current) ==
  /\ candidate.kind = "match" /\ current.kind = "match"
  /\ candidate.name = current.name
  /\ current.day = Undated /\ candidate.day # Undated

\* Slip: two days apart is near.
WiderNearDays(a, b) == a <= b + 2 /\ b <= a + 2

NearDays(a, b) == a <= b + 1 /\ b <= a + 1

NearDate(a, b) ==
  /\ a.kind = "match" /\ b.kind = "match" /\ a.name = b.name
  /\ a.day # Undated /\ b.day # Undated
  /\ NearDays(a.day, b.day)

PreferredMethod(existing, incoming) ==
  IF "official_bracket" \in {existing, incoming} THEN "official_bracket" ELSE existing

\* match_bind_allowed
BindAllowed(o, n) ==
  \/ n.type # "MATCH" \/ n.local.kind # "match" \/ o.id.kind # "match"
  \/ n.local = o.id
  \/ MoreSpecific(n.local, o.id) \/ MoreSpecific(o.id, n.local)
  \/ NearDate(o.id, n.local)

\* Slip: the later date wins.
LaterDateWins(o, n) ==
  /\ n.type = "MATCH" /\ n.local.kind = "match" /\ n.local # o.id
  /\ \/ MoreSpecific(n.local, o.id)
     \/ NearDate(o.id, n.local) /\ n.local.day >= o.id.day

\* match_id_upgrade_target
Upgrades(o, n) ==
  /\ n.type = "MATCH" /\ n.local.kind = "match" /\ n.local # o.id
  /\ \/ MoreSpecific(n.local, o.id)
     \/ /\ NearDate(o.id, n.local)
        /\ \/ n.method = "official_bracket"
           \/ o.method # "official_bracket" /\ n.local.day >= o.id.day

-----------------------------------------------------------------------------
\* Names

Display(label) == IF label \in DOMAIN TeamNames THEN TeamNames[label] ELSE label

\* _prepare_team_node
Prepare(n) ==
  IF n.type # "TEAM" \/ Display(n.label) = n.label THEN n
  ELSE [n EXCEPT !.label = Display(n.label), !.aliases = @ \cup {n.label}]

CodeMapsTo(code, label) ==
  code \in DOMAIN TeamCodes /\ Display(TeamCodes[code]) = label

\* Slip: any two labels share a code.
AnyAliasCompatible(alias, nodeLabel, existingLabel) == TRUE

AliasCompatible(alias, nodeLabel, existingLabel) ==
  alias \in DOMAIN TeamCodes =>
    CodeMapsTo(alias, nodeLabel) /\ CodeMapsTo(alias, existingLabel)

\* _polymarket_canonical_id: the id, if there is one, as a set
ExactId(n) ==
  CASE n.type \in {"EVENT", "MARKET", "OUTCOME"} /\ n.local.kind = Prefix[n.type] -> {n.local}
    [] n.type = "MARKET" /\ n.local.kind # "market" -> {Id("market", <<n.evidence[1]>>, Undated)}
    [] n.type = "OUTCOME" /\ n.local.kind # "outcome" ->
         {Id("outcome", <<n.evidence[1], n.label>>, Undated)}
    [] OTHER -> {}

\* _suggested_canonical_id; a MATCH or CONSTRAINT keeps the id a builder gave it
Suggested(n) ==
  CASE n.type \in {"MATCH", "CONSTRAINT"} /\ n.local.kind = Prefix[n.type] -> n.local
    [] n.type = "EVENT" -> Id("event", n.local.name, Undated)
    [] OTHER -> Id(Prefix[n.type], <<n.label>>, Undated)

-----------------------------------------------------------------------------
\* Binding

Put(f, keys, value) == [k \in DOMAIN f \cup keys |-> IF k \in keys THEN value ELSE f[k]]
Rekey(f, old, new, value) ==
  [k \in (DOMAIN f \ {old}) \cup {new} |-> IF k = new THEN value ELSE f[k]]

AliasKeys(c) == {<<c.type, a>> : a \in c.aliases \cup {c.label}}

\* _upgrade_match_canonical_id gives way to a node that has the id already.
NewId(o, n) == IF Upgrades(o, n) /\ n.local \notin DOMAIN canonical THEN n.local ELSE o.id

Merged(o, n, tier) ==
  [id |-> NewId(o, n), type |-> o.type, label |-> o.label,
   aliases |-> o.aliases \cup n.aliases \cup {n.label},
   evidence |-> o.evidence, how |-> tier, method |-> PreferredMethod(o.method, n.method)]

\* local_to_canonical: the locals of the node follow it to its new id
Relocate(o, n, new) ==
  [l \in DOMAIN l2c \cup {n.local} |->
     IF l = n.local \/ l2c[l] = o.id THEN new ELSE l2c[l]]

\* Slip: the fuzzy lists keep the old id.
RemapNothing(o, n, new) == fuzzy

\* _remap_fuzzy_canonical_id, then fuzzy_index.add of a label not yet known
Remap(o, n, new) ==
  LET entry(e) == [label |-> e.label, id |-> IF e.id = o.id THEN new ELSE e.id]
      moved == [i \in DOMAIN fuzzy[o.type] |-> entry(fuzzy[o.type][i])]
  IN  [fuzzy EXCEPT ![o.type] =
         IF n.label \in o.aliases \cup {o.label} THEN moved
         ELSE Append(moved, [label |-> n.label, id |-> new])]

Evidence(o, n) == evidence[o.id] \cup o.evidence \cup ToSet(n.evidence)

\* _register_tier
Counted(tier) == [tiers EXCEPT ![tier] = @ + 1]

\* _bind_existing with _upgrade_match_canonical_id and _merge_canonical
Bind(o, n, tier) ==
  LET m == Merged(o, n, tier)
  IN  /\ canonical' = Rekey(canonical, o.id, m.id, m)
      /\ evidence' = Rekey(evidence, o.id, m.id, Evidence(o, n))
      /\ l2c' = Relocate(o, n, m.id)
      /\ bySlug' = Put(bySlug, {<<m.type, m.label>>}, m)
      /\ byAlias' = Put(byAlias, AliasKeys(m), m)
      /\ fuzzy' = Remap(o, n, m.id)
      /\ tiers' = Counted(tier)

\* _register_canonical
Register(id, n, tier) ==
  LET c == [id |-> id, type |-> n.type, label |-> n.label, aliases |-> n.aliases,
            evidence |-> ToSet(n.evidence), how |-> tier, method |-> n.method]
  IN  /\ canonical' = Put(canonical, {id}, c)
      /\ evidence' = Put(evidence, {id}, c.evidence)
      /\ l2c' = Put(l2c, {n.local}, id)
      /\ bySlug' = Put(bySlug, {<<c.type, c.label>>}, c)
      /\ byAlias' = Put(byAlias, AliasKeys(c), c)
      /\ fuzzy' = [fuzzy EXCEPT ![n.type] = Append(@, [label |-> n.label, id |-> id])]
      /\ tiers' = Counted(tier)

-----------------------------------------------------------------------------
\* Tiers: the canonical nodes to which a tier may bind the node

SlugTarget(n) == {bySlug[k] : k \in {<<n.type, n.label>>} \cap DOMAIN bySlug}

\* by_alias at one alias; through the name of a team code when that fails
AliasTarget(n, a) ==
  LET direct == {byAlias[k] : k \in {<<n.type, a>>} \cap DOMAIN byAlias}
      usable == {o \in direct : n.type = "TEAM" => AliasCompatible(a, n.label, o.label)}
      named == IF n.type = "TEAM" /\ CodeMapsTo(a, n.label)
               THEN {<<"TEAM", TeamCodes[a]>>} \cap DOMAIN byAlias ELSE {}
  IN  IF usable # {} THEN usable ELSE {byAlias[k] : k \in named}

Allowed(objects, n) == {o \in objects : BindAllowed(o, n)}

\* The label is tried first, then the aliases in an order of their spelling
AliasTargets(n) ==
  LET byLabel == Allowed(AliasTarget(n, n.label), n)
  IN  IF byLabel # {} THEN byLabel
      ELSE Allowed(UNION {AliasTarget(n, a) : a \in n.aliases}, n)

\* extractOne returns the first of the labels with the best score.
Best(n, i) ==
  LET s == fuzzy[n.type]
      score(j) == Score[n.label, s[j].label]
  IN  /\ score(i) > 0
      /\ \A j \in DOMAIN s : score(j) <= score(i) /\ (j < i => score(j) < score(i))
FuzzyTargets(n) ==
  {canonical[fuzzy[n.type][i].id] : i \in {j \in DOMAIN fuzzy[n.type] : Best(n, j)}}

PastExactId(n) == ExactId(n) = {}
PastSlug(n) == PastExactId(n) /\ Allowed(SlugTarget(n), n) = {}
PastAlias(n) == PastSlug(n) /\ AliasTargets(n) = {}
PastFuzzy(n) == PastAlias(n) /\ Allowed(FuzzyTargets(n), n) = {}

ByExactId(n) ==
  \E id \in ExactId(n) :
     IF id \in DOMAIN canonical THEN Bind(canonical[id], n, "exact_id")
     ELSE Register(id, n, "exact_id")
BySlug(n) ==
  PastExactId(n) /\ \E o \in Allowed(SlugTarget(n), n) : Bind(o, n, "exact_slug")
ByAlias(n) == PastSlug(n) /\ \E o \in AliasTargets(n) : Bind(o, n, "alias")
ByFuzzy(n) ==
  PastAlias(n) /\ \E o \in Allowed(FuzzyTargets(n), n) : Bind(o, n, "fuzzy")
\* _register_new; the node that has the suggested id never refuses the bind
OnOccupied(n) ==
  PastFuzzy(n) /\ Suggested(n) \in DOMAIN canonical
    /\ Bind(canonical[Suggested(n)], n, "new_entity")
AsNew(n) ==
  PastFuzzy(n) /\ Suggested(n) \notin DOMAIN canonical
    /\ Register(Suggested(n), n, "new_entity")

\* One round of the loop of resolve_fragments
Resolve(raw) ==
  LET n == Prepare(raw)
  IN  /\ ~done /\ count < MaxNodes /\ MethodRank[n.method] >= rank
      /\ n.method = "official_bracket" => n \notin seen   \* one fragment, one node per fixture
      /\ \/ ByExactId(n) \/ BySlug(n) \/ ByAlias(n) \/ ByFuzzy(n)
         \/ OnOccupied(n) \/ AsNew(n)
      /\ seen' = seen \cup {n}
      /\ rank' = MethodRank[n.method]
      /\ count' = count + 1
      /\ UNCHANGED <<nodes, done>>

\* Slip: the evidence of registration is exported.
RegisteredEvidence(id) == canonical[id].evidence

FinalEvidence(id) == evidence[id]

\* _finalize_evidence
Finalize ==
  /\ ~done
  /\ done' = TRUE
  /\ canonical' = [id \in DOMAIN canonical |->
                     [canonical[id] EXCEPT !.evidence = FinalEvidence(id)]]
  /\ UNCHANGED <<nodes, l2c, bySlug, byAlias, fuzzy, evidence, tiers, seen, rank, count>>

NoEntries == [x \in {} |-> {}]

Init ==
  /\ nodes \in Inputs
  /\ canonical = NoEntries /\ l2c = NoEntries
  /\ bySlug = NoEntries /\ byAlias = NoEntries /\ evidence = NoEntries
  /\ fuzzy = [t \in Types |-> << >>]
  /\ tiers = [t \in Tiers |-> 0]
  /\ seen = {} /\ rank = 0 /\ count = 0 /\ done = FALSE

Next == Finalize \/ \E n \in nodes : Resolve(n)

Spec == Init /\ [][Next]_vars

-----------------------------------------------------------------------------
TypeOK ==
  /\ nodes \in Inputs
  /\ DOMAIN canonical \subseteq Ids /\ \A i \in DOMAIN canonical : canonical[i] \in Canonical
  /\ DOMAIN l2c \subseteq Ids /\ \A l \in DOMAIN l2c : l2c[l] \in Ids
  /\ DOMAIN bySlug \subseteq Key /\ \A k \in DOMAIN bySlug : bySlug[k] \in Canonical
  /\ DOMAIN byAlias \subseteq Key /\ \A k \in DOMAIN byAlias : byAlias[k] \in Canonical
  /\ fuzzy \in [Types -> Seq([label : Labels, id : Ids])]
  /\ DOMAIN evidence \subseteq Ids /\ \A i \in DOMAIN evidence : evidence[i] \subseteq Markets
  /\ tiers \in [Tiers -> 0 .. MaxNodes]
  /\ seen \subseteq Node /\ rank \in 0 .. 4 /\ count \in 0 .. MaxNodes /\ done \in BOOLEAN

\* While nodes are being bound, the five indexes agree: an id that any of them
\* holds is the id of a canonical node, the object a label or an alias leads to
\* is that node as it is now, never the state before a merge or an upgrade, and
\* each node is its own entry.  The fuzzy tier subscripts canonical_nodes with
\* what the index holds, and a merge writes the object it was given back.
IndexesAgree ==
  /\ DOMAIN evidence = DOMAIN canonical
  /\ \A i \in DOMAIN canonical : canonical[i].id = i
  /\ \A t \in Types : \A j \in DOMAIN fuzzy[t] :
       fuzzy[t][j].id \in DOMAIN canonical /\ canonical[fuzzy[t][j].id].type = t
  /\ ~done => \A k \in DOMAIN bySlug :
       /\ bySlug[k].id \in DOMAIN canonical /\ bySlug[k] = canonical[bySlug[k].id]
       /\ k = <<bySlug[k].type, bySlug[k].label>>
  /\ ~done => \A k \in DOMAIN byAlias :
       /\ byAlias[k].id \in DOMAIN canonical /\ byAlias[k] = canonical[byAlias[k].id]
       /\ k \in AliasKeys(byAlias[k])

\* Every node resolved so far has its local id in the map that the edges are
\* translated with, and the map leads to a canonical node that still exists,
\* whatever was merged, upgraded and re-keyed after it.
EveryLocalResolves ==
  \A n \in seen : n.local \in DOMAIN l2c /\ l2c[n.local] \in DOMAIN canonical

\* No evidence is lost by merges, upgrades that re-key the evidence sets or the
\* final copy, and none is attributed that no node brought.
EvidenceConserved ==
  done => UNION {canonical[i].evidence : i \in DOMAIN canonical}
            = UNION {ToSet(n.evidence) : n \in seen}

\* The fixtures of one team pair coalesce only over days that are one apart: a
\* dated MATCH that resolves to another day has, among the nodes read, one for
\* every day in between.  Rematches with a gap stay distinct.
CoalescesOverAdjacentDays ==
  \A n \in seen : n.type = "MATCH" /\ n.local.kind = "match" /\ n.local.day # Undated =>
    LET there == l2c[n.local]
    IN  /\ there.kind = "match" /\ there.name = n.local.name
        /\ there.day # Undated => \A d \in 1 .. MaxDay :
             (n.local.day < d /\ d <= there.day) \/ (there.day <= d /\ d < n.local.day)
               => \E o \in seen : o.local = Id("match", n.local.name, d)

\* The nodes that date a fixture between the teams of n.
Dating(n) ==
  {m \in nodes : m.type = "MATCH" /\ m.local.kind = "match" /\ m.local.name = n.local.name
                 /\ m.local.day # Undated}

\* The kickoff date of the official bracket wins over the dates of market slugs
\* and of the LLM, and the MATCH it is bound to bears its provenance, whatever
\* was bound before and after.  Not so when the pair meets again and a date is a
\* day off as well: with the other meeting in between, both dates get a node of
\* their own, and the upgrade gives way to the one that has the official date
\* (resolution.py:201).  Nor when a node under another label has taken it.
OfficialDateWins ==
  \A n \in seen :
    /\ n.type = "MATCH" /\ n.method = "official_bracket"
    /\ \/ \A m \in Dating(n) : NearDays(m.local.day, n.local.day)
       \/ \A m \in Dating(n) : NearDays(m.local.day, n.local.day) => m.local.day = n.local.day
    => /\ l2c[n.local] = n.local
       /\ canonical[n.local].method = "official_bracket"

\* Two teams stay two nodes although a three-letter code is an alias of both.
CodesNeverMergeTeams ==
  \A m, n \in seen : /\ m.type = "TEAM" /\ n.type = "TEAM"
                     /\ m.local.kind = "team" /\ n.local.kind = "team"
                     /\ Score[m.label, n.label] = 0
    => l2c[m.local] # l2c[n.local]

\* match_merge.py: fixtures "farther than one day apart must remain separate".
DistantFixturesStayApart ==
  \A m, n \in seen : m.type = "MATCH" /\ n.type = "MATCH"
                     /\ m.local.kind = "match" /\ n.local.kind = "match"
                     /\ m.local.day # Undated /\ n.local.day # Undated
                     /\ ~NearDays(m.local.day, n.local.day)
    => l2c[m.local] # l2c[n.local]
=============================================================================
