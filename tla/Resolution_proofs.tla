-------------------------- MODULE Resolution_proofs --------------------------
(***************************************************************************)
(* The indexes of entity resolution agree with the canonical nodes, and     *)
(* every local id resolves, for any nodes, names, codes and similarity.     *)
(* The inductive invariant is their conjunction: a re-key is sound because  *)
(* what leads to a node is among the keys that the merge writes again.      *)
(*                                                                          *)
(* On top of it: the evidence that is kept, the days of fixtures, the       *)
(* official date and the teams.  The last three need names that mean what   *)
(* the builders make them mean, and each theorem states the ones it needs.  *)
(***************************************************************************)
EXTENDS Resolution, TLAPS

LiveLocals ==
  /\ \A l \in DOMAIN l2c : l2c[l] \in DOMAIN canonical
  /\ \A n \in seen : n.local \in DOMAIN l2c

FuzzyOK == fuzzy \in [Types -> Seq([label : Labels, id : Ids])]
CanonicalOK ==
  /\ \A i \in DOMAIN canonical : canonical[i] \in Canonical
  /\ \A i \in DOMAIN evidence : evidence[i] \subseteq Markets

Inv == IndexesAgree /\ LiveLocals /\ FuzzyOK /\ CanonicalOK /\ done \in BOOLEAN

\* A prepared node is a node.
LEMMA PreparedNode ==
  ASSUME NEW raw \in Nodes
  PROVE  Prepare(raw) \in Node
<1>1. raw \in Node
  BY InputAssumption
<1>2. Display(raw.label) \in Labels
  BY <1>1, InputAssumption DEF Display, Node, Range
<1>3. QED
  BY <1>1, <1>2 DEF Prepare, Node

\* The fields of an id.
LEMMA IdFields ==
  ASSUME NEW n \in Node, NEW id \in ExactId(n) \cup {Suggested(n)}, n.evidence # << >>
  PROVE  id \in Ids
<1>1. n.local \in Ids /\ n.label \in Labels /\ n.type \in Types /\ n.evidence \in Seq(Markets)
  BY DEF Node
<1>2. Prefix[n.type] \in Kinds
  BY <1>1 DEF Prefix, Types, Kinds
<1>3. n.evidence[1] \in Markets
  BY <1>1
<1>4. MaxDay \in Nat
  BY InputAssumption
<1>5. /\ <<n.evidence[1]>> \in Seq(Labels \cup Markets)
      /\ <<n.label>> \in Seq(Labels \cup Markets)
      /\ <<n.evidence[1], n.label>> \in Seq(Labels \cup Markets)
  BY <1>1, <1>3
<1>6. ASSUME NEW k \in Kinds, NEW nm \in Seq(Labels \cup Markets)
      PROVE  Id(k, nm, Undated) \in Ids
  BY <1>4, <1>6 DEF Id, Ids, Undated
<1>7. n.local.name \in Seq(Labels \cup Markets)
  BY <1>1 DEF Ids
<1>8. CASE id = Suggested(n)
  BY <1>1, <1>2, <1>5, <1>6, <1>7, <1>8 DEF Suggested, Kinds
<1>9. CASE id \in ExactId(n)
  BY <1>1, <1>2, <1>5, <1>6, <1>9 DEF ExactId, Kinds
<1>10. QED
  BY <1>8, <1>9

\* What a merge or an upgrade needs of the node it binds to: it is the canonical
\* node of its id as it is now.
Current(o) == o.id \in DOMAIN canonical /\ o = canonical[o.id]

\* A merge makes a canonical node that keeps type and label.
LEMMA MergedNode ==
  ASSUME Inv, NEW o, Current(o), NEW n \in Node, NEW tier \in Tiers
  PROVE  LET m == Merged(o, n, tier)
         IN  /\ m \in Canonical /\ m.type = o.type /\ m.label = o.label
             /\ AliasKeys(o) \subseteq AliasKeys(m)
             /\ m.id = o.id \/ m.id \notin DOMAIN canonical
<1>1. o \in Canonical
  BY DEF Inv, CanonicalOK, Current
<1>2. n.local \in Ids /\ n.aliases \subseteq Labels /\ n.label \in Labels
        /\ n.method \in DOMAIN MethodRank
  BY DEF Node
<1>3. NewId(o, n) \in Ids /\ (NewId(o, n) = o.id \/ NewId(o, n) \notin DOMAIN canonical)
  BY <1>1, <1>2 DEF NewId, Canonical
<1>4. PreferredMethod(o.method, n.method) \in DOMAIN MethodRank
  BY <1>1, <1>2 DEF PreferredMethod, Canonical, MethodRank
<1>5. Merged(o, n, tier) \in Canonical
  BY <1>1, <1>2, <1>3, <1>4 DEF Merged, Canonical
<1>6. AliasKeys(o) \subseteq AliasKeys(Merged(o, n, tier))
  BY DEF AliasKeys, Merged
<1>7. QED
  BY <1>3, <1>5, <1>6 DEF Merged

\* Binding a node to an existing one, with the re-key inside.
LEMMA BindKeeps ==
  ASSUME Inv, ~done, NEW o, Current(o), NEW n \in Node, NEW tier \in Tiers,
         Bind(o, n, tier), seen' = seen \cup {n}, done' = done
  PROVE  Inv'
<1> DEFINE m == Merged(o, n, tier)
<1>1. /\ m \in Canonical /\ m.type = o.type /\ m.label = o.label
      /\ AliasKeys(o) \subseteq AliasKeys(m)
      /\ m.id = o.id \/ m.id \notin DOMAIN canonical
  BY MergedNode
<1>2. o \in Canonical
  BY DEF Inv, CanonicalOK, Current
<1> HIDE DEF m
<1>3. /\ canonical' = Rekey(canonical, o.id, m.id, m)
      /\ evidence' = Rekey(evidence, o.id, m.id, Evidence(o, n))
      /\ l2c' = Relocate(o, n, m.id)
      /\ bySlug' = Put(bySlug, {<<m.type, m.label>>}, m)
      /\ byAlias' = Put(byAlias, AliasKeys(m), m)
      /\ fuzzy' = Remap(o, n, m.id)
  BY DEF Bind, m
<1>4. /\ DOMAIN canonical' = (DOMAIN canonical \ {o.id}) \cup {m.id}
      /\ canonical'[m.id] = m
      /\ \A i \in DOMAIN canonical : i # o.id => i # m.id /\ canonical'[i] = canonical[i]
  BY <1>1, <1>3 DEF Rekey, Current
<1>5. \A i \in DOMAIN canonical' : i = m.id \/ (i # o.id /\ i \in DOMAIN canonical)
  BY <1>4
<1>6. CanonicalOK' /\ \A i \in DOMAIN canonical' : canonical'[i].id = i
  <2>1. CanonicalOK /\ \A i \in DOMAIN canonical : canonical[i].id = i
    BY DEF Inv, IndexesAgree
  <2>2. /\ \A i \in DOMAIN canonical' : canonical'[i] \in Canonical
        /\ \A i \in DOMAIN canonical' : canonical'[i].id = i
    BY <2>1, <1>1, <1>4, <1>5 DEF CanonicalOK
  <2>3. Evidence(o, n) \subseteq Markets
    <3>1. evidence[o.id] \subseteq Markets
      BY DEF Inv, CanonicalOK, IndexesAgree, Current
    <3>2. ToSet(n.evidence) \subseteq Markets
      BY DEF Node, ToSet
    <3>3. QED
      BY <1>2, <3>1, <3>2 DEF Evidence, Canonical
  <2>4. \A i \in DOMAIN evidence' : evidence'[i] \subseteq Markets
    BY <2>1, <2>3, <1>3 DEF Rekey, CanonicalOK
  <2>5. QED
    BY <2>2, <2>4 DEF CanonicalOK
<1>7. DOMAIN evidence' = DOMAIN canonical'
  BY <1>3 DEF Rekey, Inv, IndexesAgree
<1>8. FuzzyOK' /\ \A t \in Types : \A j \in DOMAIN fuzzy'[t] :
        fuzzy'[t][j].id \in DOMAIN canonical' /\ canonical'[fuzzy'[t][j].id].type = t
  <2> DEFINE Entry == [label : Labels, id : Ids]
             entry(e) == [label |-> e.label, id |-> IF e.id = o.id THEN m.id ELSE e.id]
             s == fuzzy[o.type]
             moved == [i \in DOMAIN s |-> entry(s[i])]
             last == [label |-> n.label, id |-> m.id]
             Good(e, t) == e \in Entry /\ e.id \in DOMAIN canonical' /\ canonical'[e.id].type = t
  <2>1. o.type \in Types /\ m.id \in Ids /\ n.label \in Labels
    BY <1>1, <1>2 DEF Canonical, Node
  <2>2a. ASSUME NEW t \in Types
         PROVE  /\ fuzzy[t] \in Seq(Entry) /\ DOMAIN fuzzy[t] = 1 .. Len(fuzzy[t])
                /\ Len(fuzzy[t]) \in Nat /\ \A j \in DOMAIN fuzzy[t] : fuzzy[t][j] \in Entry
    <3> HIDE DEF Entry
    <3>1. fuzzy[t] \in Seq(Entry)
      BY <2>2a DEF Inv, FuzzyOK, Entry
    <3>2. QED
      BY <3>1
  <2>2. s \in Seq(Entry) /\ DOMAIN s = 1 .. Len(s) /\ Len(s) \in Nat
    BY <2>1, <2>2a
  <2>3. \A t \in Types : \A j \in DOMAIN fuzzy[t] :
          /\ fuzzy[t][j] \in Entry
          /\ fuzzy[t][j].id \in DOMAIN canonical /\ canonical[fuzzy[t][j].id].type = t
    BY <2>2a DEF Inv, IndexesAgree
  <2>4. \A i \in DOMAIN s : Good(entry(s[i]), o.type)
    <3>1. TAKE i \in DOMAIN s
    <3>2. s[i] \in Entry /\ s[i].id \in DOMAIN canonical /\ canonical[s[i].id].type = o.type
      BY <2>1, <2>3
    <3>3. CASE s[i].id = o.id
      BY <3>2, <3>3, <2>1, <1>1, <1>4
    <3>4. CASE s[i].id # o.id
      BY <3>2, <3>4, <1>4
    <3>5. QED
      BY <3>3, <3>4
  <2>5. Good(last, o.type)
    BY <2>1, <1>1, <1>4
  <2>6. moved \in Seq(Entry) /\ Len(moved) = Len(s) /\ DOMAIN moved = 1 .. Len(s)
    BY <2>2, <2>4
  <2>7. PICK f : /\ f = IF n.label \in o.aliases \cup {o.label} THEN moved ELSE Append(moved, last)
                 /\ fuzzy' = [fuzzy EXCEPT ![o.type] = f]
    BY <1>3 DEF Remap
  <2>8. f \in Seq(Entry) /\ \A j \in DOMAIN f : Good(f[j], o.type)
    <3>1. CASE n.label \in o.aliases \cup {o.label}
      BY <3>1, <2>4, <2>6, <2>7
    <3>2. CASE n.label \notin o.aliases \cup {o.label}
      <4>1. f = Append(moved, last) /\ last \in Entry
        BY <3>2, <2>5, <2>7
      <4>2. f \in Seq(Entry) /\ DOMAIN f = 1 .. (Len(s) + 1)
              /\ \A j \in 1 .. (Len(s) + 1) : f[j] = IF j = Len(s) + 1 THEN last ELSE moved[j]
        BY <4>1, <2>2, <2>6
      <4>3. \A j \in 1 .. Len(s) : moved[j] = entry(s[j])
        BY <2>2
      <4>4. ASSUME NEW j \in 1 .. (Len(s) + 1) PROVE Good(f[j], o.type)
        <5>1. CASE j = Len(s) + 1
          BY <5>1, <4>2, <2>5
        <5>2. CASE j # Len(s) + 1
          <6>0. j \in 1 .. Len(s) /\ j \in DOMAIN s
            BY <5>2, <4>4, <2>2
          <6>0a. f[j] = moved[j]
            BY <5>2, <4>2, <4>4
          <6>1. j \in DOMAIN s /\ f[j] = entry(s[j])
            BY <6>0, <6>0a, <4>3
          <6>2. QED
            BY <6>1, <2>4
        <5>3. QED
          BY <5>1, <5>2
      <4>5. QED
        BY <4>2, <4>4
    <3>3. QED
      BY <3>1, <3>2
  <2>9. ASSUME NEW t \in Types, t # o.type
        PROVE  fuzzy'[t] = fuzzy[t] /\ \A j \in DOMAIN fuzzy[t] : Good(fuzzy[t][j], t)
    <3>1. fuzzy'[t] = fuzzy[t]
      BY <2>7, <2>9 DEF Inv, FuzzyOK
    <3>2. ASSUME NEW j \in DOMAIN fuzzy[t] PROVE Good(fuzzy[t][j], t)
      <4>1. fuzzy[t][j].id # o.id
        BY <2>3, <2>9 DEF Current
      <4>2. QED
        BY <2>3, <4>1, <1>4
    <3>3. QED
      BY <3>1, <3>2
  <2>10. FuzzyOK'
    BY <2>1, <2>7, <2>8 DEF FuzzyOK, Inv
  <2>11. ASSUME NEW t \in Types, NEW j \in DOMAIN fuzzy'[t]
         PROVE  fuzzy'[t][j].id \in DOMAIN canonical' /\ canonical'[fuzzy'[t][j].id].type = t
    <3>1. CASE t = o.type
      BY <3>1, <2>1, <2>7, <2>8 DEF Inv, FuzzyOK
    <3>2. CASE t # o.type
      BY <3>2, <2>9
    <3>3. QED
      BY <3>1, <3>2
  <2>12. QED
    BY <2>10, <2>11
<1>9. \A k \in DOMAIN bySlug' :
        /\ bySlug'[k].id \in DOMAIN canonical' /\ bySlug'[k] = canonical'[bySlug'[k].id]
        /\ k = <<bySlug'[k].type, bySlug'[k].label>>
  <2>1. TAKE k \in DOMAIN bySlug'
  <2>2. CASE k = <<m.type, m.label>>
    BY <2>2, <1>3, <1>4 DEF Put
  <2>3. CASE k # <<m.type, m.label>>
    <3>1. k \in DOMAIN bySlug /\ bySlug'[k] = bySlug[k]
      BY <2>1, <2>3, <1>3 DEF Put
    <3>2. /\ bySlug[k].id \in DOMAIN canonical /\ bySlug[k] = canonical[bySlug[k].id]
          /\ k = <<bySlug[k].type, bySlug[k].label>>
      BY <3>1 DEF Inv, IndexesAgree
    <3>3. bySlug[k].id # o.id
      BY <3>2, <2>3, <1>1 DEF Current
    <3>4. QED
      BY <3>1, <3>2, <3>3, <1>4
  <2>4. QED
    BY <2>2, <2>3
<1>10. \A k \in DOMAIN byAlias' :
        /\ byAlias'[k].id \in DOMAIN canonical' /\ byAlias'[k] = canonical'[byAlias'[k].id]
        /\ k \in AliasKeys(byAlias'[k])
  <2>1. TAKE k \in DOMAIN byAlias'
  <2>2. CASE k \in AliasKeys(m)
    BY <2>2, <1>3, <1>4 DEF Put
  <2>3. CASE k \notin AliasKeys(m)
    <3>1. k \in DOMAIN byAlias /\ byAlias'[k] = byAlias[k]
      BY <2>1, <2>3, <1>3 DEF Put
    <3>2. /\ byAlias[k].id \in DOMAIN canonical /\ byAlias[k] = canonical[byAlias[k].id]
          /\ k \in AliasKeys(byAlias[k])
      BY <3>1 DEF Inv, IndexesAgree
    <3>3. byAlias[k].id # o.id
      BY <3>2, <2>3, <1>1 DEF Current
    <3>4. QED
      BY <3>1, <3>2, <3>3, <1>4
  <2>4. QED
    BY <2>2, <2>3
<1>11. LiveLocals'
  <2>1. /\ DOMAIN l2c' = DOMAIN l2c \cup {n.local}
        /\ \A l \in DOMAIN l2c' : l2c'[l] = IF l = n.local \/ l2c[l] = o.id THEN m.id ELSE l2c[l]
    BY <1>3 DEF Relocate
  <2>2. \A l \in DOMAIN l2c' : l2c'[l] \in DOMAIN canonical'
    BY <2>1, <1>4 DEF Inv, LiveLocals
  <2>3. QED
    BY <2>1, <2>2 DEF Inv, LiveLocals
<1>12. QED
  BY <1>6, <1>7, <1>8, <1>9, <1>10, <1>11 DEF Inv, IndexesAgree

\* Registering a new one.
LEMMA RegisterKeeps ==
  ASSUME Inv, ~done, NEW id \in Ids, id \notin DOMAIN canonical,
         NEW n \in Node, NEW tier \in Tiers,
         Register(id, n, tier), seen' = seen \cup {n}, done' = done
  PROVE  Inv'
<1> DEFINE c == [id |-> id, type |-> n.type, label |-> n.label, aliases |-> n.aliases,
                 evidence |-> ToSet(n.evidence), how |-> tier, method |-> n.method]
<1>1. n.type \in Types /\ n.label \in Labels /\ n.aliases \subseteq Labels
        /\ n.method \in DOMAIN MethodRank /\ n.evidence \in Seq(Markets)
  BY DEF Node
<1>2. ToSet(n.evidence) \subseteq Markets
  BY <1>1 DEF ToSet
<1>3. c \in Canonical /\ c.id = id /\ c.type = n.type /\ c.label = n.label
  BY <1>1, <1>2 DEF Canonical
<1>4. /\ canonical' = Put(canonical, {id}, c)
      /\ evidence' = Put(evidence, {id}, c.evidence)
      /\ l2c' = Put(l2c, {n.local}, id)
      /\ bySlug' = Put(bySlug, {<<c.type, c.label>>}, c)
      /\ byAlias' = Put(byAlias, AliasKeys(c), c)
      /\ fuzzy' = [fuzzy EXCEPT ![n.type] = Append(@, [label |-> n.label, id |-> id])]
  BY DEF Register
<1> HIDE DEF c
<1>5. /\ DOMAIN canonical' = DOMAIN canonical \cup {id} /\ canonical'[id] = c
      /\ \A i \in DOMAIN canonical : i # id /\ canonical'[i] = canonical[i]
  BY <1>4 DEF Put
<1>6. CanonicalOK' /\ \A i \in DOMAIN canonical' : canonical'[i].id = i
  <2>1. /\ \A i \in DOMAIN canonical' : canonical'[i] \in Canonical
        /\ \A i \in DOMAIN canonical' : canonical'[i].id = i
    BY <1>3, <1>5 DEF Inv, IndexesAgree, CanonicalOK
  <2>2. c.evidence \subseteq Markets
    BY <1>3 DEF Canonical
  <2>3. \A i \in DOMAIN evidence' : evidence'[i] \subseteq Markets
    BY <2>2, <1>4 DEF Put, Inv, CanonicalOK
  <2>4. QED
    BY <2>1, <2>3 DEF CanonicalOK
<1>7. DOMAIN evidence' = DOMAIN canonical'
  BY <1>4 DEF Put, Inv, IndexesAgree
<1>8. FuzzyOK' /\ \A t \in Types : \A j \in DOMAIN fuzzy'[t] :
        fuzzy'[t][j].id \in DOMAIN canonical' /\ canonical'[fuzzy'[t][j].id].type = t
  <2> DEFINE Entry == [label : Labels, id : Ids]
             last == [label |-> n.label, id |-> id]
             Good(e, t) == e.id \in DOMAIN canonical' /\ canonical'[e.id].type = t
  <2>1. last \in Entry /\ Good(last, n.type)
    BY <1>1, <1>3, <1>5
  <2>2. fuzzy \in [Types -> Seq(Entry)]
    BY DEF Inv, FuzzyOK
  <2>3. ASSUME NEW t \in Types, NEW j \in DOMAIN fuzzy[t] PROVE Good(fuzzy[t][j], t)
    BY <2>3, <1>5 DEF Inv, IndexesAgree
  <2>4. fuzzy' = [fuzzy EXCEPT ![n.type] = Append(fuzzy[n.type], last)]
    BY <1>4
  <2> HIDE DEF Entry, last
  <2>5. fuzzy' \in [Types -> Seq(Entry)]
    BY <2>1, <2>2, <2>4, <1>1
  <2>6. ASSUME NEW t \in Types, NEW j \in DOMAIN fuzzy'[t] PROVE Good(fuzzy'[t][j], t)
    <3>1. fuzzy[t] \in Seq(Entry)
      BY <2>2
    <3>2. CASE t = n.type
      <4>1. fuzzy'[t] = Append(fuzzy[t], last)
        BY <2>2, <2>4, <3>2
      <4>2. \/ j \in DOMAIN fuzzy[t] /\ fuzzy'[t][j] = fuzzy[t][j]
            \/ fuzzy'[t][j] = last
        BY <4>1, <3>1, <2>1, <2>6
      <4>3. QED
        BY <4>2, <2>1, <2>3, <3>2
    <3>3. CASE t # n.type
      BY <3>3, <2>2, <2>3, <2>4
    <3>4. QED
      BY <3>2, <3>3
  <2>7. QED
    BY <2>5, <2>6 DEF FuzzyOK, Entry
<1>9. \A k \in DOMAIN bySlug' :
        /\ bySlug'[k].id \in DOMAIN canonical' /\ bySlug'[k] = canonical'[bySlug'[k].id]
        /\ k = <<bySlug'[k].type, bySlug'[k].label>>
  <2>1. TAKE k \in DOMAIN bySlug'
  <2>2. CASE k = <<c.type, c.label>>
    BY <2>2, <1>3, <1>4, <1>5 DEF Put
  <2>3. CASE k # <<c.type, c.label>>
    BY <2>1, <2>3, <1>4, <1>5 DEF Put, Inv, IndexesAgree
  <2>4. QED
    BY <2>2, <2>3
<1>10. \A k \in DOMAIN byAlias' :
        /\ byAlias'[k].id \in DOMAIN canonical' /\ byAlias'[k] = canonical'[byAlias'[k].id]
        /\ k \in AliasKeys(byAlias'[k])
  <2>1. TAKE k \in DOMAIN byAlias'
  <2>2. CASE k \in AliasKeys(c)
    BY <2>2, <1>3, <1>4, <1>5 DEF Put
  <2>3. CASE k \notin AliasKeys(c)
    BY <2>1, <2>3, <1>4, <1>5 DEF Put, Inv, IndexesAgree
  <2>4. QED
    BY <2>2, <2>3
<1>11. LiveLocals'
  BY <1>4, <1>5 DEF Put, Inv, LiveLocals
<1>12. QED
  BY <1>6, <1>7, <1>8, <1>9, <1>10, <1>11 DEF Inv, IndexesAgree

\* The tiers bind to current nodes only.
LEMMA TargetsCurrent ==
  ASSUME Inv, ~done, NEW n \in Node
  PROVE  /\ \A i \in DOMAIN canonical : Current(canonical[i])
         /\ \A o \in Allowed(SlugTarget(n), n) \cup AliasTargets(n) \cup Allowed(FuzzyTargets(n), n) :
              Current(o)
<1>1. \A i \in DOMAIN canonical : Current(canonical[i])
  BY DEF Current, Inv, IndexesAgree
<1>2. \A k \in DOMAIN bySlug : Current(bySlug[k])
  BY DEF Current, Inv, IndexesAgree
<1>3. \A k \in DOMAIN byAlias : Current(byAlias[k])
  BY DEF Current, Inv, IndexesAgree
<1>4. \A o \in SlugTarget(n) : Current(o)
  BY <1>2 DEF SlugTarget
<1>5. ASSUME NEW a \in Labels, NEW o \in AliasTarget(n, a) PROVE Current(o)
  BY <1>3, <1>5 DEF AliasTarget
<1>6. \A o \in AliasTargets(n) : Current(o)
  <2>1. n.label \in Labels /\ n.aliases \subseteq Labels
    BY DEF Node
  <2>2. QED
    BY <1>5, <2>1 DEF AliasTargets, Allowed
<1>7. \A o \in FuzzyTargets(n) : Current(o)
  <2>1. n.type \in Types
    BY DEF Node
  <2>2. \A j \in DOMAIN fuzzy[n.type] : fuzzy[n.type][j].id \in DOMAIN canonical
    BY <2>1 DEF Inv, IndexesAgree
  <2>3. QED
    BY <1>1, <2>2 DEF FuzzyTargets
<1>8. QED
  BY <1>1, <1>4, <1>6, <1>7 DEF Allowed

\* Whatever tier takes the node.
LEMMA ResolveKeeps ==
  ASSUME Inv, NEW raw \in Nodes, Resolve(raw)
  PROVE  Inv'
<1> DEFINE n == Prepare(raw)
<1>1. n \in Node
  BY PreparedNode
<1>2. n.evidence # << >>
  BY InputAssumption DEF Prepare, Node
<1>3. /\ ~done /\ done' = done /\ seen' = seen \cup {n}
      /\ ByExactId(n) \/ BySlug(n) \/ ByAlias(n) \/ ByFuzzy(n) \/ OnOccupied(n) \/ AsNew(n)
  BY DEF Resolve
<1> HIDE DEF n
<1>4. Tiers = {"exact_id", "exact_slug", "alias", "fuzzy", "new_entity"}
  BY DEF Tiers
<1>5. CASE ByExactId(n)
  <2>1. PICK id \in ExactId(n) :
          IF id \in DOMAIN canonical THEN Bind(canonical[id], n, "exact_id")
          ELSE Register(id, n, "exact_id")
    BY <1>5 DEF ByExactId
  <2>2. id \in Ids
    BY <1>1, <1>2, IdFields
  <2>3. CASE id \in DOMAIN canonical
    BY <2>1, <2>3, <1>1, <1>3, <1>4, TargetsCurrent, BindKeeps
  <2>4. CASE id \notin DOMAIN canonical
    BY <2>1, <2>2, <2>4, <1>1, <1>3, <1>4, RegisterKeeps
  <2>5. QED
    BY <2>3, <2>4
<1>6. CASE BySlug(n)
  BY <1>6, <1>1, <1>3, <1>4, TargetsCurrent, BindKeeps DEF BySlug
<1>7. CASE ByAlias(n)
  BY <1>7, <1>1, <1>3, <1>4, TargetsCurrent, BindKeeps DEF ByAlias
<1>8. CASE ByFuzzy(n)
  BY <1>8, <1>1, <1>3, <1>4, TargetsCurrent, BindKeeps DEF ByFuzzy
<1>9. CASE OnOccupied(n)
  BY <1>9, <1>1, <1>3, <1>4, TargetsCurrent, BindKeeps DEF OnOccupied
<1>10. CASE AsNew(n)
  <2>1. Suggested(n) \in Ids
    BY <1>1, <1>2, IdFields
  <2>2. QED
    BY <1>10, <2>1, <1>1, <1>3, <1>4, RegisterKeeps DEF AsNew
<1>11. QED
  BY <1>3, <1>5, <1>6, <1>7, <1>8, <1>9, <1>10

\* _finalize_evidence changes the evidence of the nodes and nothing the ids or
\* the types of the indexes depend on.
LEMMA FinalizeKeeps ==
  ASSUME Inv, Finalize
  PROVE  Inv'
<1>1. /\ done' = TRUE
      /\ canonical' = [id \in DOMAIN canonical |-> [canonical[id] EXCEPT !.evidence = evidence[id]]]
      /\ UNCHANGED <<l2c, fuzzy, evidence, seen>>
  BY DEF Finalize, FinalEvidence
<1>2. ASSUME NEW i \in DOMAIN canonical
      PROVE  /\ canonical'[i] \in Canonical
             /\ canonical'[i].id = canonical[i].id
             /\ canonical'[i].type = canonical[i].type
  <2>1. canonical[i] \in Canonical /\ evidence[i] \subseteq Markets
    BY DEF Inv, CanonicalOK, IndexesAgree
  <2>2. canonical'[i] = [canonical[i] EXCEPT !.evidence = evidence[i]]
    BY <1>1
  <2>3. QED
    BY <2>1, <2>2 DEF Canonical
<1>3. DOMAIN canonical' = DOMAIN canonical
  BY <1>1
<1>4. CanonicalOK' /\ LiveLocals' /\ FuzzyOK'
  BY <1>1, <1>2, <1>3 DEF Inv, CanonicalOK, LiveLocals, FuzzyOK
<1>5. IndexesAgree'
  BY <1>1, <1>2, <1>3 DEF Inv, IndexesAgree
<1>6. QED
  BY <1>1, <1>4, <1>5 DEF Inv

\* No node, no entry.
LEMMA InitInv == Init => Inv
<1> SUFFICES ASSUME Init PROVE Inv
  OBVIOUS
<1>1. /\ canonical = NoEntries /\ l2c = NoEntries /\ bySlug = NoEntries
      /\ byAlias = NoEntries /\ evidence = NoEntries /\ seen = {} /\ done = FALSE
      /\ fuzzy = [t \in Types |-> << >>]
  BY DEF Init
<1>2. DOMAIN NoEntries = {}
  BY DEF NoEntries
<1>3. fuzzy \in [Types -> Seq([label : Labels, id : Ids])] /\ \A t \in Types : DOMAIN fuzzy[t] = {}
  BY <1>1
<1>4. QED
  BY <1>1, <1>2, <1>3 DEF Inv, IndexesAgree, LiveLocals, FuzzyOK, CanonicalOK

Given == nodes \in Inputs

\* The nodes of the fragments stay the ones given.
LEMMA NodesGiven == Spec => []Given
<1>1. Init => Given
  BY DEF Init, Given
<1>2. Given /\ [Next]_vars => Given'
  BY DEF Given, Next, Finalize, Resolve, vars
<1>3. QED
  BY <1>1, <1>2, PTL DEF Spec

\* The whole inductive invariant holds of resolve_fragments whatever fragments
\* it reads, in whatever order.
THEOREM ResolutionInvariant == Spec => []Inv
<1>1. Init => Inv
  BY InitInv
<1>2. Given /\ Inv /\ [Next]_vars => Inv'
  <2> SUFFICES ASSUME Given, Inv, [Next]_vars PROVE Inv'
    OBVIOUS
  <2>1. CASE Finalize
    BY <2>1, FinalizeKeeps
  <2>2. ASSUME NEW raw \in Nodes, Resolve(raw) PROVE Inv'
    BY <2>2, ResolveKeeps
  <2>3. CASE UNCHANGED vars
    BY <2>3 DEF vars, state, Inv, IndexesAgree, LiveLocals, FuzzyOK, CanonicalOK
  <2>4. QED
    BY <2>1, <2>2, <2>3 DEF Next, Given, Nodes
<1>3. QED
  BY <1>1, <1>2, NodesGiven, PTL DEF Spec

\* No index of entity resolution ever holds a node that was re-keyed away or the
\* state of a node before a merge: the fuzzy tier's subscript never fails, and a
\* merge never writes an old object back.
THEOREM IndexesStayCurrent == Spec => []IndexesAgree
<1>1. Inv => IndexesAgree
  BY DEF Inv
<1>2. QED
  BY <1>1, ResolutionInvariant, PTL

\* The endpoints of every edge between nodes of its fragment translate to
\* canonical nodes that exist, whatever was merged or upgraded since.
THEOREM LocalsResolve == Spec => []EveryLocalResolves
<1>1. Inv => EveryLocalResolves
  BY DEF Inv, LiveLocals, EveryLocalResolves
<1>2. QED
  BY <1>1, ResolutionInvariant, PTL

-----------------------------------------------------------------------------
(* Evidence. *)

Brought == UNION {ToSet(n.evidence) : n \in seen}
Held == UNION {evidence[i] : i \in DOMAIN evidence}

\* The evidence sets hold what the nodes read so far have brought, no node
\* object holds more than its set, and the export holds the sets.
EvidenceInv ==
  /\ Held = Brought
  /\ \A i \in DOMAIN canonical :
       /\ canonical[i].evidence \subseteq evidence[i]
       /\ done => canonical[i].evidence = evidence[i]

\* A merge, and a re-key of the evidence set with it, adds the node's evidence.
LEMMA BindConserves ==
  ASSUME Inv, EvidenceInv, ~done, NEW o, Current(o), NEW n \in Node, NEW tier \in Tiers,
         Bind(o, n, tier), seen' = seen \cup {n}, done' = done
  PROVE  EvidenceInv'
<1> DEFINE m == Merged(o, n, tier)
<1>1. /\ m.id = o.id \/ m.id \notin DOMAIN canonical
      /\ m.evidence = o.evidence
      /\ DOMAIN evidence = DOMAIN canonical /\ o.id \in DOMAIN canonical
  BY MergedNode DEF Merged, Inv, IndexesAgree, Current
<1>2. /\ canonical' = Rekey(canonical, o.id, m.id, m)
      /\ evidence' = Rekey(evidence, o.id, m.id, Evidence(o, n))
  BY DEF Bind
<1> HIDE DEF m
<1>3. /\ DOMAIN canonical' = (DOMAIN canonical \ {o.id}) \cup {m.id}
      /\ DOMAIN evidence' = (DOMAIN canonical \ {o.id}) \cup {m.id}
      /\ canonical'[m.id] = m /\ evidence'[m.id] = Evidence(o, n)
      /\ \A i \in DOMAIN canonical \ {o.id} :
           i # m.id /\ canonical'[i] = canonical[i] /\ evidence'[i] = evidence[i]
  BY <1>1, <1>2 DEF Rekey
<1>4. o.evidence \subseteq evidence[o.id]
  BY <1>1 DEF EvidenceInv, Current
<1>5. Evidence(o, n) = evidence[o.id] \cup ToSet(n.evidence)
  BY <1>4 DEF Evidence
<1>6. Held' = Held \cup ToSet(n.evidence)
  <2>1. ASSUME NEW x PROVE x \in Held' <=> x \in Held \/ x \in ToSet(n.evidence)
    BY <1>1, <1>3, <1>5 DEF Held
  <2> QED BY <2>1
<1>7. Brought' = Brought \cup ToSet(n.evidence)
  BY DEF Brought
<1>8. \A i \in DOMAIN canonical' : canonical'[i].evidence \subseteq evidence'[i]
  BY <1>1, <1>3, <1>4, <1>5 DEF EvidenceInv
<1> QED BY <1>6, <1>7, <1>8 DEF EvidenceInv

\* A new node brings its own evidence,
LEMMA RegisterConserves ==
  ASSUME Inv, EvidenceInv, ~done, NEW id, id \notin DOMAIN canonical, NEW n, NEW tier,
         Register(id, n, tier), seen' = seen \cup {n}, done' = done
  PROVE  EvidenceInv'
<1> DEFINE c == [id |-> id, type |-> n.type, label |-> n.label, aliases |-> n.aliases,
                 evidence |-> ToSet(n.evidence), how |-> tier, method |-> n.method]
<1>1. /\ canonical' = Put(canonical, {id}, c)
      /\ evidence' = Put(evidence, {id}, ToSet(n.evidence))
      /\ c.evidence = ToSet(n.evidence)
      /\ DOMAIN evidence = DOMAIN canonical
  BY DEF Register, Inv, IndexesAgree
<1> HIDE DEF c
<1>2. /\ DOMAIN canonical' = DOMAIN canonical \cup {id}
      /\ DOMAIN evidence' = DOMAIN canonical \cup {id}
      /\ canonical'[id] = c /\ evidence'[id] = ToSet(n.evidence)
      /\ \A i \in DOMAIN canonical :
           i # id /\ canonical'[i] = canonical[i] /\ evidence'[i] = evidence[i]
  BY <1>1 DEF Put
<1>3. Held' = Held \cup ToSet(n.evidence)
  <2>1. ASSUME NEW x PROVE x \in Held' <=> x \in Held \/ x \in ToSet(n.evidence)
    BY <1>1, <1>2 DEF Held
  <2> QED BY <2>1
<1>4. Brought' = Brought \cup ToSet(n.evidence)
  BY DEF Brought
<1>5. \A i \in DOMAIN canonical' : canonical'[i].evidence \subseteq evidence'[i]
  BY <1>1, <1>2 DEF EvidenceInv
<1> QED BY <1>3, <1>4, <1>5 DEF EvidenceInv

\* and a node read adds its own to what there was, whatever tier takes it.
LEMMA ResolveConserves ==
  ASSUME Inv, EvidenceInv, NEW raw \in Nodes, Resolve(raw) PROVE EvidenceInv'
<1> DEFINE n == Prepare(raw)
<1>1. n \in Node
  BY PreparedNode
<1>2. /\ ~done /\ done' = done /\ seen' = seen \cup {n}
      /\ ByExactId(n) \/ BySlug(n) \/ ByAlias(n) \/ ByFuzzy(n) \/ OnOccupied(n) \/ AsNew(n)
  BY DEF Resolve
<1> HIDE DEF n
<1>3. CASE \E tier \in Tiers : \E o : Current(o) /\ Bind(o, n, tier)
  BY <1>1, <1>2, <1>3, BindConserves
<1>4. CASE \E tier \in Tiers : \E id : id \notin DOMAIN canonical /\ Register(id, n, tier)
  BY <1>2, <1>4, RegisterConserves
<1>5. Tiers = {"exact_id", "exact_slug", "alias", "fuzzy", "new_entity"}
  BY DEF Tiers
<1>6. CASE ByExactId(n)
  <2>1. PICK id \in ExactId(n) :
          IF id \in DOMAIN canonical THEN Bind(canonical[id], n, "exact_id")
          ELSE Register(id, n, "exact_id")
    BY <1>6 DEF ByExactId
  <2>2. id \in DOMAIN canonical => Current(canonical[id])
    BY <1>1, <1>2, TargetsCurrent
  <2> QED BY <1>3, <1>4, <1>5, <2>1, <2>2
<1>7. CASE BySlug(n)
  BY <1>1, <1>2, <1>3, <1>5, <1>7, TargetsCurrent DEF BySlug
<1>8. CASE ByAlias(n)
  BY <1>1, <1>2, <1>3, <1>5, <1>8, TargetsCurrent DEF ByAlias
<1>9. CASE ByFuzzy(n)
  BY <1>1, <1>2, <1>3, <1>5, <1>9, TargetsCurrent DEF ByFuzzy
<1>10. CASE OnOccupied(n)
  BY <1>1, <1>2, <1>3, <1>5, <1>10, TargetsCurrent DEF OnOccupied
<1>11. CASE AsNew(n)
  BY <1>4, <1>5, <1>11 DEF AsNew
<1> QED BY <1>2, <1>6, <1>7, <1>8, <1>9, <1>10, <1>11

\* Through merges, upgrades that re-key and the final copy, the canonical nodes
\* hold just the evidence that the nodes read have brought
\* (resolution.py, _bind_existing, _register_canonical, _finalize_evidence).
THEOREM EvidenceIsConserved == Spec => []EvidenceConserved
<1>1. Init => EvidenceInv
  <2> SUFFICES ASSUME Init PROVE EvidenceInv
    OBVIOUS
  <2>1. DOMAIN canonical = {} /\ DOMAIN evidence = {} /\ seen = {}
    BY DEF Init, NoEntries
  <2>2. Held = {} /\ Brought = {}
    BY <2>1 DEF Held, Brought
  <2> QED BY <2>1, <2>2 DEF EvidenceInv
<1>2. Given /\ Inv /\ EvidenceInv /\ [Next]_vars => EvidenceInv'
  <2> SUFFICES ASSUME Given, Inv, EvidenceInv, [Next]_vars PROVE EvidenceInv'
    OBVIOUS
  <2>1. CASE Finalize
    <3>1. /\ canonical' = [i \in DOMAIN canonical |-> [canonical[i] EXCEPT !.evidence = evidence[i]]]
          /\ UNCHANGED <<evidence, seen>>
      BY <2>1 DEF Finalize, FinalEvidence
    <3>2. \A i \in DOMAIN canonical : canonical[i] \in Canonical
      BY DEF Inv, CanonicalOK
    <3>3. \A i \in DOMAIN canonical' : canonical'[i].evidence = evidence'[i]
      BY <3>1, <3>2 DEF Canonical
    <3> QED BY <3>1, <3>3 DEF EvidenceInv, Held, Brought
  <2>2. ASSUME NEW raw \in Nodes, Resolve(raw) PROVE EvidenceInv'
    BY <2>2, ResolveConserves
  <2>3. CASE UNCHANGED vars
    BY <2>3 DEF vars, state, EvidenceInv, Held, Brought
  <2> QED BY <2>1, <2>2, <2>3 DEF Next, Given, Nodes
<1>3. Inv /\ EvidenceInv => EvidenceConserved
  <2> SUFFICES ASSUME Inv, EvidenceInv, done
               PROVE  UNION {canonical[i].evidence : i \in DOMAIN canonical} = Brought
    BY DEF EvidenceConserved, Brought
  <2>1. DOMAIN evidence = DOMAIN canonical
    BY DEF Inv, IndexesAgree
  <2>2. \A i \in DOMAIN canonical : canonical[i].evidence = evidence[i]
    BY DEF EvidenceInv
  <2>3. UNION {canonical[i].evidence : i \in DOMAIN canonical} = Held
    BY <2>1, <2>2 DEF Held
  <2> QED BY <2>3 DEF EvidenceInv
<1> QED BY <1>1, <1>2, <1>3, NodesGiven, ResolutionInvariant, PTL DEF Spec

-----------------------------------------------------------------------------
(* Which node a tier binds to. *)

\* A canonical id has the prefix of its node's type.
KindsAgree == \A i \in DOMAIN canonical : i.kind = Prefix[canonical[i].type]

\* The tiers in their order.
Reached(o, n) ==
  \/ o.id \in ExactId(n)
  \/ o \in Allowed(SlugTarget(n), n)
  \/ PastSlug(n) /\ o \in AliasTargets(n) \cup Allowed(FuzzyTargets(n), n)
  \/ PastFuzzy(n) /\ o.id = Suggested(n)

Bound(n) ==
  \E tier \in Tiers, o \in Canonical :
    /\ Current(o) /\ o.type = n.type /\ BindAllowed(o, n) /\ Reached(o, n)
    /\ Bind(o, n, tier)

Registered(n) ==
  \E tier \in Tiers, id \in Ids \ DOMAIN canonical :
    /\ \/ id \in ExactId(n)
       \/ PastFuzzy(n) /\ id = Suggested(n)
    /\ id.kind = Prefix[n.type]
    /\ Register(id, n, tier)

\* An id that a tier looks up or makes has the prefix of the node's type.
LEMMA IdKind ==
  ASSUME NEW n \in Node, NEW id \in ExactId(n) \cup {Suggested(n)}
  PROVE  id.kind = Prefix[n.type]
<1>1. n.type \in Types /\ n.label \in Labels
  BY DEF Node
<1>2. CASE id = Suggested(n)
  BY <1>1, <1>2 DEF Suggested, Id, Prefix, Types
<1>3. CASE id \in ExactId(n)
  BY <1>1, <1>3 DEF ExactId, Id, Prefix, Types
<1> QED BY <1>2, <1>3

\* Types are told apart by their prefixes.
LEMMA PrefixTells == \A s, t \in Types : Prefix[s] = Prefix[t] => s = t
BY DEF Types, Prefix

\* What a tier finds has the node's type and lets it bind.
LEMMA TargetsOfType ==
  ASSUME Inv, KindsAgree, ~done, NEW n \in Node
  PROVE  /\ \A o \in Allowed(SlugTarget(n), n) \cup AliasTargets(n) \cup Allowed(FuzzyTargets(n), n) :
              o \in Canonical /\ Current(o) /\ o.type = n.type /\ BindAllowed(o, n)
         /\ \A id \in (ExactId(n) \cup {Suggested(n)}) \cap DOMAIN canonical :
              LET o == canonical[id]
              IN  o \in Canonical /\ Current(o) /\ o.type = n.type /\ BindAllowed(o, n) /\ o.id = id
<1>0. n.type \in Types /\ n.label \in Labels /\ n.aliases \subseteq Labels
  BY DEF Node
<1>1. \A o \in Allowed(SlugTarget(n), n) \cup AliasTargets(n) \cup Allowed(FuzzyTargets(n), n) : Current(o)
  BY TargetsCurrent
<1>2. \A o : Current(o) => o \in Canonical
  BY DEF Current, Inv, CanonicalOK
<1>3. \A o \in SlugTarget(n) : o.type = n.type
  BY DEF SlugTarget, Inv, IndexesAgree
<1>4. \A k \in DOMAIN byAlias : byAlias[k].type = k[1]
  BY DEF Inv, IndexesAgree, AliasKeys
<1>5. ASSUME NEW a, NEW o \in AliasTarget(n, a) PROVE o.type = n.type
  BY <1>4, <1>5 DEF AliasTarget
<1>6. \A o \in AliasTargets(n) : o.type = n.type /\ BindAllowed(o, n)
  BY <1>5 DEF AliasTargets, Allowed
<1>7. \A o \in FuzzyTargets(n) : o.type = n.type
  BY <1>0 DEF FuzzyTargets, Inv, IndexesAgree
<1>8. ASSUME NEW id \in (ExactId(n) \cup {Suggested(n)}) \cap DOMAIN canonical
      PROVE  LET o == canonical[id]
             IN  o \in Canonical /\ Current(o) /\ o.type = n.type /\ BindAllowed(o, n) /\ o.id = id
  <2>1. canonical[id] \in Canonical /\ Current(canonical[id]) /\ canonical[id].id = id
    BY DEF Current, Inv, IndexesAgree, CanonicalOK
  <2>2. Prefix[canonical[id].type] = Prefix[n.type]
    BY IdKind DEF KindsAgree
  <2>3. canonical[id].type = n.type
    BY <1>0, <2>1, <2>2, PrefixTells DEF Canonical
  <2>4. BindAllowed(canonical[id], n)
    <3>1. CASE n.type # "MATCH" \/ n.local.kind # "match"
      BY <3>1 DEF BindAllowed
    <3>2. CASE n.type = "MATCH" /\ n.local.kind = "match"
      <4>1. id = n.local
        BY <3>2 DEF ExactId, Suggested, Prefix
      <4> QED BY <2>1, <4>1 DEF BindAllowed
    <3> QED BY <3>1, <3>2
  <2> QED BY <2>1, <2>3, <2>4
<1> QED BY <1>1, <1>2, <1>3, <1>6, <1>7, <1>8 DEF Allowed

\* A node read is bound to a node of its type, or makes a new one.
LEMMA BoundOrRegistered ==
  ASSUME Inv, KindsAgree, NEW raw \in Nodes, Resolve(raw)
  PROVE  LET n == Prepare(raw)
         IN  /\ n \in Node /\ ~done /\ done' = done /\ seen' = seen \cup {n} /\ nodes' = nodes
             /\ Bound(n) \/ Registered(n)
<1> DEFINE n == Prepare(raw)
<1>1. n \in Node /\ n.evidence # << >>
  <2>1. n \in Node
    BY PreparedNode
  <2>2. n.evidence # << >>
    BY InputAssumption DEF Prepare, Node
  <2> QED BY <2>1, <2>2
<1>2. /\ ~done /\ done' = done /\ seen' = seen \cup {n} /\ nodes' = nodes
      /\ ByExactId(n) \/ BySlug(n) \/ ByAlias(n) \/ ByFuzzy(n) \/ OnOccupied(n) \/ AsNew(n)
  BY DEF Resolve
<1> HIDE DEF n
<1>3. {"exact_id", "exact_slug", "alias", "fuzzy", "new_entity"} \subseteq Tiers
  BY DEF Tiers
<1>4. ASSUME ByExactId(n) PROVE Bound(n) \/ Registered(n)
  <2>1. PICK id \in ExactId(n) :
          IF id \in DOMAIN canonical THEN Bind(canonical[id], n, "exact_id")
          ELSE Register(id, n, "exact_id")
    BY <1>4 DEF ByExactId
  <2>2. CASE id \in DOMAIN canonical
    BY <1>1, <1>2, <1>3, <2>1, <2>2, TargetsOfType DEF Bound, Reached
  <2>3. CASE id \notin DOMAIN canonical
    <3>1. id \in Ids /\ id.kind = Prefix[n.type]
      BY <1>1, IdFields, IdKind
    <3> QED BY <1>3, <2>1, <2>3, <3>1 DEF Registered
  <2> QED BY <2>2, <2>3
<1>5. ASSUME BySlug(n) PROVE Bound(n) \/ Registered(n)
  BY <1>1, <1>2, <1>3, <1>5, TargetsOfType DEF BySlug, Bound, Reached
<1>6. ASSUME ByAlias(n) PROVE Bound(n) \/ Registered(n)
  BY <1>1, <1>2, <1>3, <1>6, TargetsOfType DEF ByAlias, Bound, Reached
<1>7. ASSUME ByFuzzy(n) PROVE Bound(n) \/ Registered(n)
  BY <1>1, <1>2, <1>3, <1>7, TargetsOfType DEF ByFuzzy, Bound, Reached, PastAlias
<1>8. ASSUME OnOccupied(n) PROVE Bound(n) \/ Registered(n)
  BY <1>1, <1>2, <1>3, <1>8, TargetsOfType DEF OnOccupied, Bound, Reached
<1>9. ASSUME AsNew(n) PROVE Bound(n) \/ Registered(n)
  <2>1. Suggested(n) \in Ids /\ Suggested(n).kind = Prefix[n.type]
    BY <1>1, IdFields, IdKind
  <2> QED BY <1>3, <1>9, <2>1 DEF AsNew, Registered
<1> QED BY <1>1, <1>2, <1>4, <1>5, <1>6, <1>7, <1>8, <1>9 DEF n

\* What a bind writes, read conjunct by conjunct: the node, with the id it keeps or is upgraded
\* to, the local ids that lead to it, and its label.
BindMakes(o, n, new) ==
  /\ new = o.id \/ (new \notin DOMAIN canonical /\ new = n.local /\ Upgrades(o, n))
  /\ DOMAIN canonical' = (DOMAIN canonical \ {o.id}) \cup {new}
  /\ canonical'[new].type = o.type /\ canonical'[new].label = o.label
  /\ canonical'[new].method = PreferredMethod(o.method, n.method)
  /\ canonical'[new].aliases = o.aliases \cup n.aliases \cup {n.label}
  /\ \A i \in DOMAIN canonical \ {o.id} : i # new /\ canonical'[i] = canonical[i]

BindLeads(o, n, new) ==
  /\ DOMAIN l2c' = DOMAIN l2c \cup {n.local}
  /\ l2c'[n.local] = new
  /\ \A l \in DOMAIN l2c \ {n.local} : l2c'[l] = IF l2c[l] = o.id THEN new ELSE l2c[l]

BindLabels(o, new) ==
  /\ DOMAIN bySlug' = DOMAIN bySlug \cup {<<o.type, o.label>>}
  /\ bySlug'[<<o.type, o.label>>].id = new
  /\ \A k \in DOMAIN bySlug \ {<<o.type, o.label>>} : bySlug'[k] = bySlug[k]

\* What a registration writes.
RegisterMakes(id, n) ==
  /\ DOMAIN canonical' = DOMAIN canonical \cup {id}
  /\ canonical'[id].type = n.type /\ canonical'[id].label = n.label
  /\ canonical'[id].method = n.method /\ canonical'[id].aliases = n.aliases
  /\ \A i \in DOMAIN canonical : i # id /\ canonical'[i] = canonical[i]

RegisterLeads(id, n) ==
  /\ DOMAIN l2c' = DOMAIN l2c \cup {n.local}
  /\ l2c'[n.local] = id
  /\ \A l \in DOMAIN l2c \ {n.local} : l2c'[l] = l2c[l]

RegisterLabels(id, n) ==
  /\ DOMAIN bySlug' = DOMAIN bySlug \cup {<<n.type, n.label>>}
  /\ bySlug'[<<n.type, n.label>>].id = id
  /\ \A k \in DOMAIN bySlug \ {<<n.type, n.label>>} : bySlug'[k] = bySlug[k]

LEMMA BindDoes ==
  ASSUME NEW o, Current(o), NEW n, NEW tier, Bind(o, n, tier)
  PROVE  /\ BindMakes(o, n, NewId(o, n))
         /\ BindLeads(o, n, NewId(o, n))
         /\ BindLabels(o, NewId(o, n))
<1> DEFINE m == Merged(o, n, tier)
           new == NewId(o, n)
<1>1. /\ m.id = new /\ m.type = o.type /\ m.label = o.label
      /\ m.aliases = o.aliases \cup n.aliases \cup {n.label}
      /\ m.method = PreferredMethod(o.method, n.method)
  BY DEF Merged
<1>2. /\ canonical' = Rekey(canonical, o.id, m.id, m)
      /\ l2c' = Relocate(o, n, m.id)
      /\ bySlug' = Put(bySlug, {<<m.type, m.label>>}, m)
  BY DEF Bind
<1>3. \/ new = o.id
      \/ new \notin DOMAIN canonical /\ new = n.local /\ Upgrades(o, n)
  BY DEF NewId
<1> HIDE DEF m, new
<1>4. /\ DOMAIN canonical' = (DOMAIN canonical \ {o.id}) \cup {new}
      /\ canonical'[new] = m
      /\ \A i \in DOMAIN canonical \ {o.id} : i # new /\ canonical'[i] = canonical[i]
  BY <1>1, <1>2, <1>3 DEF Rekey, Current
<1>5. BindMakes(o, n, new)
  BY <1>1, <1>3, <1>4 DEF BindMakes
<1>6. BindLeads(o, n, new)
  BY <1>1, <1>2 DEF Relocate, BindLeads
<1>7. BindLabels(o, new)
  BY <1>1, <1>2 DEF Put, BindLabels
<1> QED BY <1>5, <1>6, <1>7 DEF new

LEMMA RegisterDoes ==
  ASSUME NEW n, NEW tier, NEW id, id \notin DOMAIN canonical, Register(id, n, tier)
  PROVE  RegisterMakes(id, n) /\ RegisterLeads(id, n) /\ RegisterLabels(id, n)
<1>1. RegisterMakes(id, n)
  BY DEF Register, Put, RegisterMakes
<1>2. RegisterLeads(id, n)
  BY DEF Register, Put, RegisterLeads
<1>3. RegisterLabels(id, n)
  BY DEF Register, Put, RegisterLabels
<1> QED BY <1>1, <1>2, <1>3

\* Every id is made from a node of its type.
LEMMA ResolveKinds ==
  ASSUME Inv, KindsAgree, NEW raw \in Nodes, Resolve(raw) PROVE KindsAgree'
<1> DEFINE n == Prepare(raw)
<1>1. n \in Node /\ (Bound(n) \/ Registered(n))
  BY BoundOrRegistered
<1> HIDE DEF n
<1>2. ASSUME NEW tier \in Tiers, NEW o \in Canonical, Current(o), Bind(o, n, tier) PROVE KindsAgree'
  <2>w. BindMakes(o, n, NewId(o, n)) /\ BindLeads(o, n, NewId(o, n)) /\ BindLabels(o, NewId(o, n))
    BY <1>2, BindDoes
  <2>1. /\ NewId(o, n) = o.id \/ (Upgrades(o, n) /\ NewId(o, n) = n.local)
        /\ DOMAIN canonical' = (DOMAIN canonical \ {o.id}) \cup {NewId(o, n)}
        /\ canonical'[NewId(o, n)].type = o.type
        /\ \A i \in DOMAIN canonical \ {o.id} : canonical'[i] = canonical[i]
    BY <2>w DEF BindMakes
  <2>2. o.id.kind = Prefix[o.type]
    BY <1>2 DEF KindsAgree, Current
  <2>3. Upgrades(o, n) => n.local.kind = o.id.kind
    BY DEF Upgrades, MoreSpecific, NearDate
  <2> QED BY <2>1, <2>2, <2>3 DEF KindsAgree
<1>3. ASSUME NEW tier \in Tiers, NEW id \in Ids \ DOMAIN canonical, id.kind = Prefix[n.type],
             Register(id, n, tier)
      PROVE  KindsAgree'
  <2>w. RegisterMakes(id, n) /\ RegisterLeads(id, n) /\ RegisterLabels(id, n)
    BY <1>3, RegisterDoes
  <2>1. /\ DOMAIN canonical' = DOMAIN canonical \cup {id} /\ canonical'[id].type = n.type
        /\ \A i \in DOMAIN canonical : canonical'[i] = canonical[i]
    BY <2>w DEF RegisterMakes
  <2> QED BY <1>3, <2>1 DEF KindsAgree
<1>4. ASSUME Bound(n) PROVE KindsAgree'
  BY <1>2, <1>4 DEF Bound
<1>5. ASSUME Registered(n) PROVE KindsAgree'
  BY <1>3, <1>5 DEF Registered
<1> QED BY <1>1, <1>4, <1>5

\* The final copy of the evidence leaves the nodes what they are.
LEMMA FinalizeWrites ==
  ASSUME Inv, Finalize
  PROVE  /\ DOMAIN canonical' = DOMAIN canonical
         /\ \A i \in DOMAIN canonical :
              /\ canonical'[i].type = canonical[i].type /\ canonical'[i].label = canonical[i].label
              /\ canonical'[i].method = canonical[i].method
              /\ canonical'[i].aliases = canonical[i].aliases
         /\ UNCHANGED <<nodes, l2c, bySlug, byAlias, fuzzy, seen>>
<1>1. /\ canonical' = [id \in DOMAIN canonical |-> [canonical[id] EXCEPT !.evidence = evidence[id]]]
      /\ UNCHANGED <<nodes, l2c, bySlug, byAlias, fuzzy, seen>>
  BY DEF Finalize, FinalEvidence
<1>2. \A i \in DOMAIN canonical : canonical[i] \in Canonical
  BY DEF Inv, CanonicalOK
<1> QED BY <1>1, <1>2 DEF Canonical

LEMMA KindsHold == Spec => []KindsAgree
<1>1. Init => KindsAgree
  BY DEF Init, NoEntries, KindsAgree
<1>2. Given /\ Inv /\ KindsAgree /\ [Next]_vars => KindsAgree'
  <2> SUFFICES ASSUME Given, Inv, KindsAgree, [Next]_vars PROVE KindsAgree'
    OBVIOUS
  <2>1. CASE Finalize
    BY <2>1, FinalizeWrites DEF KindsAgree
  <2>2. ASSUME NEW raw \in Nodes, Resolve(raw) PROVE KindsAgree'
    BY <2>2, ResolveKinds
  <2>3. CASE UNCHANGED vars
    BY <2>3 DEF vars, state, KindsAgree
  <2> QED BY <2>1, <2>2, <2>3 DEF Next, Given, Nodes
<1> QED BY <1>1, <1>2, NodesGiven, ResolutionInvariant, PTL DEF Spec

-----------------------------------------------------------------------------
(* Dates of fixtures. *)

\* A local id with the prefix of a fixture names the pair its MATCH is labelled
\* with (topology.py, bracket.py and propositions.py build the two from one
\* pair).  The LLM is asked for nothing else but may break it.
PairsNamed(in) ==
  \A n \in in : n.local.kind = "match" => n.type = "MATCH" /\ n.local.name = <<n.label>>

Read(i) == \E n \in seen : n.local = i
Between(a, b) == {d \in 1 .. MaxDay : (a < d /\ d <= b) \/ (b <= d /\ d < a)}

\* Where the dated fixture l leads to, day by day.
Leads(l, there) ==
  /\ there.kind = "match" /\ there.name = l.name /\ there.day # Undated
  /\ \A d \in Between(l.day, there.day) : Read(Id("match", l.name, d))

LabelNames ==
  \A i \in DOMAIN canonical : i.kind = "match" =>
    i.name = <<canonical[i].label>> /\ <<"MATCH", canonical[i].label>> \in DOMAIN bySlug
OneUndated ==
  \A i, j \in DOMAIN canonical :
    i.kind = "match" /\ j.kind = "match" /\ i.name = j.name /\ i.day = Undated => i = j
DatesRead == \A i \in DOMAIN canonical : i.kind = "match" /\ i.day # Undated => Read(i)
Paths ==
  \A n \in seen : n.local.kind = "match" /\ n.local.day # Undated => Leads(n.local, l2c[n.local])
SeenGiven == seen \subseteq {Prepare(raw) : raw \in nodes}

\* A MATCH without a date is the only node of its pair, the day of a dated one
\* was read, and from the day of a fixture to the day it resolves to every day
\* was.
DatesInv == KindsAgree /\ LabelNames /\ OneUndated /\ DatesRead /\ Paths /\ SeenGiven

\* Preparing a TEAM leaves fixtures alone.
LEMMA FixtureNamed ==
  ASSUME \A in \in Inputs : PairsNamed(in), Given, NEW raw \in nodes,
         Prepare(raw).local.kind = "match"
  PROVE  LET n == Prepare(raw)
         IN  n = raw /\ n.type = "MATCH" /\ n.local.name = <<n.label>> /\ Suggested(n) = n.local
<1>1. raw \in Node
  BY InputAssumption DEF Given, Nodes
<1>2. Prepare(raw).local = raw.local
  BY <1>1 DEF Prepare, Node
<1>3. raw.type = "MATCH" /\ raw.local.name = <<raw.label>>
  BY <1>2 DEF PairsNamed, Given
<1> QED BY <1>2, <1>3 DEF Prepare, Suggested, Prefix

\* A dated fixture is bound to a node of its day or of the day before or after;
\* one that has no date yet takes its own.
LEMMA BindDates ==
  ASSUME Inv, DatesInv, NEW n \in Node, n.type = "MATCH", n.local.kind = "match",
         n.local.day # Undated,
         NEW o \in Canonical, Current(o), o.type = n.type, BindAllowed(o, n)
  PROVE  LET new == NewId(o, n)
         IN  /\ o.id.kind = "match" /\ o.id.name = n.local.name
             /\ new.kind = "match" /\ new.name = n.local.name /\ new.day # Undated
             /\ \/ o.id.day = Undated /\ new = n.local
                \/ /\ o.id.day # Undated /\ NearDays(o.id.day, n.local.day)
                   /\ new \in {o.id, n.local}
<1>1. o.id.kind = "match" /\ o.id \in DOMAIN canonical
  BY DEF DatesInv, KindsAgree, Current, Prefix
<1>2. o.id \in Ids /\ n.local \in Ids
  BY DEF Canonical, Node
<1>3. \/ n.local = o.id \/ MoreSpecific(n.local, o.id) \/ NearDate(o.id, n.local)
  BY <1>1 DEF BindAllowed, MoreSpecific
<1>4. CASE n.local = o.id
  BY <1>1, <1>2, <1>4 DEF NewId, Ids, NearDays, Upgrades
<1>5. CASE MoreSpecific(n.local, o.id)
  <2>1. o.id.day = Undated /\ o.id.name = n.local.name /\ n.local # o.id
    BY <1>5 DEF MoreSpecific
  <2>2. n.local \notin DOMAIN canonical
    BY <1>1, <2>1 DEF DatesInv, OneUndated
  <2>3. NewId(o, n) = n.local
    BY <1>5, <2>1, <2>2 DEF NewId, Upgrades
  <2> QED BY <1>1, <2>1, <2>3
<1>6. CASE NearDate(o.id, n.local)
  <2>1. NewId(o, n) \in {o.id, n.local}
    BY DEF NewId
  <2> QED BY <1>1, <1>6, <2>1 DEF NearDate
<1> QED BY <1>3, <1>4, <1>5, <1>6

\* A MATCH makes a new node only when the pair has none, or when both are dated.
LEMMA NewMatch ==
  ASSUME Inv, DatesInv, ~done, NEW n \in Node, n.type = "MATCH", PastSlug(n),
         NEW i \in DOMAIN canonical, i.kind = "match", i.name = <<n.label>>,
         n.local.kind = "match" => n.local.name = <<n.label>>
  PROVE  n.local.kind = "match" /\ n.local.day # Undated /\ i.day # Undated
<1> DEFINE k == <<"MATCH", n.label>>
           o == bySlug[k]
<1>1. canonical[i].label = n.label
  <2>1. <<canonical[i].label>> = <<n.label>>
    BY DEF DatesInv, LabelNames
  <2>2. <<canonical[i].label>>[1] = canonical[i].label /\ <<n.label>>[1] = n.label
    OBVIOUS
  <2> QED BY <2>1, <2>2
<1>2. k \in DOMAIN bySlug
  BY <1>1 DEF DatesInv, LabelNames
<1>3. o.id \in DOMAIN canonical /\ o = canonical[o.id] /\ o.type = "MATCH" /\ o.label = n.label
  BY <1>2 DEF Inv, IndexesAgree
<1>4. o.id.kind = "match" /\ o.id.name = <<n.label>> /\ o.id \in Ids /\ n.local \in Ids
  <2>1. o.id.kind = "match"
    BY <1>3 DEF DatesInv, KindsAgree, Prefix
  <2>2. o.id.name = <<n.label>>
    BY <1>3, <2>1 DEF DatesInv, LabelNames
  <2>3. o \in Canonical
    BY <1>3 DEF Inv, CanonicalOK
  <2> QED BY <2>1, <2>2, <2>3 DEF Canonical, Node
<1>5. ~BindAllowed(o, n)
  BY <1>2 DEF PastSlug, Allowed, SlugTarget
<1>6. n.local.kind = "match" /\ n.local.name = o.id.name /\ n.local # o.id
  BY <1>4, <1>5 DEF BindAllowed
<1>7. n.local.day # Undated /\ o.id.day # Undated
  <2> DEFINE a == n.local
             b == o.id
  <2>1. a \in Ids /\ b \in Ids /\ a.kind = "match" /\ b.kind = "match" /\ a.name = b.name /\ a # b
    BY <1>4, <1>6
  <2>2. ~MoreSpecific(a, b) /\ ~MoreSpecific(b, a)
    BY <1>5 DEF BindAllowed
  <2> HIDE DEF a, b
  <2>3. a.day = Undated <=> b.day = Undated
    BY <2>1, <2>2 DEF MoreSpecific
  <2>4. a.day # b.day
    BY <2>1 DEF Ids
  <2>5. a.day # Undated /\ b.day # Undated
    BY <2>3, <2>4
  <2> QED BY <2>5 DEF a, b
<1>8. i.day # Undated
  BY <1>3, <1>4, <1>7 DEF DatesInv, OneUndated
<1> QED BY <1>6, <1>7, <1>8

\* A bind leaves the nodes of other fixtures where they are,
LEMMA BindKeepsNames ==
  ASSUME Inv, DatesInv, NEW n \in Node, NEW tier \in Tiers,
         NEW o \in Canonical, Current(o), o.type = n.type, BindAllowed(o, n), Bind(o, n, tier),
         seen' = seen \cup {n}
  PROVE  LabelNames' /\ OneUndated' /\ DatesRead'
<1> DEFINE new == NewId(o, n)
<1>w. BindMakes(o, n, NewId(o, n)) /\ BindLeads(o, n, NewId(o, n)) /\ BindLabels(o, NewId(o, n))
  BY BindDoes
<1>1. /\ \/ new = o.id
         \/ new \notin DOMAIN canonical /\ new = n.local /\ Upgrades(o, n)
      /\ DOMAIN canonical' = (DOMAIN canonical \ {o.id}) \cup {new}
      /\ canonical'[new].label = o.label
      /\ \A i \in DOMAIN canonical \ {o.id} : i # new /\ canonical'[i] = canonical[i]
      /\ DOMAIN bySlug' = DOMAIN bySlug \cup {<<o.type, o.label>>}
  BY <1>w DEF BindMakes, BindLabels
<1>2. o.id \in DOMAIN canonical /\ o = canonical[o.id]
  BY DEF Current
<1>3. new # o.id => /\ n.local.kind = "match" /\ new.kind = "match" /\ o.id.kind = "match"
                    /\ new = n.local /\ new.name = o.id.name /\ new.day # Undated
  BY <1>1 DEF Upgrades, MoreSpecific, NearDate
<1> HIDE DEF new
<1>4. ASSUME NEW i \in DOMAIN canonical', i.kind = "match"
      PROVE  i.name = <<canonical'[i].label>> /\ <<"MATCH", canonical'[i].label>> \in DOMAIN bySlug'
  <2>1. CASE i = new
    <3>1. o.id.kind = "match" /\ new.name = o.id.name
      BY <1>3, <1>4, <2>1
    <3> QED BY <1>1, <1>2, <2>1, <3>1 DEF DatesInv, LabelNames
  <2>2. CASE i # new
    BY <1>1, <1>4, <2>2 DEF DatesInv, LabelNames
  <2> QED BY <2>1, <2>2
<1>5. ASSUME NEW i \in DOMAIN canonical', NEW j \in DOMAIN canonical',
             i.kind = "match", j.kind = "match", i.name = j.name, i.day = Undated
      PROVE  i = j
  <2>1. CASE new = o.id
    BY <1>1, <1>2, <1>5, <2>1 DEF DatesInv, OneUndated
  <2>2. CASE new # o.id
    <3>1. i \in DOMAIN canonical \ {o.id}
      BY <1>1, <1>3, <1>5, <2>2
    <3>2. CASE j = new
      BY <1>2, <1>3, <1>5, <2>2, <3>1, <3>2 DEF DatesInv, OneUndated
    <3>3. CASE j # new
      BY <1>1, <1>5, <3>1, <3>3 DEF DatesInv, OneUndated
    <3> QED BY <3>2, <3>3
  <2> QED BY <2>1, <2>2
<1>6. ASSUME NEW i \in DOMAIN canonical', i.kind = "match", i.day # Undated PROVE Read(i)'
  <2>1. CASE i \in DOMAIN canonical
    BY <1>6, <2>1 DEF DatesInv, DatesRead, Read
  <2>2. CASE i \notin DOMAIN canonical
    BY <1>1, <1>2, <1>3, <2>2 DEF Read
  <2> QED BY <2>1, <2>2
<1>7. LabelNames'
  BY <1>4 DEF LabelNames
<1>8. OneUndated'
  BY <1>5 DEF OneUndated
<1>9. DatesRead'
  BY <1>6 DEF DatesRead
<1> QED BY <1>7, <1>8, <1>9

\* and moves those of its own by a day that was read.
LEMMA BindKeepsPaths ==
  ASSUME Given, Inv, DatesInv, NEW n \in Node, NEW tier \in Tiers,
         n.local.kind = "match" => n.type = "MATCH",
         NEW o \in Canonical, Current(o), o.type = n.type, BindAllowed(o, n), Bind(o, n, tier),
         seen' = seen \cup {n}
  PROVE  Paths'
<1>0. seen \subseteq Node
  BY PreparedNode DEF DatesInv, SeenGiven, Given, Nodes
<1> DEFINE new == NewId(o, n)
<1>w. BindMakes(o, n, NewId(o, n)) /\ BindLeads(o, n, NewId(o, n)) /\ BindLabels(o, NewId(o, n))
  BY BindDoes
<1>1. /\ DOMAIN l2c' = DOMAIN l2c \cup {n.local}
      /\ l2c'[n.local] = new
      /\ \A l \in DOMAIN l2c \ {n.local} : l2c'[l] = IF l2c[l] = o.id THEN new ELSE l2c[l]
      /\ new = o.id \/ (new = n.local /\ Upgrades(o, n))
  BY <1>w DEF NewId, BindLeads
<1>2. o.id \in Ids /\ n.local \in Ids
  BY DEF Canonical, Node
<1>3. \A i : Read(i) => Read(i)'
  BY DEF Read
<1>4. Read(n.local)'
  BY DEF Read
<1>5. o.id.kind = "match" /\ o.id.day # Undated => Read(o.id)
  BY DEF DatesInv, DatesRead, Current
<1>6. ASSUME n.local.kind = "match", n.local.day # Undated
      PROVE  /\ o.id.kind = "match" /\ o.id.name = n.local.name
             /\ new.kind = "match" /\ new.name = n.local.name /\ new.day # Undated
             /\ \/ o.id.day = Undated /\ new = n.local
                \/ /\ o.id.day # Undated /\ NearDays(o.id.day, n.local.day)
                   /\ new \in {o.id, n.local}
  BY <1>6, BindDates
<1> HIDE DEF new
<1>7. ASSUME n.local.kind = "match", n.local.day # Undated
      PROVE  Leads(n.local, l2c[n.local])'
  <2>1. ASSUME NEW d \in Between(n.local.day, new.day)
        PROVE  Read(Id("match", n.local.name, d))'
    <3>1. new = o.id /\ NearDays(o.id.day, n.local.day) /\ o.id.day # Undated
      BY <1>2, <1>6, <1>7, <2>1 DEF Between, Ids
    <3>2. d = o.id.day
      BY <1>2, <2>1, <3>1, InputAssumption DEF Between, NearDays, Ids
    <3>3. Id("match", n.local.name, d) = o.id
      BY <1>2, <1>6, <1>7, <3>2 DEF Id, Ids
    <3> QED BY <1>3, <1>5, <1>6, <1>7, <3>1, <3>3
  <2> QED BY <1>1, <1>6, <1>7, <2>1 DEF Leads, Between
<1>8. ASSUME NEW m \in seen, m.local.kind = "match", m.local.day # Undated, m.local # n.local
      PROVE  Leads(m.local, l2c[m.local])'
  <2>1. Leads(m.local, l2c[m.local]) /\ m.local \in DOMAIN l2c
    BY <1>8 DEF DatesInv, Paths, Inv, LiveLocals
  <2>2. CASE l2c'[m.local] = l2c[m.local]
    BY <1>3, <2>1, <2>2 DEF Leads, Between
  <2>3. CASE l2c'[m.local] # l2c[m.local]
    <3>1. l2c[m.local] = o.id /\ l2c'[m.local] = new /\ new = n.local /\ Upgrades(o, n)
      BY <1>1, <1>8, <2>1, <2>3
    <3>2. o.id.day # Undated /\ n.local.day # Undated /\ n.local.kind = "match"
      BY <2>1, <3>1 DEF Leads, Upgrades, MoreSpecific, NearDate
    <3>3. NearDays(o.id.day, n.local.day) /\ o.id.name = n.local.name /\ o.id.name = m.local.name
      BY <1>6, <2>1, <3>1, <3>2 DEF Leads
    <3>4. m.local.day \in Nat /\ o.id.day \in Nat /\ n.local.day \in Nat
      <4>1. m \in Node
        BY <1>0
      <4> QED BY <1>2, <4>1, InputAssumption DEF Ids, Node
    <3>5. ASSUME NEW d \in Between(m.local.day, n.local.day)
          PROVE  Read(Id("match", m.local.name, d))'
      <4>1. d \in Between(m.local.day, o.id.day) \/ d = n.local.day
        BY <3>3, <3>4, <3>5, InputAssumption DEF Between, NearDays
      <4>2. CASE d \in Between(m.local.day, o.id.day)
        BY <1>3, <2>1, <3>1, <4>2 DEF Leads
      <4>3. CASE d = n.local.day
        <5>1. Id("match", m.local.name, d) = n.local
          BY <1>2, <3>2, <3>3, <4>3 DEF Id, Ids
        <5> QED BY <1>4, <5>1
      <4> QED BY <4>1, <4>2, <4>3
    <3> QED BY <3>1, <3>2, <3>3, <3>5 DEF Leads, Between
  <2> QED BY <2>2, <2>3
<1>9. \A m \in seen' : m.local.kind = "match" /\ m.local.day # Undated =>
        Leads(m.local, l2c[m.local])'
  BY <1>1, <1>7, <1>8
<1> QED BY <1>9 DEF Paths

\* A new MATCH takes the day of its fixture, or none when the pair has none.
LEMMA RegisterKeepsDates ==
  ASSUME Given, Inv, DatesInv, ~done, NEW n \in Node, NEW tier \in Tiers,
         n.local.kind = "match" =>
           n.type = "MATCH" /\ n.local.name = <<n.label>> /\ Suggested(n) = n.local,
         NEW id \in Ids \ DOMAIN canonical, id.kind = Prefix[n.type],
         n.type = "MATCH" => PastFuzzy(n) /\ id = Suggested(n),
         Register(id, n, tier), seen' = seen \cup {n}
  PROVE  LabelNames' /\ OneUndated' /\ DatesRead' /\ Paths'
<1>w. RegisterMakes(id, n) /\ RegisterLeads(id, n) /\ RegisterLabels(id, n)
  BY RegisterDoes
<1>1. /\ DOMAIN canonical' = DOMAIN canonical \cup {id}
      /\ canonical'[id].type = n.type /\ canonical'[id].label = n.label
      /\ \A i \in DOMAIN canonical : canonical'[i] = canonical[i]
      /\ l2c'[n.local] = id
      /\ \A l \in DOMAIN l2c \ {n.local} : l2c'[l] = l2c[l]
      /\ DOMAIN bySlug' = DOMAIN bySlug \cup {<<n.type, n.label>>}
  BY <1>w DEF RegisterMakes, RegisterLeads, RegisterLabels
<1>2. \A i : Read(i) => Read(i)'
  BY DEF Read
<1>3. n.type \in Types /\ n.local \in Ids
  BY DEF Node
<1>4. id.kind = "match" => n.type = "MATCH"
  BY <1>3 DEF Prefix, Types
<1>5. ASSUME n.type = "MATCH"
      PROVE  /\ id.kind = "match" /\ id.name = <<n.label>> /\ PastSlug(n)
             /\ IF n.local.kind = "match" THEN id = n.local ELSE id.day = Undated
  BY <1>5 DEF Suggested, Prefix, Id, PastFuzzy, PastAlias
<1>6. ASSUME NEW i \in DOMAIN canonical, i.kind = "match", n.type = "MATCH", i.name = <<n.label>>
      PROVE  n.local.kind = "match" /\ n.local.day # Undated /\ i.day # Undated
  BY <1>5, <1>6, NewMatch
<1>7. LabelNames'
  <2>1. ASSUME NEW i \in DOMAIN canonical', i.kind = "match"
        PROVE  i.name = <<canonical'[i].label>> /\ <<"MATCH", canonical'[i].label>> \in DOMAIN bySlug'
    <3>1. CASE i = id
      BY <1>1, <1>4, <1>5, <2>1, <3>1
    <3>2. CASE i # id
      BY <1>1, <2>1, <3>2 DEF DatesInv, LabelNames
    <3> QED BY <3>1, <3>2
  <2> QED BY <2>1 DEF LabelNames
<1>8. OneUndated'
  <2>1. ASSUME NEW i \in DOMAIN canonical', NEW j \in DOMAIN canonical',
               i.kind = "match", j.kind = "match", i.name = j.name, i.day = Undated
        PROVE  i = j
    <3>1. CASE i \in DOMAIN canonical /\ j \in DOMAIN canonical
      BY <2>1, <3>1 DEF DatesInv, OneUndated
    <3>2. CASE i = id /\ j \in DOMAIN canonical
      BY <1>4, <1>5, <1>6, <2>1, <3>2
    <3>3. CASE i \in DOMAIN canonical /\ j = id
      BY <1>4, <1>5, <1>6, <2>1, <3>3
    <3> QED BY <1>1, <2>1, <3>1, <3>2, <3>3
  <2> QED BY <2>1 DEF OneUndated
<1>9. DatesRead'
  <2>1. ASSUME NEW i \in DOMAIN canonical', i.kind = "match", i.day # Undated PROVE Read(i)'
    <3>1. CASE i \in DOMAIN canonical
      BY <1>2, <2>1, <3>1 DEF DatesInv, DatesRead
    <3>2. CASE i = id
      <4>1. i = n.local
        BY <1>4, <1>5, <2>1, <3>2
      <4> QED BY <4>1 DEF Read
    <3> QED BY <1>1, <3>1, <3>2
  <2> QED BY <2>1 DEF DatesRead
<1>10. Paths'
  <2>1. ASSUME n.local.kind = "match", n.local.day # Undated PROVE Leads(n.local, l2c[n.local])'
    <3>1. l2c'[n.local] = n.local
      BY <1>1, <1>5, <2>1
    <3>2. Between(n.local.day, n.local.day) = {}
      BY <1>3, InputAssumption DEF Between, Ids
    <3> QED BY <2>1, <3>1, <3>2 DEF Leads
  <2>2. ASSUME NEW m \in seen, m.local.kind = "match", m.local.day # Undated, m.local # n.local
        PROVE  Leads(m.local, l2c[m.local])'
    <3>1. Leads(m.local, l2c[m.local]) /\ m.local \in DOMAIN l2c
      BY <2>2 DEF DatesInv, Paths, Inv, LiveLocals
    <3> QED BY <1>1, <1>2, <2>2, <3>1 DEF Leads, Between
  <2>3. \A m \in seen' : m.local.kind = "match" /\ m.local.day # Undated =>
          Leads(m.local, l2c[m.local])'
    BY <2>1, <2>2
  <2> QED BY <2>3 DEF Paths
<1> QED BY <1>7, <1>8, <1>9, <1>10

\* What a round of the loop does to the dates.
LEMMA ResolveKeepsDates ==
  ASSUME \A in \in Inputs : PairsNamed(in),
         Given, Inv, DatesInv, NEW raw \in nodes, Resolve(raw)
  PROVE  DatesInv'
<1> DEFINE n == Prepare(raw)
<1>0. raw \in Nodes
  BY DEF Given, Nodes
<1>1. /\ n \in Node /\ ~done /\ seen' = seen \cup {n} /\ nodes' = nodes
      /\ Bound(n) \/ Registered(n)
  BY <1>0, BoundOrRegistered DEF DatesInv
<1>2. n.local.kind = "match" =>
        n.type = "MATCH" /\ n.local.name = <<n.label>> /\ Suggested(n) = n.local
  BY FixtureNamed
<1>3. KindsAgree'
  BY <1>0, ResolveKinds DEF DatesInv
<1>4. SeenGiven'
  BY <1>1 DEF DatesInv, SeenGiven
<1> HIDE DEF n
<1>5. ASSUME Bound(n) PROVE LabelNames' /\ OneUndated' /\ DatesRead' /\ Paths'
  <2>1. PICK tier \in Tiers, o \in Canonical :
          Current(o) /\ o.type = n.type /\ BindAllowed(o, n) /\ Bind(o, n, tier)
    BY <1>5 DEF Bound
  <2> QED BY <1>1, <1>2, <2>1, BindKeepsNames, BindKeepsPaths
<1>6. ASSUME Registered(n) PROVE LabelNames' /\ OneUndated' /\ DatesRead' /\ Paths'
  <2>1. PICK tier \in Tiers, id \in Ids \ DOMAIN canonical :
          /\ \/ id \in ExactId(n)
             \/ PastFuzzy(n) /\ id = Suggested(n)
          /\ id.kind = Prefix[n.type] /\ Register(id, n, tier)
    BY <1>6 DEF Registered
  <2>2. n.type = "MATCH" => ExactId(n) = {}
    BY DEF ExactId
  <2> QED BY <1>1, <1>2, <2>1, <2>2, RegisterKeepsDates
<1> QED BY <1>1, <1>3, <1>4, <1>5, <1>6 DEF DatesInv

LEMMA DatesHold ==
  ASSUME \A in \in Inputs : PairsNamed(in) PROVE Spec => []DatesInv
<1>1. Init => DatesInv
  BY DEF Init, NoEntries, DatesInv, KindsAgree, LabelNames, OneUndated, DatesRead, Paths, SeenGiven
<1>2. Given /\ Inv /\ DatesInv /\ [Next]_vars => DatesInv'
  <2> SUFFICES ASSUME Given, Inv, DatesInv, [Next]_vars PROVE DatesInv'
    OBVIOUS
  <2>1. CASE Finalize
    <3>1. /\ DOMAIN canonical' = DOMAIN canonical
          /\ \A i \in DOMAIN canonical :
               canonical'[i].type = canonical[i].type /\ canonical'[i].label = canonical[i].label
          /\ UNCHANGED <<nodes, l2c, bySlug, seen>>
      BY <2>1, FinalizeWrites
    <3>2. KindsAgree' /\ LabelNames' /\ OneUndated' /\ SeenGiven'
      BY <3>1 DEF DatesInv, KindsAgree, LabelNames, OneUndated, SeenGiven
    <3>3. DatesRead' /\ Paths'
      BY <3>1 DEF DatesInv, DatesRead, Paths, Leads, Between, Read
    <3> QED BY <3>2, <3>3 DEF DatesInv
  <2>2. ASSUME NEW raw \in nodes, Resolve(raw) PROVE DatesInv'
    BY <2>2, ResolveKeepsDates
  <2>3. CASE UNCHANGED vars
    BY <2>3 DEF vars, state, DatesInv, KindsAgree, LabelNames, OneUndated, DatesRead, Paths, Leads,
                Between, Read, SeenGiven
  <2> QED BY <2>1, <2>2, <2>3 DEF Next
<1> QED BY <1>1, <1>2, NodesGiven, ResolutionInvariant, PTL DEF Spec

\* A dated fixture resolves to another day only over days that were all read,
\* so that rematches with a gap stay distinct (match_merge.py, nearby_match_date
\* and match_id_upgrade_target).
THEOREM OnlyAdjacentDaysCoalesce ==
  ASSUME \A in \in Inputs : PairsNamed(in)
  PROVE  Spec => []CoalescesOverAdjacentDays
<1>1. DatesInv => CoalescesOverAdjacentDays
  <2> SUFFICES ASSUME DatesInv, NEW n \in seen, n.local.kind = "match", n.local.day # Undated
               PROVE  LET there == l2c[n.local]
                      IN  /\ there.kind = "match" /\ there.name = n.local.name
                          /\ there.day # Undated => \A d \in 1 .. MaxDay :
                               (n.local.day < d /\ d <= there.day) \/ (there.day <= d /\ d < n.local.day)
                                 => \E o \in seen : o.local = Id("match", n.local.name, d)
    BY DEF CoalescesOverAdjacentDays
  <2>1. Leads(n.local, l2c[n.local])
    BY DEF DatesInv, Paths
  <2> QED BY <2>1 DEF Leads, Between, Read
<1> QED BY <1>1, DatesHold, PTL

-----------------------------------------------------------------------------
(* The date of the official bracket. *)

\* Every MATCH has the id of a fixture, as those of the builders do; the bracket
\* dates its own (bracket.py, build_official_bracket_fragment), and no pair meets
\* on two consecutive days.
OfficialNode(n) == n.type = "MATCH" /\ n.method = "official_bracket"
Scheduled(in) ==
  /\ PairsNamed(in) /\ \A n \in in : n.type = "MATCH" => n.local.kind = "match"
  /\ \A f \in in : OfficialNode(f) =>
       /\ f.local.day # Undated
       /\ \A g \in in : OfficialNode(g) /\ NearDate(f.local, g.local) => f.local = g.local

\* The two cases of OfficialDateWins: one meeting, or no date a day off.
Once(f) == \A m \in Dating(f) : NearDays(m.local.day, f.local.day)
Unskewed(f) ==
  \A m \in Dating(f) : NearDays(m.local.day, f.local.day) => m.local.day = f.local.day

\* Among the dates of one meeting, the label leads to any that has a node.
SlugLeads ==
  \A f \in nodes : f.type = "MATCH" /\ f.local.day # Undated /\ Once(f) /\ f.local \in DOMAIN canonical =>
    bySlug[<<"MATCH", f.label>>].id = f.local

OfficialStays ==
  \A f \in seen : OfficialNode(f) /\ (Once(f) \/ Unskewed(f)) =>
    /\ l2c[f.local] = f.local /\ f.local \in DOMAIN canonical
    /\ canonical[f.local].method = "official_bracket"

OfficialInv == DatesInv /\ SlugLeads /\ OfficialStays

\* What the nodes of a run look like.
LEMMA ScheduledNode ==
  ASSUME \A in \in Inputs : Scheduled(in), Given, NEW raw \in nodes
  PROVE  LET n == Prepare(raw)
         IN  /\ n \in Node /\ n.local \in Ids /\ (n.type = "MATCH" <=> n.local.kind = "match")
             /\ n.type = "MATCH" => /\ n = raw /\ n.local.name = <<n.label>>
                                    /\ Suggested(n) = n.local /\ ExactId(n) = {}
<1>1. raw \in Node /\ PairsNamed(nodes) /\ raw \in Nodes
  BY InputAssumption DEF Given, Nodes, Scheduled
<1>2. Prepare(raw) \in Node
  BY <1>1, PreparedNode
<1>3. Prepare(raw).local = raw.local /\ Prepare(raw).type = raw.type
  BY <1>1 DEF Prepare, Node
<1>4. raw.type = "MATCH" <=> raw.local.kind = "match"
  BY <1>1 DEF PairsNamed, Scheduled, Given
<1>5. raw.type = "MATCH" => Prepare(raw) = raw
  BY DEF Prepare
<1>6. raw.type = "MATCH" => raw.local.name = <<raw.label>>
  BY <1>1, <1>4 DEF PairsNamed
<1>7. raw.type = "MATCH" => Suggested(raw) = raw.local /\ ExactId(raw) = {}
  BY <1>4 DEF Suggested, ExactId, Prefix
<1> QED BY <1>2, <1>3, <1>4, <1>5, <1>6, <1>7 DEF Node

\* The fixtures read are among the nodes given.
LEMMA ReadGiven ==
  ASSUME \A in \in Inputs : Scheduled(in), Given, DatesInv, NEW m \in seen, m.type = "MATCH"
  PROVE  m \in nodes
<1>1. PICK raw \in nodes : m = Prepare(raw)
  BY DEF DatesInv, SeenGiven
<1> QED BY <1>1, ScheduledNode

\* While a date of the one meeting has a node, every fixture of the pair is
\* bound to it through the label.
LEMMA LabelFirst ==
  ASSUME \A in \in Inputs : Scheduled(in), Given, Inv, OfficialInv, ~done,
         NEW f \in nodes, f.type = "MATCH", f.local.day # Undated, Once(f),
         f.local \in DOMAIN canonical,
         NEW n \in nodes, n.type = "MATCH", n.label = f.label
  PROVE  ~PastSlug(n) /\ \A o : Reached(o, n) => o.id = f.local
<1> DEFINE k == <<"MATCH", n.label>>
           o == bySlug[k]
<1>1. /\ f = Prepare(f) /\ n = Prepare(n) /\ n.local \in Ids /\ f.local \in Ids
      /\ f.local.kind = "match" /\ n.local.kind = "match"
      /\ f.local.name = <<f.label>> /\ n.local.name = <<n.label>> /\ ExactId(n) = {}
  <2>1. f = Prepare(f) /\ n = Prepare(n)
    BY DEF Prepare
  <2> QED BY <2>1, ScheduledNode
<1>2. canonical[f.local].label = f.label
  <2>1. <<canonical[f.local].label>> = <<f.label>>
    BY <1>1 DEF OfficialInv, DatesInv, LabelNames
  <2>2. <<canonical[f.local].label>>[1] = canonical[f.local].label /\ <<f.label>>[1] = f.label
    OBVIOUS
  <2> QED BY <2>1, <2>2
<1>3. k \in DOMAIN bySlug /\ o.id = f.local
  BY <1>1, <1>2 DEF OfficialInv, DatesInv, LabelNames, SlugLeads
<1>4. BindAllowed(o, n)
  <2>1. CASE n.local.day = Undated
    BY <1>1, <1>3, <2>1 DEF BindAllowed, MoreSpecific
  <2>2. CASE n.local.day # Undated
    <3>1. n \in Dating(f)
      BY <1>1, <2>2 DEF Dating
    <3>2. NearDays(f.local.day, n.local.day)
      BY <3>1 DEF Once, NearDays
    <3> QED BY <1>1, <1>3, <2>2, <3>2 DEF BindAllowed, NearDate
  <2> QED BY <2>1, <2>2
<1>5. SlugTarget(n) = {o}
  BY <1>3 DEF SlugTarget
<1>6. ~PastSlug(n)
  BY <1>4, <1>5 DEF PastSlug, Allowed
<1>7. ASSUME NEW p, Reached(p, n) PROVE p.id = f.local
  <2>1. p \in SlugTarget(n)
    BY <1>1, <1>6, <1>7 DEF Reached, Allowed, PastFuzzy, PastAlias
  <2> QED BY <1>3, <1>5, <2>1
<1> QED BY <1>6, <1>7

\* What a node with the local id of an official fixture is bound to gets that id.
LEMMA OfficialBinds ==
  ASSUME \A in \in Inputs : Scheduled(in), Given, Inv, OfficialInv, ~done,
         NEW f \in nodes, OfficialNode(f), Once(f) \/ Unskewed(f),
         NEW n \in nodes, n.type = "MATCH", n.local = f.local,
         f.local \in DOMAIN canonical \/ n = f,
         NEW o \in Canonical, Current(o), o.type = n.type, BindAllowed(o, n), Reached(o, n)
  PROVE  NewId(o, n) = f.local
<1>1. /\ n \in Node /\ n.local \in Ids /\ n.local.kind = "match" /\ o.id \in Ids
      /\ f.local.name = <<f.label>> /\ n.local.name = <<n.label>> /\ n.local.day # Undated
  <2>1. f = Prepare(f) /\ n = Prepare(n)
    BY DEF Prepare, OfficialNode
  <2>2. n.local.day # Undated
    BY DEF Given, Scheduled
  <2> QED BY <2>1, <2>2, ScheduledNode DEF OfficialNode, Canonical
<1>2. n.label = f.label
  <2>1. <<n.label>>[1] = <<f.label>>[1]
    BY <1>1
  <2> QED BY <2>1
<1>3. /\ o.id.kind = "match" /\ o.id.name = n.local.name
      /\ \/ o.id.day = Undated /\ NewId(o, n) = n.local
         \/ o.id.day # Undated /\ NearDays(o.id.day, n.local.day)
  BY <1>1, BindDates DEF OfficialInv
<1>4. CASE o.id.day = Undated
  BY <1>3, <1>4
<1>5. CASE o.id = f.local
  BY <1>5 DEF NewId, Upgrades
<1>6. ASSUME o.id.day # Undated, Unskewed(f) PROVE o.id = f.local
  <2>1. PICK m \in seen : m.local = o.id
    BY <1>3, <1>6 DEF OfficialInv, DatesInv, DatesRead, Read, Current
  <2>2. PICK raw \in nodes : m = Prepare(raw)
    BY DEF OfficialInv, DatesInv, SeenGiven
  <2>3. m \in nodes /\ m.type = "MATCH"
    BY <1>3, <2>1, <2>2, ScheduledNode
  <2>4. o.id.day = n.local.day
    BY <1>3, <1>6, <2>1, <2>3 DEF Unskewed, Dating
  <2> QED BY <1>1, <1>3, <2>4 DEF Ids
<1>7. ASSUME o.id.day # Undated, Once(f), o.id # f.local PROVE NewId(o, n) = f.local
  <2>1. f.local \notin DOMAIN canonical
    BY <1>1, <1>2, <1>7, LabelFirst DEF OfficialNode
  <2>2. n = f /\ Upgrades(o, n)
    BY <1>1, <1>3, <1>7, <2>1 DEF Upgrades, NearDate, OfficialNode
  <2> QED BY <2>1, <2>2 DEF NewId
<1> QED BY <1>4, <1>5, <1>6, <1>7

\* A bind leaves the label leading to the date that its pair's node has,
LEMMA BindKeepsSlug ==
  ASSUME \A in \in Inputs : Scheduled(in), Given, Inv, OfficialInv, ~done,
         NEW raw \in nodes, NEW n, n = Prepare(raw), NEW tier \in Tiers,
         NEW o \in Canonical, Current(o), o.type = n.type, BindAllowed(o, n), Reached(o, n),
         Bind(o, n, tier), nodes' = nodes
  PROVE  SlugLeads'
<1> DEFINE new == NewId(o, n)
<1>1. /\ n \in Node /\ (n.type = "MATCH" <=> n.local.kind = "match")
      /\ n.type = "MATCH" => n \in nodes /\ n.local.name = <<n.label>>
  BY ScheduledNode
<1>w. BindMakes(o, n, NewId(o, n)) /\ BindLeads(o, n, NewId(o, n)) /\ BindLabels(o, NewId(o, n))
  BY BindDoes
<1>2. /\ new = o.id \/ (new = n.local /\ Upgrades(o, n))
      /\ DOMAIN canonical' = (DOMAIN canonical \ {o.id}) \cup {new}
      /\ bySlug'[<<o.type, o.label>>].id = new
      /\ \A k \in DOMAIN bySlug \ {<<o.type, o.label>>} : bySlug'[k] = bySlug[k]
  BY <1>w DEF BindMakes, BindLabels
<1> SUFFICES ASSUME NEW f \in nodes, f.type = "MATCH", f.local.day # Undated, Once(f),
                    f.local \in DOMAIN canonical'
             PROVE  bySlug'[<<"MATCH", f.label>>].id = f.local
  BY DEF SlugLeads, Once, Dating
<1>3. f.local.kind = "match" /\ f.local.name = <<f.label>> /\ f = Prepare(f)
  <2>1. f = Prepare(f)
    BY DEF Prepare
  <2> QED BY <2>1, ScheduledNode
<1>4. f.local \in DOMAIN canonical =>
        <<"MATCH", f.label>> \in DOMAIN bySlug /\ bySlug[<<"MATCH", f.label>>].id = f.local
  <2> SUFFICES ASSUME f.local \in DOMAIN canonical
               PROVE  <<"MATCH", f.label>> \in DOMAIN bySlug
    BY DEF OfficialInv, SlugLeads
  <2>1. <<canonical[f.local].label>>[1] = <<f.label>>[1]
    BY <1>3 DEF OfficialInv, DatesInv, LabelNames
  <2>2. canonical[f.local].label = f.label
    BY <2>1
  <2> QED BY <1>3, <2>2 DEF OfficialInv, DatesInv, LabelNames
<1>5. o.id \in DOMAIN canonical /\ o.id.kind = Prefix[o.type] /\ o = canonical[o.id]
  BY DEF Current, OfficialInv, DatesInv, KindsAgree
<1> HIDE DEF new
<1>6. CASE n.type # "MATCH"
  <2>1. new = o.id
    BY <1>2, <1>6 DEF Upgrades
  <2>2. f.local \in DOMAIN canonical
    BY <1>2, <1>5, <2>1
  <2>3. <<"MATCH", f.label>> # <<o.type, o.label>>
    BY <1>6
  <2> QED BY <1>2, <1>4, <2>2, <2>3
<1>7. CASE n.type = "MATCH"
  <2>1. o.id.kind = "match" /\ o.id.name = <<o.label>> /\ o.id.name = <<n.label>>
    <3>1. o.id.kind = "match"
      BY <1>5, <1>7 DEF Prefix
    <3>2. o.id.name = n.local.name
      BY <1>1, <1>7, <3>1 DEF BindAllowed, MoreSpecific, NearDate
    <3>3. o.id.name = <<o.label>>
      BY <1>5, <3>1 DEF OfficialInv, DatesInv, LabelNames
    <3> QED BY <1>1, <1>7, <3>1, <3>2, <3>3
  <2>2. o.label = n.label
    <3>1. <<o.label>>[1] = <<n.label>>[1]
      BY <2>1
    <3> QED BY <3>1
  <2>3. new.name = <<n.label>>
    BY <1>1, <1>2, <1>7, <2>1
  <2>4. CASE f.label = n.label
    <3>1. f.local \in DOMAIN canonical => o.id = f.local
      BY <1>1, <1>7, <2>4, LabelFirst
    <3>2. new = f.local
      BY <1>2, <3>1
    <3> QED BY <1>2, <1>7, <2>2, <2>4, <3>2
  <2>5. CASE f.label # n.label
    <3>1. f.local # new
      <4>1. f.local.name[1] # new.name[1]
        BY <1>3, <2>3, <2>5
      <4> QED BY <4>1
    <3>2. f.local \in DOMAIN canonical
      BY <1>2, <3>1
    <3>3. <<"MATCH", f.label>> # <<o.type, o.label>>
      BY <2>2, <2>5
    <3> QED BY <1>2, <1>4, <3>2, <3>3
  <2> QED BY <2>4, <2>5
<1> QED BY <1>6, <1>7

\* and the official date where it is.
LEMMA BindKeepsOfficial ==
  ASSUME \A in \in Inputs : Scheduled(in), Given, Inv, OfficialInv, ~done,
         NEW raw \in nodes, NEW n, n = Prepare(raw), NEW tier \in Tiers,
         NEW o \in Canonical, Current(o), o.type = n.type, BindAllowed(o, n), Reached(o, n),
         Bind(o, n, tier), nodes' = nodes, seen' = seen \cup {n}
  PROVE  OfficialStays'
<1> DEFINE new == NewId(o, n)
<1>1. /\ n \in Node /\ (n.type = "MATCH" <=> n.local.kind = "match")
      /\ n.type = "MATCH" => n \in nodes /\ n.local.name = <<n.label>>
  BY ScheduledNode
<1>w. BindMakes(o, n, NewId(o, n)) /\ BindLeads(o, n, NewId(o, n)) /\ BindLabels(o, NewId(o, n))
  BY BindDoes
<1>2. /\ \/ new = o.id
         \/ new \notin DOMAIN canonical /\ new = n.local /\ Upgrades(o, n)
      /\ DOMAIN canonical' = (DOMAIN canonical \ {o.id}) \cup {new}
      /\ canonical'[new].method = PreferredMethod(o.method, n.method)
      /\ \A i \in DOMAIN canonical \ {o.id} : i # new /\ canonical'[i] = canonical[i]
  BY <1>w DEF BindMakes
<1>3. /\ l2c'[n.local] = new
      /\ \A l \in DOMAIN l2c \ {n.local} : l2c'[l] = IF l2c[l] = o.id THEN new ELSE l2c[l]
  BY <1>w DEF BindLeads
<1>4. o.id \in DOMAIN canonical /\ o = canonical[o.id]
  BY DEF Current
<1> SUFFICES ASSUME NEW f \in seen', OfficialNode(f), Once(f) \/ Unskewed(f)
             PROVE  /\ l2c'[f.local] = f.local /\ f.local \in DOMAIN canonical'
                    /\ canonical'[f.local].method = "official_bracket"
  BY DEF OfficialStays, Once, Unskewed, Dating
<1>5. f \in nodes /\ f.local.kind = "match" /\ f.local.day # Undated
  <2>1. f \in nodes
    BY <1>1, ReadGiven DEF OfficialInv, OfficialNode
  <2>2. f = Prepare(f)
    BY DEF Prepare, OfficialNode
  <2> QED BY <2>1, <2>2, ScheduledNode DEF OfficialNode, Given, Scheduled
<1>6. f \in seen => /\ l2c[f.local] = f.local /\ f.local \in DOMAIN canonical /\ f.local \in DOMAIN l2c
                    /\ canonical[f.local].method = "official_bracket"
  BY DEF OfficialInv, OfficialStays, Inv, LiveLocals
<1>7. CASE n.local = f.local
  <2>1. n.type = "MATCH" /\ n \in nodes
    BY <1>1, <1>5, <1>7
  <2>2. new = f.local
    BY <1>5, <1>6, <1>7, <2>1, OfficialBinds
  <2>3. f = n \/ o.method = "official_bracket"
    BY <1>2, <1>4, <1>6, <2>2
  <2>4. PreferredMethod(o.method, n.method) = "official_bracket"
    BY <2>3 DEF PreferredMethod, OfficialNode
  <2> QED BY <1>2, <1>3, <1>7, <2>2, <2>4
<1>8. CASE n.local # f.local
  <2>1. f \in seen
    BY <1>8
  <2>2. CASE o.id = f.local
    <3>1. o.method = "official_bracket"
      BY <1>4, <1>6, <2>1, <2>2
    <3>2. ~Upgrades(o, n)
      <4>1. ~MoreSpecific(n.local, o.id)
        BY <1>5, <2>2 DEF MoreSpecific
      <4>2. NearDate(o.id, n.local) /\ n.type = "MATCH" => n.method # "official_bracket"
        BY <1>1, <1>5, <1>8, <2>2 DEF Given, Scheduled, OfficialNode
      <4> QED BY <3>1, <4>1, <4>2 DEF Upgrades
    <3>3. new = o.id
      BY <1>2, <3>2
    <3> QED BY <1>2, <1>3, <1>6, <1>8, <2>1, <2>2, <3>1, <3>3 DEF PreferredMethod
  <2>3. CASE o.id # f.local
    BY <1>2, <1>3, <1>6, <1>8, <2>1, <2>3
  <2> QED BY <2>2, <2>3
<1> QED BY <1>7, <1>8

\* A new node has the official date, or leaves it.
LEMMA RegisterKeepsOfficial ==
  ASSUME \A in \in Inputs : Scheduled(in), Given, Inv, OfficialInv, ~done,
         NEW raw \in nodes, NEW n, n = Prepare(raw), NEW tier \in Tiers,
         NEW id \in Ids \ DOMAIN canonical, id.kind = Prefix[n.type],
         n.type = "MATCH" => PastFuzzy(n) /\ id = Suggested(n),
         Register(id, n, tier), nodes' = nodes, seen' = seen \cup {n}
  PROVE  SlugLeads' /\ OfficialStays'
<1>1. /\ n \in Node /\ n.type \in Types /\ (n.type = "MATCH" <=> n.local.kind = "match")
      /\ n.type = "MATCH" => /\ n \in nodes /\ n.local.name = <<n.label>> /\ id = n.local
  BY ScheduledNode DEF Node
<1>w. RegisterMakes(id, n) /\ RegisterLeads(id, n) /\ RegisterLabels(id, n)
  BY RegisterDoes
<1>2. /\ DOMAIN canonical' = DOMAIN canonical \cup {id}
      /\ \A i \in DOMAIN canonical : canonical'[i] = canonical[i]
  BY <1>w DEF RegisterMakes
<1>3. canonical'[id].method = n.method
  BY <1>w DEF RegisterMakes
<1>4. l2c'[n.local] = id /\ \A l \in DOMAIN l2c \ {n.local} : l2c'[l] = l2c[l]
  BY <1>w DEF RegisterLeads
<1>5. /\ bySlug'[<<n.type, n.label>>].id = id
      /\ \A k \in DOMAIN bySlug \ {<<n.type, n.label>>} : bySlug'[k] = bySlug[k]
  BY <1>w DEF RegisterLabels
<1>6. n.type # "MATCH" => id.kind # "match"
  BY <1>1 DEF Prefix, Types
<1>7. SlugLeads'
  <2> SUFFICES ASSUME NEW f \in nodes, f.type = "MATCH", f.local.day # Undated, Once(f),
                      f.local \in DOMAIN canonical'
               PROVE  bySlug'[<<"MATCH", f.label>>].id = f.local
    BY DEF SlugLeads, Once, Dating
  <2>1. f.local.kind = "match" /\ f.local.name = <<f.label>>
    <3>1. f = Prepare(f)
      BY DEF Prepare
    <3> QED BY <3>1, ScheduledNode
  <2>2. CASE f.local = id
    <3>1. n.type = "MATCH" /\ <<n.label>>[1] = <<f.label>>[1]
      BY <1>1, <1>6, <2>1, <2>2
    <3> QED BY <1>5, <2>2, <3>1
  <2>3. CASE f.local # id
    <3>1. f.local \in DOMAIN canonical
      BY <1>2, <2>3
    <3>2. <<"MATCH", f.label>> # <<n.type, n.label>>
      <4>1. n.type = "MATCH" => PastSlug(n)
        BY DEF PastFuzzy, PastAlias
      <4>2. n.type = "MATCH" => n.label # f.label
        BY <1>1, <3>1, <4>1, LabelFirst
      <4> QED BY <4>2
    <3>3. <<"MATCH", f.label>> \in DOMAIN bySlug
      <4>1. <<canonical[f.local].label>>[1] = <<f.label>>[1]
        BY <2>1, <3>1 DEF OfficialInv, DatesInv, LabelNames
      <4>2. canonical[f.local].label = f.label
        BY <4>1
      <4> QED BY <2>1, <3>1, <4>2 DEF OfficialInv, DatesInv, LabelNames
    <3> QED BY <1>5, <3>1, <3>2, <3>3 DEF OfficialInv, SlugLeads
  <2> QED BY <2>2, <2>3
<1>8. OfficialStays'
  <2> SUFFICES ASSUME NEW f \in seen', OfficialNode(f), Once(f) \/ Unskewed(f)
               PROVE  /\ l2c'[f.local] = f.local /\ f.local \in DOMAIN canonical'
                      /\ canonical'[f.local].method = "official_bracket"
    BY DEF OfficialStays, Once, Unskewed, Dating
  <2>1. f \in seen => /\ l2c[f.local] = f.local /\ f.local \in DOMAIN canonical
                      /\ f.local \in DOMAIN l2c
                      /\ canonical[f.local].method = "official_bracket"
    BY DEF OfficialInv, OfficialStays, Inv, LiveLocals
  <2>2. CASE f \in seen
    <3>1. f.local.kind = "match"
      <4>1. f \in nodes /\ f = Prepare(f)
        BY <2>2, ReadGiven DEF OfficialInv, OfficialNode, Prepare
      <4> QED BY <4>1, ScheduledNode DEF OfficialNode
    <3>2. n.local # f.local
      BY <1>1, <2>1, <2>2, <3>1
    <3> QED BY <1>2, <1>4, <2>1, <2>2, <3>2
  <2>3. CASE f \notin seen
    <3>1. f = n /\ id = n.local
      BY <1>1, <2>3 DEF OfficialNode
    <3> QED BY <1>2, <1>3, <1>4, <3>1 DEF OfficialNode
  <2> QED BY <2>2, <2>3
<1> QED BY <1>7, <1>8

\* What a round of the loop does to the official dates.
LEMMA ResolveKeepsOfficial ==
  ASSUME \A in \in Inputs : Scheduled(in),
         Given, Inv, OfficialInv, NEW raw \in nodes, Resolve(raw)
  PROVE  SlugLeads' /\ OfficialStays'
<1> DEFINE n == Prepare(raw)
<1>0. raw \in Nodes
  BY DEF Given, Nodes
<1>1. /\ n \in Node /\ ~done /\ seen' = seen \cup {n} /\ nodes' = nodes
      /\ Bound(n) \/ Registered(n)
  BY <1>0, BoundOrRegistered DEF OfficialInv, DatesInv
<1>2. n = Prepare(raw)
  OBVIOUS
<1> HIDE DEF n
<1>3. ASSUME Bound(n) PROVE SlugLeads' /\ OfficialStays'
  <2>1. PICK tier \in Tiers, o \in Canonical :
          Current(o) /\ o.type = n.type /\ BindAllowed(o, n) /\ Reached(o, n) /\ Bind(o, n, tier)
    BY <1>3 DEF Bound
  <2> QED BY <1>1, <1>2, <2>1, BindKeepsSlug, BindKeepsOfficial
<1>4. ASSUME Registered(n) PROVE SlugLeads' /\ OfficialStays'
  <2>1. PICK tier \in Tiers, id \in Ids \ DOMAIN canonical :
          /\ \/ id \in ExactId(n)
             \/ PastFuzzy(n) /\ id = Suggested(n)
          /\ id.kind = Prefix[n.type] /\ Register(id, n, tier)
    BY <1>4 DEF Registered
  <2>2. n.type = "MATCH" => ExactId(n) = {}
    BY DEF ExactId
  <2> QED BY <1>1, <1>2, <2>1, <2>2, RegisterKeepsOfficial
<1> QED BY <1>1, <1>3, <1>4

LEMMA OfficialHolds ==
  ASSUME \A in \in Inputs : Scheduled(in) PROVE Spec => []OfficialInv
<1>1. Init => SlugLeads /\ OfficialStays
  BY DEF Init, NoEntries, SlugLeads, OfficialStays
<1>2. \A in \in Inputs : PairsNamed(in)
  BY DEF Scheduled
<1>3. Spec => []DatesInv
  BY <1>2, DatesHold
<1>4. Given /\ Inv /\ OfficialInv /\ [Next]_vars => SlugLeads' /\ OfficialStays'
  <2> SUFFICES ASSUME Given, Inv, OfficialInv, [Next]_vars PROVE SlugLeads' /\ OfficialStays'
    OBVIOUS
  <2>1. CASE Finalize
    <3>1. /\ DOMAIN canonical' = DOMAIN canonical
          /\ \A i \in DOMAIN canonical : canonical'[i].method = canonical[i].method
          /\ UNCHANGED <<nodes, l2c, bySlug, seen>>
      BY <2>1, FinalizeWrites
    <3> QED BY <3>1 DEF OfficialInv, SlugLeads, OfficialStays, Once, Unskewed, Dating
  <2>2. ASSUME NEW raw \in nodes, Resolve(raw) PROVE SlugLeads' /\ OfficialStays'
    BY <2>2, ResolveKeepsOfficial
  <2>3. CASE UNCHANGED vars
    BY <2>3 DEF vars, state, OfficialInv, SlugLeads, OfficialStays, Once, Unskewed, Dating
  <2> QED BY <2>1, <2>2, <2>3 DEF Next
<1> QED BY <1>1, <1>3, <1>4, NodesGiven, ResolutionInvariant, PTL DEF Spec, OfficialInv

\* An official fixture resolves to its own date, with its provenance, whatever
\* was read before and after (match_merge.py, match_id_upgrade_target;
\* resolution.py, _upgrade_match_canonical_id).
THEOREM OfficialDatesWin ==
  ASSUME \A in \in Inputs : Scheduled(in)
  PROVE  Spec => []OfficialDateWins
<1>1. OfficialInv => OfficialDateWins
  BY DEF OfficialInv, OfficialStays, OfficialNode, Once, Unskewed, OfficialDateWins
<1> QED BY <1>1, OfficialHolds, PTL

-----------------------------------------------------------------------------
(* Teams. *)

\* T tells which team a label means.  The names of one node mean one team,
\* except that three-letter codes may be aliases of any; display names and the
\* names of codes mean what their variants mean; labels that look alike, and
\* nodes that share a local id, mean one team.
Alike(x, y) == Score[x, y] > 0
TeamsTold(T, in) ==
  /\ \A n \in in : n.local.kind = "team" => n.type = "TEAM"
  /\ \A n \in in : n.type = "TEAM" =>
       /\ T[Display(n.label)] = T[n.label]
       /\ \A a \in n.aliases \ DOMAIN TeamCodes : T[a] = T[n.label]
  /\ \A m, n \in in : m.type = "TEAM" /\ n.type = "TEAM" =>
       /\ m.local = n.local => T[m.label] = T[n.label]
       /\ Alike(Display(m.label), Display(n.label)) => T[m.label] = T[n.label]
CodesTold(T) ==
  \A c \in DOMAIN TeamCodes :
    TeamCodes[c] \notin DOMAIN TeamCodes /\ T[Display(TeamCodes[c])] = T[TeamCodes[c]]

TeamLabels == {Display(raw.label) : raw \in {r \in nodes : r.type = "TEAM"}}

TeamIds == \A i \in DOMAIN canonical : canonical[i].type = "TEAM" => i.name = <<canonical[i].label>>
TeamAliases(T) ==
  \A i \in DOMAIN canonical : canonical[i].type = "TEAM" =>
    \A a \in canonical[i].aliases \ DOMAIN TeamCodes : T[a] = T[canonical[i].label]
TeamFuzzy(T) ==
  \A j \in DOMAIN fuzzy["TEAM"] :
    /\ fuzzy["TEAM"][j].label \in TeamLabels
    /\ T[fuzzy["TEAM"][j].label] = T[canonical[fuzzy["TEAM"][j].id].label]
TeamLeads(T) ==
  \A n \in seen : n.local.kind = "team" =>
    /\ canonical[l2c[n.local]].type = "TEAM"
    /\ T[canonical[l2c[n.local]].label] = T[n.label]

\* Every name of a node that is no code means the team of its label, and so does
\* every label and local id that leads to it.
TeamsInv(T) ==
  KindsAgree /\ SeenGiven /\ TeamIds /\ TeamAliases(T) /\ TeamFuzzy(T) /\ TeamLeads(T)

\* What the names of a prepared TEAM mean.
LEMMA TeamNode ==
  ASSUME NEW T, \A in \in Inputs : TeamsTold(T, in), Given, NEW raw \in nodes
  PROVE  LET n == Prepare(raw)
         IN  /\ n \in Node /\ n.type = raw.type /\ n.local = raw.local
             /\ n.local.kind = "team" => n.type = "TEAM"
             /\ n.type = "TEAM" =>
                  /\ n.label = Display(raw.label) /\ n.label \in TeamLabels
                  /\ T[n.label] = T[raw.label]
                  /\ \A a \in n.aliases \ DOMAIN TeamCodes : T[a] = T[n.label]
                  /\ ExactId(n) = {} /\ Suggested(n).name = <<n.label>>
<1> DEFINE n == Prepare(raw)
<1>1. raw \in Node /\ raw \in Nodes
  BY InputAssumption DEF Given, Nodes
<1>2. n \in Node /\ n.type = raw.type /\ n.local = raw.local
  BY <1>1, PreparedNode DEF Prepare, Node
<1>3. raw.type = "TEAM" => n.label = Display(raw.label) /\ n.aliases \subseteq raw.aliases \cup {raw.label}
  BY <1>1 DEF Prepare, Node
<1>4. TeamsTold(T, nodes)
  BY DEF Given
<1>5. raw.type = "TEAM" => /\ T[n.label] = T[raw.label]
                           /\ \A a \in n.aliases \ DOMAIN TeamCodes : T[a] = T[n.label]
  <2> SUFFICES ASSUME raw.type = "TEAM"
               PROVE  T[n.label] = T[raw.label] /\ \A a \in n.aliases \ DOMAIN TeamCodes : T[a] = T[n.label]
    OBVIOUS
  <2>1. /\ T[Display(raw.label)] = T[raw.label]
        /\ \A a \in raw.aliases \ DOMAIN TeamCodes : T[a] = T[raw.label]
    BY <1>4 DEF TeamsTold
  <2> QED BY <1>3, <2>1
<1>6. n.local.kind = "team" => n.type = "TEAM"
  BY <1>2, <1>4 DEF TeamsTold
<1>7. n.type = "TEAM" => ExactId(n) = {} /\ Suggested(n).name = <<n.label>>
  BY DEF ExactId, Suggested, Id
<1>8. n.type = "TEAM" => n.label \in TeamLabels
  BY <1>2, <1>3 DEF TeamLabels
<1> HIDE DEF n
<1> QED BY <1>2, <1>3, <1>5, <1>6, <1>7, <1>8 DEF n

\* Labels that look alike mean one team.
LEMMA AlikeLabels ==
  ASSUME NEW T, \A in \in Inputs : TeamsTold(T, in), Given,
         NEW x \in TeamLabels, NEW y \in TeamLabels, Alike(x, y)
  PROVE  T[x] = T[y]
<1>1. TeamsTold(T, nodes)
  BY DEF Given
<1>2. PICK a \in nodes : a.type = "TEAM" /\ x = Display(a.label)
  BY DEF TeamLabels
<1>3. PICK b \in nodes : b.type = "TEAM" /\ y = Display(b.label)
  BY DEF TeamLabels
<1>4. T[x] = T[a.label] /\ T[y] = T[b.label]
  BY <1>1, <1>2, <1>3 DEF TeamsTold
<1>5. T[a.label] = T[b.label]
  BY <1>1, <1>2, <1>3 DEF TeamsTold
<1> QED BY <1>4, <1>5

\* The alias tier finds a node of the team that the label means.
LEMMA AliasTells ==
  ASSUME NEW T, CodesTold(T), Inv, TeamsInv(T), ~done, NEW n \in Node, n.type = "TEAM",
         \A a \in n.aliases \ DOMAIN TeamCodes : T[a] = T[n.label],
         NEW o \in AliasTargets(n)
  PROVE  T[o.label] = T[n.label]
<1>1. PICK a \in n.aliases \cup {n.label} : o \in AliasTarget(n, a)
  BY DEF AliasTargets, Allowed
<1>2. ASSUME NEW k \in DOMAIN byAlias, k[1] = "TEAM"
      PROVE  /\ byAlias[k].type = "TEAM" /\ k[2] \in byAlias[k].aliases \cup {byAlias[k].label}
             /\ k[2] \notin DOMAIN TeamCodes => T[k[2]] = T[byAlias[k].label]
  <2> DEFINE p == byAlias[k]
  <2>1. p.id \in DOMAIN canonical /\ p = canonical[p.id] /\ k \in AliasKeys(p)
    BY DEF Inv, IndexesAgree
  <2> HIDE DEF p
  <2>2. p.type = "TEAM" /\ k[2] \in p.aliases \cup {p.label}
    BY <1>2, <2>1 DEF AliasKeys
  <2>3. k[2] \notin DOMAIN TeamCodes => T[k[2]] = T[p.label]
    BY <2>1, <2>2 DEF TeamsInv, TeamAliases
  <2> QED BY <2>2, <2>3 DEF p
<1>3. CASE /\ <<n.type, a>> \in DOMAIN byAlias /\ o = byAlias[<<n.type, a>>]
           /\ AliasCompatible(a, n.label, o.label)
  <2>1. CASE a \in DOMAIN TeamCodes
    BY <1>3, <2>1 DEF AliasCompatible, CodeMapsTo
  <2>2. CASE a \notin DOMAIN TeamCodes
    BY <1>1, <1>2, <1>3, <2>2
  <2> QED BY <2>1, <2>2
<1>4. CASE /\ CodeMapsTo(a, n.label) /\ <<"TEAM", TeamCodes[a]>> \in DOMAIN byAlias
           /\ o = byAlias[<<"TEAM", TeamCodes[a]>>]
  <2>1. /\ TeamCodes[a] \notin DOMAIN TeamCodes
        /\ T[Display(TeamCodes[a])] = T[TeamCodes[a]] /\ Display(TeamCodes[a]) = n.label
    BY <1>4 DEF CodeMapsTo, CodesTold
  <2>2. T[TeamCodes[a]] = T[o.label]
    BY <1>2, <1>4, <2>1
  <2> QED BY <2>1, <2>2
<1> QED BY <1>1, <1>3, <1>4 DEF AliasTarget

\* Every tier does.
LEMMA TiersTell ==
  ASSUME NEW T, CodesTold(T), \A in \in Inputs : TeamsTold(T, in),
         Given, Inv, TeamsInv(T), ~done, NEW raw \in nodes, NEW n, n = Prepare(raw), n.type = "TEAM",
         NEW o \in Canonical, Current(o), o.type = n.type, Reached(o, n)
  PROVE  T[o.label] = T[n.label]
<1>1. /\ n \in Node /\ n.label \in TeamLabels /\ ExactId(n) = {} /\ Suggested(n).name = <<n.label>>
      /\ \A a \in n.aliases \ DOMAIN TeamCodes : T[a] = T[n.label]
  BY TeamNode
<1>2. CASE o \in SlugTarget(n)
  <2>1. o.label = n.label
    <3>1. \A k \in DOMAIN bySlug : k = <<bySlug[k].type, bySlug[k].label>>
      BY DEF Inv, IndexesAgree
    <3>2. <<n.type, n.label>> = <<o.type, o.label>>
      BY <1>2, <3>1 DEF SlugTarget
    <3> QED BY <3>2
  <2> QED BY <2>1
<1>3. CASE o \in AliasTargets(n)
  BY <1>1, <1>3, AliasTells
<1>4. CASE o \in FuzzyTargets(n)
  <2>1. PICK i \in DOMAIN fuzzy["TEAM"] :
          Best(n, i) /\ o = canonical[fuzzy["TEAM"][i].id]
    BY <1>4 DEF FuzzyTargets
  <2>2. Alike(n.label, fuzzy["TEAM"][i].label)
    BY <2>1, Zenon DEF Best, Alike
  <2>3. fuzzy["TEAM"][i].label \in TeamLabels /\ T[fuzzy["TEAM"][i].label] = T[o.label]
    BY <2>1 DEF TeamsInv, TeamFuzzy
  <2>4. T[n.label] = T[fuzzy["TEAM"][i].label]
    BY <1>1, <2>2, <2>3, AlikeLabels
  <2> QED BY <2>3, <2>4
<1>5. CASE o.id = Suggested(n)
  <2>1. <<o.label>>[1] = <<n.label>>[1]
    BY <1>1, <1>5 DEF TeamsInv, TeamIds, Current
  <2> QED BY <2>1
<1> QED BY <1>1, <1>2, <1>3, <1>4, <1>5 DEF Reached, Allowed

\* What a bind adds to the fuzzy list of the teams.
LEMMA BindTeamEntries ==
  ASSUME Inv, NEW o \in Canonical, Current(o), NEW n \in Node, o.type = n.type,
         NEW tier \in Tiers, Bind(o, n, tier), NEW j \in DOMAIN fuzzy'["TEAM"]
  PROVE  LET e == fuzzy'["TEAM"][j]
         IN  \/ \E i \in DOMAIN fuzzy["TEAM"] :
                  e.label = fuzzy["TEAM"][i].label /\ e.id = fuzzy["TEAM"][i].id
             \/ n.type = "TEAM" /\ e.label = n.label /\ e.id = o.id
<1> DEFINE s == fuzzy["TEAM"]
           new == NewId(o, n)
           entry(e) == [label |-> e.label, id |-> IF e.id = o.id THEN new ELSE e.id]
           moved == [i \in DOMAIN fuzzy[o.type] |-> entry(fuzzy[o.type][i])]
           last == [label |-> n.label, id |-> new]
<1>1. fuzzy' = [fuzzy EXCEPT ![o.type] =
                  IF n.label \in o.aliases \cup {o.label} THEN moved ELSE Append(moved, last)]
  BY DEF Bind, Remap, Merged
<1>2. fuzzy \in [Types -> Seq([label : Labels, id : Ids])] /\ o.type \in Types /\ "TEAM" \in Types
  BY DEF Inv, FuzzyOK, Canonical, Types
<1>3. CASE o.type # "TEAM"
  <2>1. fuzzy'["TEAM"] = s
    BY <1>1, <1>2, <1>3
  <2> QED BY <2>1
<1>4. CASE o.type = "TEAM"
  <2>1. new = o.id
    BY <1>4 DEF NewId, Upgrades
  <2>2. s \in Seq([label : Labels, id : Ids])
    BY <1>2
  <2>3. /\ DOMAIN s = 1 .. Len(s) /\ Len(s) \in Nat
        /\ \A i \in DOMAIN s : entry(s[i]).label = s[i].label /\ entry(s[i]).id = s[i].id
    BY <2>1, <2>2
  <2>4. moved = [i \in DOMAIN s |-> entry(s[i])]
    BY <1>4
  <2>5. fuzzy'["TEAM"] = IF n.label \in o.aliases \cup {o.label} THEN moved ELSE Append(moved, last)
    BY <1>1, <1>2, <1>4
  <2>6. last.label = n.label /\ last.id = o.id
    BY <2>1
  <2> HIDE DEF entry, last
  <2>7. moved \in Seq({entry(s[i]) : i \in DOMAIN s}) /\ Len(moved) = Len(s)
    BY <2>3, <2>4
  <2>8. /\ DOMAIN Append(moved, last) = 1 .. (Len(s) + 1)
        /\ \A i \in 1 .. Len(s) : Append(moved, last)[i] = moved[i]
        /\ Append(moved, last)[Len(s) + 1] = last
    <3> HIDE DEF moved, s
    <3> QED BY <2>3, <2>7
  <2>9. CASE j \in DOMAIN s
    BY <2>3, <2>4, <2>5, <2>8, <2>9
  <2>10. CASE j \notin DOMAIN s
    BY <1>4, <2>3, <2>4, <2>5, <2>6, <2>8, <2>10
  <2> QED BY <2>9, <2>10
<1> QED BY <1>3, <1>4

\* Nodes that share a local id mean one team.
LEMMA SameTeam ==
  ASSUME NEW T, \A in \in Inputs : TeamsTold(T, in), Given, TeamsInv(T),
         NEW raw \in nodes, NEW n, n = Prepare(raw), n.type = "TEAM",
         NEW m \in seen \cup {n}, m.local = n.local, m.local.kind = "team"
  PROVE  T[m.label] = T[n.label]
<1>1. PICK old \in nodes : m = Prepare(old)
  BY DEF TeamsInv, SeenGiven
<1>2. /\ m.local = old.local /\ m.type = old.type /\ m.type = "TEAM"
      /\ T[m.label] = T[old.label]
  BY <1>1, TeamNode
<1>3. n.local = raw.local /\ n.type = raw.type /\ T[n.label] = T[raw.label]
  BY TeamNode
<1>4. T[old.label] = T[raw.label]
  BY <1>2, <1>3 DEF Given, TeamsTold
<1> QED BY <1>2, <1>3, <1>4

\* A bind to a node of the same team keeps what is told of every team.
LEMMA BindKeepsTeams ==
  ASSUME NEW T, CodesTold(T), \A in \in Inputs : TeamsTold(T, in),
         Given, Inv, TeamsInv(T), ~done, NEW raw \in nodes, NEW n, n = Prepare(raw),
         NEW tier \in Tiers, NEW o \in Canonical, Current(o), o.type = n.type, Reached(o, n),
         Bind(o, n, tier), seen' = seen \cup {n}, nodes' = nodes
  PROVE  TeamIds' /\ TeamAliases(T)' /\ TeamFuzzy(T)' /\ TeamLeads(T)'
<1> DEFINE new == NewId(o, n)
<1>1. /\ n \in Node /\ (n.local.kind = "team" => n.type = "TEAM")
      /\ n.type = "TEAM" => /\ n.label \in TeamLabels
                            /\ \A a \in n.aliases \ DOMAIN TeamCodes : T[a] = T[n.label]
  BY TeamNode
<1>2. n.type = "TEAM" => T[o.label] = T[n.label] /\ new = o.id
  BY TiersTell DEF NewId, Upgrades
<1>w. BindMakes(o, n, NewId(o, n)) /\ BindLeads(o, n, NewId(o, n)) /\ BindLabels(o, NewId(o, n))
  BY BindDoes
<1>3. /\ DOMAIN canonical' = (DOMAIN canonical \ {o.id}) \cup {new}
      /\ \A i \in DOMAIN canonical \ {o.id} : i # new /\ canonical'[i] = canonical[i]
  BY <1>w DEF BindMakes
<1>4. /\ canonical'[new].type = o.type /\ canonical'[new].label = o.label
      /\ canonical'[new].aliases = o.aliases \cup n.aliases \cup {n.label}
  BY <1>w DEF BindMakes
<1>5. /\ l2c'[n.local] = new
      /\ \A l \in DOMAIN l2c \ {n.local} : l2c'[l] = IF l2c[l] = o.id THEN new ELSE l2c[l]
  BY <1>w DEF BindLeads
<1>6. o.id \in DOMAIN canonical /\ o = canonical[o.id]
  BY DEF Current
<1> HIDE DEF new
<1>7. TeamIds'
  BY <1>2, <1>3, <1>4, <1>6 DEF TeamsInv, TeamIds
<1>8. TeamAliases(T)'
  <2> SUFFICES ASSUME NEW i \in DOMAIN canonical', canonical'[i].type = "TEAM",
                      NEW a \in canonical'[i].aliases \ DOMAIN TeamCodes
               PROVE  T[a] = T[canonical'[i].label]
    BY DEF TeamAliases
  <2>1. CASE i = new
    <3>1. n.type = "TEAM" /\ a \in o.aliases \cup n.aliases \cup {n.label}
      BY <1>4, <2>1
    <3>2. a \in o.aliases => T[a] = T[o.label]
      BY <1>4, <1>6, <2>1 DEF TeamsInv, TeamAliases
    <3> QED BY <1>1, <1>2, <1>4, <2>1, <3>1, <3>2
  <2>2. CASE i # new
    BY <1>3, <2>2 DEF TeamsInv, TeamAliases
  <2> QED BY <2>1, <2>2
<1>9. \A i \in DOMAIN canonical : canonical[i].type = "TEAM" =>
        canonical'[i].type = "TEAM" /\ canonical'[i].label = canonical[i].label
  BY <1>2, <1>3, <1>4, <1>6
<1>10. TeamFuzzy(T)'
  <2> SUFFICES ASSUME NEW j \in DOMAIN fuzzy'["TEAM"]
               PROVE  LET e == fuzzy'["TEAM"][j]
                      IN  e.label \in TeamLabels /\ T[e.label] = T[canonical'[e.id].label]
    BY DEF TeamFuzzy, TeamLabels
  <2> DEFINE e == fuzzy'["TEAM"][j]
  <2>1. \/ \E i \in DOMAIN fuzzy["TEAM"] :
             e.label = fuzzy["TEAM"][i].label /\ e.id = fuzzy["TEAM"][i].id
        \/ n.type = "TEAM" /\ e.label = n.label /\ e.id = o.id
    BY <1>1, BindTeamEntries
  <2> HIDE DEF e
  <2>2. ASSUME NEW i \in DOMAIN fuzzy["TEAM"],
               e.label = fuzzy["TEAM"][i].label, e.id = fuzzy["TEAM"][i].id
        PROVE  e.label \in TeamLabels /\ T[e.label] = T[canonical'[e.id].label]
    <3>1. fuzzy["TEAM"][i].id \in DOMAIN canonical /\ canonical[fuzzy["TEAM"][i].id].type = "TEAM"
      BY DEF Inv, IndexesAgree, Types
    <3> QED BY <1>9, <2>2, <3>1 DEF TeamsInv, TeamFuzzy
  <2>3. ASSUME n.type = "TEAM", e.label = n.label, e.id = o.id
        PROVE  e.label \in TeamLabels /\ T[e.label] = T[canonical'[e.id].label]
    BY <1>1, <1>2, <1>4, <2>3
  <2>4. e.label \in TeamLabels /\ T[e.label] = T[canonical'[e.id].label]
    BY <2>1, <2>2, <2>3
  <2> QED BY <2>4 DEF e
<1>11. TeamLeads(T)'
  <2> SUFFICES ASSUME NEW m \in seen', m.local.kind = "team"
               PROVE  /\ canonical'[l2c'[m.local]].type = "TEAM"
                      /\ T[canonical'[l2c'[m.local]].label] = T[m.label]
    BY DEF TeamLeads
  <2>1. CASE m.local = n.local
    <3>1. n.type = "TEAM" /\ canonical'[l2c'[m.local]].type = "TEAM"
            /\ canonical'[l2c'[m.local]].label = o.label
      BY <1>1, <1>4, <1>5, <2>1
    <3>2. T[m.label] = T[n.label]
      BY <2>1, <3>1, SameTeam
    <3> QED BY <1>2, <3>1, <3>2
  <2>2. CASE m.local # n.local
    <3>1. /\ m.local \in DOMAIN l2c /\ l2c[m.local] \in DOMAIN canonical
          /\ canonical[l2c[m.local]].type = "TEAM" /\ T[canonical[l2c[m.local]].label] = T[m.label]
      BY <2>2 DEF Inv, LiveLocals, TeamsInv, TeamLeads
    <3>2. l2c'[m.local] = l2c[m.local]
      BY <1>2, <1>5, <1>6, <2>2, <3>1
    <3> QED BY <1>9, <3>1, <3>2
  <2> QED BY <2>1, <2>2
<1> QED BY <1>7, <1>8, <1>10, <1>11

\* A new TEAM means what its label does.
LEMMA RegisterKeepsTeams ==
  ASSUME NEW T, \A in \in Inputs : TeamsTold(T, in),
         Given, Inv, TeamsInv(T), NEW raw \in nodes, NEW n, n = Prepare(raw),
         NEW tier \in Tiers, NEW id \in Ids \ DOMAIN canonical,
         n.type = "TEAM" => id = Suggested(n),
         Register(id, n, tier), seen' = seen \cup {n}, nodes' = nodes
  PROVE  TeamIds' /\ TeamAliases(T)' /\ TeamFuzzy(T)' /\ TeamLeads(T)'
<1>1. /\ n \in Node /\ n.type \in Types /\ (n.local.kind = "team" => n.type = "TEAM")
      /\ n.type = "TEAM" => /\ n.label \in TeamLabels /\ id.name = <<n.label>>
                            /\ \A a \in n.aliases \ DOMAIN TeamCodes : T[a] = T[n.label]
  BY TeamNode DEF Node
<1>w. RegisterMakes(id, n) /\ RegisterLeads(id, n) /\ RegisterLabels(id, n)
  BY RegisterDoes
<1>2. /\ DOMAIN canonical' = DOMAIN canonical \cup {id}
      /\ \A i \in DOMAIN canonical : canonical'[i] = canonical[i]
  BY <1>w DEF RegisterMakes
<1>3. /\ canonical'[id].type = n.type /\ canonical'[id].label = n.label
      /\ canonical'[id].aliases = n.aliases
  BY <1>w DEF RegisterMakes
<1>4. l2c'[n.local] = id /\ \A l \in DOMAIN l2c \ {n.local} : l2c'[l] = l2c[l]
  BY <1>w DEF RegisterLeads
<1>5. fuzzy' = [fuzzy EXCEPT ![n.type] = Append(@, [label |-> n.label, id |-> id])]
  BY DEF Register
<1>6. TeamIds'
  BY <1>1, <1>2, <1>3 DEF TeamsInv, TeamIds
<1>7. TeamAliases(T)'
  <2> SUFFICES ASSUME NEW i \in DOMAIN canonical', canonical'[i].type = "TEAM",
                      NEW a \in canonical'[i].aliases \ DOMAIN TeamCodes
               PROVE  T[a] = T[canonical'[i].label]
    BY DEF TeamAliases
  <2>1. CASE i = id
    BY <1>1, <1>3, <2>1
  <2>2. CASE i # id
    BY <1>2, <2>2 DEF TeamsInv, TeamAliases
  <2> QED BY <2>1, <2>2
<1>8. TeamFuzzy(T)'
  <2> SUFFICES ASSUME NEW j \in DOMAIN fuzzy'["TEAM"]
               PROVE  LET e == fuzzy'["TEAM"][j]
                      IN  e.label \in TeamLabels /\ T[e.label] = T[canonical'[e.id].label]
    BY DEF TeamFuzzy, TeamLabels
  <2> DEFINE e == fuzzy'["TEAM"][j]
             Entry == [label : Labels, id : Ids]
             last == [label |-> n.label, id |-> id]
  <2>1. fuzzy \in [Types -> Seq(Entry)] /\ "TEAM" \in Types
    BY DEF Inv, FuzzyOK, Types
  <2>2. last \in Entry /\ last.label = n.label /\ last.id = id
    BY <1>1 DEF Node
  <2>3. \/ j \in DOMAIN fuzzy["TEAM"] /\ e = fuzzy["TEAM"][j]
        \/ n.type = "TEAM" /\ e = last
    <3> HIDE DEF Entry, last
    <3>1. CASE n.type # "TEAM"
      <4>1. fuzzy'["TEAM"] = fuzzy["TEAM"]
        BY <1>1, <1>5, <2>1, <3>1 DEF last
      <4> QED BY <4>1
    <3>2. CASE n.type = "TEAM"
      <4>1. fuzzy'["TEAM"] = Append(fuzzy["TEAM"], last)
        BY <1>5, <2>1, <3>2 DEF last
      <4>2. fuzzy["TEAM"] \in Seq(Entry)
        BY <2>1
      <4> QED BY <2>2, <3>2, <4>1, <4>2
    <3> QED BY <3>1, <3>2
  <2> HIDE DEF e, last
  <2>4. CASE j \in DOMAIN fuzzy["TEAM"] /\ e = fuzzy["TEAM"][j]
    <3>1. e.id \in DOMAIN canonical
      BY <2>4 DEF Inv, IndexesAgree, Types
    <3> QED BY <1>2, <2>4, <3>1 DEF TeamsInv, TeamFuzzy, e
  <2>5. CASE n.type = "TEAM" /\ e = last
    BY <1>1, <1>3, <2>2, <2>5 DEF e
  <2> QED BY <2>3, <2>4, <2>5
<1>9. TeamLeads(T)'
  <2> SUFFICES ASSUME NEW m \in seen', m.local.kind = "team"
               PROVE  /\ canonical'[l2c'[m.local]].type = "TEAM"
                      /\ T[canonical'[l2c'[m.local]].label] = T[m.label]
    BY DEF TeamLeads
  <2>1. CASE m.local = n.local
    <3>1. n.type = "TEAM" /\ canonical'[l2c'[m.local]].type = "TEAM"
            /\ canonical'[l2c'[m.local]].label = n.label
      BY <1>1, <1>3, <1>4, <2>1
    <3>2. T[m.label] = T[n.label]
      BY <2>1, <3>1, SameTeam
    <3> QED BY <3>1, <3>2
  <2>2. CASE m.local # n.local
    <3>1. /\ m.local \in DOMAIN l2c /\ l2c[m.local] \in DOMAIN canonical
          /\ canonical[l2c[m.local]].type = "TEAM" /\ T[canonical[l2c[m.local]].label] = T[m.label]
      BY <2>2 DEF Inv, LiveLocals, TeamsInv, TeamLeads
    <3> QED BY <1>2, <1>4, <2>2, <3>1
  <2> QED BY <2>1, <2>2
<1> QED BY <1>6, <1>7, <1>8, <1>9

LEMMA ResolveKeepsTeams ==
  ASSUME NEW T, CodesTold(T), \A in \in Inputs : TeamsTold(T, in),
         Given, Inv, TeamsInv(T), NEW raw \in nodes, Resolve(raw)
  PROVE  TeamsInv(T)'
<1> DEFINE n == Prepare(raw)
<1>0. raw \in Nodes
  BY DEF Given, Nodes
<1>1. /\ n \in Node /\ ~done /\ seen' = seen \cup {n} /\ nodes' = nodes
      /\ Bound(n) \/ Registered(n)
  BY <1>0, BoundOrRegistered DEF TeamsInv
<1>2. n = Prepare(raw)
  OBVIOUS
<1>3. KindsAgree'
  BY <1>0, ResolveKinds DEF TeamsInv
<1>4. SeenGiven'
  BY <1>1 DEF TeamsInv, SeenGiven
<1> HIDE DEF n
<1>5. ASSUME Bound(n) PROVE TeamIds' /\ TeamAliases(T)' /\ TeamFuzzy(T)' /\ TeamLeads(T)'
  <2>1. PICK tier \in Tiers, o \in Canonical :
          Current(o) /\ o.type = n.type /\ Reached(o, n) /\ Bind(o, n, tier)
    BY <1>5 DEF Bound
  <2> QED BY <1>1, <1>2, <2>1, BindKeepsTeams
<1>6. ASSUME Registered(n) PROVE TeamIds' /\ TeamAliases(T)' /\ TeamFuzzy(T)' /\ TeamLeads(T)'
  <2>1. PICK tier \in Tiers, id \in Ids \ DOMAIN canonical :
          /\ \/ id \in ExactId(n)
             \/ PastFuzzy(n) /\ id = Suggested(n)
          /\ id.kind = Prefix[n.type] /\ Register(id, n, tier)
    BY <1>6 DEF Registered
  <2>2. n.type = "TEAM" => ExactId(n) = {}
    BY DEF ExactId
  <2> QED BY <1>1, <1>2, <2>1, <2>2, RegisterKeepsTeams
<1> QED BY <1>1, <1>3, <1>4, <1>5, <1>6 DEF TeamsInv

LEMMA TeamsHold ==
  ASSUME NEW T, CodesTold(T), \A in \in Inputs : TeamsTold(T, in)
  PROVE  Spec => []TeamsInv(T)
<1>1. Init => TeamsInv(T)
  BY DEF Init, NoEntries, TeamsInv, KindsAgree, SeenGiven, TeamIds, TeamAliases, TeamFuzzy, TeamLeads,
         Types
<1>2. Given /\ Inv /\ TeamsInv(T) /\ [Next]_vars => TeamsInv(T)'
  <2> SUFFICES ASSUME Given, Inv, TeamsInv(T), [Next]_vars PROVE TeamsInv(T)'
    OBVIOUS
  <2>1. CASE Finalize
    <3>1. /\ DOMAIN canonical' = DOMAIN canonical
          /\ \A i \in DOMAIN canonical :
               /\ canonical'[i].type = canonical[i].type /\ canonical'[i].label = canonical[i].label
               /\ canonical'[i].aliases = canonical[i].aliases
          /\ UNCHANGED <<nodes, l2c, fuzzy, seen>>
      BY <2>1, FinalizeWrites
    <3>2. KindsAgree' /\ SeenGiven' /\ TeamIds' /\ TeamAliases(T)'
      BY <3>1 DEF TeamsInv, KindsAgree, SeenGiven, TeamIds, TeamAliases
    <3>3. TeamFuzzy(T)'
      BY <3>1 DEF TeamsInv, TeamFuzzy, TeamLabels, Inv, IndexesAgree, Types
    <3>4. TeamLeads(T)'
      BY <3>1 DEF TeamsInv, TeamLeads, Inv, LiveLocals
    <3> QED BY <3>2, <3>3, <3>4 DEF TeamsInv
  <2>2. ASSUME NEW raw \in nodes, Resolve(raw) PROVE TeamsInv(T)'
    BY <2>2, ResolveKeepsTeams
  <2>3. CASE UNCHANGED vars
    BY <2>3 DEF vars, state, TeamsInv, KindsAgree, SeenGiven, TeamIds, TeamAliases, TeamFuzzy,
                TeamLabels, TeamLeads
  <2> QED BY <2>1, <2>2, <2>3 DEF Next
<1> QED BY <1>1, <1>2, NodesGiven, ResolutionInvariant, PTL DEF Spec

\* Two teams stay two nodes whatever codes, spellings and display names their
\* nodes share, in whatever order they are read (resolution.py, _find_alias,
\* _alias_compatible_for_team, _find_fuzzy).
TeamsStayApart(T) ==
  \A m, n \in seen : m.local.kind = "team" /\ n.local.kind = "team" /\ T[m.label] # T[n.label] =>
    l2c[m.local] # l2c[n.local]

THEOREM TeamsNeverMerge ==
  ASSUME NEW T, CodesTold(T), \A in \in Inputs : TeamsTold(T, in)
  PROVE  Spec => []TeamsStayApart(T)
<1>1. TeamsInv(T) => TeamsStayApart(T)
  BY DEF TeamsInv, TeamLeads, TeamsStayApart
<1> QED BY <1>1, TeamsHold, PTL

\* With labels that are alike whenever they mean one team, two nodes that a run
\* resolves to one TEAM have labels that are alike: no code brought them together.
THEOREM CodesMergeNoTeams ==
  ASSUME NEW T, CodesTold(T), \A in \in Inputs : TeamsTold(T, in),
         \A in \in Inputs : \A m, n \in in :
           /\ m.type = "TEAM" /\ n.type = "TEAM" /\ T[m.label] = T[n.label]
           /\ m.local.kind = "team" /\ n.local.kind = "team"
           => Alike(Display(m.label), Display(n.label))
  PROVE  Spec => []CodesNeverMergeTeams
<1>1. Given /\ TeamsInv(T) => CodesNeverMergeTeams
  <2> SUFFICES ASSUME Given, TeamsInv(T), NEW m \in seen, NEW n \in seen,
                      m.type = "TEAM", n.type = "TEAM",
                      m.local.kind = "team", n.local.kind = "team", ~Alike(m.label, n.label)
               PROVE  l2c[m.local] # l2c[n.local]
    <3>1. ~(0 > 0)
      OBVIOUS
    <3> QED BY <3>1, Zenon DEF CodesNeverMergeTeams, Alike
  <2>1. T[m.label] # T[n.label]
    <3>1. PICK a \in nodes : m = Prepare(a)
      BY DEF TeamsInv, SeenGiven
    <3>2. PICK b \in nodes : n = Prepare(b)
      BY DEF TeamsInv, SeenGiven
    <3>3. /\ a.type = "TEAM" /\ a.local.kind = "team" /\ m.label = Display(a.label)
          /\ T[m.label] = T[a.label]
      BY <3>1, TeamNode
    <3>4. /\ b.type = "TEAM" /\ b.local.kind = "team" /\ n.label = Display(b.label)
          /\ T[n.label] = T[b.label]
      BY <3>2, TeamNode
    <3> QED BY <3>3, <3>4 DEF Given
  <2> QED BY <2>1 DEF TeamsInv, TeamLeads
<1> QED BY <1>1, TeamsHold, NodesGiven, PTL
=============================================================================
