---------------------------- MODULE FragmentCache ----------------------------
(***************************************************************************)
(* What `infer --resume` promises: build/fragments is a cache with at most *)
(* one entry per event, the plan its completed fragment was inferred for.  *)
(* A run wants a plan for every event it selects; it is only ever served an *)
(* entry of exactly that plan, and only an entry of another plan is evicted.*)
(***************************************************************************)
CONSTANTS Events, Plans, Absent

VARIABLES
  cache,  \* the plan of the reusable fragment of every event
  want,   \* the plan the running process wants for every selected event
  served  \* the events it has obtained a fragment for

vars == <<cache, want, served>>

Nothing == [e \in Events |-> Absent]

Init == cache = Nothing /\ want = Nothing /\ served = {}

Begin ==
  /\ want = Nothing
  /\ want' \in [Events -> Plans \cup {Absent}]
  /\ UNCHANGED <<cache, served>>

Wanted(e) == want[e] # Absent /\ e \notin served

Evict(e) ==
  /\ Wanted(e)
  /\ cache[e] # want[e]
  /\ cache' = [cache EXCEPT ![e] = Absent]
  /\ UNCHANGED <<want, served>>

Store(e) ==
  /\ Wanted(e)
  /\ cache[e] = Absent
  /\ cache' = [cache EXCEPT ![e] = want[e]]
  /\ UNCHANGED <<want, served>>

\* From the cache, or stored and served in one step.
Serve(e) ==
  /\ Wanted(e)
  /\ cache[e] \in {Absent, want[e]}
  /\ cache' = [cache EXCEPT ![e] = want[e]]
  /\ served' = served \cup {e}
  /\ UNCHANGED want

\* The process ends; a kill may cost the entry that was being written.
End ==
  /\ want' = Nothing /\ served' = {}
  /\ \/ UNCHANGED cache
     \/ \E e \in Events : Wanted(e) /\ cache' = [cache EXCEPT ![e] = Absent]

Next ==
  \/ Begin
  \/ \E e \in Events : Evict(e) \/ Store(e) \/ Serve(e)
  \/ End

Spec == Init /\ [][Next]_vars
=============================================================================
