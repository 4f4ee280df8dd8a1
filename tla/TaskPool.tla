------------------------------ MODULE TaskPool ------------------------------
(***************************************************************************)
(* What the rest of infer.py takes an LLM pass for: tasks wait, a bounded   *)
(* number of them is with a worker, each ends once, answered or failed.     *)
(***************************************************************************)
EXTENDS Naturals, FiniteSets

CONSTANT Task

VARIABLES
  workers,  \* how many tasks may be with a worker
  waiting, busy, answered, failed

poolVars == <<workers, waiting, busy, answered, failed>>

Init ==
  /\ workers \in Nat \ {0}
  /\ waiting = {} /\ busy = {} /\ answered = {} /\ failed = {}

Submit ==
  /\ <<waiting, busy, answered, failed>> = <<{}, {}, {}, {}>>
  /\ waiting' \in SUBSET Task
  /\ UNCHANGED <<workers, busy, answered, failed>>

Take(t) ==
  /\ t \in waiting /\ Cardinality(busy) < workers
  /\ waiting' = waiting \ {t} /\ busy' = busy \cup {t}
  /\ UNCHANGED <<workers, answered, failed>>

Answer(t) ==
  /\ t \in busy
  /\ busy' = busy \ {t} /\ answered' = answered \cup {t}
  /\ UNCHANGED <<workers, waiting, failed>>

Fail(t) ==
  /\ t \in busy
  /\ busy' = busy \ {t} /\ failed' = failed \cup {t}
  /\ UNCHANGED <<workers, waiting, answered>>

Next == Submit \/ \E t \in Task : Take(t) \/ Answer(t) \/ Fail(t)

\* Every task that was submitted ends.
EveryTaskEnds == \A t \in Task : t \in waiting ~> t \in answered \cup failed

Safety == Init /\ [][Next]_poolVars

Spec == Safety /\ EveryTaskEnds
=============================================================================
