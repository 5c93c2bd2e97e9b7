-------------------------- MODULE MessageLifecycle --------------------------
(***************************************************************************)
(* What the archive promises about the status of a message                 *)
(* (docs/data-schema-reference.md:18): it becomes known as pending, and    *)
(* then once, and for good, gets an outcome that its own destination chain *)
(* reported.                                                               *)
(***************************************************************************)
CONSTANTS
  Messages,
  Reported    \* Reported[m]: the outcomes the chains report of message m

VARIABLES
  known,      \* messages that are stored
  outcome     \* outcome[m]: {} while pending, then the outcome's singleton

lifecycleVars == <<known, outcome>>

Init ==
  /\ known = {}
  /\ outcome = [m \in Messages |-> {}]

Observe(m) ==
  /\ m \notin known
  /\ known' = known \cup {m}
  /\ UNCHANGED outcome

Conclude(m) ==
  /\ m \in known
  /\ outcome[m] = {}
  /\ \E o \in Reported[m] : outcome' = [outcome EXCEPT ![m] = {o}]
  /\ UNCHANGED known

Next == \E m \in Messages : Observe(m) \/ Conclude(m)

Spec == Init /\ [][Next]_lifecycleVars
=============================================================================
