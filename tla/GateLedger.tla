----------------------------- MODULE GateLedger -----------------------------
(***************************************************************************)
(* What the approval projection promises about a run, without revisions,   *)
(* handlers or messages: every run entity carries the set of tool-approval *)
(* gates it has seen, the set of those that were answered, and the number  *)
(* of gates still open, and one indivisible step records one gate.         *)
(* A run whose sets predate the count (storage written before the count    *)
(* existed) is never written.                                              *)
(***************************************************************************)
EXTENDS Integers, FiniteSets

CONSTANTS Runs, Gates

VARIABLES observed,  \* observed[r]: gates recorded as pending on run r
          settled,   \* settled[r]: gates recorded as answered on run r
          open       \* open[r]: number of unanswered gates, NoCount if never derived

vars == <<observed, settled, open>>

NoCount == -1

Writable(r) == open[r] = NoCount => observed[r] = {} /\ settled[r] = {}

Init ==
  /\ observed \in [Runs -> SUBSET Gates]
  /\ settled \in [Runs -> SUBSET Gates]
  /\ open = [r \in Runs |-> NoCount]

Observe(r, g) ==
  /\ Writable(r)
  /\ observed' = [observed EXCEPT ![r] = @ \cup {g}]
  /\ open' = [open EXCEPT ![r] = Cardinality(observed[r] \cup {g}) - Cardinality(settled[r])]
  /\ UNCHANGED settled

Settle(r, g) ==
  /\ Writable(r)
  /\ observed' = [observed EXCEPT ![r] = @ \cup {g}]
  /\ settled' = [settled EXCEPT ![r] = @ \cup {g}]
  /\ open' = [open EXCEPT ![r] = Cardinality(observed[r] \cup {g})
                                 - Cardinality(settled[r] \cup {g})]

Next == \E r \in Runs, g \in Gates : Observe(r, g) \/ Settle(r, g)

Spec == Init /\ [][Next]_vars
=============================================================================
