---------------------------- MODULE Autoresearch ----------------------------
(***************************************************************************)
(* configs/rules/autoresearch with its tools emit_autoresearch_baseline,   *)
(* emit_autoresearch_measurement and emit_autoresearch_artifact: one run   *)
(* that proposes, executes and measures up to a cap, keeps the best        *)
(* measurement, and hands its result back to the coordinator that opened   *)
(* it.  Where the artifact is written is in SandboxManager.  Triples are   *)
(* kept per (subject, predicate, object): Append adds values beside the    *)
(* old ones, of which a rule reads the first and chain.ReadEntity the      *)
(* last; reconcile replaces them all.  The engine executes one rule's      *)
(* actions at a time; rules that match different revisions of a loop       *)
(* execute in either order (metadata of rule 04c: the order is undefined). *)
(***************************************************************************)
EXTENDS Integers, Sequences, FiniteSets, SequencesExt

CONSTANTS
  Values,     \* measurements
  Limits      \* sets of bounds [cap, baselines, measures, reviews]: the cap the
              \* baseline emits; what the calls of its tool report, in order; how
              \* often the measurement tool is called per execute loop; reviewer loops

ASSUME AutoresearchConstantsOK ==
  /\ Values \subseteq Nat \ {0} /\ Values # {}
  /\ Limits \subseteq [cap : Nat \ {0}, baselines : Seq(Values), measures : Nat, reviews : Nat]

VARIABLES
  loops,    \* the loops spawned so far; a loop's id is its position
  run,      \* the run entity, and the bounds of this behaviour
  driver,   \* selected firings of rule 05: their iteration numbers, in order
  fired,    \* executed <<rule, loop>> pairs
  woken     \* kinds of reply for which a coordinator was spawned

vars == <<loops, run, driver, fired, woken>>

None == 0
Kinds == {"approved", "clarification", "failed"}

NoRollup == [kept |-> 0, value |-> 0, experiment |-> None, clean |-> TRUE]

NewLoop(role) ==
  [role |-> role, action |-> "none", outcome |-> "none", seen |-> None,
   measured |-> <<>>, rollup |-> NoRollup]

Ids == DOMAIN loops
Is(l, role) == loops[l].role = role
Spawn(role) == loops' = Append(loops, NewLoop(role))

\* Rule 01 has fired: the coordinator's decision opened the run.
Init ==
  /\ loops = <<NewLoop("baseline")>>
  /\ \E limit \in Limits :
       run = [limit |-> limit, status |-> "none", pending |-> FALSE, iteration |-> 0,
              best |-> <<>>, experiment |-> None, completed |-> {}, outcome |-> <<>>,
              phase |-> "executing", reply |-> [k \in Kinds |-> {}], baselines |-> <<>>]
  /\ driver = <<>> /\ fired = {}
  /\ woken = {}

\* Values of a predicate after one more Append: a triple is recorded once.
Appended(old, v) == IF v \in ToSet(old) THEN old ELSE Append(old, v)

(***************************************************************************)
(* Rule 05's conditions, and a new revision of the run entity: the rule is *)
(* selected, under the next iteration number, when they turn true.         *)
(***************************************************************************)
Matches05(r) == r.status = "active" /\ r.pending

\* Mutant: a revision on which the conditions still hold selects the rule again.
Level_Revise(r) ==
  LET entered == Matches05(r)
      next == [r EXCEPT !.iteration = IF entered THEN @ + 1 ELSE @]
  IN run' = next /\ driver' = IF entered THEN Append(driver, next.iteration) ELSE driver

Revise(r) ==
  LET entered == ~Matches05(run) /\ Matches05(r)
      next == [r EXCEPT !.iteration = IF entered THEN @ + 1 ELSE @]
  IN run' = next /\ driver' = IF entered THEN Append(driver, next.iteration) ELSE driver

(***************************************************************************)
(* Sessions                                                                *)
(***************************************************************************)
Allowlist ==
  [baseline |-> {"propose", "needs_clarification"},
   propose |-> {"measure", "needs_clarification"},
   execute |-> {"measured", "needs_clarification"},
   synthesize |-> {"emit", "needs_clarification"},
   reviewer |-> {"approved", "insufficient", "needs_clarification"}]

Kept(l) == loops[l].measured # <<>> /\ Head(loops[l].measured).verdict = "kept"

\* Rule 04c is between its two writes.
Half(l) == <<"04c_value", l>> \in fired /\ <<"04c_id", l>> \notin fired

Running(l) == loops[l].action = "none" /\ loops[l].outcome = "none"

\* The batch of emit_autoresearch_baseline.  Another call may bring another value,
\* which joins the best ones; of another cap, rule 05 goes on reading the first.
BaselineTriples(r, value) ==
  [r EXCEPT !.status = IF @ = "none" THEN "active" ELSE @, !.pending = TRUE,
            !.best = Appended(@, value), !.baselines = Append(@, value)]

\* emit_autoresearch_baseline.  An error reply leaves open whether the batch was
\* applied, so the model may call it again.
EmitBaseline(l) ==
  /\ Is(l, "baseline") /\ Running(l) /\ Len(run.baselines) < Len(run.limit.baselines)
  /\ Revise(BaselineTriples(run, run.limit.baselines[Len(run.baselines) + 1]))
  /\ UNCHANGED <<loops, fired, woken>>

\* emit_autoresearch_measurement, first half: read best.value off the run.
ReadBestValue(l) ==
  /\ Is(l, "execute") /\ Running(l) /\ loops[l].seen = None
  /\ Len(loops[l].measured) < run.limit.measures
  /\ run.best # <<>>
  /\ loops' = [loops EXCEPT ![l].seen = Last(run.best)]
  /\ UNCHANGED <<run, driver, fired, woken>>

compareOutcome(value, pass, best) ==
  IF ~pass THEN "crashed" ELSE IF value < best THEN "kept" ELSE "reverted"

executeTriples(value, pass, best) ==
  [value |-> value, verdict |-> compareOutcome(value, pass, best)]

\* Second half: compare, and Append to the execute loop.
Measure(l, value, pass) ==
  /\ Is(l, "execute") /\ Running(l) /\ loops[l].seen # None
  /\ loops' = [loops EXCEPT
       ![l].measured = Append(@, executeTriples(value, pass, loops[l].seen)), ![l].seen = None]
  /\ UNCHANGED <<run, driver, fired, woken>>

\* parsedArgs.validate: the best experiment is the baseline exactly when no
\* iteration was kept.
validate(kept, experiment) == (kept = 0) <=> (experiment = None)

\* emit_autoresearch_artifact, by a synthesize loop that tells what the graph
\* says.  clean records whether a promotion was between its two writes, or the
\* baseline emitted again.
EmitRollup(l) ==
  LET kept == Cardinality({x \in Ids : Is(x, "execute") /\ Kept(x)})
  IN /\ Is(l, "synthesize") /\ Running(l) /\ loops[l].rollup = NoRollup /\ run.best # <<>>
     /\ validate(kept, run.experiment)
     /\ loops' = [loops EXCEPT ![l].rollup =
          [kept |-> kept, value |-> Last(run.best), experiment |-> run.experiment,
           clean |-> Len(run.baselines) = 1 /\ \A x \in Ids : ~Half(x)]]
     /\ UNCHANGED <<run, driver, fired, woken>>

\* The decision is stamped before the loop completes.
Decide(l, action) ==
  /\ Running(l) /\ loops[l].seen = None /\ action \in Allowlist[loops[l].role]
  /\ loops' = [loops EXCEPT ![l].action = action]
  /\ UNCHANGED <<run, driver, fired, woken>>

\* Success is read after these decisions only (rules 04a, 08, 10b).
Complete(l) ==
  /\ loops[l].action \in {"measured", "approved", "needs_clarification"}
  /\ ~Is(l, "baseline") /\ loops[l].outcome = "none"
  /\ loops' = [loops EXCEPT ![l].outcome = "success"]
  /\ UNCHANGED <<run, driver, fired, woken>>

\* The rules for the other roles match failed and truncated alike.
Fail(l) ==
  /\ Running(l)
  /\ \E outcome \in IF Is(l, "execute") THEN {"failed", "truncated"} ELSE {"failed"} :
       loops' = [loops EXCEPT ![l].outcome = outcome]
  /\ UNCHANGED <<run, driver, fired, woken>>

\* Nothing reads the number of a measurement that crashed.
AnyValue == CHOOSE value \in Values : TRUE

Session(l) ==
  \/ EmitBaseline(l) \/ ReadBestValue(l) \/ EmitRollup(l)
  \/ \E value \in Values : Measure(l, value, TRUE)
  \/ Measure(l, AnyValue, FALSE)
  \/ \E action \in Allowlist[loops[l].role] : Decide(l, action)
  \/ Complete(l) \/ Fail(l)

(***************************************************************************)
(* Rules that fire on loops                                                *)
(***************************************************************************)
Fires(rule, l) == <<rule, l>> \notin fired /\ fired' = fired \cup {<<rule, l>>}
Decided(l, role, action) == Is(l, role) /\ loops[l].action = action
Succeeded(l) == loops[l].outcome = "success"
Failed(l) == loops[l].outcome \in {"failed", "truncated"}

\* 03
ProposeToExecute(l) ==
  /\ Decided(l, "propose", "measure")
  /\ Fires("03", l) /\ Spawn("execute")
  /\ UNCHANGED <<run, driver, woken>>

\* 04a: the slot is used up and the driver is asked for the next iteration.
StampCompletion(l) ==
  /\ Decided(l, "execute", "measured") /\ Succeeded(l)
  /\ Fires("04a", l)
  /\ Revise([run EXCEPT !.completed = @ \cup {l}, !.pending = TRUE])
  /\ UNCHANGED <<loops, woken>>

\* Mutant: a crashed execute pauses the chain instead of using up its slot.
Uncounted_StampFailed(l) ==
  /\ Is(l, "execute") /\ loops[l].outcome = "failed"
  /\ Fires("04b", l)
  /\ UNCHANGED <<run, driver>>
  /\ UNCHANGED <<loops, woken>>

\* 04b: only outcome = failed.
StampFailed(l) ==
  /\ Is(l, "execute") /\ loops[l].outcome = "failed"
  /\ Fires("04b", l)
  /\ Revise([run EXCEPT !.completed = @ \cup {l}, !.pending = TRUE])
  /\ UNCHANGED <<loops, woken>>

\* Mutant: the promoted value is the last one the loop appended.
LastValue_PromoteValue(l) ==
  /\ Is(l, "execute") /\ Kept(l)
  /\ Fires("04c_value", l)
  /\ Revise([run EXCEPT !.best = <<Last(loops[l].measured).value>>])
  /\ UNCHANGED <<loops, woken>>

\* 04c, two reconciles: the value, then the experiment it belongs to.
PromoteValue(l) ==
  /\ Is(l, "execute") /\ Kept(l)
  /\ Fires("04c_value", l)
  /\ Revise([run EXCEPT !.best = <<Head(loops[l].measured).value>>])
  /\ UNCHANGED <<loops, woken>>

PromoteId(l) ==
  /\ Half(l)
  /\ Fires("04c_id", l)
  /\ Revise([run EXCEPT !.experiment = l])
  /\ UNCHANGED <<loops, woken>>

\* 07 and 09
SynthesizeToReviewer(l) ==
  /\ Decided(l, "synthesize", "emit")
  /\ Cardinality({v \in Ids : Is(v, "reviewer")}) < run.limit.reviews
  /\ Fires("07", l) /\ Spawn("reviewer")
  /\ UNCHANGED <<run, driver, woken>>

Resynthesize(l) ==
  /\ Decided(l, "reviewer", "insufficient")
  /\ Fires("09", l) /\ Spawn("synthesize")
  /\ UNCHANGED <<run, driver, woken>>

\* 08, and 10b for every role but baseline.
ReviewerApproved(l) ==
  /\ Decided(l, "reviewer", "approved") /\ Succeeded(l)
  /\ Fires("08", l)
  /\ Revise([run EXCEPT !.reply["approved"] = @ \cup {l}, !.outcome = Appended(@, "success")])
  /\ UNCHANGED <<loops, woken>>

DescendedClarification(l) ==
  /\ ~Is(l, "baseline") /\ loops[l].action = "needs_clarification" /\ Succeeded(l)
  /\ Fires("10b", l)
  /\ Revise([run EXCEPT !.reply["clarification"] = @ \cup {l}])
  /\ UNCHANGED <<loops, woken>>

\* 10: a coordinator inside the run.
BaselineClarification(l) ==
  /\ Decided(l, "baseline", "needs_clarification")
  /\ Fires("10", l)
  /\ woken' = woken \cup {"baseline"}
  /\ UNCHANGED <<loops, run, driver>>

\* 12 and 13 (11 marks the failed loop for the operator): any role but execute.
LoopFailed(l) ==
  /\ ~Is(l, "execute") /\ Failed(l)
  /\ Fires("12/13", l)
  /\ Revise([run EXCEPT !.reply["failed"] = @ \cup {l}, !.outcome = Appended(@, "failed")])
  /\ UNCHANGED <<loops, woken>>

(***************************************************************************)
(* Rules that fire on the run and on the coordinator's loop                *)
(***************************************************************************)

\* Mutant: one experiment more than the cap.
OneMore_MayPropose(n) == n <= run.limit.cap + 1

MayPropose(n) == n <= run.limit.cap

\* 05: clear the marker, then spawn what the iteration number says; after the cap
\* the run is stopped.
Cleared == driver # <<>> /\ <<"05_clear", Head(driver)>> \in fired

ClearPending ==
  /\ driver # <<>> /\ ~Cleared
  /\ fired' = fired \cup {<<"05_clear", Head(driver)>>}
  /\ Revise([run EXCEPT !.pending = FALSE])
  /\ UNCHANGED <<loops, woken>>

Propose ==
  /\ Cleared /\ MayPropose(Head(driver))
  /\ Spawn("propose")
  /\ driver' = Tail(driver)
  /\ UNCHANGED <<run, fired, woken>>

Synthesize ==
  /\ Cleared /\ ~MayPropose(Head(driver)) /\ <<"05_synthesize", Head(driver)>> \notin fired
  /\ Spawn("synthesize")
  /\ fired' = fired \cup {<<"05_synthesize", Head(driver)>>}
  /\ UNCHANGED <<run, driver, woken>>

\* The status makes rule 05's conditions false, whatever is stamped later.
StopRun ==
  /\ Cleared /\ ~MayPropose(Head(driver)) /\ <<"05_synthesize", Head(driver)>> \in fired
  /\ run' = [run EXCEPT !.status = "stopped"]
  /\ driver' = Tail(driver)
  /\ UNCHANGED <<loops, fired, woken>>

\* agent-run 03 and 04: the first outcome decides the phase.
Conclude ==
  /\ run.phase = "executing" /\ run.outcome # <<>>
  /\ run' = [run EXCEPT !.phase = IF Head(run.outcome) = "success" THEN "completed" ELSE "failed"]
  /\ UNCHANGED <<loops, driver, fired, woken>>

PhaseOf(kind) ==
  CASE kind = "approved" -> "completed" [] kind = "failed" -> "failed"
    [] kind = "clarification" -> "executing"

\* 14, 16 and 18 copy exactly one value, in the phase that fits, to the loop of
\* the coordinator that opened the run; 15, 17 and 19 spawn one who tells the user.
ResultToCoordinator(kind) ==
  /\ run.phase = PhaseOf(kind) /\ Cardinality(run.reply[kind]) = 1
  /\ kind \notin woken
  /\ woken' = woken \cup {kind}
  /\ UNCHANGED <<loops, run, driver, fired>>

OnLoop(l) ==
  \/ ProposeToExecute(l) \/ StampCompletion(l) \/ StampFailed(l) \/ PromoteValue(l)
  \/ SynthesizeToReviewer(l) \/ Resynthesize(l) \/ ReviewerApproved(l)
  \/ DescendedClarification(l) \/ BaselineClarification(l) \/ LoopFailed(l)

OnRun == Conclude \/ \E kind \in Kinds : ResultToCoordinator(kind)

\* One rule at a time: what has begun is finished first.
Engine ==
  \/ \E l \in Ids : PromoteId(l)
  \/ /\ \A l \in Ids : ~Half(l)
     /\ \/ ClearPending \/ Propose \/ Synthesize \/ StopRun
        \/ ~Cleared /\ OnRun
        \/ ~Cleared /\ \E l \in Ids : OnLoop(l)

Next == Engine \/ \E l \in Ids : Session(l)

\* Sessions end by their iteration ceilings, and the engine goes on.
Spec == Init /\ [][Next]_vars /\ WF_vars(Next)
-----------------------------------------------------------------------------
Roles(role) == {l \in Ids : Is(l, role)}

\* Types; the run has a best value exactly from the first baseline on.
TypeOK ==
  /\ \A l \in Ids :
       /\ loops[l].action \in Allowlist[loops[l].role] \cup {"none"}
       /\ loops[l].outcome \in {"none", "success", "failed", "truncated"}
       /\ loops[l].seen \in Values \cup {None}
  /\ run.status \in {"none", "active", "stopped"} /\ Len(run.baselines) <= Len(run.limit.baselines)
  /\ (run.best = <<>>) <=> (run.baselines = <<>>)
  /\ run.completed \subseteq Roles("execute") /\ woken \subseteq Kinds \cup {"baseline"}

\* The budget: however often baselines, measurements and stamps are repeated,
\* there are never more experiments than the cap, and the run is stopped only
\* when all of them were dispatched.
BudgetKept ==
  /\ TypeOK
  /\ Cardinality(Roles("propose")) <= run.limit.cap
  /\ Cardinality(run.completed) <= Cardinality(Roles("execute"))
  /\ Cardinality(Roles("execute")) <= Cardinality(Roles("propose"))
  /\ run.status = "stopped" => Cardinality(Roles("propose")) = run.limit.cap

\* Propose and execute edit one working tree: never two at a time, as long as the
\* baseline was emitted once.
OneEditor ==
  Len(run.baselines) <= 1 =>
    Cardinality({l \in Roles("propose") \cup Roles("execute") : Running(l)}) <= 1

\* The value improves on a baseline the run was given.
Beats(value) == \E b \in ToSet(run.baselines) : value < b

\* The best value and the experiment it is credited to belong together, in any
\* order of promotions and repeated calls: it is the first baseline, or what a kept
\* experiment measured, which beats the baseline (one of them, if the tool was
\* called again with another).  So it is in a rollup the tool accepted, whenever it
\* was emitted: it names an experiment exactly when it counts one as kept, that
\* experiment was kept, and the value is the one it measured, unless the run was
\* read between the two writes of a promotion or after a second baseline.
BestNamesExperiment ==
  /\ (run.best # <<>> /\ \A l \in Ids : ~Half(l)) =>
       IF run.experiment = None THEN Head(run.best) = Head(run.baselines)
       ELSE /\ Kept(run.experiment)
            /\ Head(run.best) = Head(loops[run.experiment].measured).value
            /\ Beats(Head(run.best))
  /\ \A l \in Roles("synthesize") : LET r == loops[l].rollup IN
       r # NoRollup =>
         /\ (r.kept = 0) <=> (r.experiment = None)
         /\ r.experiment # None => Kept(r.experiment)
         /\ r.clean => r.value = IF r.experiment = None THEN Head(run.baselines)
                                 ELSE Head(loops[r.experiment].measured).value

\* What no rule matches: a truncated execute, a baseline that decides propose
\* without having emitted, a reply that came twice before it was handed on.
Wedged ==
  \/ \E l \in Roles("execute") : loops[l].outcome = "truncated"
  \/ run.baselines = <<>> /\ \E l \in Ids : Decided(l, "baseline", "propose")
  \/ \E kind \in Kinds : Cardinality(run.reply[kind]) > 1
  \/ Cardinality(Roles("reviewer")) = run.limit.reviews

\* Nobody waits for ever: the user hears of the run through a coordinator.
UserTold == []<>(woken # {} \/ Wedged)
=============================================================================
