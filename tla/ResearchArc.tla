---------------------------- MODULE ResearchArc ----------------------------
(***************************************************************************)
(* configs/rules/research: the rule pack that drives a research request    *)
(* through its loops: plan, parallel gatherers, one synthesis, review,     *)
(* replan, and the way back to a coordinator.  A loop is a language-model  *)
(* session: it stamps one decision through the decide tool, which          *)
(* cmd/semteams/tools/researchdecide guards, and then completes; or it     *)
(* fails without one.  What a rule matches is never retracted, so a rule   *)
(* fires once per loop, at any time after its conditions hold.             *)
(***************************************************************************)
EXTENDS Integers, Sequences, FiniteSets

CONSTANTS
  MaxSubtopics,   \* research.MaxSubtopics: width of the fan-out
  Restricted,     \* restricted_decide_actions of the deployment
  MaxRounds       \* bound on decisions that start another plan

ASSUME ArcConstantsOK ==
  MaxSubtopics \in Nat \ {0} /\ MaxRounds \in Nat

VARIABLES
  loops,   \* the loops spawned so far, in order; a loop's id is its position
  fired    \* the <<rule, loop>> pairs that have been executed

vars == <<loops, fired>>

None == 0      \* no loop, no run
NoList == -1   \* decide without a subtopics argument

\* A run is named by the coordinator loop that opened it, and the run
\* entity's agent.run.outcome is kept there.
NewLoop(role, run) ==
  [role |-> role, run |-> run, plan |-> None, researcher |-> None,
   action |-> "none", subtopics |-> NoList, completed |-> {},
   outcome |-> "none", paused |-> FALSE, runOutcome |-> <<>>]

Ids == DOMAIN loops
Is(l, role) == loops[l].role = role
PackRoles == {"plan", "gather", "synthesize", "reviewer"}
Coordinators == {"front", "recovery", "wakeup"}

\* A user's message has reached the front-door coordinator.
Init == loops = <<NewLoop("front", None)>> /\ fired = {}

(***************************************************************************)
(* Loops                                                                   *)
(***************************************************************************)

\* action_allowlist of the rule that spawns the role.
Allowlist ==
  [plan |-> {"gather", "emit", "needs_clarification"},
   gather |-> {"synthesize", "needs_clarification"},
   synthesize |-> {"emit", "needs_clarification"},
   reviewer |-> {"approved", "insufficient", "needs_clarification"},
   front |-> {"research", "ask_user", "respond_direct"},
   recovery |-> {"research", "ask_user", "respond_direct"},
   wakeup |-> {"respond_direct", "ask_user"}]

Running(l) == loops[l].action = "none" /\ loops[l].outcome = "none"

\* What the decide tool lets through: anything else (a blank subtopic too) is
\* answered with an error that leaves the loop running and stamps nothing.
Admitted(role, action, n) ==
  /\ action \in Allowlist[role] \ Restricted
  /\ action = "gather" => n # NoList
  /\ n # NoList => n \in 1..MaxSubtopics

Again == {"research", "insufficient"}
Rounds == Cardinality({l \in Ids : loops[l].action \in Again})

\* The decision is stamped before the loop completes.
Decide(l, action, n) ==
  /\ Running(l)
  /\ Admitted(loops[l].role, action, n)
  /\ action \in Again => Rounds < MaxRounds
  /\ loops' = [loops EXCEPT ![l].action = action, ![l].subtopics = n]
  /\ UNCHANGED fired

\* Only a gatherer's success is read by a rule (03a); the other roles are
\* done when they have decided.
Complete(l) ==
  /\ Is(l, "gather") /\ loops[l].action # "none" /\ loops[l].outcome = "none"
  /\ loops' = [loops EXCEPT ![l].outcome = "success"]
  /\ UNCHANGED fired

\* A timeout, a panic, an exhausted budget: failed or truncated.
Fail(l) ==
  /\ Running(l)
  /\ loops' = [loops EXCEPT ![l].outcome = "failed"]
  /\ UNCHANGED fired

(***************************************************************************)
(* Rules                                                                   *)
(***************************************************************************)

Once(rule, l) == <<rule, l>> \notin fired /\ fired' = fired \cup {<<rule, l>>}
Decided(l, role, action) == Is(l, role) /\ loops[l].action = action
Spawn(children) == loops' = loops \o children

\* Triples are a set: a value is recorded once, in the order of arrival.
Stamped(run, value) ==
  LET old == loops[run].runOutcome
  IN IF \E i \in DOMAIN old : old[i] = value THEN loops
     ELSE [loops EXCEPT ![run].runOutcome = Append(old, value)]

\* 01: a coordinator's decision opens a new run.
SpawnPlan(l) ==
  /\ loops[l].role \in {"front", "recovery"} /\ loops[l].action = "research"
  /\ Once("01", l)
  /\ Spawn(<<NewLoop("plan", l)>>)

\* 02: one gatherer per subtopic.
FanOut(l) ==
  /\ Decided(l, "plan", "gather") /\ loops[l].subtopics \in 1..MaxSubtopics
  /\ Once("02", l)
  /\ Spawn([i \in 1..loops[l].subtopics |->
              [NewLoop("gather", loops[l].run) EXCEPT !.plan = l]])

\* 03a: the gatherer's id on its plan; a redelivery stamps it again.
StampCompletion(l) ==
  /\ Decided(l, "gather", "synthesize") /\ loops[l].outcome = "success"
  /\ loops' = [loops EXCEPT ![loops[l].plan].completed = @ \cup {l}]
  /\ UNCHANGED fired

\* Mutant: the guard against an empty fan-out is missing.
Unguarded_Join(l) ==
  /\ Is(l, "plan")
  /\ Cardinality(loops[l].completed) =
       IF loops[l].subtopics = NoList THEN 0 ELSE loops[l].subtopics
  /\ Once("03b", l)
  /\ Spawn(<<[NewLoop("synthesize", loops[l].run) EXCEPT
                !.plan = l, !.researcher = loops[l].researcher]>>)

\* 03b: the last stamp lets one synthesis start.
Join(l) ==
  /\ Is(l, "plan") /\ loops[l].subtopics > 0
  /\ Cardinality(loops[l].completed) = loops[l].subtopics
  /\ Once("03b", l)
  /\ Spawn(<<[NewLoop("synthesize", loops[l].run) EXCEPT
                !.plan = l, !.researcher = loops[l].researcher]>>)

\* 04: lineage "researcher" names the synthesis under review.
Review(l) ==
  /\ Decided(l, "synthesize", "emit")
  /\ Once("04", l)
  /\ Spawn(<<[NewLoop("reviewer", loops[l].run) EXCEPT !.researcher = l]>>)

\* Mutant: the new plan's lineage names the reviewer.
OwnId_Replan(l) ==
  /\ Decided(l, "reviewer", "insufficient")
  /\ Once("05", l)
  /\ Spawn(<<[NewLoop("plan", loops[l].run) EXCEPT !.researcher = l]>>)

\* 05: a new plan in the same run.
Replan(l) ==
  /\ Decided(l, "reviewer", "insufficient")
  /\ Once("05", l)
  /\ Spawn(<<[NewLoop("plan", loops[l].run) EXCEPT !.researcher = loops[l].researcher]>>)

\* 06: any role's question goes to a coordinator of the run.
Clarify(l) ==
  /\ loops[l].role \in PackRoles /\ loops[l].action = "needs_clarification"
  /\ Once("06", l)
  /\ Spawn(<<NewLoop("recovery", loops[l].run)>>)

\* Mutant: every verdict concludes the run.
AnyVerdict_Approve(l) ==
  /\ Is(l, "reviewer") /\ loops[l].action # "none"
  /\ Once("07_outcome", l)
  /\ loops' = Stamped(loops[l].run, "success")

\* 07: the run's outcome, then the coordinator that tells the user.
Approve(l) ==
  /\ Decided(l, "reviewer", "approved")
  /\ Once("07_outcome", l)
  /\ loops' = Stamped(loops[l].run, "success")

WakeUp(l) ==
  /\ Decided(l, "reviewer", "approved") /\ <<"07_outcome", l>> \in fired
  /\ Once("07_spawn", l)
  /\ Spawn(<<NewLoop("wakeup", loops[l].run)>>)

Failed(l) == loops[l].role \in PackRoles /\ loops[l].outcome = "failed"

\* 08: the operator's mark on the failed loop.
MarkFailed(l) ==
  /\ Failed(l)
  /\ Once("08", l)
  /\ loops' = [loops EXCEPT ![l].paused = TRUE]

\* Mutant: a gatherer's failure is left to its plan.
NotGather_LoopFailed(l) ==
  /\ Failed(l) /\ ~Is(l, "gather") /\ loops[l].run # None
  /\ Once("09", l)
  /\ loops' = Stamped(loops[l].run, "failed")

\* 09: the outcome on its run.
LoopFailed(l) ==
  /\ Failed(l) /\ loops[l].run # None
  /\ Once("09", l)
  /\ loops' = Stamped(loops[l].run, "failed")

\* agent-run 05: a coordinator of the run failed.
CoordinatorFailed(l) ==
  /\ loops[l].role \in Coordinators /\ loops[l].outcome = "failed" /\ loops[l].run # None
  /\ Once("agent_run_05", l)
  /\ loops' = Stamped(loops[l].run, "failed")

(***************************************************************************)
(* Specification                                                           *)
(***************************************************************************)

\* Subtopics a model may pass; no rule reads a list of any role but the plan.
Lists(l, action) ==
  CASE action = "gather" -> {NoList} \cup 0..(MaxSubtopics + 1)
    [] action # "gather" /\ Is(l, "plan") -> {NoList, 1}
    [] OTHER -> {NoList}

Session(l) ==
  \/ \E action \in Allowlist[loops[l].role] : \E n \in Lists(l, action) : Decide(l, action, n)
  \/ Complete(l) \/ Fail(l)

Rule(l) ==
  \/ SpawnPlan(l) \/ FanOut(l) \/ StampCompletion(l) \/ Join(l) \/ Review(l)
  \/ Replan(l) \/ Clarify(l) \/ Approve(l) \/ WakeUp(l)
  \/ MarkFailed(l) \/ LoopFailed(l) \/ CoordinatorFailed(l)

Next == \E l \in Ids : Session(l) \/ Rule(l)

\* Every session ends, by its iteration ceiling or its timeout, and the engine
\* executes the rules that match.
Spec == Init /\ [][Next]_vars /\ WF_vars(Next)

(***************************************************************************)
(* Properties                                                              *)
(***************************************************************************)

LoopType ==
  [role : PackRoles \cup Coordinators, run : Ids \cup {None}, plan : Ids \cup {None},
   researcher : Ids \cup {None}, action : (UNION {Allowlist[r] : r \in DOMAIN Allowlist}) \cup {"none"},
   subtopics : {NoList} \cup 1..MaxSubtopics, completed : SUBSET Ids,
   outcome : {"none", "success", "failed"}, paused : BOOLEAN]

\* Types of the variables; every list of subtopics the decide tool lets through
\* is one that rule 02 can fan out.
TypeOK ==
  /\ \A l \in Ids :
       /\ [f \in DOMAIN loops[l] \ {"runOutcome"} |-> loops[l][f]] \in LoopType
       /\ loops[l].runOutcome \in {<<>>, <<"success">>, <<"failed">>,
                                   <<"success", "failed">>, <<"failed", "success">>}
  /\ \A f \in fired : f[2] \in Ids

Gatherers(p) == {g \in Ids : Is(g, "gather") /\ loops[g].plan = p}

\* The join: a synthesis starts once per plan, and not before every gatherer of
\* that plan has delivered, in whatever order and however often they stamp.
JoinExact ==
  /\ TypeOK
  /\ \A s \in Ids : Is(s, "synthesize") =>
       LET p == loops[s].plan
       IN /\ Gatherers(p) # {} /\ Cardinality(Gatherers(p)) = loops[p].subtopics
          /\ \A g \in Gatherers(p) : loops[g].action = "synthesize" /\ loops[g].outcome = "success"
          /\ \A t \in Ids : Is(t, "synthesize") /\ loops[t].plan = p => t = s

\* agent-run/04: "a failed loop wedges the chain so no success terminal is
\* reached, and a success terminal means every loop completed": the pack never
\* gives a run two outcomes.  Only the coordinator woken after the approval may
\* add a second one, and then the first is success.
OneVerdict ==
  \A r \in Ids :
    Len(loops[r].runOutcome) > 1 =>
      /\ loops[r].runOutcome[1] = "success"
      /\ \A l \in Ids : loops[l].run = r /\ loops[l].outcome = "failed" => Is(l, "wakeup")

\* The synthesis of a replanned arc is told which artifact was rejected: through
\* rules 04, 05 and 03b, its "researcher" is the latest earlier synthesis of the
\* run, and the reviewer of that one found it insufficient.
PriorIsRejected ==
  \A s \in Ids : Is(s, "synthesize") =>
    LET earlier == {t \in 1..(s - 1) : Is(t, "synthesize") /\ loops[t].run = loops[s].run}
        prior == loops[s].researcher
    IN IF earlier = {} THEN prior = None
       ELSE /\ prior \in earlier /\ \A t \in earlier : t <= prior
            /\ \E v \in Ids : Decided(v, "reviewer", "insufficient") /\ loops[v].researcher = prior

Opened(r) == <<"01", r>> \in fired
Returned(r) == \E c \in Ids : Is(c, "recovery") /\ loops[c].run = r /\ loops[c].action # "none"
EmittedByPlan(r) == \E p \in Ids : Decided(p, "plan", "emit") /\ loops[p].run = r
Reviewed(r) == \E v \in Ids : Is(v, "reviewer") /\ loops[v].run = r

\* No run is forgotten: it gets an outcome or a coordinator takes the question
\* back, although one missing gatherer stops the join for good.  A plan that
\* emits is the exception (PlanEmitReviewed).
NoRunForgotten ==
  []<>(\A r \in Ids :
         Opened(r) => loops[r].runOutcome # <<>> \/ Returned(r) \/ EmittedByPlan(r))

\* researcher-research-plan/00-identity.md 43-46: an emit straight from the plan
\* is "allowed structurally but reviewer-research will reject" it: somebody
\* reviews it.
PlanEmitReviewed == []<>(\A r \in Ids : EmittedByPlan(r) => Reviewed(r))
=============================================================================
