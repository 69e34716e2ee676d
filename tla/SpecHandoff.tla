---------------------------- MODULE SpecHandoff ----------------------------
(***************************************************************************)
(* From a reviewed change to its implementation: emit_change writes the    *)
(* draft on the run entity, the create-change pack reviews it,             *)
(* analyze_proof_readiness and /implement-spec judge the proof facts of    *)
(* the run, the proof-readiness pack routes the verdict, dev-from-task     *)
(* starts a walker, and project_spec_tasks turns the change into a plan.   *)
(* Every writer appends: a predicate keeps all its values in the order of  *)
(* arrival, a rule reads the first of them and chain.ReadEntity the last.  *)
(* The packs are parked in the shipped configuration; their predicates are *)
(* taken to be the ones that loops and tools write.                        *)
(***************************************************************************)
EXTENDS Integers, Sequences, SequencesExt, FiniteSets, FiniteSetsExt, Bags

CONSTANTS
  Worlds,     \* what a behaviour starts from: [facts, drafts, commands, anchors,
              \* calls, until], the last two bounds on the calls and on the clock
  Slugified,  \* slug.Slugify of requirement names; "" when nothing is left
  Suffixed,   \* <<rid, n>> with the suffix "-n"
  MaxInFlight, MaxEmissions   \* bounds

VARIABLES
  world,   \* the index in Worlds of the one this behaviour is in
  facts,   \* the proof facts the run carries, one version after the other
  stage,   \* which of them it carries now
  now,     \* the clock
  arc,     \* where each loop is
  enacted, \* the <<rule, loop>> pairs that have been executed
  run,     \* the run entity
  queue,   \* rules selected by a revision of the run and not yet finished
  calls,   \* the bag of tool and command calls under way
  begun    \* calls begun

World == Worlds[world]

handoffVars == <<world, facts, stage, now, arc, enacted, run, queue, calls, begun>>

-----------------------------------------------------------------------------
\* The analyzer: pure functions of the facts and the clock.

Nothing == 0     \* no id
Never == -1      \* no expires_at
Unreadable == -2 \* an expires_at that does not parse
NoText == ""     \* a text that is not there

Field(r, f, default) == IF f \in DOMAIN r THEN r[f] ELSE default

\* What a world may hold: lists are sequences, dates are numbers, a run has some
\* version of its facts and a draft some fields.
Listed(s) == s \in Seq(Range(s))
DatesOK(raw) ==
  \A x \in Range(raw.waivers) \cup Range(raw.readiness) : Field(x, "expires", Never) \in Int
DraftOK(p) ==
  /\ Listed(p.deltas) /\ Listed(p.tasks)
  /\ \A d \in Range(p.deltas) : Listed(d.added) /\ Listed(d.modified) /\ Listed(d.removed)

ASSUME HandoffConstantsOK ==
  /\ MaxInFlight \in Nat /\ MaxEmissions \in Nat
  /\ \A n \in DOMAIN Worlds :
       /\ Worlds[n].calls \in Nat /\ Worlds[n].until \in Nat \ {0}
       /\ \A versions \in Worlds[n].facts :
            Listed(versions) /\ versions # << >> /\ \A raw \in Range(versions) : DatesOK(raw)
       /\ \A p \in Worlds[n].drafts : DraftOK(p)

\* Statuses and routes are compared in lower case.
normalizeStatus(s) ==
  CASE s = "Accepted" -> "accepted" [] s = "READY" -> "ready"
    [] s = "Coordinator" -> "coordinator" [] OTHER -> s

\* The items of a list value without the blank ones.
stringList(xs) == ToSet(xs) \ {Nothing}

ParseProofFacts(raw) ==
  [claims |-> [c \in DOMAIN raw.claims |->
     [status |-> normalizeStatus(Field(raw.claims[c], "status", NoText)),
      requires |-> stringList(Field(raw.claims[c], "requires", << >>)),
      conflicts |-> stringList(Field(raw.claims[c], "conflicts", << >>))]],
   deps |-> [d \in DOMAIN raw.deps |->
     [status |-> normalizeStatus(Field(raw.deps[d], "status", NoText)),
      profile |-> Field(raw.deps[d], "profile", Nothing),
      route |-> normalizeStatus(Field(raw.deps[d], "route", NoText))]],
   profiles |-> [p \in DOMAIN raw.profiles |-> normalizeStatus(raw.profiles[p])],
   readiness |-> [r \in DOMAIN raw.readiness |->
     [profile |-> Field(raw.readiness[r], "profile", Nothing),
      status |-> normalizeStatus(Field(raw.readiness[r], "status", NoText)),
      smoke |-> normalizeStatus(Field(raw.readiness[r], "smoke", NoText)),
      expires |-> Field(raw.readiness[r], "expires", Never)]],
   covers |-> raw.covers,
   waivers |-> [w \in DOMAIN raw.waivers |->
     [status |-> normalizeStatus(Field(raw.waivers[w], "status", NoText)),
      claims |-> stringList(Field(raw.waivers[w], "claims", << >>)),
      deps |-> stringList(Field(raw.waivers[w], "deps", << >>)),
      expires |-> Field(raw.waivers[w], "expires", Never)]]]

\* Findings are numbered and reported in order; here they are a set, since a
\* verdict and its routes do not depend on the order.
Finding(kind, route, c, d, about) ==
  [kind |-> kind, severity |-> "blocker", route |-> route, claim |-> c, dep |-> d, about |-> about]

\* Mutant: an unreadable date never expires.
Lenient_expiredAt(t, at) ==
  [expired |-> t \notin {Never, Unreadable} /\ at > t, invalid |-> FALSE]

expiredAt(t, at) ==
  [expired |-> t \notin {Never, Unreadable} /\ at > t, invalid |-> t = Unreadable]

acceptedClaimIDs(f) == {c \in DOMAIN f.claims : f.claims[c].status = "accepted"}

waiverCovers(w, c, d) ==
  \/ c # Nothing /\ c \in w.claims
  \/ d # Nothing /\ d \in w.deps

\* The active waiver, or else the first one that covers, with what is wrong
\* with it as its status.
matchingWaiver(f, c, d, at) ==
  LET covering == {w \in DOMAIN f.waivers : waiverCovers(f.waivers[w], c, d)}
      date(w) == expiredAt(f.waivers[w].expires, at)
      active == {w \in covering : /\ f.waivers[w].status = "active"
                                  /\ ~date(w).expired /\ ~date(w).invalid}
      first == Min(covering)
  IN CASE active # {} -> [state |-> "active", status |-> "active", id |-> Min(active)]
       [] covering = {} -> [state |-> "none", status |-> NoText, id |-> Nothing]
       [] active = {} /\ covering # {} ->
            [state |-> "inactive",
             status |-> IF date(first).invalid THEN "invalid_expiry"
                        ELSE IF date(first).expired THEN "expired" ELSE f.waivers[first].status,
             id |-> first]

addInactiveWaiverFinding(c, d, w) ==
  {Finding(CASE w.status = "expired" -> "expired_waiver"
             [] w.status = "revoked" -> "revoked_waiver"
             [] w.status = "invalid_expiry" -> "invalid_waiver_expiry"
             [] OTHER -> "inactive_waiver",
           "coordinator", c, d, w.id)}

evaluateConflicts(f, c) ==
  {Finding("conflicting_accepted_claim", "coordinator", c, Nothing, o) :
     o \in f.claims[c].conflicts \cap acceptedClaimIDs(f)}

profileFinding(f, c, d) ==
  LET p == f.deps[d].profile
  IN IF p \notin DOMAIN f.profiles
       THEN {Finding("missing_harness_profile", "test_harness", c, d, p)}
     ELSE IF f.profiles[p] \in {NoText, "ready", "passed", "accepted", "active"} THEN {}
     ELSE IF f.profiles[p] \in {"rejected", "revoked", "failed"}
       THEN {Finding("rejected_harness_profile", "coordinator", c, d, p)}
     ELSE {Finding("incomplete_harness_profile", "test_harness", c, d, p)}

\* What one readiness record says; an unreadable date outweighs the rest.
Grade(r, at) ==
  LET date == expiredAt(r.expires, at)
  IN CASE date.invalid -> "invalid_readiness_expiry"
       [] ~date.invalid /\ r.status = "passed" /\ r.smoke # "failed" /\ ~date.expired -> "fresh"
       [] ~date.invalid /\ (r.status = "failed" \/ r.smoke = "failed") -> "failed_readiness_record"
       [] ~date.invalid /\ r.status # "failed" /\ r.smoke # "failed"
            /\ (date.expired \/ r.status = "stale") -> "stale_readiness_record"
       [] ~date.invalid /\ ~date.expired /\ r.status = "blocked" /\ r.smoke # "failed"
            -> "blocked_readiness_record"
       [] OTHER -> "unknown_readiness_status"

\* The worst grades first: they are reported when no record is fresh.
Grades == <<"failed_readiness_record", "invalid_readiness_expiry", "stale_readiness_record",
            "blocked_readiness_record", "unknown_readiness_status">>

readinessFinding(f, c, d, at) ==
  LET p == f.deps[d].profile
      records == {r \in DOMAIN f.readiness : f.readiness[r].profile = p}
      of(g) == {r \in records : Grade(f.readiness[r], at) = g}
      worst == Min({i \in DOMAIN Grades : of(Grades[i]) # {}})
  IN IF records = {} THEN {Finding("missing_readiness_record", "test_harness", c, d, p)}
     ELSE IF of("fresh") # {} THEN {}
     ELSE {Finding(Grades[worst], "test_harness", c, d,
                   IF worst = Len(Grades) THEN p ELSE Max(of(Grades[worst])))}

\* What the status of a dependency asks for that no waiver covers.
statusFinding(f, c, d, at) ==
  LET route == IF f.deps[d].route = NoText THEN "test_harness" ELSE f.deps[d].route
      status == f.deps[d].status
  IN CASE status = "waived" -> {Finding("missing_waiver", "coordinator", c, d, Nothing)}
       [] status = "ready" ->
            IF f.deps[d].profile = Nothing THEN {}
            ELSE IF profileFinding(f, c, d) # {} THEN profileFinding(f, c, d)
            ELSE readinessFinding(f, c, d, at)
       [] status \in {"missing", "unknown", NoText} ->
            {Finding("missing_proof_dependency", route, c, d, Nothing)}
       [] status = "failed" -> {Finding("failed_proof_dependency", route, c, d, Nothing)}
       [] OTHER -> {Finding("unknown_proof_dependency_status", "coordinator", c, d, Nothing)}

evaluateDependency(f, c, d, at) ==
  LET w == matchingWaiver(f, c, d, at)
  IN CASE w.state = "active" -> {}
       [] w.state = "inactive" -> addInactiveWaiverFinding(c, d, w)
       [] w.state = "none" ->
            IF d \in DOMAIN f.deps THEN statusFinding(f, c, d, at)
            ELSE {Finding("missing_proof_dependency", "test_harness", c, d, Nothing)}

\* An accepted claim without dependencies needs evidence or a waiver.
evaluateClaim(f, c, at) ==
  LET w == matchingWaiver(f, c, Nothing, at)
      requires == f.claims[c].requires
  IN evaluateConflicts(f, c) \cup
     IF requires = {} /\ c \notin f.covers
       THEN CASE w.state = "active" -> {}
              [] w.state = "inactive" -> addInactiveWaiverFinding(c, Nothing, w)
              [] w.state = "none" -> {Finding("unproved_claim", "test_harness", c, Nothing, Nothing)}
     ELSE UNION {evaluateDependency(f, c, d, at) : d \in requires}

hasBlocker(findings) == \E x \in findings : x.severity = "blocker"

AnalyzeFacts(f, at) ==
  LET accepted == acceptedClaimIDs(f)
      findings == UNION {evaluateClaim(f, c, at) : c \in accepted}
  IN IF accepted = {}
       THEN [status |-> "ambiguous",
             findings |-> {Finding("no_accepted_claims", "coordinator", Nothing, Nothing, Nothing)}]
     ELSE [status |-> IF hasBlocker(findings) THEN "failed" ELSE "passed", findings |-> findings]

routes(a) ==
  LET named == (IF a.status = "passed" THEN {"implementation"} ELSE {})
               \cup {x.route : x \in a.findings}
  IN IF a.status = "failed" /\ named = {} THEN {"pause"} ELSE named

-----------------------------------------------------------------------------
\* The run entity and the rules that fire on it.

NewRun ==
  [outcome |-> << >>, status |-> << >>, routes |-> {}, marks |-> {},
   change |-> << >>, plans |-> {},
   first |-> << >>]  \* history: what the first analysis ever written was made of

\* A triple is stored once, behind the values that are there.
Recorded(values, v) == IF v \in ToSet(values) THEN values ELSE Append(values, v)

\* eq on a predicate with several values reads the first, chain.ReadEntity the last.
FirstValue(values) == IF values = << >> THEN "none" ELSE Head(values)
LastValue(values) == IF values = << >> THEN "none" ELSE Last(values)

RunRules == {"proof-readiness/01", "proof-readiness/02", "proof-readiness/03",
             "proof-readiness/04", "dev-from-task/02"}

\* Conditions of the rules that fire on the run entity.
Routable(r, status) == FirstValue(r.status) = status /\ "routed" \notin r.marks
PassedToImplementationReady(r) == Routable(r, "passed") /\ "implementation" \in r.routes
TestHarnessHandoff(r) == Routable(r, "failed") /\ "test_harness" \in r.routes
AmbiguousToCoordinator(r) == Routable(r, "ambiguous") /\ "coordinator" \in r.routes
FailedNoRoutePause(r) ==
  /\ Routable(r, "failed")
  /\ r.routes \cap {"test_harness", "coordinator", "implementation"} = {}
ReadyRequestToCoordinator(r) ==
  /\ FirstValue(r.outcome) = "success"
  /\ {"implementation_ready", "requested"} \subseteq r.marks
  /\ "started" \notin r.marks

Matches(rule, r) ==
  CASE rule = "proof-readiness/01" -> PassedToImplementationReady(r)
    [] rule = "proof-readiness/02" -> TestHarnessHandoff(r)
    [] rule = "proof-readiness/03" -> AmbiguousToCoordinator(r)
    [] rule = "proof-readiness/04" -> FailedNoRoutePause(r)
    [] rule = "dev-from-task/02" -> ReadyRequestToCoordinator(r)

\* Mutant: the passed verdict is routed, and implementation_ready left out.
Unmarked_OnEnter(rule) ==
  CASE rule = "proof-readiness/01" -> <<"route_implementation", "routed">>
    [] rule = "proof-readiness/02" -> <<"route_test_harness", "test_harness_required", "routed">>
    [] rule = "proof-readiness/03" -> <<"route_coordinator", "requires_clarification", "routed">>
    [] rule = "proof-readiness/04" -> <<"route_pause", "pause_required", "routed">>
    [] rule = "dev-from-task/02" -> <<"started", "walker">>

\* Their actions: triples on the run, and at last the walker's loop.
OnEnter(rule) ==
  CASE rule = "proof-readiness/01" -> <<"route_implementation", "implementation_ready", "routed">>
    [] rule = "proof-readiness/02" -> <<"route_test_harness", "test_harness_required", "routed">>
    [] rule = "proof-readiness/03" -> <<"route_coordinator", "requires_clarification", "routed">>
    [] rule = "proof-readiness/04" -> <<"route_pause", "pause_required", "routed">>
    [] rule = "dev-from-task/02" -> <<"started", "walker">>

\* A new revision of the run selects the rules it turns on, in any order.
Revise(r, rest) ==
  LET entered == {rule \in RunRules : ~Matches(rule, run) /\ Matches(rule, r)}
  IN /\ run' = r
     /\ \E s \in SetToSeqs(entered) :
          queue' = rest \o [i \in DOMAIN s |-> [rule |-> s[i], step |-> 1]]

\* The next action of the rule at the head of the queue.
RuleAction ==
  /\ queue # << >>
  /\ LET head == Head(queue)
         actions == OnEnter(head.rule)
         mark == actions[head.step]
         rest == IF head.step = Len(actions) THEN Tail(queue)
                 ELSE <<[head EXCEPT !.step = @ + 1]>> \o Tail(queue)
     IN /\ Revise([run EXCEPT !.marks = @ \cup {mark}], rest)
        /\ arc' = IF mark = "walker" THEN [arc EXCEPT !.walker = "running"] ELSE arc
  /\ UNCHANGED <<world, facts, stage, now, enacted, calls, begun>>

-----------------------------------------------------------------------------
\* emit_change.

Rid(name) == IF Slugified[name] = NoText THEN "requirement" ELSE Slugified[name]

\* A delta's requirements in document order, and the key each is stored under.
Names(d) == d.added \o d.modified \o d.removed
mint(d, i) ==
  LET base == Rid(Names(d)[i])
      n == Cardinality({j \in 1..i : Rid(Names(d)[j]) = base})
  IN IF n = 1 THEN base ELSE Suffixed[base, n]

validateDeltas(p) ==
  /\ p.deltas # << >>
  /\ \A i, j \in DOMAIN p.deltas : p.deltas[i].cap = p.deltas[j].cap => i = j
  /\ \E i \in DOMAIN p.deltas : Names(p.deltas[i]) # << >>

\* A section, once left, does not come back.
validateTasks(p) ==
  /\ p.tasks # << >>
  /\ \A i, j, k \in DOMAIN p.tasks :
       i < j /\ j < k /\ p.tasks[i].section = p.tasks[k].section
         => p.tasks[j].section = p.tasks[i].section

DeltaOf(p, cap) == CHOOSE d \in Range(p.deltas) : d.cap = cap
Resolves(p, ref) ==
  /\ ref[1] \in {d.cap : d \in Range(p.deltas)}
  /\ LET d == DeltaOf(p, ref[1])
     IN Rid(ref[2]) \in {Rid(n) : n \in ToSet(d.added \o d.modified)}

\* Mutant: two requirements of a capability may reduce to one rid.
Colliding_validateRefs(p) ==
  \A i \in DOMAIN p.tasks : p.tasks[i].ref # << >> => Resolves(p, p.tasks[i].ref)

validateRefs(p) ==
  /\ \A d \in Range(p.deltas) : \A i, j \in DOMAIN Names(d) :
       Rid(Names(d)[i]) = Rid(Names(d)[j]) => i = j
  /\ \A i \in DOMAIN p.tasks : p.tasks[i].ref # << >> => Resolves(p, p.tasks[i].ref)

\* complete stands for the texts that must be there: intent, approach, scope,
\* statements, scenarios, task fields, acceptance command.
parseChange(p) == p.complete /\ validateDeltas(p) /\ validateTasks(p) /\ validateRefs(p)

\* The draft as stored: a reference is rewritten to the requirement's key.
Normalized(p) ==
  [slug |-> p.slug, deltas |-> p.deltas,
   tasks |-> [i \in DOMAIN p.tasks |->
     [id |-> p.tasks[i].id, expects |-> p.tasks[i].expects, ref |-> p.tasks[i].ref,
      key |-> IF p.tasks[i].ref = << >> THEN << >>
              ELSE <<p.tasks[i].ref[1], Rid(p.tasks[i].ref[2])>>]]]

-----------------------------------------------------------------------------
\* Calls: each reads the run, works out what to append, and appends it as one
\* batch later, also when its caller has given up, or never: a lost one stays.

Begin(call) ==
  /\ begun < World.calls /\ BagCardinality(calls) < MaxInFlight
  /\ calls' = calls (+) SetToBag({call}) /\ begun' = begun + 1
  /\ UNCHANGED <<world, facts, stage, now, arc, enacted, run, queue>>

CallEmitChange(p) ==
  /\ arc.author = "running" /\ parseChange(p)
  /\ Begin([op |-> "emit", draft |-> Normalized(p)])

ChangeSlugs == {run.change[i].slug : i \in DOMAIN run.change}

CallAnalyze == Begin([op |-> "analyze", stage |-> stage, since |-> now])

\* /implement-spec by a user who may approve, for a run of theirs, with no
\* target or with the slug of a change that is on the run.
resolveTarget(m) == m.permitted /\ m.selected /\ m.owner /\ ~m.names_run
CallCommand(m) ==
  /\ resolveTarget(m)
  /\ m.target # NoText => m.target \in ChangeSlugs
  /\ Begin([op |-> "command", stage |-> stage, since |-> now])

\* The slug that was asked for, or the only one.
resolveSlug(want) ==
  IF want = NoText THEN IF Cardinality(ChangeSlugs) = 1 THEN ChangeSlugs ELSE {}
  ELSE {want} \cap ChangeSlugs

\* Every task index that some emission of the slug had, with the last value of
\* each field: a later emission that leaves expected_outcome out does not clear it.
Emissions(slug) == {i \in DOMAIN run.change : run.change[i].slug = slug}
Projected(slug) ==
  LET tasks(i) == run.change[i].tasks
      having(t) == {i \in Emissions(slug) : t <= Len(tasks(i))}
      expecting(t) == {i \in having(t) : tasks(i)[t].expects # NoText}
      projectTask(t) ==
        [id |-> tasks(Max(having(t)))[t].id,
         expects |-> IF expecting(t) = {} THEN NoText ELSE tasks(Max(expecting(t)))[t].expects]
      size == Max({Len(tasks(i)) : i \in Emissions(slug)})
  IN [slug |-> slug, tasks |-> [t \in 1..size |-> projectTask(t)]]

buildProjection(want) ==
  IF LastValue(run.outcome) = "success" THEN {Projected(s) : s \in resolveSlug(want)} ELSE {}

CallProject(want) ==
  /\ arc.walker = "running"
  /\ \E p \in buildProjection(want) : Begin([op |-> "project", plan |-> p])

\* Analysis.Triples, with the request when the command found the run ready.
Analysed(call, at) ==
  LET a == AnalyzeFacts(ParseProofFacts(facts[call.stage]), at)
      ready == a.status = "passed" /\ "implementation" \in routes(a)
  IN [run EXCEPT
        !.status = Recorded(@, a.status), !.routes = @ \cup routes(a),
        !.first = IF @ = << >> THEN <<[stage |-> call.stage, at |-> at]>> ELSE @,
        !.marks = IF call.op = "command" /\ ready THEN @ \cup {"requested"} ELSE @]

\* The batch of a call arrives.
Land(call, r) ==
  /\ Revise(r, queue)
  /\ calls' = calls (-) SetToBag({call})
  /\ UNCHANGED <<world, facts, stage, now, arc, enacted, begun>>

\* The clock was read after the run and before the append.
LandAnalysis(call) ==
  /\ call.op \in {"analyze", "command"}
  /\ \E at \in call.since..now : Land(call, Analysed(call, at))

LandChange(call) ==
  /\ call.op = "emit" /\ Len(run.change) < MaxEmissions
  /\ Land(call, [run EXCEPT !.change = Append(@, call.draft)])

LandPlan(call) ==
  /\ call.op = "project"
  /\ Land(call, [run EXCEPT !.plans = @ \cup {call.plan}])

-----------------------------------------------------------------------------
\* The loops of the create-change arc and of the hand-off.  A decision and the
\* completion that follows it are one step: nothing here happens in between.

Coordinator == {"wakeup", "recovery", "asker", "walker"}

\* action_allowlist of the rule that spawns the role, as far as a rule here fires
\* on it: the other answers of a coordinator leave the run as it is.
Decisions ==
  [author |-> {"drafted", "needs_clarification"},
   reviewer |-> {"approved", "rejected", "needs_clarification"},
   wakeup |-> {}, recovery |-> {}, asker |-> {"dev_from_task"}, walker |-> {}]

LoopEnds(role, how) ==
  /\ arc[role] = "running"
  /\ arc' = [arc EXCEPT ![role] = how]
  /\ UNCHANGED <<world, facts, stage, now, enacted, run, queue, calls, begun>>

\* A user's message reaches a coordinator that is attached to the run.
AskerSpawned ==
  /\ arc.asker = "none" /\ World.anchors # {}
  /\ arc' = [arc EXCEPT !.asker = "running"]
  /\ UNCHANGED <<world, facts, stage, now, enacted, run, queue, calls, begun>>

\* A rule that fires on a loop: once, any time after its conditions hold.
Enact(rule, role) == <<rule, role>> \notin enacted /\ enacted' = enacted \cup {<<rule, role>>}

SpawnLoop(role) ==
  /\ arc' = [arc EXCEPT ![role] = "running"]
  /\ UNCHANGED <<world, facts, stage, now, run, queue, calls, begun>>

StampRun(r) ==
  /\ Revise(r, queue)
  /\ UNCHANGED <<world, facts, stage, now, arc, calls, begun>>

AuthorToReviewer ==
  /\ arc.author = "drafted" /\ Enact("create-change/02", "author") /\ SpawnLoop("reviewer")

\* 03, in this order: the outcome, then the coordinator that tells the user.
ReviewerApproved ==
  /\ arc.reviewer = "approved" /\ Enact("create-change/03", "reviewer")
  /\ StampRun([run EXCEPT !.outcome = Recorded(@, "success")])
WakeUpSpawned ==
  /\ <<"create-change/03", "reviewer">> \in enacted
  /\ Enact("create-change/03/spawn", "reviewer") /\ SpawnLoop("wakeup")

\* 04 and 05: a coordinator decides what to do with the ask; the run gets no
\* outcome.
RejectedToRecovery ==
  /\ arc.reviewer = "rejected" /\ Enact("create-change/04", "reviewer") /\ SpawnLoop("recovery")
ClarificationToRecovery(role) ==
  /\ role \in {"author", "reviewer"} /\ arc[role] = "needs_clarification"
  /\ Enact("create-change/05", role) /\ SpawnLoop("recovery")

\* 06: the marker for the operator, on the loop itself.
LoopFailedPause(role) ==
  /\ role \in {"author", "reviewer"} /\ arc[role] = "failed"
  /\ Enact("create-change/06", role)
  /\ UNCHANGED <<world, facts, stage, now, arc, run, queue, calls, begun>>

\* 07 for a role of the pack, agent-run 05 and 06 for a coordinator of the run.
LoopFailedOutcome(role) ==
  /\ arc[role] = "failed"
  /\ Enact(IF role \in Coordinator THEN "agent-run/05" ELSE "create-change/07", role)
  /\ StampRun([run EXCEPT !.outcome = Recorded(@, "failed")])

\* dev-from-task 01a and 01b: the run is found by its anchor or by the lineage.
RequestRunAnchor ==
  /\ arc.asker = "dev_from_task"
  /\ "run" \in World.anchors /\ "lineage" \notin World.anchors
  /\ Enact("dev-from-task/01a", "asker")
  /\ StampRun([run EXCEPT !.marks = @ \cup {"requested"}])
RequestLineage ==
  /\ arc.asker = "dev_from_task" /\ "lineage" \in World.anchors
  /\ Enact("dev-from-task/01b", "asker")
  /\ StampRun([run EXCEPT !.marks = @ \cup {"requested"}])

LoopRule ==
  \/ AuthorToReviewer \/ ReviewerApproved \/ WakeUpSpawned \/ RejectedToRecovery
  \/ \E role \in DOMAIN Decisions :
       ClarificationToRecovery(role) \/ LoopFailedPause(role) \/ LoopFailedOutcome(role)
  \/ RequestRunAnchor \/ RequestLineage

-----------------------------------------------------------------------------
\* The world around: proof facts change, time passes.

FactsChange ==
  /\ stage < Len(facts) /\ stage' = stage + 1
  /\ UNCHANGED <<world, facts, now, arc, enacted, run, queue, calls, begun>>

Tick ==
  /\ now < World.until /\ now' = now + 1
  /\ UNCHANGED <<world, facts, stage, arc, enacted, run, queue, calls, begun>>

\* The front-door coordinator's create_change has spawned the author; a run of
\* another arc can be analysed too.
HandoffInit ==
  /\ world \in DOMAIN Worlds /\ facts \in World.facts /\ stage = 1 /\ now = 1
  /\ arc = [role \in DOMAIN Decisions |->
              IF role = "author" /\ World.drafts # {} THEN "running" ELSE "none"]
  /\ enacted = {} /\ run = NewRun /\ queue = << >>
  /\ calls = EmptyBag /\ begun = 0

HandoffNext ==
  \/ RuleAction \/ LoopRule \/ AskerSpawned \/ FactsChange \/ Tick
  \/ \E role \in DOMAIN Decisions : \E how \in Decisions[role] \cup {"failed"} :
       LoopEnds(role, how)
  \/ \E p \in World.drafts : CallEmitChange(p)
  \/ \E m \in World.commands : CallCommand(m)
  \/ \E want \in {NoText} \cup ChangeSlugs : CallProject(want)
  \/ CallAnalyze
  \/ \E call \in BagToSet(calls) : LandAnalysis(call) \/ LandChange(call) \/ LandPlan(call)

HandoffSpec == HandoffInit /\ [][HandoffNext]_handoffVars

-----------------------------------------------------------------------------
HandoffTypeOK ==
  /\ world \in DOMAIN Worlds /\ stage \in DOMAIN facts /\ now \in 1..World.until
  /\ \A role \in DOMAIN arc : arc[role] \in Decisions[role] \cup {"none", "running", "failed"}
  /\ ToSet(run.outcome) \subseteq {"success", "failed"}
  /\ ToSet(run.status) \subseteq {"passed", "failed", "ambiguous"}
  /\ \A i \in DOMAIN queue : queue[i].rule \in RunRules /\ queue[i].step \in 1..3
  /\ begun \in 0..World.calls

\* What proven means, said without the order in which the analyzer looks.
Valid(t, at) == t = Never \/ (t # Unreadable /\ at <= t)
Active(w, at) == w.status = "active" /\ Valid(w.expires, at)
Waivers(f, c, d) == {w \in Range(f.waivers) : waiverCovers(w, c, d)}
Waived(f, c, d, at) == \E w \in Waivers(f, c, d) : Active(w, at)
Harnessed(f, p, at) ==
  /\ p \in DOMAIN f.profiles /\ f.profiles[p] \in {NoText, "ready", "passed", "accepted", "active"}
  /\ \E r \in DOMAIN f.readiness :
       LET e == f.readiness[r]
       IN e.profile = p /\ e.status = "passed" /\ e.smoke # "failed" /\ Valid(e.expires, at)
Satisfied(f, c, d, at) ==
  \/ Waived(f, c, d, at)
  \/ /\ Waivers(f, c, d) = {}
     /\ d \in DOMAIN f.deps /\ f.deps[d].status = "ready"
     /\ f.deps[d].profile = Nothing \/ Harnessed(f, f.deps[d].profile, at)
Accepted(f) == {c \in DOMAIN f.claims : f.claims[c].status = "accepted"}
Proven(f, at) ==
  /\ Accepted(f) # {}
  /\ \A c \in Accepted(f) :
       LET deps == f.claims[c].requires
       IN /\ f.claims[c].conflicts \cap Accepted(f) = {}
          /\ \A d \in deps : Satisfied(f, c, d, at)
          /\ deps = {} => c \in f.covers \/ Waived(f, c, Nothing, at)
FactsOf(i) == ParseProofFacts(facts[i])

\* Code is changed only for what was proven, approved and asked for.  The
\* analyzer passes exactly the facts that are proven at that time.  The run is
\* released only when the first analysis ever written found them so, whatever
\* later ones said, and the walker starts only on a released run that the
\* reviewer approved and somebody requested.
ReadyIsProven ==
  /\ HandoffTypeOK
  /\ AnalyzeFacts(FactsOf(stage), now).status = "passed" <=> Proven(FactsOf(stage), now)
  /\ "implementation_ready" \in run.marks =>
       run.first # << >> /\ Proven(FactsOf(run.first[1].stage), run.first[1].at)
  /\ arc.walker # "none" =>
       arc.reviewer = "approved" /\ {"implementation_ready", "requested"} \subseteq run.marks

\* The requirement a stored reference leads to is the one the author named.
RefTrue(e, t) ==
  LET d == DeltaOf(e, t.ref[1])
      named == {i \in DOMAIN Names(d) : Names(d)[i] = t.ref[2]}
      found == {i \in DOMAIN Names(d) : mint(d, i) = t.key[2]}
  IN Cardinality(found) = 1 /\ (named # {} => found = named)

\* What is planned was emitted: a plan exists only on an approved run, each of
\* its tasks and expectations was emitted in that place, it is the whole change
\* when that was emitted once, and the stored requirement_ref of every task
\* leads to the requirement the author meant.
PlanIsReviewed ==
  /\ \A p \in run.plans :
       LET of == Emissions(p.slug)
           tasks(i) == run.change[i].tasks
           emitted(t) == {tasks(i)[t] : i \in {j \in of : t \in DOMAIN tasks(j)}}
       IN /\ arc.reviewer = "approved"
          /\ \A t \in DOMAIN p.tasks :
               /\ p.tasks[t].id \in {e.id : e \in emitted(t)}
               /\ p.tasks[t].expects \in {e.expects : e \in emitted(t)}
          /\ Cardinality(of) = 1 => \A i \in of :
               /\ DOMAIN p.tasks = DOMAIN tasks(i)
               /\ \A t \in DOMAIN p.tasks :
                    p.tasks[t] = [id |-> tasks(i)[t].id, expects |-> tasks(i)[t].expects]
  /\ \A i \in DOMAIN run.change : \A t \in DOMAIN run.change[i].tasks :
       run.change[i].tasks[t].ref # << >> => RefTrue(run.change[i], run.change[i].tasks[t])

\* A verdict no rule matches: failed, and no finding is for the test harness but
\* some is for the coordinator.
Unrouted ==
  /\ FirstValue(run.status) = "failed" /\ "test_harness" \notin run.routes
  /\ run.routes \cap {"coordinator", "implementation"} # {}

\* Nobody is left waiting by the gate: a verdict is routed, and an approved run
\* whose first analysis passed starts once it is requested, in whatever order
\* approval, analysis and request arrive and whatever is written later.
RequestHonoured ==
  /\ (run.status # << >>) ~> ("routed" \in run.marks \/ Unrouted)
  /\ (/\ FirstValue(run.outcome) = "success" /\ FirstValue(run.status) = "passed"
      /\ "requested" \in run.marks) ~> (arc.walker # "none")
=============================================================================
