--------------------------- MODULE RulePackProofs ---------------------------
(***************************************************************************)
(* TLAPS proofs about the rule packs: ResearchArc, for any fan-out, any    *)
(* restriction of the decide tool and any number of rounds, and then       *)
(* SpecHandoff, for any proof facts, drafts and commands.                  *)
(***************************************************************************)
EXTENDS ResearchArc, SpecHandoff, FiniteSetTheorems, SequenceTheorems, TLAPS

Roles == PackRoles \cup Coordinators
ActionNames == (UNION {Allowlist[r] : r \in DOMAIN Allowlist}) \cup {"none"}
ListSizes == {NoList} \cup 1..MaxSubtopics
Outcomes == {"none", "success", "failed"}
Successful == {<<"success">>, <<"success", "failed">>}
Failing == {<<"failed">>, <<"success", "failed">>}
Verdicts == {<<>>} \cup Successful \cup Failing

LoopRecord ==
  [role : Roles, run : Nat, plan : Nat, researcher : Nat, action : ActionNames,
   subtopics : ListSizes, completed : SUBSET Nat, outcome : Outcomes, paused : BOOLEAN,
   runOutcome : Verdicts]

TypesOK ==
  /\ loops \in Seq(LoopRecord)
  /\ \A f \in fired : f[2] \in Ids
  /\ \A l \in Ids : /\ loops[l].run < l /\ loops[l].plan < l /\ loops[l].researcher < l
                    /\ loops[l].action = "none" => loops[l].subtopics = NoList
                    /\ loops[l].outcome = "failed" => loops[l].action = "none"

Delivered(g) == loops[g].action = "synthesize" /\ loops[g].outcome = "success"

\* One gatherer per subtopic and no more; a plan counts only those that delivered.
FanOK(p) ==
  /\ <<"02", p>> \notin fired => Gatherers(p) = {}
  /\ <<"02", p>> \in fired => /\ Is(p, "plan") /\ loops[p].action = "gather"
                             /\ Cardinality(Gatherers(p)) = loops[p].subtopics
                             /\ loops[p].subtopics \in 1..MaxSubtopics
  /\ loops[p].completed \subseteq {g \in Gatherers(p) : Delivered(g)}

Joined(p) ==
  /\ <<"02", p>> \in fired /\ \A g \in Gatherers(p) : Delivered(g)

\* Reviewer v rejected the synthesis of plan p, and a new plan followed.
Rejects(v, p) ==
  /\ Decided(v, "reviewer", "insufficient") /\ <<"05", v>> \in fired
  /\ loops[loops[v].researcher].plan = p

EarlierPlans(l) == {p \in 1..(l - 1) : Is(p, "plan") /\ loops[p].run = loops[l].run}

\* Where a loop comes from: what the rule that spawned it had read.
BirthOK(l) ==
  LET home == loops[l].run
      plan == loops[l].plan
      researcher == loops[l].researcher
  IN
  /\ loops[l].role \in PackRoles \cup {"recovery", "wakeup"} => home \in 1..(l - 1)
  /\ Is(l, "gather") => plan \in Ids /\ <<"02", plan>> \in fired /\ loops[plan].run = home
  /\ Is(l, "synthesize") =>
       /\ plan \in Ids /\ Is(plan, "plan") /\ loops[plan].run = home
       /\ loops[plan].researcher = researcher
       /\ <<"03b", plan>> \in fired /\ Joined(plan)
  /\ Is(l, "reviewer") =>
       /\ researcher \in Ids /\ Decided(researcher, "synthesize", "emit")
       /\ loops[researcher].run = home /\ <<"04", researcher>> \in fired
  /\ Is(l, "plan") =>
       \/ <<"01", home>> \in fired /\ researcher = None /\ EarlierPlans(l) = {}
       \/ \E v \in 1..(l - 1) :
            /\ Decided(v, "reviewer", "insufficient") /\ loops[v].run = home
            /\ loops[v].researcher = researcher /\ <<"05", v>> \in fired
            /\ \A p \in EarlierPlans(l) : p <= loops[researcher].plan
  /\ Is(l, "recovery") =>
       \E k \in Ids : /\ loops[k].role \in PackRoles /\ loops[k].run = home
                      /\ loops[k].action = "needs_clarification"
  /\ Is(l, "wakeup") => loops[home].runOutcome \in Successful
  /\ Is(l, "front") => home = None

\* One synthesis per plan, one review per synthesis, one plan at a time per run.
UniqueOK ==
  /\ \A s, t \in Ids : Is(s, "synthesize") /\ Is(t, "synthesize") /\ loops[s].plan = loops[t].plan
                         => s = t
  /\ \A v, w \in Ids : Is(v, "reviewer") /\ Is(w, "reviewer")
                         /\ loops[v].researcher = loops[w].researcher => v = w
  /\ \A q \in Ids : Is(q, "plan") => \A p \in EarlierPlans(q) : \E v \in 1..(q - 1) : Rejects(v, p)
  /\ \A l \in Ids : Is(l, "plan") => <<"01", loops[l].run>> \in fired

\* What is on record about a run comes from a loop of that run.
VerdictOK(r) ==
  /\ loops[r].runOutcome \in Successful =>
       \E v \in Ids : Decided(v, "reviewer", "approved") /\ loops[v].run = r
  /\ loops[r].runOutcome \in Failing =>
       \E l \in Ids : loops[l].run = r /\ loops[l].outcome = "failed"

\* An approval that was executed is on record.
ApprovalOK(v) ==
  <<"07_outcome", v>> \in fired =>
    Is(v, "reviewer") /\ loops[loops[v].run].runOutcome \in Successful

\* The inductive invariant.
AInv ==
  /\ TypesOK /\ UniqueOK
  /\ \A l \in Ids : FanOK(l) /\ BirthOK(l) /\ VerdictOK(l) /\ ApprovalOK(l)

-----------------------------------------------------------------------------
\* Ids are the positions of the list.
LEMMA Ranges ==
  ASSUME AInv
  PROVE  /\ Len(loops) \in Nat /\ Ids = 1..Len(loops)
         /\ \A l \in Ids : l \in Nat \ {0} /\ 1..(l - 1) \subseteq Ids /\ loops[l] \in LoopRecord
<1>1. loops \in Seq(LoopRecord)  BY DEF AInv, TypesOK
<1>2. Len(loops) \in Nat /\ Ids = 1..Len(loops) /\ loops \in [1..Len(loops) -> LoopRecord]
  BY <1>1 DEF Ids
<1> QED BY <1>2

\* Replacing one record of the list.
Put(list, l, x) == [list EXCEPT ![l] = x]

\* One loop's record is replaced.
LEMMA PutIs ==
  ASSUME NEW list \in Seq(LoopRecord), NEW l \in DOMAIN list, NEW x \in LoopRecord
  PROVE  /\ Put(list, l, x) \in Seq(LoopRecord) /\ DOMAIN Put(list, l, x) = DOMAIN list
         /\ Put(list, l, x)[l] = x
         /\ \A k \in DOMAIN list : k # l => Put(list, l, x)[k] = list[k]
<1>1. list \in [1..Len(list) -> LoopRecord] /\ Len(list) \in Nat  OBVIOUS
<1>2. Put(list, l, x) \in [1..Len(list) -> LoopRecord]  BY <1>1 DEF Put
<1>3. Put(list, l, x) \in Seq(LoopRecord)  BY <1>1, <1>2
<1> QED BY <1>1, <1>2, <1>3 DEF Put

\* Adding one record to it.
LEMMA AddLoop ==
  ASSUME NEW x \in LoopRecord, loops \in Seq(LoopRecord), Spawn(<<x>>)
  PROVE  /\ loops' \in Seq(LoopRecord) /\ Len(loops') = Len(loops) + 1
         /\ loops'[Len(loops) + 1] = x /\ \A k \in Ids : loops'[k] = loops[k]
         /\ Ids' = Ids \cup {Len(loops) + 1} /\ Len(loops) + 1 \notin Ids
<1>1. Len(loops) \in Nat /\ loops \in [1..Len(loops) -> LoopRecord] /\ Ids = 1..Len(loops)  BY DEF Ids
<1>2. loops' \in Seq(LoopRecord)  BY DEF Spawn
<1>3. Len(loops') = Len(loops) + 1  BY DEF Spawn
<1>4. loops'[Len(loops) + 1] = x  BY DEF Spawn
<1>5. \A k \in Ids : loops'[k] = loops[k]  BY <1>1 DEF Spawn
<1>6. Ids' = 1..Len(loops')  BY <1>2 DEF Ids
<1> QED BY <1>1, <1>2, <1>3, <1>4, <1>5, <1>6

\* What no step undoes.
Grown ==
  /\ loops' \in Seq(LoopRecord) /\ Ids \subseteq Ids' /\ fired \subseteq fired'
  /\ \A l \in Ids :
       /\ loops'[l].role = loops[l].role /\ loops'[l].run = loops[l].run
       /\ loops'[l].plan = loops[l].plan /\ loops'[l].researcher = loops[l].researcher
       /\ loops[l].action # "none" => /\ loops'[l].action = loops[l].action
                                      /\ loops'[l].subtopics = loops[l].subtopics
       /\ loops[l].outcome # "none" => loops'[l].outcome = loops[l].outcome
       /\ loops[l].runOutcome \in Successful => loops'[l].runOutcome \in Successful
  /\ \A p \in Ids : <<"02", p>> \in fired =>
       \A g \in Ids' \ Ids : ~(loops'[g].role = "gather" /\ loops'[g].plan = p)

\* A plan that rule 02 fanned out gets no more gatherers.
LEMMA GatherersStay ==
  ASSUME AInv, Grown, NEW p \in Ids, <<"02", p>> \in fired
  PROVE  Gatherers(p)' = Gatherers(p)
<1>1. \A g : g \in Gatherers(p) <=> g \in Ids /\ loops[g].role = "gather" /\ loops[g].plan = p
  BY DEF Gatherers, Is
<1>2. \A g : g \in Gatherers(p)' <=> g \in Ids' /\ loops'[g].role = "gather" /\ loops'[g].plan = p
  BY DEF Gatherers, Is
<1>3. \A g : g \in Gatherers(p)' <=> g \in Gatherers(p)
  <2> SUFFICES ASSUME NEW g PROVE g \in Gatherers(p)' <=> g \in Gatherers(p)
    OBVIOUS
  <2>1. CASE g \in Ids  BY <1>1, <1>2, <2>1 DEF Grown
  <2>2. CASE g \notin Ids  BY <1>1, <1>2, <2>2 DEF Grown
  <2> QED BY <2>1, <2>2
<1> QED BY <1>3

\* What was delivered stays delivered.
LEMMA DeliveredStays ==
  ASSUME AInv, Grown, NEW g \in Ids, Delivered(g)
  PROVE  Delivered(g)'
  BY DEF Grown, Delivered

\* A decision is never taken back.
LEMMA DecidedStays ==
  ASSUME AInv, Grown, NEW l \in Ids, NEW role, NEW action, action # "none", Decided(l, role, action)
  PROVE  Decided(l, role, action)'
  BY DEF Grown, Decided, Is

\* A rejection stays one.
LEMMA RejectsStays ==
  ASSUME AInv, Grown, NEW v \in Ids, NEW p, Rejects(v, p)
  PROVE  Rejects(v, p)'
<1>1. Decided(v, "reviewer", "insufficient")'  BY DecidedStays DEF Rejects
<1>2. loops[v].researcher \in Ids
  <2>1. BirthOK(v) /\ Is(v, "reviewer")  BY DEF AInv, Rejects, Decided
  <2> QED BY <2>1 DEF BirthOK
<1> QED BY <1>1, <1>2 DEF Rejects, Grown

\* How a loop came to be does not change.
LEMMA BirthStays ==
  ASSUME AInv, Grown, NEW l \in Ids
  PROVE  BirthOK(l)'
<1> DEFINE home == loops[l].run
           plan == loops[l].plan
           researcher == loops[l].researcher
<1>1. BirthOK(l) /\ l \in Nat \ {0} /\ loops[l] \in LoopRecord  BY Ranges DEF AInv
<1>2. /\ loops'[l].role = loops[l].role /\ loops'[l].run = home
      /\ loops'[l].plan = plan /\ loops'[l].researcher = researcher
  BY DEF Grown
<1>3. 1..(l - 1) \subseteq Ids  BY Ranges
<1>4. Is(l, "gather")' =>
        plan \in Ids' /\ <<"02", plan>> \in fired' /\ loops'[plan].run = home
  BY <1>1, <1>2 DEF BirthOK, Is, Grown
<1>5. Is(l, "synthesize")' =>
        /\ plan \in Ids' /\ loops'[plan].role = "plan" /\ loops'[plan].run = home
        /\ loops'[plan].researcher = researcher
        /\ <<"03b", plan>> \in fired' /\ <<"02", plan>> \in fired'
        /\ \A g \in Gatherers(plan) : Delivered(g)'
        /\ \A g \in {g \in Ids' : loops'[g].role = "gather" /\ loops'[g].plan = plan} :
             g \in Gatherers(plan)
  <2> SUFFICES ASSUME Is(l, "synthesize")
               PROVE  /\ plan \in Ids' /\ loops'[plan].role = "plan" /\ loops'[plan].run = home
                      /\ loops'[plan].researcher = researcher
                      /\ <<"03b", plan>> \in fired' /\ <<"02", plan>> \in fired'
                      /\ \A g \in Gatherers(plan) : Delivered(g)'
                      /\ \A g \in {g \in Ids' : loops'[g].role = "gather" /\ loops'[g].plan = plan} :
                           g \in Gatherers(plan)
    BY <1>2 DEF Is
  <2>1. /\ plan \in Ids /\ loops[plan].role = "plan" /\ loops[plan].run = home
        /\ loops[plan].researcher = researcher
        /\ <<"03b", plan>> \in fired /\ <<"02", plan>> \in fired
        /\ \A g \in Gatherers(plan) : g \in Ids /\ Delivered(g)
    BY <1>1 DEF BirthOK, Is, Joined, Gatherers
  <2> HIDE DEF plan, home, researcher
  <2>2. \A g \in Gatherers(plan) : Delivered(g)'
    <3> TAKE g \in Gatherers(plan)
    <3>1. g \in Ids /\ Delivered(g)  BY <2>1
    <3> QED BY <3>1, DeliveredStays
  <2>3. \A g \in Ids' : loops'[g].role = "gather" /\ loops'[g].plan = plan => g \in Gatherers(plan)
    <3> SUFFICES ASSUME NEW g \in Ids', loops'[g].role = "gather", loops'[g].plan = plan
                 PROVE  g \in Ids /\ loops[g].role = "gather" /\ loops[g].plan = plan
      BY DEF Gatherers, Is
    <3>1. g \in Ids  BY <2>1 DEF Grown
    <3> QED BY <3>1 DEF Grown
  <2> QED BY <2>1, <2>2, <2>3 DEF Grown
<1>6. Is(l, "reviewer")' =>
        /\ researcher \in Ids' /\ loops'[researcher].role = "synthesize"
        /\ loops'[researcher].action = "emit"
        /\ loops'[researcher].run = home /\ <<"04", researcher>> \in fired'
  BY <1>1, <1>2 DEF BirthOK, Is, Grown, Decided
<1>7. Is(l, "recovery")' =>
        \E k \in Ids' : /\ loops'[k].role \in PackRoles /\ loops'[k].run = home
                        /\ loops'[k].action = "needs_clarification"
  BY <1>1, <1>2 DEF BirthOK, Is, Grown
<1>8. EarlierPlans(l)' = EarlierPlans(l)
  BY <1>2, <1>3 DEF EarlierPlans, Is, Grown
<1>9. Is(l, "plan")' =>
       \/ <<"01", home>> \in fired' /\ researcher = None /\ EarlierPlans(l)' = {}
       \/ \E v \in 1..(l - 1) :
            /\ Decided(v, "reviewer", "insufficient")' /\ loops'[v].run = home
            /\ loops'[v].researcher = researcher /\ <<"05", v>> \in fired'
            /\ \A p \in EarlierPlans(l)' : p <= loops'[researcher].plan
  <2>1. CASE Is(l, "plan") /\ <<"01", home>> \in fired /\ researcher = None /\ EarlierPlans(l) = {}
    BY <1>8, <2>1 DEF Grown
  <2>2. ASSUME NEW v \in 1..(l - 1), Decided(v, "reviewer", "insufficient"), loops[v].run = home,
               loops[v].researcher = researcher, <<"05", v>> \in fired,
               \A p \in EarlierPlans(l) : p <= loops[researcher].plan
        PROVE  /\ Decided(v, "reviewer", "insufficient")' /\ loops'[v].run = home
               /\ loops'[v].researcher = researcher /\ <<"05", v>> \in fired'
               /\ \A p \in EarlierPlans(l)' : p <= loops'[researcher].plan
    <3>1. v \in Ids  BY <1>3, <2>2
    <3>2. Decided(v, "reviewer", "insufficient")'  BY <2>2, <3>1, DecidedStays
    <3>3. researcher \in Ids
      <4>1. BirthOK(v) /\ Is(v, "reviewer")  BY <2>2, <3>1 DEF AInv, Decided
      <4> QED BY <2>2, <4>1 DEF BirthOK
    <3> QED BY <1>8, <2>2, <3>1, <3>2, <3>3 DEF Grown
  <2> QED BY <1>1, <1>2, <2>1, <2>2 DEF BirthOK, Is
<1>10. Is(l, "wakeup")' => loops'[home].runOutcome \in Successful
  <2>1. Is(l, "wakeup") => home \in Ids /\ loops[home].runOutcome \in Successful
    BY <1>1, <1>3 DEF BirthOK, Is
  <2> QED BY <1>2, <2>1 DEF Is, Grown
<1>11. loops'[l].role \in PackRoles \cup {"recovery", "wakeup"} => home \in 1..(l - 1)
  BY <1>1, <1>2 DEF BirthOK
<1>12. Is(l, "front")' => home = None  BY <1>1, <1>2 DEF BirthOK, Is
<1> QED
  BY <1>2, <1>4, <1>5, <1>6, <1>7, <1>9, <1>10, <1>11, <1>12
  DEF BirthOK, Is, Decided, Joined, Gatherers

-----------------------------------------------------------------------------
\* The record of a child, and the updates of a record.
Fresh(role, home, plan, researcher) ==
  [role |-> role, run |-> home, plan |-> plan, researcher |-> researcher,
   action |-> "none", subtopics |-> NoList, completed |-> {},
   outcome |-> "none", paused |-> FALSE, runOutcome |-> <<>>]
WithDecision(x, action, n) == [x EXCEPT !.action = action, !.subtopics = n]
WithOutcome(x, outcome) == [x EXCEPT !.outcome = outcome]
WithStamp(x, g) == [x EXCEPT !.completed = @ \cup {g}]
WithVerdict(x, verdict) == [x EXCEPT !.runOutcome = verdict]
WithPause(x) == [x EXCEPT !.paused = TRUE]

\* What every update keeps.
SameLineage(x, y) ==
  /\ y.role = x.role /\ y.run = x.run /\ y.plan = x.plan /\ y.researcher = x.researcher
SameSession(x, y) ==
  /\ y.action = x.action /\ y.subtopics = x.subtopics /\ y.outcome = x.outcome

\* New loops are loops.
LEMMA FreshIs ==
  ASSUME NEW role \in Roles, NEW home \in Nat, NEW plan \in Nat, NEW researcher \in Nat
  PROVE  Fresh(role, home, plan, researcher) \in LoopRecord
<1>1. "none" \in ActionNames  BY DEF ActionNames
<1>2. NoList \in ListSizes  BY DEF ListSizes
<1>3. "none" \in Outcomes  BY DEF Outcomes
<1>4. <<>> \in Verdicts  BY DEF Verdicts
<1> QED BY <1>1, <1>2, <1>3, <1>4 DEF Fresh, LoopRecord

\* A loop with a decision stamped on it.
LEMMA WithDecisionIs ==
  ASSUME NEW x \in LoopRecord, NEW action \in ActionNames, NEW n \in ListSizes
  PROVE  /\ WithDecision(x, action, n) \in LoopRecord /\ SameLineage(x, WithDecision(x, action, n))
         /\ WithDecision(x, action, n).action = action /\ WithDecision(x, action, n).subtopics = n
         /\ WithDecision(x, action, n).outcome = x.outcome
         /\ WithDecision(x, action, n).completed = x.completed
         /\ WithDecision(x, action, n).runOutcome = x.runOutcome
  BY DEF WithDecision, LoopRecord, SameLineage

\* A loop that ended.
LEMMA WithOutcomeIs ==
  ASSUME NEW x \in LoopRecord, NEW outcome \in Outcomes
  PROVE  /\ WithOutcome(x, outcome) \in LoopRecord /\ SameLineage(x, WithOutcome(x, outcome))
         /\ WithOutcome(x, outcome).action = x.action
         /\ WithOutcome(x, outcome).subtopics = x.subtopics
         /\ WithOutcome(x, outcome).outcome = outcome
         /\ WithOutcome(x, outcome).completed = x.completed
         /\ WithOutcome(x, outcome).runOutcome = x.runOutcome
  BY DEF WithOutcome, LoopRecord, SameLineage

\* A plan with one more completion.
LEMMA WithStampIs ==
  ASSUME NEW x \in LoopRecord, NEW g \in Nat
  PROVE  /\ WithStamp(x, g) \in LoopRecord /\ SameLineage(x, WithStamp(x, g))
         /\ SameSession(x, WithStamp(x, g))
         /\ WithStamp(x, g).completed = x.completed \cup {g}
         /\ WithStamp(x, g).runOutcome = x.runOutcome
  BY DEF WithStamp, LoopRecord, SameLineage, SameSession

\* A run with a verdict.
LEMMA WithVerdictIs ==
  ASSUME NEW x \in LoopRecord, NEW verdict \in Verdicts
  PROVE  /\ WithVerdict(x, verdict) \in LoopRecord /\ SameLineage(x, WithVerdict(x, verdict))
         /\ SameSession(x, WithVerdict(x, verdict))
         /\ WithVerdict(x, verdict).completed = x.completed
         /\ WithVerdict(x, verdict).runOutcome = verdict
  BY DEF WithVerdict, LoopRecord, SameLineage, SameSession

\* A loop marked for the operator.
LEMMA WithPauseIs ==
  ASSUME NEW x \in LoopRecord
  PROVE  /\ WithPause(x) \in LoopRecord /\ SameLineage(x, WithPause(x))
         /\ SameSession(x, WithPause(x))
         /\ WithPause(x).completed = x.completed
         /\ WithPause(x).runOutcome = x.runOutcome
  BY DEF WithPause, LoopRecord, SameLineage, SameSession

-----------------------------------------------------------------------------
\* Steps that open no fan-out leave every plan's account right.
LEMMA FanStays ==
  ASSUME AInv, Grown,
         \A p \in Ids' : <<"02", p>> \in fired' => <<"02", p>> \in fired,
         \A l \in Ids' \ Ids : loops'[l].role # "gather" /\ loops'[l].completed = {},
         \A p \in Ids :
           loops'[p].completed \subseteq loops[p].completed \cup {g \in Gatherers(p) : Delivered(g)},
         NEW p \in Ids'
  PROVE  FanOK(p)'
<1>1. \A g : g \in Gatherers(p)' <=> g \in Ids' /\ loops'[g].role = "gather" /\ loops'[g].plan = p
  BY DEF Gatherers, Is
<1>2. \A g : g \in Gatherers(p) <=> g \in Ids /\ loops[g].role = "gather" /\ loops[g].plan = p
  BY DEF Gatherers, Is
<1>3. Gatherers(p)' = Gatherers(p)
  <2>1. \A g : g \in Gatherers(p)' <=> g \in Gatherers(p)
    BY <1>1, <1>2 DEF Grown
  <2> QED BY <2>1
<1>4. CASE p \in Ids
  <2>1. FanOK(p)  BY <1>4 DEF AInv
  <2>2. \A g \in Gatherers(p) : Delivered(g) => Delivered(g)'
    BY <1>2, DeliveredStays
  <2>3. loops'[p].completed \subseteq {g \in Gatherers(p)' : Delivered(g)'}
    BY <1>3, <1>4, <2>1, <2>2 DEF FanOK
  <2>4. <<"02", p>> \notin fired' => Gatherers(p)' = {}
    BY <1>3, <2>1 DEF FanOK, Grown
  <2>5. <<"02", p>> \in fired' =>
          /\ loops'[p].role = "plan" /\ loops'[p].action = "gather"
          /\ Cardinality(Gatherers(p)') = loops'[p].subtopics
          /\ loops'[p].subtopics \in 1..MaxSubtopics
    BY <1>3, <1>4, <2>1 DEF FanOK, Grown, Is
  <2> QED BY <2>3, <2>4, <2>5 DEF FanOK, Is
<1>5. CASE p \notin Ids
  <2>1. <<"02", p>> \notin fired
    <3>1. \A f \in fired : f[2] \in Ids  BY DEF AInv, TypesOK
    <3> QED BY <1>5, <3>1
  <2>2. Gatherers(p)' = {}
    <3>1. ASSUME NEW g \in Gatherers(p) PROVE FALSE
      <4>1. g \in Ids /\ loops[g].plan = p /\ BirthOK(g) /\ Is(g, "gather")
        BY <1>2 DEF AInv, Is
      <4> QED BY <1>5, <4>1 DEF BirthOK
    <3> QED BY <1>3, <3>1
  <2> QED BY <1>5, <2>1, <2>2 DEF FanOK
<1> QED BY <1>4, <1>5

\* A run's outcome keeps its grounds while nothing is added to it.
LEMMA VerdictStays ==
  ASSUME AInv, Grown, NEW r \in Ids',
         IF r \in Ids THEN loops'[r].runOutcome = loops[r].runOutcome
                       ELSE loops'[r].runOutcome = <<>>
  PROVE  VerdictOK(r)'
<1>1. CASE r \in Ids
  <2>1. VerdictOK(r)  BY <1>1 DEF AInv
  <2>2. \A v \in Ids : Decided(v, "reviewer", "approved") =>
          Decided(v, "reviewer", "approved")' /\ loops'[v].run = loops[v].run
    BY DecidedStays DEF Grown
  <2>3. \A l \in Ids : loops[l].outcome = "failed" =>
          loops'[l].outcome = "failed" /\ loops'[l].run = loops[l].run
    BY DEF Grown
  <2>4. Ids \subseteq Ids'  BY DEF Grown
  <2> QED BY <1>1, <2>1, <2>2, <2>3, <2>4 DEF VerdictOK
<1>2. CASE r \notin Ids
  <2>1. <<>> \notin Successful /\ <<>> \notin Failing  BY DEF Successful, Failing
  <2> QED BY <1>2, <2>1 DEF VerdictOK
<1> QED BY <1>1, <1>2

\* What is known of an approval outlives the steps of other rules.
LEMMA ApprovalStays ==
  ASSUME AInv, Grown, NEW v \in Ids', <<"07_outcome", v>> \in fired' => <<"07_outcome", v>> \in fired
  PROVE  ApprovalOK(v)'
<1> SUFFICES ASSUME <<"07_outcome", v>> \in fired
             PROVE  Is(v, "reviewer")' /\ loops'[loops'[v].run].runOutcome \in Successful
  BY DEF ApprovalOK
<1>1. v \in Ids
  <2>1. \A f \in fired : f[2] \in Ids  BY DEF AInv, TypesOK
  <2> QED BY <2>1
<1>2. Is(v, "reviewer") /\ loops[loops[v].run].runOutcome \in Successful
  BY <1>1 DEF AInv, ApprovalOK
<1>3. loops[v].run \in Ids
  <2>1. BirthOK(v) /\ 1..(v - 1) \subseteq Ids  BY <1>1, Ranges DEF AInv
  <2> QED BY <1>2, <2>1 DEF BirthOK, Is, PackRoles
<1> QED BY <1>1, <1>2, <1>3 DEF Grown, Is

\* With no loop added, the arcs stay as they are.
LEMMA UniqueStays ==
  ASSUME AInv, Grown, Ids' = Ids
  PROVE  UniqueOK'
<1>1. UniqueOK  BY DEF AInv
<1>2. \A l \in Ids : /\ loops'[l].role = loops[l].role /\ loops'[l].run = loops[l].run
                     /\ loops'[l].plan = loops[l].plan /\ loops'[l].researcher = loops[l].researcher
  BY DEF Grown
<1>3. \A q \in Ids : EarlierPlans(q)' = EarlierPlans(q)
  BY <1>2, Ranges DEF EarlierPlans, Is
<1>4. \A v \in Ids : \A p : Rejects(v, p) => Rejects(v, p)'  BY RejectsStays
<1>5. \A s, t \in Ids' : Is(s, "synthesize")' /\ Is(t, "synthesize")' /\ loops'[s].plan = loops'[t].plan
                         => s = t
  BY <1>1, <1>2 DEF UniqueOK, Is
<1>6. \A v, w \in Ids' : Is(v, "reviewer")' /\ Is(w, "reviewer")'
                         /\ loops'[v].researcher = loops'[w].researcher => v = w
  BY <1>1, <1>2 DEF UniqueOK, Is
<1>7. \A q \in Ids' : Is(q, "plan")' =>
        \A p \in EarlierPlans(q)' : \E v \in 1..(q - 1) : Rejects(v, p)'
  BY <1>1, <1>2, <1>3, <1>4, Ranges DEF UniqueOK, Is
<1>8. \A l \in Ids' : Is(l, "plan")' => <<"01", loops'[l].run>> \in fired'
  BY <1>1, <1>2 DEF UniqueOK, Is, Grown
<1> QED BY <1>5, <1>6, <1>7, <1>8 DEF UniqueOK

-----------------------------------------------------------------------------
\* Steps that replace one record, keep its lineage and its outcome of the run, and
\* fire nothing.
LEMMA SessionStep ==
  ASSUME AInv, NEW l \in Ids, NEW x \in LoopRecord,
         loops' = [loops EXCEPT ![l] = x], fired' = fired,
         SameLineage(loops[l], x), x.runOutcome = loops[l].runOutcome,
         loops[l].action # "none" => x.action = loops[l].action /\ x.subtopics = loops[l].subtopics,
         loops[l].outcome # "none" => x.outcome = loops[l].outcome,
         x.action = "none" => x.subtopics = NoList,
         x.outcome = "failed" => x.action = "none",
         x.completed \subseteq loops[l].completed \cup {g \in Gatherers(l) : Delivered(g)}
  PROVE  AInv'
<1>1. loops \in Seq(LoopRecord)  BY DEF AInv, TypesOK
<1>2. /\ loops' \in Seq(LoopRecord) /\ Ids' = Ids /\ loops'[l] = x
      /\ \A k \in Ids : k # l => loops'[k] = loops[k]
  <2>1. loops' = Put(loops, l, x)  BY DEF Put
  <2>2. l \in DOMAIN loops  BY DEF Ids
  <2>3. /\ Put(loops, l, x) \in Seq(LoopRecord) /\ DOMAIN Put(loops, l, x) = DOMAIN loops
        /\ Put(loops, l, x)[l] = x
        /\ \A k \in DOMAIN loops : k # l => Put(loops, l, x)[k] = loops[k]
    BY <1>1, <2>2, PutIs
  <2> QED BY <2>1, <2>3 DEF Ids
<1>3. Ids' = Ids  BY <1>2
<1>4. Grown
  <2>1. ASSUME NEW k \in Ids
        PROVE  /\ loops'[k].role = loops[k].role /\ loops'[k].run = loops[k].run
               /\ loops'[k].plan = loops[k].plan /\ loops'[k].researcher = loops[k].researcher
               /\ loops[k].action # "none" => /\ loops'[k].action = loops[k].action
                                              /\ loops'[k].subtopics = loops[k].subtopics
               /\ loops[k].outcome # "none" => loops'[k].outcome = loops[k].outcome
               /\ loops'[k].runOutcome = loops[k].runOutcome
    BY <1>2 DEF SameLineage
  <2> QED BY <1>2, <1>3, <2>1 DEF Grown
<1>5. TypesOK'
  <2>1. \A k \in Ids' : /\ loops'[k].run < k /\ loops'[k].plan < k /\ loops'[k].researcher < k
                        /\ loops'[k].action = "none" => loops'[k].subtopics = NoList
                        /\ loops'[k].outcome = "failed" => loops'[k].action = "none"
    BY <1>2, <1>3 DEF AInv, TypesOK, SameLineage
  <2>2. \A f \in fired' : f[2] \in Ids'  BY <1>3 DEF AInv, TypesOK
  <2> QED BY <1>2, <2>1, <2>2 DEF TypesOK
<1>6. UniqueOK'  BY <1>3, <1>4, UniqueStays
<1>7. \A k \in Ids' : BirthOK(k)'  BY <1>3, <1>4, BirthStays
<1>8. \A k \in Ids :
        loops'[k].completed \subseteq loops[k].completed \cup {g \in Gatherers(k) : Delivered(g)}
  BY <1>2
<1>9. \A k \in Ids' : FanOK(k)'  BY <1>3, <1>4, <1>8, FanStays
<1>10. \A k \in Ids : loops'[k].runOutcome = loops[k].runOutcome  BY <1>2
<1>11. \A k \in Ids' : VerdictOK(k)'  BY <1>3, <1>4, <1>10, VerdictStays
<1>12. \A k \in Ids' : ApprovalOK(k)'  BY <1>4, ApprovalStays
<1> QED BY <1>5, <1>6, <1>7, <1>9, <1>11, <1>12 DEF AInv

\* A session decides.
LEMMA DecideStep ==
  ASSUME ArcConstantsOK, AInv, NEW l \in Ids, NEW action \in Allowlist[loops[l].role], NEW n \in Lists(l, action),
         Decide(l, action, n)
  PROVE  AInv'
<1> DEFINE x == WithDecision(loops[l], action, n)
<1>1. loops[l] \in LoopRecord  BY Ranges
<1>2. action \in ActionNames /\ action # "none"
  <2>1. loops[l].role \in DOMAIN Allowlist
    BY <1>1 DEF LoopRecord, Roles, PackRoles, Coordinators, Allowlist
  <2>2. \A r \in DOMAIN Allowlist : "none" \notin Allowlist[r]  BY DEF Allowlist
  <2> QED BY <2>1, <2>2 DEF ActionNames
<1>3. n \in ListSizes  BY DEF Decide, Admitted, ListSizes
<1>4. /\ x \in LoopRecord /\ SameLineage(loops[l], x) /\ x.action = action /\ x.subtopics = n
      /\ x.outcome = loops[l].outcome /\ x.completed = loops[l].completed
      /\ x.runOutcome = loops[l].runOutcome
  BY <1>1, <1>2, <1>3, WithDecisionIs
<1>5. loops' = [loops EXCEPT ![l] = x]
  <2>1. loops' = [loops EXCEPT ![l].action = action, ![l].subtopics = n]  BY DEF Decide
  <2>2. DOMAIN loops' = DOMAIN loops /\ loops'[l] = x /\ \A k \in Ids : k # l => loops'[k] = loops[k]
    BY <2>1 DEF WithDecision, Ids
  <2> QED BY <2>1 DEF WithDecision, Ids
<1>6. loops[l].action = "none" /\ loops[l].outcome = "none" /\ fired' = fired
  BY DEF Decide, Running
<1> HIDE DEF x
<1> QED BY <1>2, <1>4, <1>5, <1>6, SessionStep

\* A session succeeds.
LEMMA CompleteStep ==
  ASSUME AInv, NEW l \in Ids, Complete(l)
  PROVE  AInv'
<1> DEFINE x == WithOutcome(loops[l], "success")
<1>1. loops[l] \in LoopRecord  BY Ranges
<1>2. "success" \in Outcomes  BY DEF Outcomes
<1>3. /\ x \in LoopRecord /\ SameLineage(loops[l], x) /\ x.action = loops[l].action
      /\ x.subtopics = loops[l].subtopics /\ x.outcome = "success"
      /\ x.completed = loops[l].completed /\ x.runOutcome = loops[l].runOutcome
  BY <1>1, <1>2, WithOutcomeIs
<1>4. loops' = [loops EXCEPT ![l] = x]  BY DEF Complete, WithOutcome
<1>5. loops[l].action # "none" /\ loops[l].outcome = "none" /\ fired' = fired  BY DEF Complete
<1> HIDE DEF x
<1> QED BY <1>3, <1>4, <1>5, SessionStep

\* A session fails.
LEMMA FailStep ==
  ASSUME AInv, NEW l \in Ids, Fail(l)
  PROVE  AInv'
<1> DEFINE x == WithOutcome(loops[l], "failed")
<1>1. loops[l] \in LoopRecord  BY Ranges
<1>2. "failed" \in Outcomes  BY DEF Outcomes
<1>3. /\ x \in LoopRecord /\ SameLineage(loops[l], x) /\ x.action = loops[l].action
      /\ x.subtopics = loops[l].subtopics /\ x.outcome = "failed"
      /\ x.completed = loops[l].completed /\ x.runOutcome = loops[l].runOutcome
  BY <1>1, <1>2, WithOutcomeIs
<1>4. loops' = [loops EXCEPT ![l] = x]  BY DEF Fail, WithOutcome
<1>5. loops[l].action = "none" /\ loops[l].outcome = "none" /\ fired' = fired  BY DEF Fail, Running
<1>6. loops[l].subtopics = NoList  BY <1>5 DEF AInv, TypesOK
<1> HIDE DEF x
<1> QED BY <1>3, <1>4, <1>5, <1>6, SessionStep

\* Rule 03 stamps a gatherer's completion on its plan.
LEMMA StampStep ==
  ASSUME AInv, NEW l \in Ids, StampCompletion(l)
  PROVE  AInv'
<1> DEFINE p == loops[l].plan
           x == WithStamp(loops[p], l)
<1>1. Is(l, "gather") /\ Delivered(l) /\ fired' = fired  BY DEF StampCompletion, Decided, Delivered
<1>2. p \in Ids /\ <<"02", p>> \in fired  BY <1>1 DEF AInv, BirthOK
<1>3. loops[p] \in LoopRecord /\ l \in Nat  BY <1>2, Ranges
<1>4. l \in Gatherers(p)  BY <1>1 DEF Gatherers
<1>5. /\ x \in LoopRecord /\ SameLineage(loops[p], x) /\ SameSession(loops[p], x)
      /\ x.completed = loops[p].completed \cup {l} /\ x.runOutcome = loops[p].runOutcome
  BY <1>3, WithStampIs
<1>6. loops' = [loops EXCEPT ![p] = x]  BY DEF StampCompletion, WithStamp
<1>7. /\ loops[p].action = "none" => loops[p].subtopics = NoList
      /\ loops[p].outcome = "failed" => loops[p].action = "none"
  BY <1>2 DEF AInv, TypesOK
<1> HIDE DEF x, p
<1>8. x.completed \subseteq loops[p].completed \cup {g \in Gatherers(p) : Delivered(g)}
  BY <1>1, <1>4, <1>5
<1> QED BY <1>1, <1>2, <1>5, <1>6, <1>7, <1>8, SessionStep DEF SameSession

-----------------------------------------------------------------------------
\* Rules that spawn one loop: what is left to show is where the child comes from,
\* and that the arcs stay single.
LEMMA OneChild ==
  ASSUME AInv, NEW child, child = Len(loops) + 1, NEW role \in Roles \ {"gather"}, NEW home \in 0..Len(loops),
         NEW plan \in 0..Len(loops), NEW researcher \in 0..Len(loops),
         Spawn(<<Fresh(role, home, plan, researcher)>>),
         NEW rule, rule \notin {"02", "07_outcome"}, NEW l \in Ids,
         fired' = fired \cup {<<rule, l>>}
  PROVE  /\ Grown /\ TypesOK' /\ Ids' = Ids \cup {child} /\ child \notin Ids /\ child \in Nat
         /\ Len(loops) \in Nat /\ Ids = 1..Len(loops)
         /\ loops'[child] = Fresh(role, home, plan, researcher)
         /\ \A k \in Ids : loops'[k] = loops[k]
         /\ \A k \in Ids' : FanOK(k)' /\ VerdictOK(k)' /\ ApprovalOK(k)'
         /\ \A k \in Ids : BirthOK(k)'
<1> DEFINE c == Fresh(role, home, plan, researcher)
<1>1. loops \in Seq(LoopRecord) /\ Len(loops) \in Nat /\ Ids = 1..Len(loops)
  BY Ranges DEF AInv, TypesOK
<1>2. c \in LoopRecord  BY <1>1, FreshIs
<1>3. /\ c.role = role /\ c.run = home /\ c.plan = plan /\ c.researcher = researcher
      /\ c.action = "none" /\ c.subtopics = NoList /\ c.completed = {} /\ c.outcome = "none"
      /\ c.runOutcome = <<>>
  BY DEF Fresh
<1> HIDE DEF c
<1>4. /\ loops' \in Seq(LoopRecord) /\ Len(loops') = child /\ loops'[child] = c
      /\ \A k \in Ids : loops'[k] = loops[k]
      /\ Ids' = Ids \cup {child} /\ child \notin Ids
  BY <1>1, <1>2, AddLoop DEF c
<1>5. Grown
  <2>1. \A k \in Ids' \ Ids : loops'[k].role # "gather"  BY <1>3, <1>4
  <2> QED BY <1>4, <2>1 DEF Grown
<1>6. TypesOK'
  <2>1. \A k \in Ids : /\ loops[k].run < k /\ loops[k].plan < k /\ loops[k].researcher < k
                       /\ loops[k].action = "none" => loops[k].subtopics = NoList
                       /\ loops[k].outcome = "failed" => loops[k].action = "none"
    BY DEF AInv, TypesOK
  <2>2. /\ c.run < child /\ c.plan < child /\ c.researcher < child
    BY <1>1, <1>3
  <2>3. \A f \in fired' : f[2] \in Ids'  BY <1>4 DEF AInv, TypesOK
  <2> QED BY <1>3, <1>4, <2>1, <2>2, <2>3 DEF TypesOK
<1>7. \A k \in Ids' : FanOK(k)'
  <2>1. \A k \in Ids' : <<"02", k>> \in fired' => <<"02", k>> \in fired  OBVIOUS
  <2>2. \A k \in Ids' \ Ids : loops'[k].role # "gather" /\ loops'[k].completed = {}
    BY <1>3, <1>4
  <2>3. \A k \in Ids :
          loops'[k].completed \subseteq loops[k].completed \cup {g \in Gatherers(k) : Delivered(g)}
    BY <1>4
  <2> QED BY <1>5, <2>1, <2>2, <2>3, FanStays
<1>8. \A k \in Ids' : VerdictOK(k)'
  <2> TAKE k \in Ids'
  <2>1. CASE k \in Ids  BY <1>4, <1>5, <2>1, VerdictStays
  <2>2. CASE k \notin Ids  BY <1>3, <1>4, <1>5, <2>2, VerdictStays
  <2> QED BY <2>1, <2>2
<1>9. \A k \in Ids' : ApprovalOK(k)'
  <2> TAKE k \in Ids'
  <2>1. <<"07_outcome", k>> \in fired' => <<"07_outcome", k>> \in fired  OBVIOUS
  <2> QED BY <1>5, <2>1, ApprovalStays
<1>10. \A k \in Ids : BirthOK(k)'  BY <1>5, BirthStays
<1> QED BY <1>1, <1>4, <1>5, <1>6, <1>7, <1>8, <1>9, <1>10 DEF c

\* The arcs stay single when the child is of no arc of its own (recovery, wakeup)
\* or is the only one of its plan or synthesis.
LEMMA UniqueChild ==
  ASSUME AInv, Grown, Ids = 1..Len(loops), Len(loops) \in Nat, NEW child, child = Len(loops) + 1,
         Ids' = Ids \cup {child}, \A k \in Ids : loops'[k] = loops[k],
         loops'[child].role = "synthesize" =>
           \A t \in Ids : Is(t, "synthesize") => loops[t].plan # loops'[child].plan,
         loops'[child].role = "reviewer" =>
           \A t \in Ids : Is(t, "reviewer") => loops[t].researcher # loops'[child].researcher,
         loops'[child].role = "plan" =>
           /\ <<"01", loops'[child].run>> \in fired'
           /\ \A p \in Ids : Is(p, "plan") /\ loops[p].run = loops'[child].run =>
                \E v \in Ids : Rejects(v, p)'
  PROVE  UniqueOK'
<1>1. UniqueOK /\ child \in Nat /\ child \notin Ids /\ Ids = 1..(child - 1)  BY DEF AInv
<1>2. \A s, t \in Ids' : Is(s, "synthesize")' /\ Is(t, "synthesize")' /\ loops'[s].plan = loops'[t].plan
                         => s = t
  <2> TAKE s, t \in Ids'
  <2>1. CASE s \in Ids /\ t \in Ids  BY <1>1, <2>1 DEF UniqueOK, Is
  <2>2. CASE s \in Ids /\ t = child  BY <2>2 DEF Is
  <2>3. CASE s = child /\ t \in Ids  BY <2>3 DEF Is
  <2> QED BY <2>1, <2>2, <2>3
<1>3. \A v, w \in Ids' : Is(v, "reviewer")' /\ Is(w, "reviewer")'
                         /\ loops'[v].researcher = loops'[w].researcher => v = w
  <2> TAKE v, w \in Ids'
  <2>1. CASE v \in Ids /\ w \in Ids  BY <1>1, <2>1 DEF UniqueOK, Is
  <2>2. CASE v \in Ids /\ w = child  BY <2>2 DEF Is
  <2>3. CASE v = child /\ w \in Ids  BY <2>3 DEF Is
  <2> QED BY <2>1, <2>2, <2>3
<1>4. \A v \in Ids : \A p : Rejects(v, p) => Rejects(v, p)'  BY RejectsStays
<1>5. \A q \in Ids' : Is(q, "plan")' =>
        \A p \in EarlierPlans(q)' : \E v \in 1..(q - 1) : Rejects(v, p)'
  <2> SUFFICES ASSUME NEW q \in Ids', Is(q, "plan")', NEW p \in EarlierPlans(q)'
               PROVE  \E v \in 1..(q - 1) : Rejects(v, p)'
    OBVIOUS
  <2>1. CASE q \in Ids
    <3>1. 1..(q - 1) \subseteq Ids  BY <2>1, Ranges
    <3>2. p \in EarlierPlans(q) /\ Is(q, "plan")  BY <2>1, <3>1 DEF EarlierPlans, Is
    <3>3. \E v \in 1..(q - 1) : Rejects(v, p)  BY <1>1, <2>1, <3>2 DEF UniqueOK
    <3> QED BY <1>4, <3>1, <3>3
  <2>2. CASE q = child
    <3>1. p \in Ids /\ Is(p, "plan") /\ loops[p].run = loops'[child].run
      BY <1>1, <2>2 DEF EarlierPlans, Is
    <3>2. \E v \in Ids : Rejects(v, p)'  BY <2>2, <3>1 DEF Is
    <3> QED BY <1>1, <2>2, <3>2
  <2> QED BY <2>1, <2>2
<1>6. \A k \in Ids' : Is(k, "plan")' => <<"01", loops'[k].run>> \in fired'
  <2> TAKE k \in Ids'
  <2>1. CASE k \in Ids  BY <1>1, <2>1 DEF UniqueOK, Is, Grown
  <2>2. CASE k = child  BY <2>2 DEF Is
  <2> QED BY <2>1, <2>2
<1> QED BY <1>2, <1>3, <1>5, <1>6 DEF UniqueOK

\* A rule that spawns one child: the facts left to show are about that child.
LEMMA ChildStep ==
  ASSUME AInv, Grown, TypesOK', NEW child, Ids' = Ids \cup {child}, UniqueOK', BirthOK(child)',
         \A k \in Ids' : FanOK(k)' /\ VerdictOK(k)' /\ ApprovalOK(k)',
         \A k \in Ids : BirthOK(k)'
  PROVE  AInv'
<1>1. \A k \in Ids' : BirthOK(k)'
  <2> TAKE k \in Ids'
  <2>1. CASE k \in Ids  BY <2>1
  <2>2. CASE k = child  BY <2>2
  <2> QED BY <2>1, <2>2
<1> QED BY <1>1 DEF AInv

\* A loop of the pack belongs to a run.
LEMMA InRun ==
  ASSUME AInv, NEW l \in Ids, loops[l].role \in PackRoles
  PROVE  loops[l].run \in Ids /\ loops[l].run \in 0..Len(loops)
<1>1. BirthOK(l) /\ 1..(l - 1) \subseteq Ids  BY Ranges DEF AInv
<1> QED BY <1>1, Ranges DEF BirthOK

\* A record is its fields.
LEMMA SameRecord ==
  ASSUME NEW x \in LoopRecord, NEW y \in LoopRecord, SameLineage(x, y), SameSession(x, y),
         x.completed = y.completed, x.paused = y.paused, x.runOutcome = y.runOutcome
  PROVE  x = y
<1> DEFINE Fields(z) ==
      [role |-> z.role, run |-> z.run, plan |-> z.plan, researcher |-> z.researcher,
       action |-> z.action, subtopics |-> z.subtopics, completed |-> z.completed,
       outcome |-> z.outcome, paused |-> z.paused, runOutcome |-> z.runOutcome]
<1>1. x = Fields(x) /\ y = Fields(y)  BY DEF LoopRecord
<1>2. Fields(x) = Fields(y)  BY DEF SameLineage, SameSession
<1> QED BY <1>1, <1>2

\* EXCEPT fills the lineage of a fresh record.
LEMMA FreshOf ==
  ASSUME NEW role \in Roles, NEW home \in Nat, NEW a \in Nat, NEW b \in Nat, NEW plan \in Nat
  PROVE  [Fresh(role, home, a, b) EXCEPT !.plan = plan] = Fresh(role, home, plan, b)
<1> DEFINE x == [Fresh(role, home, a, b) EXCEPT !.plan = plan]
           y == Fresh(role, home, plan, b)
<1>1. Fresh(role, home, a, b) \in LoopRecord /\ y \in LoopRecord  BY FreshIs
<1>2. x \in LoopRecord  BY <1>1 DEF LoopRecord
<1>3. /\ SameLineage(x, y) /\ SameSession(x, y)
      /\ x.completed = y.completed /\ x.paused = y.paused /\ x.runOutcome = y.runOutcome
  BY DEF Fresh, SameLineage, SameSession
<1> HIDE DEF x, y
<1>4. x = y  BY <1>1, <1>2, <1>3, SameRecord
<1> QED BY <1>4 DEF x, y

\* A new loop handed a researcher.
LEMMA FreshFor ==
  ASSUME NEW role \in Roles, NEW home \in Nat, NEW a \in Nat, NEW b \in Nat, NEW researcher \in Nat
  PROVE  [Fresh(role, home, a, b) EXCEPT !.researcher = researcher] = Fresh(role, home, a, researcher)
<1> DEFINE x == [Fresh(role, home, a, b) EXCEPT !.researcher = researcher]
           y == Fresh(role, home, a, researcher)
<1>1. Fresh(role, home, a, b) \in LoopRecord /\ y \in LoopRecord  BY FreshIs
<1>2. x \in LoopRecord  BY <1>1 DEF LoopRecord
<1>3. /\ SameLineage(x, y) /\ SameSession(x, y)
      /\ x.completed = y.completed /\ x.paused = y.paused /\ x.runOutcome = y.runOutcome
  BY DEF Fresh, SameLineage, SameSession
<1> HIDE DEF x, y
<1>4. x = y  BY <1>1, <1>2, <1>3, SameRecord
<1> QED BY <1>4 DEF x, y

\* NewLoop makes a fresh record.
LEMMA NewLoopIs ==
  ASSUME NEW role, NEW home
  PROVE  NewLoop(role, home) = Fresh(role, home, 0, 0)
  BY DEF NewLoop, Fresh, None

\* A new loop of a plan.
LEMMA NewLoopOf ==
  ASSUME NEW role \in Roles, NEW home \in Nat, NEW plan \in Nat
  PROVE  [NewLoop(role, home) EXCEPT !.plan = plan] = Fresh(role, home, plan, 0)
<1>1. 0 \in Nat  OBVIOUS
<1> QED BY <1>1, NewLoopIs, FreshOf

\* A new loop of a researcher.
LEMMA NewLoopFor ==
  ASSUME NEW role \in Roles, NEW home \in Nat, NEW researcher \in Nat
  PROVE  [NewLoop(role, home) EXCEPT !.researcher = researcher] = Fresh(role, home, 0, researcher)
<1>1. 0 \in Nat  OBVIOUS
<1> QED BY <1>1, NewLoopIs, FreshFor

\* A coordinator's decision starts a plan.
LEMMA SpawnPlanStep ==
  ASSUME AInv, NEW l \in Ids, SpawnPlan(l)
  PROVE  AInv'
<1> PICK child : child = Len(loops) + 1  OBVIOUS
<1>1. <<"01", l>> \notin fired /\ fired' = fired \cup {<<"01", l>>}  BY DEF SpawnPlan, Once
<1>2. Spawn(<<Fresh("plan", l, 0, 0)>>)
  <2>1. l \in Nat /\ "plan" \in Roles  BY Ranges DEF Roles, PackRoles
  <2> QED BY <2>1, NewLoopIs DEF SpawnPlan
<1>3. /\ Len(loops) \in Nat /\ Ids = 1..Len(loops) /\ l \in 0..Len(loops) /\ 0 \in 0..Len(loops)
  BY Ranges
<1>4. "plan" \in Roles \ {"gather"}  BY DEF Roles, PackRoles
<1>5. "01" \notin {"02", "07_outcome"}  OBVIOUS
<1>6. /\ Grown /\ TypesOK' /\ Ids' = Ids \cup {child} /\ child \notin Ids /\ child = Len(loops) + 1 /\ child \in Nat
      /\ loops'[child] = Fresh("plan", l, 0, 0)
      /\ \A k \in Ids : loops'[k] = loops[k]
      /\ \A k \in Ids' : FanOK(k)' /\ VerdictOK(k)' /\ ApprovalOK(k)'
      /\ \A k \in Ids : BirthOK(k)'
  BY <1>1, <1>2, <1>3, <1>4, <1>5, OneChild
<1>7. loops'[child].role = "plan" /\ loops'[child].run = l /\ loops'[child].researcher = 0
  BY <1>6 DEF Fresh
<1>8. \A p \in Ids : ~(Is(p, "plan") /\ loops[p].run = l)  BY <1>1 DEF AInv, UniqueOK
<1>9. UniqueOK'  BY <1>1, <1>3, <1>6, <1>7, <1>8, UniqueChild
<1>10. EarlierPlans(child)' = {}
  BY <1>3, <1>6, <1>7, <1>8 DEF EarlierPlans, Is
<1>11. BirthOK(child)'
  <2>1. l \in 1..(child - 1)  BY <1>3, <1>6
  <2> QED BY <1>1, <1>7, <1>10, <2>1 DEF BirthOK, Is, None
<1> QED BY <1>6, <1>9, <1>11, ChildStep

\* A synthesis is handed to a reviewer.
LEMMA ReviewStep ==
  ASSUME AInv, NEW l \in Ids, Review(l)
  PROVE  AInv'
<1> PICK child : child = Len(loops) + 1  OBVIOUS
<1> DEFINE home == loops[l].run
<1>1. <<"04", l>> \notin fired /\ fired' = fired \cup {<<"04", l>>} /\ Decided(l, "synthesize", "emit")
  BY DEF Review, Once
<1>2. Spawn(<<Fresh("reviewer", home, 0, l)>>)
  <2>1. l \in Nat /\ home \in Nat /\ "reviewer" \in Roles  BY Ranges DEF Roles, PackRoles, LoopRecord
  <2>2. Spawn(<<[NewLoop("reviewer", home) EXCEPT !.researcher = l]>>)  BY DEF Review
  <2> HIDE DEF home
  <2>3. [NewLoop("reviewer", home) EXCEPT !.researcher = l] = Fresh("reviewer", home, 0, l)
    BY <2>1, NewLoopFor
  <2> QED BY <2>2, <2>3
<1>3. /\ Len(loops) \in Nat /\ Ids = 1..Len(loops) /\ l \in 0..Len(loops) /\ 0 \in 0..Len(loops)
  BY Ranges
<1>4. home \in Ids /\ home \in 0..Len(loops)  BY <1>1, InRun DEF Decided, Is, PackRoles
<1> HIDE DEF home
<1>5. "reviewer" \in Roles \ {"gather"} /\ "04" \notin {"02", "07_outcome"}  BY DEF Roles, PackRoles
<1>6. /\ Grown /\ TypesOK' /\ Ids' = Ids \cup {child} /\ child \notin Ids /\ child = Len(loops) + 1 /\ child \in Nat
      /\ loops'[child] = Fresh("reviewer", home, 0, l)
      /\ \A k \in Ids : loops'[k] = loops[k]
      /\ \A k \in Ids' : FanOK(k)' /\ VerdictOK(k)' /\ ApprovalOK(k)'
      /\ \A k \in Ids : BirthOK(k)'
  BY <1>1, <1>2, <1>3, <1>4, <1>5, OneChild
<1>7. loops'[child].role = "reviewer" /\ loops'[child].run = home /\ loops'[child].researcher = l
  BY <1>6 DEF Fresh
<1>8. \A t \in Ids : Is(t, "reviewer") => loops[t].researcher # l  BY <1>1 DEF AInv, BirthOK
<1>9. UniqueOK'  BY <1>3, <1>6, <1>7, <1>8, UniqueChild
<1>10. BirthOK(child)'
  <2>1. home \in 1..(child - 1)  BY <1>3, <1>4, <1>6
  <2>2. loops'[l].run = home /\ Decided(l, "synthesize", "emit")'
    BY <1>1, <1>6 DEF home, Decided, Is
  <2> QED BY <1>1, <1>6, <1>7, <2>1, <2>2 DEF BirthOK, Is
<1> QED BY <1>6, <1>9, <1>10, ChildStep

\* A question goes to a coordinator.
LEMMA ClarifyStep ==
  ASSUME AInv, NEW l \in Ids, Clarify(l)
  PROVE  AInv'
<1> PICK child : child = Len(loops) + 1  OBVIOUS
<1> DEFINE home == loops[l].run
<1>1. /\ fired' = fired \cup {<<"06", l>>}
      /\ loops[l].role \in PackRoles /\ loops[l].action = "needs_clarification"
  BY DEF Clarify, Once
<1>2. Spawn(<<Fresh("recovery", home, 0, 0)>>)
  <2>1. home \in Nat /\ "recovery" \in Roles  BY Ranges DEF Roles, Coordinators, LoopRecord
  <2> QED BY <2>1, NewLoopIs DEF Clarify
<1>3. /\ Len(loops) \in Nat /\ Ids = 1..Len(loops) /\ 0 \in 0..Len(loops)
  BY Ranges
<1>4. home \in Ids /\ home \in 0..Len(loops)  BY <1>1, InRun
<1> HIDE DEF home
<1>5. "recovery" \in Roles \ {"gather"} /\ "06" \notin {"02", "07_outcome"}  BY DEF Roles, Coordinators
<1>6. /\ Grown /\ TypesOK' /\ Ids' = Ids \cup {child} /\ child \notin Ids /\ child = Len(loops) + 1 /\ child \in Nat
      /\ loops'[child] = Fresh("recovery", home, 0, 0)
      /\ \A k \in Ids : loops'[k] = loops[k]
      /\ \A k \in Ids' : FanOK(k)' /\ VerdictOK(k)' /\ ApprovalOK(k)'
      /\ \A k \in Ids : BirthOK(k)'
  BY <1>1, <1>2, <1>3, <1>4, <1>5, OneChild
<1>7. loops'[child].role = "recovery" /\ loops'[child].run = home
  BY <1>6 DEF Fresh
<1>9. UniqueOK'  BY <1>3, <1>6, <1>7, UniqueChild
<1>10. BirthOK(child)'
  <2>1. home \in 1..(child - 1)  BY <1>3, <1>4, <1>6
  <2>2. loops'[l].run = home /\ loops'[l].role \in PackRoles /\ loops'[l].action = "needs_clarification"
    BY <1>1, <1>6 DEF home
  <2> QED BY <1>6, <1>7, <2>1, <2>2 DEF BirthOK, Is
<1> QED BY <1>6, <1>9, <1>10, ChildStep

\* An approval wakes a coordinator.
LEMMA WakeUpStep ==
  ASSUME AInv, NEW l \in Ids, WakeUp(l)
  PROVE  AInv'
<1> PICK child : child = Len(loops) + 1  OBVIOUS
<1> DEFINE home == loops[l].run
<1>1. /\ fired' = fired \cup {<<"07_spawn", l>>} /\ <<"07_outcome", l>> \in fired /\ Is(l, "reviewer")
  BY DEF WakeUp, Once, Decided
<1>2. Spawn(<<Fresh("wakeup", home, 0, 0)>>)
  <2>1. home \in Nat /\ "wakeup" \in Roles  BY Ranges DEF Roles, Coordinators, LoopRecord
  <2> QED BY <2>1, NewLoopIs DEF WakeUp
<1>3. /\ Len(loops) \in Nat /\ Ids = 1..Len(loops) /\ 0 \in 0..Len(loops)
  BY Ranges
<1>4. home \in Ids /\ home \in 0..Len(loops)  BY <1>1, InRun DEF Is, PackRoles
<1>5. loops[home].runOutcome \in Successful  BY <1>1 DEF AInv, ApprovalOK
<1> HIDE DEF home
<1>6. "wakeup" \in Roles \ {"gather"} /\ "07_spawn" \notin {"02", "07_outcome"}  BY DEF Roles, Coordinators
<1>7. /\ Grown /\ TypesOK' /\ Ids' = Ids \cup {child} /\ child \notin Ids /\ child = Len(loops) + 1 /\ child \in Nat
      /\ loops'[child] = Fresh("wakeup", home, 0, 0)
      /\ \A k \in Ids : loops'[k] = loops[k]
      /\ \A k \in Ids' : FanOK(k)' /\ VerdictOK(k)' /\ ApprovalOK(k)'
      /\ \A k \in Ids : BirthOK(k)'
  BY <1>1, <1>2, <1>3, <1>4, <1>6, OneChild
<1>8. loops'[child].role = "wakeup" /\ loops'[child].run = home
  BY <1>7 DEF Fresh
<1>9. UniqueOK'  BY <1>3, <1>7, <1>8, UniqueChild
<1>10. BirthOK(child)'
  <2>1. home \in 1..(child - 1)  BY <1>3, <1>4, <1>7
  <2> QED BY <1>4, <1>5, <1>7, <1>8, <2>1 DEF BirthOK, Is
<1> QED BY <1>7, <1>9, <1>10, ChildStep

\* Rule 03b: as many stamps as subtopics, each from a gatherer that delivered, is
\* every gatherer.
LEMMA AllDelivered ==
  ASSUME AInv, NEW l \in Ids, loops[l].subtopics > 0,
         Cardinality(loops[l].completed) = loops[l].subtopics
  PROVE  Joined(l)
<1>1. FanOK(l)  BY DEF AInv
<1>2. IsFiniteSet(Gatherers(l))
  <2>1. IsFiniteSet(1..Len(loops))  BY Ranges, FS_Interval
  <2>2. Gatherers(l) \subseteq 1..Len(loops)  BY Ranges DEF Gatherers
  <2> QED BY <2>1, <2>2, FS_Subset
<1>3. loops[l].completed \subseteq Gatherers(l)  BY <1>1 DEF FanOK
<1>4. <<"02", l>> \in fired
  <2> SUFFICES ASSUME <<"02", l>> \notin fired PROVE FALSE
    OBVIOUS
  <2>1. loops[l].completed = {}  BY <1>1, <1>3 DEF FanOK
  <2>2. Cardinality(loops[l].completed) = 0  BY <2>1, FS_EmptySet
  <2> QED BY <2>2
<1>5. Cardinality(Gatherers(l)) = Cardinality(loops[l].completed)  BY <1>1, <1>4 DEF FanOK
<1>6. loops[l].completed = Gatherers(l)  BY <1>2, <1>3, <1>5, FS_Subset
<1> QED BY <1>1, <1>4, <1>6 DEF FanOK, Joined

\* The last gatherer's stamp starts the synthesis.
LEMMA JoinStep ==
  ASSUME AInv, NEW l \in Ids, Join(l)
  PROVE  AInv'
<1> PICK child : child = Len(loops) + 1  OBVIOUS
<1> DEFINE home == loops[l].run
           researcher == loops[l].researcher
<1>1. /\ <<"03b", l>> \notin fired /\ fired' = fired \cup {<<"03b", l>>} /\ Is(l, "plan")
      /\ loops[l].subtopics > 0 /\ Cardinality(loops[l].completed) = loops[l].subtopics
  BY DEF Join, Once
<1>2. /\ Len(loops) \in Nat /\ Ids = 1..Len(loops) /\ l \in 0..Len(loops) /\ l \in Nat
  BY Ranges
<1>3. home \in Ids /\ home \in 0..Len(loops) /\ home < l  BY <1>1, InRun DEF Is, PackRoles, AInv, TypesOK
<1>4. researcher \in Nat /\ researcher < l  BY Ranges DEF LoopRecord, AInv, TypesOK
<1>5. Spawn(<<Fresh("synthesize", home, l, researcher)>>)
  <2>1. Spawn(<<[NewLoop("synthesize", home) EXCEPT !.plan = l, !.researcher = researcher]>>)
    BY DEF Join
  <2>2. home \in Nat /\ "synthesize" \in Roles  BY <1>2, <1>3 DEF Roles, PackRoles
  <2> HIDE DEF home, researcher
  <2>4. l \in Nat /\ 0 \in Nat /\ researcher \in Nat /\ home \in Nat /\ "synthesize" \in Roles
    BY <1>2, <1>4, <2>2
  <2>5. [NewLoop("synthesize", home) EXCEPT !.plan = l] = Fresh("synthesize", home, l, 0)
    BY <2>4, NewLoopOf
  <2>6. [Fresh("synthesize", home, l, 0) EXCEPT !.researcher = researcher]
          = Fresh("synthesize", home, l, researcher)
    BY <2>4, FreshFor
  <2> QED BY <2>1, <2>5, <2>6
<1> HIDE DEF home, researcher
<1>6. "synthesize" \in Roles \ {"gather"} /\ "03b" \notin {"02", "07_outcome"} /\ researcher \in 0..Len(loops)
  BY <1>2, <1>4 DEF Roles, PackRoles
<1>7. /\ Grown /\ TypesOK' /\ Ids' = Ids \cup {child} /\ child \notin Ids /\ child \in Nat
      /\ loops'[child] = Fresh("synthesize", home, l, researcher)
      /\ \A k \in Ids : loops'[k] = loops[k]
      /\ \A k \in Ids' : FanOK(k)' /\ VerdictOK(k)' /\ ApprovalOK(k)'
      /\ \A k \in Ids : BirthOK(k)'
  BY <1>1, <1>2, <1>3, <1>5, <1>6, OneChild
<1>8. /\ loops'[child].role = "synthesize" /\ loops'[child].run = home /\ loops'[child].plan = l
      /\ loops'[child].researcher = researcher
  BY <1>7 DEF Fresh
<1>9. \A t \in Ids : Is(t, "synthesize") => loops[t].plan # l  BY <1>1 DEF AInv, BirthOK
<1>10. UniqueOK'  BY <1>2, <1>7, <1>8, <1>9, UniqueChild
<1>11. Joined(l)  BY <1>1, AllDelivered
<1>12. Joined(l)'
  <2>1. Gatherers(l)' = Gatherers(l)  BY <1>7, <1>11, GatherersStay DEF Joined
  <2>2. \A g \in Gatherers(l) : g \in Ids  BY DEF Gatherers
  <2>3. \A g \in Gatherers(l) : Delivered(g)'
    BY <1>7, <1>11, <2>2, DeliveredStays DEF Joined
  <2>4. <<"02", l>> \in fired'  BY <1>7, <1>11 DEF Joined, Grown
  <2> QED BY <2>1, <2>3, <2>4 DEF Joined
<1>13. BirthOK(child)'
  <2>1. home \in 1..(child - 1)  BY <1>2, <1>3
  <2>2. loops'[l].run = home /\ loops'[l].researcher = researcher /\ Is(l, "plan")' /\ l \in Ids'
    BY <1>1, <1>7 DEF home, researcher, Is
  <2>3. <<"03b", l>> \in fired'  BY <1>1
  <2> QED BY <1>8, <1>12, <2>1, <2>2, <2>3 DEF BirthOK, Is
<1> QED BY <1>7, <1>10, <1>13, ChildStep

\* Rule 05: the rejected synthesis is of the run's latest plan.
LEMMA LatestPlan ==
  ASSUME AInv, NEW v \in Ids, Is(v, "reviewer"),
         <<"05", v>> \notin fired \/ loops[v].action # "insufficient"
  PROVE  /\ loops[v].researcher \in Ids /\ Is(loops[v].researcher, "synthesize")
         /\ loops[loops[v].researcher].action = "emit"
         /\ loops[loops[v].researcher].run = loops[v].run
         /\ loops[loops[v].researcher].plan \in Ids /\ Is(loops[loops[v].researcher].plan, "plan")
         /\ loops[loops[loops[v].researcher].plan].run = loops[v].run
         /\ \A p \in Ids : Is(p, "plan") /\ loops[p].run = loops[v].run
                           => p <= loops[loops[v].researcher].plan
<1> DEFINE s == loops[v].researcher
           q == loops[s].plan
<1>1. s \in Ids /\ Is(s, "synthesize") /\ loops[s].action = "emit" /\ loops[s].run = loops[v].run
  <2>1. BirthOK(v)  BY DEF AInv
  <2> QED BY <2>1 DEF BirthOK, Decided
<1>2. q \in Ids /\ Is(q, "plan") /\ loops[q].run = loops[v].run
  <2>1. BirthOK(s)  BY <1>1 DEF AInv
  <2> QED BY <1>1, <2>1 DEF BirthOK
<1>3. ASSUME NEW p \in Ids, Is(p, "plan"), loops[p].run = loops[v].run, ~(p <= q)
      PROVE  FALSE
  <2>1. q \in EarlierPlans(p)
    <3>1. p \in Nat /\ q \in Nat \ {0}  BY <1>2, Ranges
    <3> HIDE DEF q
    <3>2. q \in 1..(p - 1)  BY <1>3, <3>1
    <3> QED BY <1>2, <1>3, <3>2 DEF EarlierPlans
  <2>2. PICK w \in 1..(p - 1) : Rejects(w, q)  BY <1>3, <2>1 DEF AInv, UniqueOK
  <2>3. w \in Ids  BY Ranges
  <2>4. Is(w, "reviewer") /\ loops[w].action = "insufficient" /\ <<"05", w>> \in fired
        /\ loops[loops[w].researcher].plan = q
    BY <2>2 DEF Rejects, Decided
  <2>5. loops[w].researcher \in Ids /\ Is(loops[w].researcher, "synthesize")
    <3>1. BirthOK(w)  BY <2>3 DEF AInv
    <3> QED BY <2>4, <3>1 DEF BirthOK, Decided
  <2>6. loops[w].researcher = s  BY <1>1, <2>4, <2>5 DEF AInv, UniqueOK
  <2>7. w = v  BY <2>3, <2>4, <2>6 DEF AInv, UniqueOK
  <2> QED BY <2>4, <2>7
<1> QED BY <1>1, <1>2, <1>3

\* A rejection starts the next plan.
LEMMA ReplanStep ==
  ASSUME AInv, NEW l \in Ids, Replan(l)
  PROVE  AInv'
<1> PICK child : child = Len(loops) + 1  OBVIOUS
<1> DEFINE home == loops[l].run
           s == loops[l].researcher
           q == loops[s].plan
<1>1. /\ <<"05", l>> \notin fired /\ fired' = fired \cup {<<"05", l>>} /\ Is(l, "reviewer")
      /\ Decided(l, "reviewer", "insufficient")
  BY DEF Replan, Once, Decided
<1>2. /\ s \in Ids /\ Is(s, "synthesize") /\ q \in Ids /\ Is(q, "plan") /\ loops[q].run = home
      /\ \A p \in Ids : Is(p, "plan") /\ loops[p].run = home => p <= q
  BY <1>1, LatestPlan
<1>3. /\ Len(loops) \in Nat /\ Ids = 1..Len(loops) /\ l \in Nat /\ 0 \in 0..Len(loops)
  BY Ranges
<1>4. home \in Ids /\ home \in 0..Len(loops)  BY <1>1, InRun DEF Is, PackRoles
<1>5. Spawn(<<Fresh("plan", home, 0, s)>>)
  <2>1. Spawn(<<[NewLoop("plan", home) EXCEPT !.researcher = s]>>)  BY DEF Replan
  <2>2. home \in Nat /\ s \in Nat /\ "plan" \in Roles  BY <1>2, <1>3, <1>4 DEF Roles, PackRoles
  <2> HIDE DEF home, s
  <2>3. [NewLoop("plan", home) EXCEPT !.researcher = s] = Fresh("plan", home, 0, s)
    BY <2>2, NewLoopFor
  <2> QED BY <2>1, <2>3
<1> HIDE DEF home, s, q
<1>6. "plan" \in Roles \ {"gather"} /\ "05" \notin {"02", "07_outcome"} /\ s \in 0..Len(loops)
  BY <1>2, <1>3 DEF Roles, PackRoles
<1>7. /\ Grown /\ TypesOK' /\ Ids' = Ids \cup {child} /\ child \notin Ids /\ child \in Nat
      /\ loops'[child] = Fresh("plan", home, 0, s)
      /\ \A k \in Ids : loops'[k] = loops[k]
      /\ \A k \in Ids' : FanOK(k)' /\ VerdictOK(k)' /\ ApprovalOK(k)'
      /\ \A k \in Ids : BirthOK(k)'
  BY <1>1, <1>3, <1>4, <1>5, <1>6, OneChild
<1>8. loops'[child].role = "plan" /\ loops'[child].run = home /\ loops'[child].researcher = s
  BY <1>7 DEF Fresh
<1>9. ASSUME NEW p, p = q
      PROVE  Rejects(l, p)'
  <2>1. Decided(l, "reviewer", "insufficient")'  BY <1>1, <1>7 DEF Decided, Is
  <2>2. loops'[loops'[l].researcher].plan = p  BY <1>2, <1>7, <1>9 DEF s, q
  <2> QED BY <1>1, <2>1, <2>2 DEF Rejects
<1>10. \A p \in Ids : Is(p, "plan") /\ loops[p].run = home => \E v \in Ids : Rejects(v, p)'
  <2> SUFFICES ASSUME NEW p \in Ids, Is(p, "plan"), loops[p].run = home
               PROVE  \E v \in Ids : Rejects(v, p)'
    OBVIOUS
  <2>1. p \in Nat \ {0} /\ q \in Nat \ {0} /\ p <= q  BY <1>2, Ranges
  <2>2. CASE p = q  BY <1>9, <2>2
  <2>3. CASE p # q
    <3>1. p \in 1..(q - 1)  BY <2>1, <2>3
    <3>2. p \in EarlierPlans(q)  BY <1>2, <3>1 DEF EarlierPlans
    <3>3. PICK v \in 1..(q - 1) : Rejects(v, p)  BY <1>2, <3>2 DEF AInv, UniqueOK
    <3>4. v \in Ids  BY <1>2, <3>3, Ranges
    <3>5. Rejects(v, p)'  BY <1>7, <3>3, <3>4, RejectsStays
    <3> QED BY <3>4, <3>5
  <2> QED BY <2>2, <2>3
<1>11. <<"01", home>> \in fired'
  <2>1. <<"01", loops[q].run>> \in fired  BY <1>2 DEF AInv, UniqueOK
  <2> QED BY <1>1, <1>2, <2>1
<1>12. UniqueOK'  BY <1>3, <1>7, <1>8, <1>10, <1>11, UniqueChild
<1>13. BirthOK(child)'
  <2>1. home \in 1..(child - 1) /\ l \in 1..(child - 1)  BY <1>3, <1>4
  <2>2. /\ Decided(l, "reviewer", "insufficient")' /\ loops'[l].run = home
        /\ loops'[l].researcher = s /\ <<"05", l>> \in fired'
    BY <1>1, <1>7 DEF home, s, Decided, Is
  <2>3. \A p \in EarlierPlans(child)' : p <= loops'[s].plan
    <3>1. loops'[s].plan = q  BY <1>2, <1>7 DEF q
    <3>2. \A p \in EarlierPlans(child)' : p \in Ids /\ Is(p, "plan") /\ loops[p].run = home
      BY <1>3, <1>7, <1>8 DEF EarlierPlans, Is
    <3> QED BY <1>2, <3>1, <3>2
  <2> QED BY <1>8, <2>1, <2>2, <2>3 DEF BirthOK, Is
<1> QED BY <1>7, <1>12, <1>13, ChildStep

-----------------------------------------------------------------------------
\* In a run that was approved, every plan has a reviewed synthesis.
LEMMA EveryPlanReviewed ==
  ASSUME AInv, NEW v \in Ids, Decided(v, "reviewer", "approved"),
         NEW p \in Ids, Is(p, "plan"), loops[p].run = loops[v].run
  PROVE  \E w \in Ids :
           /\ Is(w, "reviewer") /\ loops[w].action \in {"approved", "insufficient"}
           /\ loops[loops[w].researcher].plan = p
<1> DEFINE s == loops[v].researcher
           q == loops[s].plan
<1>1. Is(v, "reviewer") /\ loops[v].action = "approved"  BY DEF Decided
<1>2. /\ s \in Ids /\ q \in Ids /\ Is(q, "plan") /\ loops[q].run = loops[v].run /\ p <= q
  BY <1>1, LatestPlan
<1>3. p \in Nat \ {0} /\ q \in Nat \ {0}  BY <1>2, Ranges
<1>4. CASE p = q  BY <1>1, <1>4
<1>5. CASE p # q
  <2>1. p \in EarlierPlans(q)
    <3> HIDE DEF q
    <3>1. p \in 1..(q - 1)  BY <1>2, <1>3, <1>5
    <3> QED BY <1>2, <3>1 DEF EarlierPlans
  <2>2. PICK w \in 1..(q - 1) : Rejects(w, p)  BY <1>2, <2>1 DEF AInv, UniqueOK
  <2>3. w \in Ids  BY <1>2, Ranges
  <2> QED BY <2>2, <2>3 DEF Rejects, Decided
<1> QED BY <1>4, <1>5

\* Every loop of the pack in an approved run has done its part.
LEMMA ApprovedRun ==
  ASSUME AInv, NEW v \in Ids, Decided(v, "reviewer", "approved"),
         NEW l \in Ids, loops[l].run = loops[v].run, loops[l].role \in PackRoles
  PROVE  loops[l].action # "none" /\ loops[l].action # "needs_clarification"
<1>1. ASSUME NEW p \in Ids, Is(p, "plan"), loops[p].run = loops[v].run
      PROVE  \E w \in Ids :
               /\ Is(w, "reviewer") /\ loops[w].action \in {"approved", "insufficient"}
               /\ loops[loops[w].researcher].plan = p
               /\ loops[w].researcher \in Ids /\ Is(loops[w].researcher, "synthesize")
               /\ loops[loops[w].researcher].action = "emit" /\ Joined(p)
  <2>1. PICK w \in Ids : /\ Is(w, "reviewer") /\ loops[w].action \in {"approved", "insufficient"}
                         /\ loops[loops[w].researcher].plan = p
    BY <1>1, EveryPlanReviewed
  <2>2. /\ loops[w].researcher \in Ids /\ Is(loops[w].researcher, "synthesize")
        /\ loops[loops[w].researcher].action = "emit"
    BY <2>1 DEF AInv, BirthOK, Decided
  <2>3. Joined(p)  BY <2>1, <2>2 DEF AInv, BirthOK
  <2> QED BY <2>1, <2>2, <2>3
<1>2. CASE Is(l, "plan")
  <2>1. <<"02", l>> \in fired  BY <1>1, <1>2 DEF Joined
  <2>2. loops[l].action = "gather"  BY <2>1 DEF AInv, FanOK
  <2> QED BY <2>2
<1>3. CASE Is(l, "gather")
  <2> DEFINE p == loops[l].plan
  <2>1. p \in Ids /\ <<"02", p>> \in fired /\ loops[p].run = loops[v].run
    BY <1>3 DEF AInv, BirthOK
  <2>2. Is(p, "plan")  BY <2>1 DEF AInv, FanOK
  <2>3. Joined(p)  BY <1>1, <2>1, <2>2
  <2>4. l \in Gatherers(p)  BY <1>3 DEF Gatherers
  <2>5. loops[l].action = "synthesize"  BY <2>3, <2>4 DEF Joined, Delivered
  <2> QED BY <2>5
<1>4. CASE Is(l, "synthesize")
  <2> DEFINE p == loops[l].plan
  <2>1. p \in Ids /\ Is(p, "plan") /\ loops[p].run = loops[v].run
    BY <1>4 DEF AInv, BirthOK
  <2>2. PICK w \in Ids : /\ loops[loops[w].researcher].plan = p
                         /\ loops[w].researcher \in Ids /\ Is(loops[w].researcher, "synthesize")
                         /\ loops[loops[w].researcher].action = "emit"
    BY <1>1, <2>1
  <2>3. loops[w].researcher = l  BY <1>4, <2>2 DEF AInv, UniqueOK
  <2> QED BY <2>2, <2>3
<1>5. CASE Is(l, "reviewer")
  <2> DEFINE t == loops[l].researcher
             p == loops[t].plan
  <2>1. t \in Ids /\ Is(t, "synthesize") /\ loops[t].run = loops[v].run
    BY <1>5 DEF AInv, BirthOK, Decided
  <2>2. p \in Ids /\ Is(p, "plan") /\ loops[p].run = loops[v].run
    BY <2>1 DEF AInv, BirthOK
  <2>3. PICK w \in Ids : /\ Is(w, "reviewer") /\ loops[w].action \in {"approved", "insufficient"}
                         /\ loops[loops[w].researcher].plan = p
                         /\ loops[w].researcher \in Ids /\ Is(loops[w].researcher, "synthesize")
    BY <1>1, <2>2
  <2>4. loops[w].researcher = t  BY <2>1, <2>3 DEF AInv, UniqueOK
  <2>5. w = l  BY <1>5, <2>3, <2>4 DEF AInv, UniqueOK
  <2> QED BY <2>3, <2>5
<1> QED BY <1>2, <1>3, <1>4, <1>5 DEF PackRoles, Is

\* Nothing fails in an approved run but the coordinator woken by the approval.
LEMMA ApprovedFailure ==
  ASSUME AInv, NEW v \in Ids, Decided(v, "reviewer", "approved"),
         NEW l \in Ids, loops[l].run = loops[v].run, loops[l].outcome = "failed"
  PROVE  Is(l, "wakeup")
<1>1. loops[l].action = "none"  BY DEF AInv, TypesOK
<1>2. loops[l].role \notin PackRoles  BY <1>1, ApprovedRun
<1>3. loops[v].run # None
  <2>1. loops[v].run \in Ids  BY InRun DEF Decided, Is, PackRoles
  <2> QED BY <2>1, Ranges DEF None
<1>4. ~Is(l, "front")  BY <1>3 DEF AInv, BirthOK
<1>5. ~Is(l, "recovery")
  <2> SUFFICES ASSUME Is(l, "recovery") PROVE FALSE
    OBVIOUS
  <2>1. PICK k \in Ids : /\ loops[k].role \in PackRoles /\ loops[k].run = loops[v].run
                         /\ loops[k].action = "needs_clarification"
    <3>1. BirthOK(l)  BY DEF AInv
    <3> QED BY <3>1 DEF BirthOK
  <2> QED BY <2>1, ApprovedRun
<1>6. loops[l].role \in Roles  BY Ranges DEF LoopRecord
<1> QED BY <1>2, <1>4, <1>5, <1>6 DEF Roles, Coordinators, Is

-----------------------------------------------------------------------------
\* What a stamp makes of a run's outcome.
OutcomeWith(old, value) ==
  IF \E i \in DOMAIN old : old[i] = value THEN old ELSE Append(old, value)

\* A success recorded on a run that has not failed makes it successful and no failure.
LEMMA SuccessRecorded ==
  ASSUME NEW old \in Verdicts, old # <<"failed">>
  PROVE  OutcomeWith(old, "success") \in Successful /\ (OutcomeWith(old, "success") \in Failing => old \in Failing)
<1>1. CASE old = <<>>
  <2>1. OutcomeWith(<<>>, "success") = <<"success">>  BY DEF OutcomeWith
  <2>2. <<"success">> \in Successful /\ <<"success">> \notin Failing  BY DEF Successful, Failing
  <2> QED BY <1>1, <2>1, <2>2
<1>2. CASE old \in Successful
  <2>1. 1 \in DOMAIN old /\ old[1] = "success"  BY <1>2 DEF Successful
  <2>2. OutcomeWith(old, "success") = old  BY <2>1 DEF OutcomeWith
  <2> QED BY <1>2, <2>2
<1> QED BY <1>1, <1>2 DEF Verdicts, Failing, Successful

\* A recorded failure changes nothing about a success.
LEMMA FailureRecorded ==
  ASSUME NEW old \in Verdicts
  PROVE  /\ OutcomeWith(old, "failed") \in Failing
         /\ OutcomeWith(old, "failed") \in Successful <=> old \in Successful
<1>1. CASE old = <<>>
  <2>1. OutcomeWith(<<>>, "failed") = <<"failed">>  BY DEF OutcomeWith
  <2>2. <<"failed">> \in Failing /\ <<"failed">> \notin Successful /\ <<>> \notin Successful
    BY DEF Successful, Failing
  <2> QED BY <1>1, <2>1, <2>2
<1>2. CASE old = <<"success">>
  <2>1. OutcomeWith(<<"success">>, "failed") = <<"success", "failed">>
    <3>1. ~\E i \in DOMAIN <<"success">> : <<"success">>[i] = "failed"  OBVIOUS
    <3>2. Append(<<"success">>, "failed") = <<"success", "failed">>
      <4> DEFINE a == Append(<<"success">>, "failed")
                 b == <<"success", "failed">>
      <4>1. a \in Seq({"success", "failed"}) /\ b \in Seq({"success", "failed"})
        <5>1. <<"success">> \in Seq({"success", "failed"})  OBVIOUS
        <5>2. a \in Seq({"success", "failed"})  BY <5>1, AppendProperties
        <5>3. b \in Seq({"success", "failed"})  OBVIOUS
        <5> QED BY <5>2, <5>3
      <4>2. Len(a) = 2 /\ Len(b) = 2  OBVIOUS
      <4>3. a[1] = b[1] /\ a[2] = b[2]  OBVIOUS
      <4> HIDE DEF a, b
      <4>4. \A i \in 1..Len(a) : a[i] = b[i]  BY <4>2, <4>3
      <4>5. a = b  BY <4>1, <4>2, <4>4, SeqEqual
      <4> QED BY <4>5 DEF a, b
    <3> QED BY <3>1, <3>2 DEF OutcomeWith
  <2>2. <<"success", "failed">> \in Failing /\ <<"success", "failed">> \in Successful
        /\ <<"success">> \in Successful
    BY DEF Successful, Failing
  <2> QED BY <1>2, <2>1, <2>2
<1>3. CASE old \in Failing
  <2>1. \E i \in DOMAIN old : old[i] = "failed"
    <3>1. CASE old = <<"failed">>
      <4>1. 1 \in DOMAIN old /\ old[1] = "failed"  BY <3>1
      <4> QED BY <4>1
    <3>2. CASE old = <<"success", "failed">>
      <4>1. 2 \in DOMAIN old /\ old[2] = "failed"  BY <3>2
      <4> QED BY <4>1
    <3> QED BY <1>3, <3>1, <3>2 DEF Failing
  <2>2. OutcomeWith(old, "failed") = old  BY <2>1 DEF OutcomeWith
  <2> QED BY <1>3, <2>2
<1> QED BY <1>1, <1>2, <1>3 DEF Verdicts, Failing, Successful

\* Stamped touches the outcome of one run and nothing else.
LEMMA StampedIs ==
  ASSUME AInv, NEW r \in Ids, NEW value, OutcomeWith(loops[r].runOutcome, value) \in Verdicts
  PROVE  Stamped(r, value) = Put(loops, r, WithVerdict(loops[r], OutcomeWith(loops[r].runOutcome, value)))
<1> DEFINE old == loops[r].runOutcome
           x == WithVerdict(loops[r], OutcomeWith(old, value))
<1>1. loops \in Seq(LoopRecord) /\ r \in DOMAIN loops /\ loops[r] \in LoopRecord
  BY Ranges DEF AInv, TypesOK, Ids
<1>2. CASE \E i \in DOMAIN old : old[i] = value
  <2>1. OutcomeWith(old, value) = old /\ Stamped(r, value) = loops  BY <1>2 DEF OutcomeWith, Stamped
  <2>2. x = loops[r]
    <3>1. x \in LoopRecord  BY <1>1, WithVerdictIs
    <3>2. /\ SameLineage(x, loops[r]) /\ SameSession(x, loops[r]) /\ x.completed = loops[r].completed
          /\ x.paused = loops[r].paused /\ x.runOutcome = loops[r].runOutcome
      BY <1>1, <2>1 DEF WithVerdict, SameLineage, SameSession, LoopRecord
    <3> HIDE DEF x
    <3> QED BY <1>1, <3>1, <3>2, SameRecord
  <2>3. Put(loops, r, loops[r]) = loops  BY <1>1 DEF Put
  <2> QED BY <2>1, <2>2, <2>3
<1>3. CASE ~\E i \in DOMAIN old : old[i] = value
  <2>1. OutcomeWith(old, value) = Append(old, value)  BY <1>3 DEF OutcomeWith
  <2>2. Stamped(r, value) = [loops EXCEPT ![r].runOutcome = Append(old, value)]  BY <1>3 DEF Stamped
  <2> QED BY <2>1, <2>2 DEF Put, WithVerdict
<1> QED BY <1>2, <1>3

\* Steps that change a run's outcome, and what only the operator sees.
LEMMA OutcomeStep ==
  ASSUME AInv, NEW l \in Ids, NEW r \in Ids, NEW rule, rule # "02", fired' = fired \cup {<<rule, l>>},
         loops' \in Seq(LoopRecord), Ids' = Ids,
         \A k \in Ids : /\ SameLineage(loops[k], loops'[k]) /\ SameSession(loops[k], loops'[k])
                        /\ loops'[k].completed = loops[k].completed
                        /\ k # r => loops'[k].runOutcome = loops[k].runOutcome,
         loops[r].runOutcome \in Successful => loops'[r].runOutcome \in Successful,
         loops'[r].runOutcome \in Successful =>
           \E v \in Ids : Decided(v, "reviewer", "approved") /\ loops[v].run = r,
         loops'[r].runOutcome \in Failing =>
           \E k \in Ids : loops[k].run = r /\ loops[k].outcome = "failed",
         rule = "07_outcome" =>
           Is(l, "reviewer") /\ loops[l].run = r /\ loops'[r].runOutcome \in Successful
  PROVE  AInv'
<1>1. \A k \in Ids :
        /\ loops'[k].role = loops[k].role /\ loops'[k].run = loops[k].run
        /\ loops'[k].plan = loops[k].plan /\ loops'[k].researcher = loops[k].researcher
        /\ loops'[k].action = loops[k].action /\ loops'[k].subtopics = loops[k].subtopics
        /\ loops'[k].outcome = loops[k].outcome
  BY DEF SameLineage, SameSession
<1>2. Grown  BY <1>1 DEF Grown
<1>3. TypesOK'
  <2>1. \A k \in Ids' : /\ loops'[k].run < k /\ loops'[k].plan < k /\ loops'[k].researcher < k
                        /\ loops'[k].action = "none" => loops'[k].subtopics = NoList
                        /\ loops'[k].outcome = "failed" => loops'[k].action = "none"
    BY <1>1 DEF AInv, TypesOK
  <2>2. \A f \in fired' : f[2] \in Ids'  BY DEF AInv, TypesOK
  <2> QED BY <2>1, <2>2 DEF TypesOK
<1>4. UniqueOK'  BY <1>2, UniqueStays
<1>5. \A k \in Ids' : BirthOK(k)'  BY <1>2, BirthStays
<1>6. \A k \in Ids' : FanOK(k)'
  <2>1. \A k \in Ids' : <<"02", k>> \in fired' => <<"02", k>> \in fired  OBVIOUS
  <2>2. \A k \in Ids :
          loops'[k].completed \subseteq loops[k].completed \cup {g \in Gatherers(k) : Delivered(g)}
    OBVIOUS
  <2> QED BY <1>2, <2>1, <2>2, FanStays
<1>7. \A k \in Ids' : VerdictOK(k)'
  <2> TAKE k \in Ids'
  <2>1. CASE k # r  BY <1>2, <2>1, VerdictStays
  <2>2. CASE k = r
    <3>1. loops'[r].runOutcome \in Successful =>
            \E v \in Ids : Decided(v, "reviewer", "approved")' /\ loops'[v].run = r
      BY <1>1 DEF Decided, Is
    <3>2. loops'[r].runOutcome \in Failing =>
            \E j \in Ids : loops'[j].run = r /\ loops'[j].outcome = "failed"
      BY <1>1
    <3> QED BY <2>2, <3>1, <3>2 DEF VerdictOK
  <2> QED BY <2>1, <2>2
<1>8. \A k \in Ids' : ApprovalOK(k)'
  <2> TAKE k \in Ids'
  <2>1. CASE <<"07_outcome", k>> \in fired' => <<"07_outcome", k>> \in fired
    BY <1>2, <2>1, ApprovalStays
  <2>2. CASE rule = "07_outcome" /\ k = l
    <3>1. loops'[k].role = "reviewer" /\ loops'[k].run = r  BY <1>1, <2>2 DEF Is
    <3> QED BY <2>2, <3>1 DEF ApprovalOK, Is
  <2> QED BY <2>1, <2>2
<1> QED BY <1>3, <1>4, <1>5, <1>6, <1>7, <1>8 DEF AInv

\* Rule 07 writes success on the run.
LEMMA ApproveStep ==
  ASSUME AInv, NEW l \in Ids, Approve(l)
  PROVE  AInv'
<1> DEFINE r == loops[l].run
           x == WithVerdict(loops[r], OutcomeWith(loops[r].runOutcome, "success"))
<1>1. /\ Decided(l, "reviewer", "approved") /\ Is(l, "reviewer")
      /\ fired' = fired \cup {<<"07_outcome", l>>} /\ loops' = Stamped(r, "success")
  BY DEF Approve, Once, Decided
<1>2. r \in Ids  BY <1>1, InRun DEF Is, PackRoles
<1>3. loops \in Seq(LoopRecord) /\ r \in DOMAIN loops /\ loops[r] \in LoopRecord
  BY <1>2, Ranges DEF AInv, TypesOK, Ids
<1>4. loops[r].runOutcome \in Verdicts  BY <1>3 DEF LoopRecord
<1>5. loops[r].runOutcome # <<"failed">>
  <2> SUFFICES ASSUME loops[r].runOutcome = <<"failed">> PROVE FALSE
    OBVIOUS
  <2>1. <<"failed">> \in Failing /\ <<"failed">> \notin Successful  BY DEF Failing, Successful
  <2>2. PICK k \in Ids : loops[k].run = r /\ loops[k].outcome = "failed"
    BY <1>2, <2>1 DEF AInv, VerdictOK
  <2>3. Is(k, "wakeup")  BY <1>1, <2>2, ApprovedFailure
  <2>4. loops[r].runOutcome \in Successful
    <3>1. BirthOK(k)  BY <2>2 DEF AInv
    <3> QED BY <2>2, <2>3, <3>1 DEF BirthOK
  <2> QED BY <2>1, <2>4
<1>6. /\ OutcomeWith(loops[r].runOutcome, "success") \in Successful
      /\ OutcomeWith(loops[r].runOutcome, "success") \in Failing => loops[r].runOutcome \in Failing
  BY <1>4, <1>5, SuccessRecorded
<1>7. OutcomeWith(loops[r].runOutcome, "success") \in Verdicts  BY <1>6 DEF Verdicts
<1>8. loops' = Put(loops, r, x)  BY <1>1, <1>2, <1>7, StampedIs
<1>9. /\ x \in LoopRecord /\ SameLineage(loops[r], x) /\ SameSession(loops[r], x)
      /\ x.completed = loops[r].completed /\ x.runOutcome = OutcomeWith(loops[r].runOutcome, "success")
  BY <1>3, <1>7, WithVerdictIs
<1> HIDE DEF r, x
<1>10. /\ loops' \in Seq(LoopRecord) /\ Ids' = Ids /\ loops'[r] = x
       /\ \A k \in Ids : k # r => loops'[k] = loops[k]
  BY <1>3, <1>8, <1>9, PutIs DEF Ids
<1>11. \A k \in Ids : /\ SameLineage(loops[k], loops'[k]) /\ SameSession(loops[k], loops'[k])
                      /\ loops'[k].completed = loops[k].completed
                      /\ k # r => loops'[k].runOutcome = loops[k].runOutcome
  BY <1>9, <1>10 DEF SameLineage, SameSession
<1>12. loops'[r].runOutcome \in Failing => \E k \in Ids : loops[k].run = r /\ loops[k].outcome = "failed"
  BY <1>2, <1>6, <1>9, <1>10 DEF AInv, VerdictOK
<1>13. loops'[r].runOutcome \in Successful /\ loops[l].run = r  BY <1>6, <1>9, <1>10 DEF r
<1>14. \E v \in Ids : Decided(v, "reviewer", "approved") /\ loops[v].run = r  BY <1>1, <1>13
<1>15. "07_outcome" # "02"  OBVIOUS
<1> QED BY <1>1, <1>2, <1>10, <1>11, <1>12, <1>13, <1>14, <1>15, OutcomeStep

\* A failure on record: the run's outcome, from a failed loop of the run.
LEMMA FailureStamped ==
  ASSUME AInv, NEW l \in Ids, NEW r \in Ids, loops[l].run = r, loops[l].outcome = "failed"
  PROVE  /\ Stamped(r, "failed") \in Seq(LoopRecord) /\ DOMAIN Stamped(r, "failed") = Ids
         /\ \A k \in Ids : /\ SameLineage(loops[k], Stamped(r, "failed")[k])
                           /\ SameSession(loops[k], Stamped(r, "failed")[k])
                           /\ Stamped(r, "failed")[k].completed = loops[k].completed
                           /\ k # r => Stamped(r, "failed")[k].runOutcome = loops[k].runOutcome
         /\ Stamped(r, "failed")[r].runOutcome \in Successful <=> loops[r].runOutcome \in Successful
<1> DEFINE x == WithVerdict(loops[r], OutcomeWith(loops[r].runOutcome, "failed"))
<1>1. loops \in Seq(LoopRecord) /\ r \in DOMAIN loops /\ loops[r] \in LoopRecord
  BY Ranges DEF AInv, TypesOK, Ids
<1>2. loops[r].runOutcome \in Verdicts  BY <1>1 DEF LoopRecord
<1>3. /\ OutcomeWith(loops[r].runOutcome, "failed") \in Failing
      /\ OutcomeWith(loops[r].runOutcome, "failed") \in Successful <=> loops[r].runOutcome \in Successful
  BY <1>2, FailureRecorded
<1>4. OutcomeWith(loops[r].runOutcome, "failed") \in Verdicts  BY <1>3 DEF Verdicts
<1>5. Stamped(r, "failed") = Put(loops, r, x)  BY <1>4, StampedIs
<1>6. /\ x \in LoopRecord /\ SameLineage(loops[r], x) /\ SameSession(loops[r], x)
      /\ x.completed = loops[r].completed /\ x.runOutcome = OutcomeWith(loops[r].runOutcome, "failed")
  BY <1>1, <1>4, WithVerdictIs
<1> HIDE DEF x
<1>7. /\ Put(loops, r, x) \in Seq(LoopRecord) /\ DOMAIN Put(loops, r, x) = DOMAIN loops
      /\ Put(loops, r, x)[r] = x
      /\ \A k \in DOMAIN loops : k # r => Put(loops, r, x)[k] = loops[k]
  BY <1>1, <1>6, PutIs
<1> QED BY <1>3, <1>5, <1>6, <1>7 DEF Ids, SameLineage, SameSession

\* A coordinator's failure is written on the run.
LEMMA CoordinatorFailedStep ==
  ASSUME AInv, NEW l \in Ids, CoordinatorFailed(l)
  PROVE  AInv'
<1> DEFINE r == loops[l].run
<1>1. /\ loops[l].outcome = "failed" /\ r # None /\ fired' = fired \cup {<<"agent_run_05", l>>}
      /\ loops' = Stamped(r, "failed")
  BY DEF CoordinatorFailed, Once
<1>2. r \in Ids
  <2>1. loops[l] \in LoopRecord /\ r < l /\ l \in Nat \ {0}  BY Ranges DEF AInv, TypesOK
  <2>2. r \in Nat  BY <2>1 DEF LoopRecord
  <2> QED BY <1>1, <2>1, <2>2, Ranges DEF None
<1> HIDE DEF r
<1>3. /\ loops' \in Seq(LoopRecord) /\ Ids' = Ids
      /\ \A k \in Ids : /\ SameLineage(loops[k], loops'[k]) /\ SameSession(loops[k], loops'[k])
                        /\ loops'[k].completed = loops[k].completed
                        /\ k # r => loops'[k].runOutcome = loops[k].runOutcome
      /\ loops'[r].runOutcome \in Successful <=> loops[r].runOutcome \in Successful
  BY <1>1, <1>2, FailureStamped DEF Ids, r
<1>4. loops[r].runOutcome \in Successful =>
        \E v \in Ids : Decided(v, "reviewer", "approved") /\ loops[v].run = r
  BY <1>2 DEF AInv, VerdictOK
<1>5. \E k \in Ids : loops[k].run = r /\ loops[k].outcome = "failed"  BY <1>1 DEF r
<1>6. "agent_run_05" # "02" /\ "agent_run_05" # "07_outcome"  OBVIOUS
<1> QED BY <1>1, <1>2, <1>3, <1>4, <1>5, <1>6, OutcomeStep

\* A loop's failure is written on the run.
LEMMA LoopFailedStep ==
  ASSUME AInv, NEW l \in Ids, LoopFailed(l)
  PROVE  AInv'
<1> DEFINE r == loops[l].run
<1>1. /\ loops[l].outcome = "failed" /\ loops[l].role \in PackRoles /\ fired' = fired \cup {<<"09", l>>}
      /\ loops' = Stamped(r, "failed")
  BY DEF LoopFailed, Once, Failed
<1>2. r \in Ids  BY <1>1, InRun
<1> HIDE DEF r
<1>3. /\ loops' \in Seq(LoopRecord) /\ Ids' = Ids
      /\ \A k \in Ids : /\ SameLineage(loops[k], loops'[k]) /\ SameSession(loops[k], loops'[k])
                        /\ loops'[k].completed = loops[k].completed
                        /\ k # r => loops'[k].runOutcome = loops[k].runOutcome
      /\ loops'[r].runOutcome \in Successful <=> loops[r].runOutcome \in Successful
  BY <1>1, <1>2, FailureStamped DEF Ids, r
<1>4. loops[r].runOutcome \in Successful =>
        \E v \in Ids : Decided(v, "reviewer", "approved") /\ loops[v].run = r
  BY <1>2 DEF AInv, VerdictOK
<1>5. \E k \in Ids : loops[k].run = r /\ loops[k].outcome = "failed"  BY <1>1 DEF r
<1>6. "09" # "02" /\ "09" # "07_outcome"  OBVIOUS
<1> QED BY <1>1, <1>2, <1>3, <1>4, <1>5, <1>6, OutcomeStep

\* The operator's mark on a failed loop changes nothing a rule reads.
LEMMA MarkFailedStep ==
  ASSUME AInv, NEW l \in Ids, MarkFailed(l)
  PROVE  AInv'
<1> DEFINE x == WithPause(loops[l])
<1>1. /\ fired' = fired \cup {<<"08", l>>} /\ loops' = Put(loops, l, x)
      /\ loops \in Seq(LoopRecord) /\ l \in DOMAIN loops /\ loops[l] \in LoopRecord
  BY Ranges DEF MarkFailed, Once, Put, WithPause, AInv, TypesOK, Ids
<1>2. /\ x \in LoopRecord /\ SameLineage(loops[l], x) /\ SameSession(loops[l], x)
      /\ x.completed = loops[l].completed /\ x.runOutcome = loops[l].runOutcome
  BY <1>1, WithPauseIs
<1> HIDE DEF x
<1>3. /\ loops' \in Seq(LoopRecord) /\ Ids' = Ids /\ loops'[l] = x
      /\ \A k \in Ids : k # l => loops'[k] = loops[k]
  BY <1>1, <1>2, PutIs DEF Ids
<1>4. \A k \in Ids : /\ SameLineage(loops[k], loops'[k]) /\ SameSession(loops[k], loops'[k])
                     /\ loops'[k].completed = loops[k].completed
                     /\ loops'[k].runOutcome = loops[k].runOutcome
  BY <1>2, <1>3 DEF SameLineage, SameSession
<1>5. /\ loops[l].runOutcome \in Successful =>
           \E v \in Ids : Decided(v, "reviewer", "approved") /\ loops[v].run = l
      /\ loops[l].runOutcome \in Failing =>
           \E k \in Ids : loops[k].run = l /\ loops[k].outcome = "failed"
  BY DEF AInv, VerdictOK
<1>6. /\ loops[l].runOutcome \in Successful => loops'[l].runOutcome \in Successful
      /\ loops'[l].runOutcome \in Successful =>
           \E v \in Ids : Decided(v, "reviewer", "approved") /\ loops[v].run = l
      /\ loops'[l].runOutcome \in Failing =>
           \E k \in Ids : loops[k].run = l /\ loops[k].outcome = "failed"
  BY <1>4, <1>5
<1>7. /\ fired' = fired \cup {<<"08", l>>} /\ loops' \in Seq(LoopRecord) /\ Ids' = Ids
      /\ \A k \in Ids : /\ SameLineage(loops[k], loops'[k]) /\ SameSession(loops[k], loops'[k])
                        /\ loops'[k].completed = loops[k].completed
                        /\ k # l => loops'[k].runOutcome = loops[k].runOutcome
  BY <1>1, <1>3, <1>4
<1>8. "08" # "02" /\ "08" # "07_outcome"  OBVIOUS
<1> QED BY <1>6, <1>7, <1>8, OutcomeStep

-----------------------------------------------------------------------------
\* Rule 02: the list grows by one gatherer per subtopic.
LEMMA FanOutStep ==
  ASSUME AInv, NEW l \in Ids, FanOut(l)
  PROVE  AInv'
<1> PICK len : len = Len(loops)  OBVIOUS
<1> PICK n : n = loops[l].subtopics  OBVIOUS
<1> PICK home : home = loops[l].run  OBVIOUS
<1> DEFINE c == Fresh("gather", home, l, 0)
           children == [i \in 1..n |-> c]
<1>1. /\ Is(l, "plan") /\ loops[l].action = "gather" /\ n \in 1..MaxSubtopics
      /\ <<"02", l>> \notin fired /\ fired' = fired \cup {<<"02", l>>}
  BY DEF FanOut, Once, Decided
<1>2. /\ loops \in Seq(LoopRecord) /\ len \in Nat /\ Ids = 1..len /\ l \in Nat \ {0} /\ l \in 1..len
  BY Ranges DEF AInv, TypesOK
<1>3. home \in Ids /\ home \in Nat /\ home < l  BY <1>1, <1>2, InRun DEF Is, PackRoles, AInv, TypesOK
<1>4. "gather" \in Roles  BY DEF Roles, PackRoles
<1>5. c \in LoopRecord  BY <1>2, <1>3, <1>4, FreshIs
<1>6. /\ c.role = "gather" /\ c.run = home /\ c.plan = l /\ c.researcher = 0
      /\ c.action = "none" /\ c.subtopics = NoList /\ c.completed = {} /\ c.outcome = "none"
      /\ c.runOutcome = <<>>
  BY DEF Fresh
<1>7. loops' = loops \o children
  <2>1. [NewLoop("gather", home) EXCEPT !.plan = l] = c
    BY <1>2, <1>3, <1>4, NewLoopOf
  <2>2. loops' = loops \o [i \in 1..n |-> [NewLoop("gather", home) EXCEPT !.plan = l]]
    BY DEF FanOut, Spawn
  <2> QED BY <2>1, <2>2
<1> HIDE DEF c
<1>8. children \in Seq(LoopRecord) /\ Len(children) = n /\ \A i \in 1..n : children[i] = c
  BY <1>1, <1>5
<1> HIDE DEF children
<1>9. /\ loops' \in Seq(LoopRecord) /\ Len(loops') = len + n /\ Ids' = 1..(len + n)
  <2>1. loops' \in Seq(LoopRecord) /\ Len(loops') = len + n  BY <1>2, <1>7, <1>8, ConcatProperties
  <2> QED BY <2>1 DEF Ids
<1>10. \A k \in Ids : loops'[k] = loops[k]  BY <1>2, <1>7, <1>8
<1>11. \A k \in (len + 1)..(len + n) : loops'[k] = c
  <2> TAKE k \in (len + 1)..(len + n)
  <2>1. k - len \in 1..n /\ k > len /\ k <= len + n  BY <1>1, <1>2
  <2>2. loops'[k] = children[k - len]  BY <1>2, <1>7, <1>8, <2>1
  <2> QED BY <1>8, <2>1, <2>2
<1>12. \A k \in Ids' : k \in Ids \/ k \in (len + 1)..(len + n)  BY <1>1, <1>2, <1>9
<1>13. Grown
  <2>1. Ids \subseteq Ids' /\ fired \subseteq fired'  BY <1>1, <1>2, <1>9
  <2>2. \A p \in Ids : <<"02", p>> \in fired =>
          \A g \in Ids' \ Ids : ~(loops'[g].role = "gather" /\ loops'[g].plan = p)
    BY <1>1, <1>6, <1>11, <1>12
  <2> QED BY <1>9, <1>10, <2>1, <2>2 DEF Grown
<1>14. TypesOK'
  <2>1. ASSUME NEW k \in Ids'
        PROVE  /\ loops'[k].run < k /\ loops'[k].plan < k /\ loops'[k].researcher < k
               /\ loops'[k].action = "none" => loops'[k].subtopics = NoList
               /\ loops'[k].outcome = "failed" => loops'[k].action = "none"
    <3>1. CASE k \in Ids  BY <1>10, <3>1 DEF AInv, TypesOK
    <3>2. CASE k \in (len + 1)..(len + n)
      <4>1. home < k /\ l < k /\ 0 < k  BY <1>1, <1>2, <1>3, <3>2
      <4> QED BY <1>6, <1>11, <3>2, <4>1
    <3> QED BY <1>12, <3>1, <3>2
  <2>2. \A f \in fired' : f[2] \in Ids'  BY <1>1, <1>13 DEF AInv, TypesOK, Grown
  <2> QED BY <1>9, <2>1, <2>2 DEF TypesOK
<1>15. UniqueOK'
  <2>1. \A k \in Ids' : ~Is(k, "gather")' => k \in Ids  BY <1>6, <1>11, <1>12 DEF Is
  <2>2. \A s, t \in Ids' : Is(s, "synthesize")' /\ Is(t, "synthesize")' /\ loops'[s].plan = loops'[t].plan
                           => s = t
    BY <1>10, <2>1 DEF AInv, UniqueOK, Is
  <2>3. \A v, w \in Ids' : Is(v, "reviewer")' /\ Is(w, "reviewer")'
                           /\ loops'[v].researcher = loops'[w].researcher => v = w
    BY <1>10, <2>1 DEF AInv, UniqueOK, Is
  <2>4. ASSUME NEW q \in Ids', Is(q, "plan")', NEW p \in EarlierPlans(q)'
        PROVE  \E v \in 1..(q - 1) : Rejects(v, p)'
    <3>1. q \in Ids /\ 1..(q - 1) \subseteq Ids  BY <2>1, <2>4, Ranges DEF Is
    <3>2. p \in EarlierPlans(q) /\ Is(q, "plan")  BY <1>10, <2>4, <3>1 DEF EarlierPlans, Is
    <3>3. PICK v \in 1..(q - 1) : Rejects(v, p)  BY <3>1, <3>2 DEF AInv, UniqueOK
    <3> QED BY <1>13, <3>1, <3>3, RejectsStays
  <2>5. \A k \in Ids' : Is(k, "plan")' => <<"01", loops'[k].run>> \in fired'
    BY <1>1, <1>10, <2>1 DEF AInv, UniqueOK, Is
  <2> QED BY <2>2, <2>3, <2>4, <2>5 DEF UniqueOK
<1>16. \A k \in Ids' : BirthOK(k)'
  <2> TAKE k \in Ids'
  <2>1. CASE k \in Ids  BY <1>13, <2>1, BirthStays
  <2>2. CASE k \in (len + 1)..(len + n)
    <3>1. home \in 1..(k - 1)  BY <1>1, <1>2, <1>3, <2>2
    <3>2. loops'[k].role = "gather" /\ loops'[k].run = home /\ loops'[k].plan = l
      BY <1>6, <1>11, <2>2
    <3>3. l \in Ids' /\ <<"02", l>> \in fired' /\ loops'[l].run = home  BY <1>1, <1>10, <1>13 DEF Grown
    <3> QED BY <3>1, <3>2, <3>3 DEF BirthOK, Is
  <2> QED BY <1>12, <2>1, <2>2
<1>17. \A k \in Ids' : VerdictOK(k)'
  <2> TAKE k \in Ids'
  <2>1. CASE k \in Ids  BY <1>10, <1>13, <2>1, VerdictStays
  <2>2. CASE k \notin Ids  BY <1>6, <1>11, <1>12, <1>13, <2>2, VerdictStays
  <2> QED BY <2>1, <2>2
<1>18. \A k \in Ids' : ApprovalOK(k)'
  <2> TAKE k \in Ids'
  <2>1. <<"07_outcome", k>> \in fired' => <<"07_outcome", k>> \in fired  BY <1>1
  <2> QED BY <1>13, <2>1, ApprovalStays
<1>19. \A p \in Ids' : FanOK(p)'
  <2> TAKE p \in Ids'
  <2>1. \A g : g \in Gatherers(p)' <=> g \in Ids' /\ loops'[g].role = "gather" /\ loops'[g].plan = p
    BY DEF Gatherers, Is
  <2>2. \A g : g \in Gatherers(p) <=> g \in Ids /\ loops[g].role = "gather" /\ loops[g].plan = p
    BY DEF Gatherers, Is
  <2>3. CASE p = l
    <3>1. Gatherers(p) = {} /\ loops[p].completed = {}  BY <1>1, <2>3 DEF AInv, FanOK
    <3>2. Gatherers(p)' = (len + 1)..(len + n)
      <4>1. ASSUME NEW g \in (len + 1)..(len + n) PROVE g \in Gatherers(p)'
        <5>1. loops'[g].role = "gather" /\ loops'[g].plan = p  BY <1>6, <1>11, <2>3
        <5>2. g \in Ids'  BY <1>1, <1>2, <1>9
        <5> QED BY <2>1, <5>1, <5>2
      <4>2. ASSUME NEW g \in Gatherers(p)' PROVE g \in (len + 1)..(len + n)
        <5>1. g \in Ids' /\ loops'[g].role = "gather" /\ loops'[g].plan = p  BY <2>1
        <5>2. g \notin Ids
          <6>1. g \in Ids => loops'[g] = loops[g]  BY <1>10
          <6>2. g \in Ids => g \in Gatherers(p)  BY <2>2, <5>1, <6>1
          <6> QED BY <3>1, <6>2
        <5> QED BY <1>12, <5>1, <5>2
      <4> QED BY <4>1, <4>2
    <3>3. Cardinality((len + 1)..(len + n)) = n
      <4>1. len + 1 \in Int /\ len + n \in Int /\ len + 1 <= len + n  BY <1>1, <1>2
      <4>2. \A a, b \in Int : a <= b => Cardinality(a..b) = b - a + 1
        <5> TAKE a, b \in Int
        <5>1. Cardinality(a..b) = IF a > b THEN 0 ELSE b - a + 1  BY FS_Interval
        <5> QED BY <5>1
      <4>3. Cardinality((len + 1)..(len + n)) = (len + n) - (len + 1) + 1  BY <4>1, <4>2
      <4> QED BY <1>1, <1>2, <4>3
    <3>4. /\ <<"02", p>> \in fired' /\ loops'[p].role = "plan" /\ loops'[p].action = "gather"
          /\ loops'[p].subtopics = n /\ loops'[p].completed = {}
      BY <1>1, <1>10, <2>3, <3>1 DEF Is
    <3> QED BY <1>1, <3>2, <3>3, <3>4 DEF FanOK, Is
  <2>4. CASE p # l
    <3>1. p \in Ids => FanOK(p)  BY DEF AInv
    <3>2. Gatherers(p)' = Gatherers(p)
      <4>1. \A g : g \in Gatherers(p)' <=> g \in Gatherers(p)
        BY <1>6, <1>10, <1>11, <1>12, <1>13, <2>1, <2>2, <2>4 DEF Grown
      <4> QED BY <4>1
    <3>3. <<"02", p>> \in fired' <=> <<"02", p>> \in fired  BY <1>1, <2>4
    <3>4. CASE p \in Ids
      <4>1. \A g \in Gatherers(p) : Delivered(g) => Delivered(g)'  BY <1>13, <2>2, DeliveredStays
      <4>2. loops'[p].completed \subseteq {g \in Gatherers(p)' : Delivered(g)'}
        BY <1>10, <3>1, <3>2, <3>4, <4>1 DEF FanOK
      <4>3. <<"02", p>> \notin fired' => Gatherers(p)' = {}  BY <3>1, <3>2, <3>3, <3>4 DEF FanOK
      <4>4. <<"02", p>> \in fired' =>
              /\ loops'[p].role = "plan" /\ loops'[p].action = "gather"
              /\ Cardinality(Gatherers(p)') = loops'[p].subtopics
              /\ loops'[p].subtopics \in 1..MaxSubtopics
        BY <1>10, <3>1, <3>2, <3>3, <3>4 DEF FanOK, Is
      <4> QED BY <4>2, <4>3, <4>4 DEF FanOK, Is
    <3>5. CASE p \notin Ids
      <4>1. <<"02", p>> \notin fired'
        <5>1. \A f \in fired : f[2] \in Ids  BY DEF AInv, TypesOK
        <5> QED BY <3>3, <3>5, <5>1
      <4>2. Gatherers(p)' = {}
        <5>1. ASSUME NEW g \in Gatherers(p) PROVE FALSE
          <6>1. g \in Ids /\ loops[g].plan = p /\ BirthOK(g) /\ Is(g, "gather")
            BY <2>2 DEF AInv, Is
          <6> QED BY <3>5, <6>1 DEF BirthOK
        <5> QED BY <3>2, <5>1
      <4>3. loops'[p].completed = {}  BY <1>6, <1>11, <1>12, <3>5
      <4> QED BY <4>1, <4>2, <4>3 DEF FanOK
    <3> QED BY <3>4, <3>5
  <2> QED BY <2>3, <2>4
<1> QED BY <1>14, <1>15, <1>16, <1>17, <1>18, <1>19 DEF AInv

-----------------------------------------------------------------------------
\* The first coordinator of a run.
LEMMA AInvInit ==
  ASSUME Init
  PROVE  AInv
<1>1. loops = <<Fresh("front", 0, 0, 0)>> /\ fired = {}  BY NewLoopIs DEF Init, None
<1>2. Fresh("front", 0, 0, 0) \in LoopRecord
  <2>1. "front" \in Roles /\ 0 \in Nat  BY DEF Roles, Coordinators
  <2> QED BY <2>1, FreshIs
<1>3. loops \in Seq(LoopRecord) /\ Len(loops) = 1 /\ loops[1] = Fresh("front", 0, 0, 0)
  BY <1>1, <1>2
<1>4. Ids = {1}  BY <1>3 DEF Ids
<1>5. /\ loops[1].role = "front" /\ loops[1].run = 0 /\ loops[1].plan = 0 /\ loops[1].researcher = 0
      /\ loops[1].action = "none" /\ loops[1].subtopics = NoList /\ loops[1].completed = {}
      /\ loops[1].outcome = "none" /\ loops[1].runOutcome = <<>>
  BY <1>3 DEF Fresh
<1>6. TypesOK  BY <1>1, <1>3, <1>4, <1>5 DEF TypesOK
<1>7. UniqueOK  BY <1>4, <1>5 DEF UniqueOK, Is
<1>8. FanOK(1)
  <2>1. Gatherers(1) = {}  BY <1>4, <1>5 DEF Gatherers, Is
  <2> QED BY <1>1, <1>5, <2>1 DEF FanOK
<1>9. BirthOK(1)  BY <1>5 DEF BirthOK, Is, PackRoles, None
<1>10. VerdictOK(1)
  <2>1. <<>> \notin Successful /\ <<>> \notin Failing  BY DEF Successful, Failing
  <2> QED BY <1>5, <2>1 DEF VerdictOK
<1>11. ApprovalOK(1)  BY <1>1 DEF ApprovalOK
<1> QED BY <1>4, <1>6, <1>7, <1>8, <1>9, <1>10, <1>11 DEF AInv

\* Every step keeps the invariant.
LEMMA AInvNext ==
  ASSUME ArcConstantsOK, AInv, [Next]_vars
  PROVE  AInv'
<1>1. CASE UNCHANGED vars
  <2>1. loops' = loops /\ fired' = fired  BY <1>1 DEF vars
  <2>2. Ids' = Ids /\ TypesOK'  BY <2>1 DEF AInv, TypesOK, Ids
  <2>3. Grown  BY <2>1, <2>2 DEF Grown, TypesOK
  <2>4. UniqueOK'  BY <2>2, <2>3, UniqueStays
  <2>5. \A l \in Ids' : FanOK(l)'
    <3>1. \A p \in Ids : loops'[p].completed \subseteq
                          loops[p].completed \cup {g \in Gatherers(p) : Delivered(g)}
      BY <2>1
    <3> QED BY <2>1, <2>2, <2>3, <3>1, FanStays
  <2>6. \A l \in Ids' : BirthOK(l)'  BY <2>2, <2>3, BirthStays
  <2>7. \A l \in Ids' : VerdictOK(l)'  BY <2>1, <2>2, <2>3, VerdictStays
  <2>8. \A l \in Ids' : ApprovalOK(l)'  BY <2>1, <2>3, ApprovalStays
  <2> QED BY <2>2, <2>4, <2>5, <2>6, <2>7, <2>8 DEF AInv
<1>2. CASE Next
  <2>1. PICK l \in Ids : Session(l) \/ Rule(l)  BY <1>2 DEF Next
  <2>2. ASSUME NEW action \in Allowlist[loops[l].role], NEW n \in Lists(l, action), Decide(l, action, n)
        PROVE  AInv'
    BY <2>2, DecideStep
  <2>3. CASE Complete(l)  BY <2>3, CompleteStep
  <2>4. CASE Fail(l)  BY <2>4, FailStep
  <2>5. CASE SpawnPlan(l)  BY <2>5, SpawnPlanStep
  <2>6. CASE FanOut(l)  BY <2>6, FanOutStep
  <2>7. CASE StampCompletion(l)  BY <2>7, StampStep
  <2>8. CASE Join(l)  BY <2>8, JoinStep
  <2>9. CASE Review(l)  BY <2>9, ReviewStep
  <2>10. CASE Replan(l)  BY <2>10, ReplanStep
  <2>11. CASE Clarify(l)  BY <2>11, ClarifyStep
  <2>12. CASE Approve(l)  BY <2>12, ApproveStep
  <2>13. CASE WakeUp(l)  BY <2>13, WakeUpStep
  <2>14. CASE LoopFailed(l)  BY <2>14, LoopFailedStep
  <2>16. CASE MarkFailed(l)  BY <2>16, MarkFailedStep
  <2>15. CASE CoordinatorFailed(l)  BY <2>15, CoordinatorFailedStep
  <2> QED BY <2>1, <2>2, <2>3, <2>4, <2>5, <2>6, <2>7, <2>8, <2>9, <2>10, <2>11, <2>12, <2>13,
             <2>14, <2>15, <2>16 DEF Session, Rule
<1> QED BY <1>1, <1>2

\* The inductive invariant of the research pack: every loop has the lineage its
\* rule gave it, every plan counts its own gatherers, and every outcome has a cause.
THEOREM AInvAlways == Spec => []AInv
<1>1. Init => AInv  BY AInvInit
<1>2. AInv /\ [Next]_vars => AInv'  BY AInvNext, ArcConstantsOK
<1> QED BY <1>1, <1>2, PTL DEF Spec

-----------------------------------------------------------------------------
\* The types of the model.
LEMMA TypesHold ==
  ASSUME AInv
  PROVE  TypeOK
<1>1. ASSUME NEW l \in Ids
      PROVE  /\ [f \in DOMAIN loops[l] \ {"runOutcome"} |-> loops[l][f]] \in LoopType
             /\ loops[l].runOutcome \in {<<>>, <<"success">>, <<"failed">>,
                                         <<"success", "failed">>, <<"failed", "success">>}
  <2>1. loops[l] \in LoopRecord /\ Ids = 1..Len(loops) /\ Len(loops) \in Nat /\ l \in Nat \ {0}
    BY Ranges
  <2>2. loops[l].runOutcome \in Verdicts  BY <2>1 DEF LoopRecord
  <2>3. /\ loops[l].run \in Ids \cup {None} /\ loops[l].plan \in Ids \cup {None}
        /\ loops[l].researcher \in Ids \cup {None}
    <3>1. /\ loops[l].run \in Nat /\ loops[l].plan \in Nat /\ loops[l].researcher \in Nat
      BY <2>1 DEF LoopRecord
    <3>2. /\ loops[l].run < l /\ loops[l].plan < l /\ loops[l].researcher < l
      BY DEF AInv, TypesOK
    <3> QED BY <2>1, <3>1, <3>2 DEF None
  <2>4. loops[l].completed \in SUBSET Ids  BY DEF AInv, FanOK, Gatherers
  <2>5. /\ loops[l].role \in PackRoles \cup Coordinators
        /\ loops[l].action \in (UNION {Allowlist[r] : r \in DOMAIN Allowlist}) \cup {"none"}
        /\ loops[l].subtopics \in {NoList} \cup 1..MaxSubtopics
        /\ loops[l].outcome \in {"none", "success", "failed"} /\ loops[l].paused \in BOOLEAN
    <3>1. /\ loops[l].role \in Roles /\ loops[l].action \in ActionNames /\ loops[l].subtopics \in ListSizes
          /\ loops[l].outcome \in Outcomes /\ loops[l].paused \in BOOLEAN
      BY <2>1 DEF LoopRecord
    <3> QED BY <3>1 DEF Roles, ActionNames, ListSizes, Outcomes
  <2>6. DOMAIN loops[l] \ {"runOutcome"} =
          {"role", "run", "plan", "researcher", "action", "subtopics", "completed", "outcome", "paused"}
    BY <2>1 DEF LoopRecord
  <2>7. [f \in DOMAIN loops[l] \ {"runOutcome"} |-> loops[l][f]] \in LoopType
    BY <2>3, <2>4, <2>5, <2>6 DEF LoopType
  <2> QED BY <2>2, <2>7 DEF Verdicts, Successful, Failing
<1>2. \A f \in fired : f[2] \in Ids  BY DEF AInv, TypesOK
<1> QED BY <1>1, <1>2 DEF TypeOK

\* Rule 03b: whatever the width of the fan-out, in whatever order and however often
\* the gatherers stamp their completion, a plan gets one synthesis, after all of
\* its gatherers have delivered.
THEOREM JoinExactAlways == Spec => []JoinExact
<1>1. AInv => JoinExact
  <2> SUFFICES ASSUME AInv PROVE JoinExact
    OBVIOUS
  <2>1. TypeOK  BY TypesHold
  <2>2. ASSUME NEW s \in Ids, Is(s, "synthesize")
        PROVE  /\ Gatherers(loops[s].plan) # {}
               /\ Cardinality(Gatherers(loops[s].plan)) = loops[loops[s].plan].subtopics
               /\ \A g \in Gatherers(loops[s].plan) :
                    loops[g].action = "synthesize" /\ loops[g].outcome = "success"
               /\ \A t \in Ids : Is(t, "synthesize") /\ loops[t].plan = loops[s].plan => t = s
    <3> DEFINE p == loops[s].plan
    <3>1. BirthOK(s)  BY DEF AInv
    <3>2. p \in Ids /\ Joined(p)  BY <2>2, <3>1 DEF BirthOK
    <3>3. FanOK(p)  BY <3>2 DEF AInv
    <3>4. Cardinality(Gatherers(p)) = loops[p].subtopics /\ loops[p].subtopics \in 1..MaxSubtopics
      BY <3>2, <3>3 DEF FanOK, Joined
    <3>5. Gatherers(p) # {}
      <4>1. Cardinality({}) = 0  BY FS_EmptySet
      <4> HIDE DEF p
      <4> QED BY <3>4, <4>1
    <3>6. \A t \in Ids : Is(t, "synthesize") /\ loops[t].plan = p => t = s
      BY <2>2 DEF AInv, UniqueOK
    <3> QED BY <3>2, <3>4, <3>5, <3>6 DEF Joined, Delivered
  <2> QED BY <2>1, <2>2 DEF JoinExact
<1> QED BY <1>1, AInvAlways, PTL

\* agent-run/04's comment, for every behaviour: the pack never gives a run two
\* outcomes; a second one is the failure of the coordinator woken by the approval.
THEOREM OneVerdictAlways == Spec => []OneVerdict
<1>1. AInv => OneVerdict
  <2> SUFFICES ASSUME AInv, NEW r \in Ids, Len(loops[r].runOutcome) > 1
               PROVE  /\ loops[r].runOutcome[1] = "success"
                      /\ \A l \in Ids : loops[l].run = r /\ loops[l].outcome = "failed" => Is(l, "wakeup")
    BY DEF OneVerdict
  <2>1. loops[r].runOutcome \in Verdicts  BY Ranges DEF LoopRecord
  <2>2. loops[r].runOutcome = <<"success", "failed">>
    <3>1. Len(<<>>) = 0 /\ Len(<<"success">>) = 1 /\ Len(<<"failed">>) = 1  OBVIOUS
    <3>2. loops[r].runOutcome \in {<<>>, <<"success">>, <<"failed">>, <<"success", "failed">>}
      BY <2>1, Zenon DEF Verdicts, Successful, Failing
    <3>3. CASE loops[r].runOutcome = <<>>  BY <3>1, <3>3
    <3>4. CASE loops[r].runOutcome = <<"success">>  BY <3>1, <3>4
    <3>5. CASE loops[r].runOutcome = <<"failed">>  BY <3>1, <3>5
    <3> QED BY <3>2, <3>3, <3>4, <3>5, Zenon
  <2>3. loops[r].runOutcome \in Successful  BY <2>2 DEF Successful
  <2>4. PICK v \in Ids : Decided(v, "reviewer", "approved") /\ loops[v].run = r
    BY <2>3 DEF AInv, VerdictOK
  <2>5. \A l \in Ids : loops[l].run = r /\ loops[l].outcome = "failed" => Is(l, "wakeup")
    BY <2>4, ApprovedFailure
  <2> QED BY <2>2, <2>5
<1> QED BY <1>1, AInvAlways, PTL

\* Within a run, the syntheses come in the order of their plans.
LEMMA InPlanOrder ==
  ASSUME AInv, NEW s \in Ids, NEW t \in Ids, Is(s, "synthesize"), Is(t, "synthesize"),
         loops[s].run = loops[t].run, loops[s].plan < loops[t].plan
  PROVE  s < t
<1> DEFINE p == loops[s].plan
           q == loops[t].plan
<1>1. /\ p \in Ids /\ Is(p, "plan") /\ loops[p].run = loops[s].run
      /\ q \in Ids /\ Is(q, "plan") /\ loops[q].run = loops[s].run
  BY DEF AInv, BirthOK
<1>2. p \in Nat \ {0} /\ q \in Nat \ {0} /\ s \in Nat /\ t \in Nat  BY <1>1, Ranges
<1>3. p \in EarlierPlans(q)
  <2>1. p < q  OBVIOUS
  <2> HIDE DEF p, q
  <2>2. p \in 1..(q - 1)  BY <1>2, <2>1
  <2> QED BY <1>1, <2>2 DEF EarlierPlans
<1>4. PICK v \in 1..(q - 1) : Rejects(v, p)  BY <1>1, <1>3 DEF AInv, UniqueOK
<1>5. v \in Ids /\ v \in Nat /\ v < q  BY <1>1, <1>2, Ranges
<1>6. Is(v, "reviewer") /\ loops[loops[v].researcher].plan = p  BY <1>4 DEF Rejects, Decided
<1>7. loops[v].researcher \in Ids /\ Is(loops[v].researcher, "synthesize")
  BY <1>5, <1>6 DEF AInv, BirthOK, Decided
<1>8. loops[v].researcher = s  BY <1>6, <1>7 DEF AInv, UniqueOK
<1>9. s < v /\ q < t  BY <1>5, <1>8 DEF AInv, TypesOK
<1> HIDE DEF p, q
<1> QED BY <1>2, <1>5, <1>9

\* Rules 04, 05 and 03b hand the lineage on: the synthesis of a replanned arc names
\* the run's latest synthesis before it, one whose reviewer found it insufficient.
THEOREM PriorIsRejectedAlways == Spec => []PriorIsRejected
<1>1. AInv => PriorIsRejected
  <2> SUFFICES ASSUME AInv, NEW s \in Ids, Is(s, "synthesize")
               PROVE  LET earlier == {t \in 1..(s - 1) : Is(t, "synthesize") /\ loops[t].run = loops[s].run}
                          prior == loops[s].researcher
                      IN IF earlier = {} THEN prior = None
                         ELSE /\ prior \in earlier /\ \A t \in earlier : t <= prior
                              /\ \E v \in Ids : /\ Decided(v, "reviewer", "insufficient")
                                               /\ loops[v].researcher = prior
    BY DEF PriorIsRejected
  <2> DEFINE earlier == {t \in 1..(s - 1) : Is(t, "synthesize") /\ loops[t].run = loops[s].run}
             prior == loops[s].researcher
             q == loops[s].plan
  <2>1. /\ q \in Ids /\ Is(q, "plan") /\ loops[q].run = loops[s].run /\ loops[q].researcher = prior
    BY DEF AInv, BirthOK
  <2>2. s \in Nat \ {0} /\ q \in Nat \ {0} /\ q < s  BY <2>1, Ranges DEF AInv, TypesOK
  <2>3. ASSUME NEW t \in earlier
        PROVE  /\ t \in Ids /\ t \in Nat /\ t < s /\ Is(t, "synthesize") /\ loops[t].run = loops[s].run
               /\ loops[t].plan \in EarlierPlans(q)
    <3>1. t \in Ids /\ t \in Nat /\ t < s /\ Is(t, "synthesize") /\ loops[t].run = loops[s].run
      BY <2>2, Ranges
    <3>2. /\ loops[t].plan \in Ids /\ Is(loops[t].plan, "plan")
          /\ loops[loops[t].plan].run = loops[s].run
      BY <3>1 DEF AInv, BirthOK
    <3>3. loops[t].plan \in Nat \ {0}  BY <3>2, Ranges
    <3>4. loops[t].plan # q
      <4>1. loops[t].plan = loops[s].plan => t = s  BY <3>1 DEF AInv, UniqueOK
      <4> QED BY <2>2, <3>1, <4>1
    <3>5. ~(q < loops[t].plan)
      <4>1. q < loops[t].plan => s < t  BY <3>1, InPlanOrder
      <4> QED BY <2>2, <3>1, <4>1
    <3> HIDE DEF q
    <3>6. loops[t].plan \in 1..(q - 1)  BY <2>2, <3>3, <3>4, <3>5
    <3> QED BY <2>1, <3>1, <3>2, <3>6 DEF EarlierPlans
  <2>4. \/ prior = None /\ EarlierPlans(q) = {}
        \/ \E v \in 1..(q - 1) :
             /\ Decided(v, "reviewer", "insufficient") /\ loops[v].run = loops[s].run
             /\ loops[v].researcher = prior
             /\ \A p \in EarlierPlans(q) : p <= loops[prior].plan
    <3>1. BirthOK(q)  BY <2>1 DEF AInv
    <3> QED BY <2>1, <3>1 DEF BirthOK
  <2> HIDE DEF earlier, q
  <2>5. CASE prior = None /\ EarlierPlans(q) = {}
    <3>1. earlier = {}  BY <2>3, <2>5
    <3> QED BY <2>5, <3>1 DEF earlier
  <2>6. ASSUME NEW v \in 1..(q - 1), Decided(v, "reviewer", "insufficient"), loops[v].run = loops[s].run,
               loops[v].researcher = prior, \A p \in EarlierPlans(q) : p <= loops[prior].plan
        PROVE  /\ prior \in earlier /\ \A t \in earlier : t <= prior
               /\ \E w \in Ids : Decided(w, "reviewer", "insufficient") /\ loops[w].researcher = prior
    <3>1. v \in Ids /\ v \in Nat /\ v < q  BY <2>1, <2>2, <2>6, Ranges
    <3>2. prior \in Ids /\ Is(prior, "synthesize") /\ loops[prior].run = loops[s].run
      <4>1. BirthOK(v)  BY <3>1 DEF AInv
      <4> QED BY <2>6, <4>1 DEF BirthOK, Decided
    <3>3. prior < v /\ prior \in Nat \ {0}  BY <2>6, <3>1, <3>2, Ranges DEF AInv, TypesOK
    <3>4. prior \in earlier
      <4> HIDE DEF prior
      <4>1. prior \in 1..(s - 1)  BY <2>2, <3>1, <3>3
      <4> QED BY <3>2, <4>1 DEF earlier
    <3>5. ASSUME NEW t \in earlier
          PROVE  t <= prior
      <4>1. /\ t \in Ids /\ t \in Nat /\ Is(t, "synthesize") /\ loops[t].run = loops[prior].run
            /\ loops[t].plan <= loops[prior].plan
        BY <2>3, <2>6, <3>2
      <4>2. CASE loops[t].plan = loops[prior].plan
        <5>1. t = prior  BY <3>2, <4>1, <4>2 DEF AInv, UniqueOK
        <5> QED BY <4>1, <5>1
      <4>3. CASE loops[t].plan < loops[prior].plan
        <5>1. t < prior  BY <3>2, <4>1, <4>3, InPlanOrder
        <5> QED BY <3>3, <4>1, <5>1
      <4>4. loops[t].plan \in Nat /\ loops[prior].plan \in Nat
        BY <3>2, <4>1, Ranges DEF LoopRecord
      <4> QED BY <4>1, <4>2, <4>3, <4>4
    <3> QED BY <2>6, <3>1, <3>4, <3>5
  <2>7. CASE \E v \in 1..(q - 1) :
               /\ Decided(v, "reviewer", "insufficient") /\ loops[v].run = loops[s].run
               /\ loops[v].researcher = prior
               /\ \A p \in EarlierPlans(q) : p <= loops[prior].plan
    <3>1. /\ prior \in earlier /\ \A t \in earlier : t <= prior
          /\ \E w \in Ids : Decided(w, "reviewer", "insufficient") /\ loops[w].researcher = prior
      BY <2>6, <2>7
    <3> QED BY <3>1 DEF earlier
  <2> QED BY <2>4, <2>5, <2>7
<1> QED BY <1>1, AInvAlways, PTL

(***************************************************************************)
(* The analyzer passes exactly the facts that are proven.                  *)
(***************************************************************************)

\* The dates of parsed facts are numbers.
Dated(f) ==
  /\ \A w \in DOMAIN f.waivers : f.waivers[w].expires \in Int
  /\ \A r \in DOMAIN f.readiness : f.readiness[r].expires \in Int

\* No status of a dependency is the missing one.
LEMMA NoTextApart ==
  NoText # "ready" /\ NoText # "waived" /\ NoText # "failed"
BY Zenon DEF NoText

\* ParseProofFacts keeps the dates of the facts it reads.
LEMMA ParsedDates ==
  ASSUME NEW raw, DatesOK(raw)
  PROVE  Dated(ParseProofFacts(raw))
<1> DEFINE f == ParseProofFacts(raw)
<1>1. ASSUME NEW w \in DOMAIN f.waivers PROVE f.waivers[w].expires \in Int
  <2>1. w \in DOMAIN raw.waivers  BY <1>1 DEF ParseProofFacts
  <2>2. raw.waivers[w] \in Range(raw.waivers)  BY <2>1 DEF Range
  <2>3. f.waivers[w].expires = Field(raw.waivers[w], "expires", Never)
    BY <2>1 DEF ParseProofFacts
  <2> QED  BY <2>2, <2>3 DEF DatesOK
<1>2. ASSUME NEW r \in DOMAIN f.readiness PROVE f.readiness[r].expires \in Int
  <2>1. r \in DOMAIN raw.readiness  BY <1>2 DEF ParseProofFacts
  <2>2. raw.readiness[r] \in Range(raw.readiness)  BY <2>1 DEF Range
  <2>3. f.readiness[r].expires = Field(raw.readiness[r], "expires", Never)
    BY <2>1 DEF ParseProofFacts
  <2> QED  BY <2>2, <2>3 DEF DatesOK
<1> QED  BY <1>1, <1>2 DEF Dated

\* A date is neither past nor unreadable exactly when it is valid.
LEMMA DateValid ==
  ASSUME NEW t \in Int, NEW at \in Int
  PROVE  ~expiredAt(t, at).expired /\ ~expiredAt(t, at).invalid <=> Valid(t, at)
<1>1. expiredAt(t, at).expired <=> t \notin {Never, Unreadable} /\ at > t
  BY Zenon DEF expiredAt
<1>2. expiredAt(t, at).invalid <=> t = Unreadable
  BY Zenon DEF expiredAt
<1> QED  BY <1>1, <1>2 DEF Valid, Never, Unreadable

\* matchingWaiver finds an active waiver when there is one, and none when no
\* waiver covers the claim or the dependency.
LEMMA WaiverState ==
  ASSUME NEW f, Dated(f), NEW c, NEW d, NEW at \in Int
  PROVE  LET w == matchingWaiver(f, c, d, at)
         IN /\ w.state = "active" <=> Waived(f, c, d, at)
            /\ w.state = "none" <=> Waivers(f, c, d) = {}
            /\ w.state \in {"active", "inactive", "none"}
<1> DEFINE covering == {w \in DOMAIN f.waivers : waiverCovers(f.waivers[w], c, d)}
           date(w) == expiredAt(f.waivers[w].expires, at)
           active == {w \in covering : /\ f.waivers[w].status = "active"
                                       /\ ~date(w).expired /\ ~date(w).invalid}
           m == matchingWaiver(f, c, d, at)
<1>1. active # {} <=> Waived(f, c, d, at)
  <2>1. ASSUME NEW w \in DOMAIN f.waivers
        PROVE  w \in active <=> waiverCovers(f.waivers[w], c, d) /\ Active(f.waivers[w], at)
    <3>1. f.waivers[w].expires \in Int  BY DEF Dated
    <3>2. ~date(w).expired /\ ~date(w).invalid <=> Valid(f.waivers[w].expires, at)
      BY <3>1, DateValid
    <3> QED  BY <3>2 DEF Active
  <2> QED  BY <2>1, Zenon DEF Waived, Waivers, Range
<1>2. covering = {} <=> Waivers(f, c, d) = {}
  BY Zenon DEF Waivers, Range
<1>3. active # {} => covering # {}
  OBVIOUS
<1>4. CASE active # {}
  <2>1. m.state = "active"  BY <1>3, <1>4 DEF matchingWaiver
  <2> QED  BY <2>1, <1>1, <1>2, <1>3, <1>4
<1>5. CASE covering = {}
  <2>1. m.state = "none"  BY <1>3, <1>5 DEF matchingWaiver
  <2> QED  BY <2>1, <1>1, <1>2, <1>3, <1>5
<1>6. CASE active = {} /\ covering # {}
  <2>1. m.state = "inactive"  BY <1>6 DEF matchingWaiver
  <2> QED  BY <2>1, <1>1, <1>2, <1>6
<1> QED  BY <1>4, <1>5, <1>6

\* A record is fresh when it passed, smoke test included, and is still valid.
LEMMA FreshExact ==
  ASSUME NEW r, NEW at \in Int, r.expires \in Int
  PROVE  Grade(r, at) = "fresh" <=>
           r.status = "passed" /\ r.smoke # "failed" /\ Valid(r.expires, at)
<1>1. ~expiredAt(r.expires, at).expired /\ ~expiredAt(r.expires, at).invalid
        <=> Valid(r.expires, at)
  BY DateValid
<1> DEFINE e == expiredAt(r.expires, at).expired
           i == expiredAt(r.expires, at).invalid
<1>2. CASE i
  BY <1>1, <1>2 DEF Grade
<1>3. CASE ~i /\ ~e /\ r.status = "passed" /\ r.smoke # "failed"
  BY <1>1, <1>3 DEF Grade
<1>4. CASE ~i /\ ~(~e /\ r.status = "passed" /\ r.smoke # "failed")
  BY <1>1, <1>4 DEF Grade
<1> QED  BY <1>2, <1>3, <1>4

\* A ready dependency with a profile has no finding exactly when the profile is
\* usable and one of its readiness records is fresh.
LEMMA HarnessExact ==
  ASSUME NEW f, Dated(f), NEW c, NEW d, NEW at \in Int
  PROVE  profileFinding(f, c, d) = {} /\ readinessFinding(f, c, d, at) = {}
           <=> Harnessed(f, f.deps[d].profile, at)
<1> DEFINE p == f.deps[d].profile
           records == {r \in DOMAIN f.readiness : f.readiness[r].profile = p}
           of(g) == {r \in records : Grade(f.readiness[r], at) = g}
<1>1. profileFinding(f, c, d) = {} <=>
        p \in DOMAIN f.profiles /\ f.profiles[p] \in {NoText, "ready", "passed", "accepted", "active"}
  BY DEF profileFinding
<1>2. readinessFinding(f, c, d, at) = {} <=> of("fresh") # {}
  BY DEF readinessFinding
<1>3. ASSUME NEW r \in DOMAIN f.readiness
      PROVE  r \in of("fresh") <=>
               /\ f.readiness[r].profile = p /\ f.readiness[r].status = "passed"
               /\ f.readiness[r].smoke # "failed" /\ Valid(f.readiness[r].expires, at)
  <2>1. f.readiness[r].expires \in Int  BY DEF Dated
  <2>2. Grade(f.readiness[r], at) = "fresh" <=>
          /\ f.readiness[r].status = "passed" /\ f.readiness[r].smoke # "failed"
          /\ Valid(f.readiness[r].expires, at)
    BY <2>1, FreshExact
  <2> QED  BY <2>2
<1>4. of("fresh") \subseteq DOMAIN f.readiness
  OBVIOUS
<1> HIDE DEF of
<1> QED  BY <1>1, <1>2, <1>3, <1>4, Zenon DEF Harnessed

\* A dependency has no finding exactly when it is satisfied.
LEMMA DependencyExact ==
  ASSUME NEW f, Dated(f), NEW c, NEW d, NEW at \in Int
  PROVE  evaluateDependency(f, c, d, at) = {} <=> Satisfied(f, c, d, at)
<1> DEFINE w == matchingWaiver(f, c, d, at)
<1>1. /\ w.state = "active" <=> Waived(f, c, d, at)
      /\ w.state = "none" <=> Waivers(f, c, d) = {}
      /\ w.state \in {"active", "inactive", "none"}
  BY WaiverState
<1>2. statusFinding(f, c, d, at) = {} <=>
        /\ f.deps[d].status = "ready"
        /\ f.deps[d].profile = Nothing \/ Harnessed(f, f.deps[d].profile, at)
  <2>1. profileFinding(f, c, d) = {} /\ readinessFinding(f, c, d, at) = {}
          <=> Harnessed(f, f.deps[d].profile, at)
    BY HarnessExact
  <2>2. CASE f.deps[d].status = "ready"
    BY <2>1, <2>2, NoTextApart DEF statusFinding
  <2>3. CASE f.deps[d].status # "ready"
    <3> DEFINE s == f.deps[d].status
    <3>1. CASE s = "waived"
      BY <3>1, NoTextApart DEF statusFinding
    <3>2. CASE s \in {"missing", "unknown", NoText}
      BY <3>2, NoTextApart DEF statusFinding
    <3>3. CASE s = "failed"
      BY <3>3, NoTextApart DEF statusFinding
    <3>4. CASE s \notin {"ready", "waived", "missing", "unknown", NoText, "failed"}
      BY <3>4, NoTextApart DEF statusFinding
    <3> QED  BY <2>3, <3>1, <3>2, <3>3, <3>4
  <2> QED  BY <2>2, <2>3
<1>3. CASE w.state = "active"
  BY <1>1, <1>3 DEF evaluateDependency, Satisfied
<1>4. CASE w.state = "inactive"
  BY <1>1, <1>4 DEF evaluateDependency, Satisfied, addInactiveWaiverFinding
<1>5. CASE w.state = "none"
  BY <1>1, <1>2, <1>5 DEF evaluateDependency, Satisfied
<1> QED  BY <1>1, <1>3, <1>4, <1>5

\* What it takes for an accepted claim to be proven.
ClaimProven(f, c, at) ==
  LET deps == f.claims[c].requires
  IN /\ f.claims[c].conflicts \cap Accepted(f) = {}
     /\ \A d \in deps : Satisfied(f, c, d, at)
     /\ deps = {} => c \in f.covers \/ Waived(f, c, Nothing, at)

\* An accepted claim has no finding exactly when it is proven.
LEMMA ClaimExact ==
  ASSUME NEW f, Dated(f), NEW c, NEW at \in Int
  PROVE  evaluateClaim(f, c, at) = {} <=> ClaimProven(f, c, at)
<1> DEFINE w == matchingWaiver(f, c, Nothing, at)
           requires == f.claims[c].requires
           rest == IF requires = {} /\ c \notin f.covers
                     THEN CASE w.state = "active" -> {}
                            [] w.state = "inactive" -> addInactiveWaiverFinding(c, Nothing, w)
                            [] w.state = "none" ->
                                 {Finding("unproved_claim", "test_harness", c, Nothing, Nothing)}
                   ELSE UNION {evaluateDependency(f, c, d, at) : d \in requires}
<1>1. evaluateClaim(f, c, at) = evaluateConflicts(f, c) \cup rest
  BY DEF evaluateClaim
<1>2. evaluateConflicts(f, c) = {} <=> f.claims[c].conflicts \cap Accepted(f) = {}
  BY DEF evaluateConflicts, acceptedClaimIDs, Accepted
<1>3. /\ w.state = "active" <=> Waived(f, c, Nothing, at)
      /\ w.state \in {"active", "inactive", "none"}
  BY WaiverState
<1>4. rest = {} <=> /\ \A d \in requires : Satisfied(f, c, d, at)
                    /\ requires = {} => c \in f.covers \/ Waived(f, c, Nothing, at)
  <2>1. CASE requires = {} /\ c \notin f.covers
    <3>1. CASE w.state = "active"  BY <1>3, <2>1, <3>1
    <3>2. CASE w.state = "inactive"  BY <1>3, <2>1, <3>2 DEF addInactiveWaiverFinding
    <3>3. CASE w.state = "none"  BY <1>3, <2>1, <3>3
    <3> QED  BY <1>3, <3>1, <3>2, <3>3
  <2>2. CASE ~(requires = {} /\ c \notin f.covers)
    <3>1. rest = UNION {evaluateDependency(f, c, d, at) : d \in requires}
      BY <2>2
    <3> HIDE DEF rest
    <3>2. rest = {} <=> \A d \in requires : evaluateDependency(f, c, d, at) = {}
      BY <3>1
    <3>3. \A d \in requires : evaluateDependency(f, c, d, at) = {} <=> Satisfied(f, c, d, at)
      BY DependencyExact
    <3> QED  BY <2>2, <3>2, <3>3
  <2> QED  BY <2>1, <2>2
<1> HIDE DEF rest
<1> QED  BY <1>1, <1>2, <1>4 DEF ClaimProven

\* Every finding is a blocker.
LEMMA FindingsBlock ==
  ASSUME NEW f, NEW c, NEW at, Dated(f), at \in Int
  PROVE  \A x \in evaluateClaim(f, c, at) : x.severity = "blocker"
<1> DEFINE Blocks(S) == \A x \in S : x.severity = "blocker"
<1>1. \A kind, route, a, b, about : Finding(kind, route, a, b, about).severity = "blocker"
  BY DEF Finding
<1>2. Blocks(evaluateConflicts(f, c))
  BY <1>1 DEF evaluateConflicts
<1>3. \A d, w : Blocks(addInactiveWaiverFinding(c, d, w))
  BY <1>1 DEF addInactiveWaiverFinding
<1>4. \A d : Blocks(profileFinding(f, c, d))
  BY <1>1 DEF profileFinding
<1>5. \A d : Blocks(readinessFinding(f, c, d, at))
  BY <1>1 DEF readinessFinding
<1>6. ASSUME NEW d PROVE Blocks(statusFinding(f, c, d, at))
  <2> DEFINE s == f.deps[d].status
  <2>1. CASE s = "waived"  BY <1>1, <2>1, NoTextApart DEF statusFinding
  <2>2. CASE s = "ready"  BY <1>1, <1>4, <1>5, <2>2, NoTextApart DEF statusFinding
  <2>3. CASE s \in {"missing", "unknown", NoText}  BY <1>1, <2>3, NoTextApart DEF statusFinding
  <2>4. CASE s = "failed"  BY <1>1, <2>4, NoTextApart DEF statusFinding
  <2>5. CASE s \notin {"ready", "waived", "missing", "unknown", NoText, "failed"}
    BY <1>1, <2>5, NoTextApart DEF statusFinding
  <2> QED  BY <2>1, <2>2, <2>3, <2>4, <2>5
<1>7. ASSUME NEW d PROVE Blocks(evaluateDependency(f, c, d, at))
  <2> DEFINE w == matchingWaiver(f, c, d, at)
  <2>1. w.state \in {"active", "inactive", "none"}  BY WaiverState
  <2> QED  BY <1>1, <1>3, <1>6, <2>1 DEF evaluateDependency
<1> DEFINE w == matchingWaiver(f, c, Nothing, at)
<1>8. w.state \in {"active", "inactive", "none"}  BY WaiverState
<1> HIDE DEF w
<1> QED  BY <1>1, <1>2, <1>3, <1>7, <1>8 DEF evaluateClaim, w

\* The status is passed exactly for facts that are proven: whatever claims,
\* dependencies, profiles, records and waivers a run carries and in whatever state.
LEMMA AnalyzerExact ==
  ASSUME NEW f, Dated(f), NEW at \in Int
  PROVE  AnalyzeFacts(f, at).status = "passed" <=> Proven(f, at)
<1> DEFINE findings == UNION {evaluateClaim(f, c, at) : c \in acceptedClaimIDs(f)}
<1>1. acceptedClaimIDs(f) = Accepted(f)  BY DEF acceptedClaimIDs, Accepted
<1>2. hasBlocker(findings) <=> findings # {}
  BY FindingsBlock DEF hasBlocker
<1>3. findings = {} <=> \A c \in Accepted(f) : evaluateClaim(f, c, at) = {}
  BY <1>1
<1>4. findings = {} <=> \A c \in Accepted(f) : ClaimProven(f, c, at)
  BY <1>3, ClaimExact
<1>5. Proven(f, at) <=> Accepted(f) # {} /\ \A c \in Accepted(f) : ClaimProven(f, c, at)
  BY DEF Proven, ClaimProven
<1>6. CASE Accepted(f) = {}
  BY <1>1, <1>5, <1>6 DEF AnalyzeFacts
<1>7. CASE Accepted(f) # {} /\ findings = {}
  <2>1. AnalyzeFacts(f, at).status = "passed"  BY <1>1, <1>2, <1>7 DEF AnalyzeFacts
  <2> QED  BY <2>1, <1>4, <1>5, <1>7
<1>8. CASE Accepted(f) # {} /\ findings # {}
  <2>1. AnalyzeFacts(f, at).status = "failed"  BY <1>1, <1>2, <1>8 DEF AnalyzeFacts
  <2> QED  BY <2>1, <1>4, <1>5, <1>8
<1> QED  BY <1>6, <1>7, <1>8

(***************************************************************************)
(* What every step of the hand-off keeps.                                  *)
(***************************************************************************)

Analyses == {"passed", "failed", "ambiguous"}
RunOutcomes == {"success", "failed"}

\* The first analysis that was written passed; the run is approved, released
\* and requested.
Released(r) == r.status # << >> /\ r.status[1] = "passed"
Requestable(r) ==
  "success" \in ToSet(r.outcome) /\ {"implementation_ready", "requested"} \subseteq r.marks

\* What a rule that was selected may still rely on when it is executed.
Entries(r) ==
  {e \in [rule : RunRules, step : 1..3] :
     /\ e.step <= Len(OnEnter(e.rule))
     /\ e.rule = "proof-readiness/01" => Released(r)
     /\ e.rule = "dev-from-task/02" => Requestable(r)}

RunShape(r) ==
  /\ r = [outcome |-> r.outcome, status |-> r.status, routes |-> r.routes, marks |-> r.marks,
          change |-> r.change, plans |-> r.plans, first |-> r.first]
  /\ r.outcome \in Seq(RunOutcomes) /\ r.status \in Seq(Analyses) /\ Listed(r.change)
  /\ "implementation_ready" \in r.marks => Released(r)

\* Nothing that was on a run is lost or reordered.
Grows(r, s) ==
  /\ ToSet(r.outcome) \subseteq ToSet(s.outcome) /\ r.marks \subseteq s.marks
  /\ r.status # << >> => s.status # << >> /\ s.status[1] = r.status[1]

FirstOK ==
  /\ run.status # << >> => run.first # << >>
  /\ run.first # << >> =>
       /\ run.first[1].stage \in DOMAIN facts /\ run.first[1].at \in Int
       /\ run.status # << >>
       /\ run.status[1] = AnalyzeFacts(FactsOf(run.first[1].stage), run.first[1].at).status

ClockOK ==
  /\ world \in DOMAIN Worlds /\ facts \in World.facts
  /\ stage \in DOMAIN facts /\ now \in 1..World.until /\ begun \in 0..World.calls

ArcOK ==
  /\ DOMAIN arc = DOMAIN Decisions
  /\ \A role \in DOMAIN arc : arc[role] \in Decisions[role] \cup {"none", "running", "failed"}
  /\ arc.reviewer # "none" => <<"create-change/02", "author">> \in enacted
  /\ "success" \in ToSet(run.outcome) => arc.reviewer = "approved"
  /\ arc.walker # "none" => Requestable(run)

\* A stored change has a list of tasks whose references lead where they should.
ChangeOK(e) ==
  /\ Listed(e.tasks)
  /\ \A t \in DOMAIN e.tasks : e.tasks[t].ref # << >> => RefTrue(e, e.tasks[t])

\* A plan, on the run or on its way, is made of what was emitted.
PlanOK(p) ==
  LET of == Emissions(p.slug)
      tasks(i) == run.change[i].tasks
  IN /\ "success" \in ToSet(run.outcome)
     /\ of # {}
     /\ \A t \in DOMAIN p.tasks :
          /\ \E i \in of : t \in DOMAIN tasks(i) /\ p.tasks[t].id = tasks(i)[t].id
          /\ \E i \in of : t \in DOMAIN tasks(i) /\ p.tasks[t].expects = tasks(i)[t].expects
     /\ \A i \in of : of = {i} =>
          /\ DOMAIN p.tasks = DOMAIN tasks(i)
          /\ \A t \in DOMAIN p.tasks :
               p.tasks[t] = [id |-> tasks(i)[t].id, expects |-> tasks(i)[t].expects]

CallOK(call) ==
  /\ call.op \in {"analyze", "command"} => call.stage \in DOMAIN facts /\ call.since \in Int
  /\ call.op = "emit" => ChangeOK(call.draft)
  /\ call.op = "project" => PlanOK(call.plan)

HandoffInv ==
  /\ ClockOK /\ RunShape(run) /\ FirstOK /\ ArcOK
  /\ queue \in Seq(Entries(run))
  /\ \A i \in DOMAIN run.change : ChangeOK(run.change[i])
  /\ \A p \in run.plans : PlanOK(p)
  /\ \A call \in BagToSet(calls) : CallOK(call)

(***************************************************************************)
(* Sequences, bags and the largest member of a finite set.                 *)
(***************************************************************************)

\* add_triple keeps the values that are there, in their order.
LEMMA RecordedKeeps ==
  ASSUME NEW S, NEW values \in Seq(S), NEW v \in S
  PROVE  /\ Recorded(values, v) \in Seq(S) /\ Recorded(values, v) # << >>
         /\ ToSet(Recorded(values, v)) = ToSet(values) \cup {v}
         /\ values # << >> => Recorded(values, v)[1] = values[1]
         /\ values = << >> => Recorded(values, v)[1] = v
<1>1. CASE v \in ToSet(values)
  <2>1. Recorded(values, v) = values  BY <1>1 DEF Recorded
  <2>2. values # << >>  BY <1>1 DEF ToSet
  <2> QED  BY <1>1, <2>1, <2>2
<1>2. CASE v \notin ToSet(values)
  <2>1. Recorded(values, v) = Append(values, v)  BY <1>2 DEF Recorded
  <2> DEFINE w == Append(values, v)
  <2>2. /\ w \in Seq(S) /\ Len(w) = Len(values) + 1 /\ w[Len(values) + 1] = v
        /\ \A i \in 1..Len(values) : w[i] = values[i]
    OBVIOUS
  <2>3. DOMAIN w = 1..(Len(values) + 1) /\ DOMAIN values = 1..Len(values) /\ Len(values) \in Nat
    BY <2>2
  <2> HIDE DEF w
  <2>4. ToSet(w) = ToSet(values) \cup {v}
    BY <2>2, <2>3 DEF ToSet
  <2>5. w # << >>  BY <2>2, <2>3
  <2>6. values # << >> => w[1] = values[1]  BY <2>2, <2>3
  <2>7. values = << >> => w[1] = v  BY <2>2, <2>3
  <2> QED  BY <2>1, <2>2, <2>4, <2>5, <2>6, <2>7 DEF w
<1> QED  BY <1>1, <1>2

\* A list stays one when an item is put behind it.
LEMMA ListedAppend ==
  ASSUME NEW s, Listed(s), NEW e
  PROVE  /\ Listed(Append(s, e)) /\ Len(s) \in Nat /\ DOMAIN s = 1..Len(s)
         /\ DOMAIN Append(s, e) = 1..(Len(s) + 1)
         /\ Append(s, e)[Len(s) + 1] = e
         /\ \A i \in DOMAIN s : Append(s, e)[i] = s[i]
<1> DEFINE S == Range(s) \cup {e}
           w == Append(s, e)
<1>1. s \in Seq(S)  BY DEF Listed
<1>2. /\ w \in Seq(S) /\ Len(w) = Len(s) + 1 /\ w[Len(s) + 1] = e
      /\ \A i \in 1..Len(s) : w[i] = s[i]
  BY <1>1
<1>3. DOMAIN w = 1..(Len(s) + 1) /\ DOMAIN s = 1..Len(s) /\ Len(s) \in Nat
  BY <1>1, <1>2
<1> HIDE DEF w, S
<1>4. \A i \in 1..Len(w) : w[i] \in Range(w)
  BY <1>2, <1>3 DEF Range
<1>5. w \in Seq(Range(w))
  <2>1. w = [i \in 1..Len(w) |-> w[i]] /\ Len(w) \in Nat  BY <1>2
  <2> QED  BY <1>4, <2>1
<1> QED  BY <1>2, <1>3, <1>5 DEF Listed, w

\* Bags: what is in flight after a call begins, and after it has arrived.
LEMMA BagFacts ==
  ASSUME NEW B, NEW c
  PROVE  /\ BagToSet(B (+) SetToBag({c})) = BagToSet(B) \cup {c}
         /\ BagToSet(B (-) SetToBag({c})) \subseteq BagToSet(B)
         /\ BagToSet(EmptyBag) = {}
BY DEF BagToSet, SetToBag, EmptyBag, (+), (-)

\* A finite set of numbers that is not empty has a largest member.
LEMMA MaxIn ==
  ASSUME NEW S, S \subseteq Nat, IsFiniteSet(S), S # {}
  PROVE  Max(S) \in S /\ \A y \in S : y <= Max(S)
<1> DEFINE Above(x) == {y \in S : y > x}
           T == {Above(x) : x \in S}
<1>1. T \subseteq FiniteSubsetsOf(S) /\ T # {}
  <2>1. \A x \in S : Above(x) \in SUBSET S /\ IsFiniteSet(Above(x))
    <3> SUFFICES ASSUME NEW x \in S PROVE Above(x) \in SUBSET S /\ IsFiniteSet(Above(x))
      OBVIOUS
    <3>1. Above(x) \in SUBSET S  OBVIOUS
    <3> HIDE DEF Above
    <3> QED  BY <3>1, FS_Subset
  <2> HIDE DEF Above
  <2> QED  BY <2>1 DEF FiniteSubsetsOf
<1>2. PICK U \in T : \A V \in T : ~(<<V, U>> \in StrictSubsetOrdering(S))
  <2>1. IsWellFoundedOn(StrictSubsetOrdering(S), FiniteSubsetsOf(S))
    BY FS_StrictSubsetOrderingWellFounded
  <2> HIDE DEF T
  <2> QED  BY <1>1, <2>1, WFMin, Zenon
<1>3. PICK x \in S : U = Above(x)
  BY <1>2
<1>4. Above(x) = {}
  <2> SUFFICES ASSUME NEW y \in Above(x) PROVE FALSE
    OBVIOUS
  <2>0. x \in Nat /\ y \in Nat /\ y \in S /\ y > x /\ \A z \in S : z \in Nat
    BY <1>3
  <2>1. Above(y) \subseteq Above(x) /\ y \notin Above(y) /\ y \in S
    <3>1. \A z \in S : z > y => z > x  BY <2>0
    <3>2. ~(y > y)  BY <2>0
    <3> QED  BY <2>0, <3>1, <3>2, Zenon
  <2>2. <<Above(y), Above(x)>> \in StrictSubsetOrdering(S)
    BY <2>1 DEF StrictSubsetOrdering
  <2> QED  BY <1>2, <1>3, <2>1, <2>2
<1>5. \A y \in S : x >= y
  BY <1>4
<1>6. Max(S) \in S /\ \A y \in S : Max(S) >= y
  BY <1>3, <1>5, Zenon DEF Max
<1> QED  BY <1>6

(***************************************************************************)
(* A revision of the run.                                                  *)
(***************************************************************************)

\* The rules that fire on the run are finitely many.
LEMMA RunRulesFinite == IsFiniteSet(RunRules)
<1>1. IsFiniteSet({})  BY FS_EmptySet
<1>2. IsFiniteSet({"proof-readiness/01"})  BY FS_Singleton
<1>3. IsFiniteSet({"proof-readiness/01", "proof-readiness/02"})
  BY <1>2, FS_AddElement
<1>4. IsFiniteSet({"proof-readiness/01", "proof-readiness/02", "proof-readiness/03"})
  BY <1>3, FS_AddElement
<1>5. IsFiniteSet({"proof-readiness/01", "proof-readiness/02", "proof-readiness/03",
                   "proof-readiness/04"})
  BY <1>4, FS_AddElement
<1> QED  BY <1>5, FS_AddElement DEF RunRules

\* What a rule that a revision turns on has just read.
LEMMA MatchMeans ==
  ASSUME NEW r, RunShape(r), NEW rule \in RunRules, Matches(rule, r)
  PROVE  [rule |-> rule, step |-> 1] \in Entries(r)
<1>1. rule = "proof-readiness/01" => Released(r)
  BY DEF Matches, PassedToImplementationReady, Routable, FirstValue, Released, RunShape
<1>2. rule = "dev-from-task/02" => Requestable(r)
  <2> SUFFICES ASSUME rule = "dev-from-task/02" PROVE Requestable(r)
    OBVIOUS
  <2>1. FirstValue(r.outcome) = "success" /\ {"implementation_ready", "requested"} \subseteq r.marks
    BY DEF Matches, ReadyRequestToCoordinator
  <2>2. r.outcome # << >> /\ r.outcome \in Seq(RunOutcomes)
    BY <2>1 DEF FirstValue, RunShape
  <2>3. 1 \in DOMAIN r.outcome /\ r.outcome[1] = "success"
    BY <2>1, <2>2 DEF FirstValue
  <2> QED  BY <2>1, <2>3 DEF Requestable, ToSet
<1>3. 1 <= Len(OnEnter(rule))
  BY DEF OnEnter, RunRules
<1> QED  BY <1>1, <1>2, <1>3 DEF Entries

\* A rule that was selected may rely on the same things on a run that has grown.
LEMMA EntriesGrow ==
  ASSUME NEW r, NEW s, Grows(r, s)
  PROVE  Entries(r) \subseteq Entries(s)
BY DEF Grows, Entries, Released, Requestable

\* A revision keeps what the selected rules rely on, and selects only rules whose
\* conditions it has.
LEMMA ReviseKeeps ==
  ASSUME HandoffInv, NEW r, NEW rest \in Seq(Entries(run)), RunShape(r), Grows(run, r),
         Revise(r, rest)
  PROVE  run' = r /\ queue' \in Seq(Entries(r))
<1> DEFINE entered == {rule \in RunRules : ~Matches(rule, run) /\ Matches(rule, r)}
<1>1. run' = r /\ \E s \in SetToSeqs(entered) :
        queue' = rest \o [i \in DOMAIN s |-> [rule |-> s[i], step |-> 1]]
  BY DEF Revise
<1>2. PICK s \in SetToSeqs(entered) :
        queue' = rest \o [i \in DOMAIN s |-> [rule |-> s[i], step |-> 1]]
  BY <1>1
<1>3. Cardinality(entered) \in Nat
  BY RunRulesFinite, FS_Subset, FS_CardinalityType
<1>4. s \in [1..Cardinality(entered) -> entered]
  BY <1>2 DEF SetToSeqs
<1> DEFINE new == [i \in DOMAIN s |-> [rule |-> s[i], step |-> 1]]
<1>5. \A rule \in entered : [rule |-> rule, step |-> 1] \in Entries(r)
  BY MatchMeans
<1>6. new \in Seq(Entries(r))
  <2> HIDE DEF entered
  <2>1. DOMAIN s = 1..Cardinality(entered) /\ \A i \in 1..Cardinality(entered) : s[i] \in entered
    BY <1>4
  <2>2. new = [i \in 1..Cardinality(entered) |-> [rule |-> s[i], step |-> 1]]
    BY <2>1
  <2> QED  BY <1>3, <1>5, <2>1, <2>2
<1>7. rest \in Seq(Entries(r))
  <2>1. Entries(run) \subseteq Entries(r)  BY EntriesGrow
  <2> QED  BY <2>1
<1> HIDE DEF new
<1>8. rest \o new \in Seq(Entries(r))
  BY <1>6, <1>7
<1> QED  BY <1>1, <1>2, <1>8 DEF new

\* A plan stays true to what was emitted when nothing more is emitted ...
LEMMA PlanStays ==
  ASSUME NEW p, PlanOK(p), run'.change = run.change,
         ToSet(run.outcome) \subseteq ToSet(run'.outcome)
  PROVE  PlanOK(p)'
BY DEF PlanOK, Emissions

\* ... and when one more change is.
LEMMA PlanGrows ==
  ASSUME NEW p, NEW e, PlanOK(p), Listed(run.change), run'.change = Append(run.change, e),
         run'.outcome = run.outcome
  PROVE  PlanOK(p)'
<1> DEFINE n == Len(run.change)
<1>1. /\ n \in Nat /\ DOMAIN run.change = 1..n /\ DOMAIN run'.change = 1..(n + 1)
      /\ \A i \in 1..n : run'.change[i] = run.change[i]
  BY ListedAppend
<1> HIDE DEF n
<1>2. Emissions(p.slug) \subseteq Emissions(p.slug)'
  BY <1>1 DEF Emissions
<1>3. Emissions(p.slug) # {}  BY DEF PlanOK
<1>4. \A i \in Emissions(p.slug) : run'.change[i] = run.change[i]
  BY <1>1 DEF Emissions
<1>5. ASSUME NEW t \in DOMAIN p.tasks
      PROVE /\ \E i \in Emissions(p.slug)' :
                 t \in DOMAIN run'.change[i].tasks /\ p.tasks[t].id = run'.change[i].tasks[t].id
            /\ \E i \in Emissions(p.slug)' :
                 t \in DOMAIN run'.change[i].tasks /\ p.tasks[t].expects = run'.change[i].tasks[t].expects
  <2>1. PICK i \in Emissions(p.slug) :
          t \in DOMAIN run.change[i].tasks /\ p.tasks[t].id = run.change[i].tasks[t].id
    BY DEF PlanOK
  <2>2. PICK j \in Emissions(p.slug) :
          t \in DOMAIN run.change[j].tasks /\ p.tasks[t].expects = run.change[j].tasks[t].expects
    BY DEF PlanOK
  <2>3. run'.change[i] = run.change[i] /\ run'.change[j] = run.change[j]  BY <1>4
  <2>4. i \in Emissions(p.slug)' /\ j \in Emissions(p.slug)'  BY <1>2
  <2> QED  BY <2>1, <2>2, <2>3, <2>4
<1>6. ASSUME NEW i \in Emissions(p.slug)', Emissions(p.slug)' = {i}
      PROVE  /\ DOMAIN p.tasks = DOMAIN run'.change[i].tasks
             /\ \A t \in DOMAIN p.tasks :
                  p.tasks[t] = [id |-> run'.change[i].tasks[t].id, expects |-> run'.change[i].tasks[t].expects]
  <2>1. Emissions(p.slug) = {i}  BY <1>2, <1>3, <1>6
  <2>2. /\ DOMAIN p.tasks = DOMAIN run.change[i].tasks
        /\ \A t \in DOMAIN p.tasks :
             p.tasks[t] = [id |-> run.change[i].tasks[t].id, expects |-> run.change[i].tasks[t].expects]
    BY <2>1 DEF PlanOK
  <2>3. run'.change[i] = run.change[i]  BY <1>4, <2>1
  <2> QED  BY <2>2, <2>3
<1>7. ("success" \in ToSet(run.outcome))'  BY DEF PlanOK
<1> QED  BY <1>2, <1>3, <1>5, <1>6, <1>7 DEF PlanOK

\* What is in flight stays sound when the facts stay and plans do.
LEMMA CallStays ==
  ASSUME NEW call, CallOK(call), facts' = facts, \A p : PlanOK(p) => PlanOK(p)'
  PROVE  CallOK(call)'
BY DEF CallOK

\* Steps that leave the run alone keep the invariant if they keep the clock and
\* the loops and begin only sound calls.
LEMMA QuietKeeps ==
  ASSUME HandoffInv, UNCHANGED <<world, facts, run, queue>>, ClockOK', ArcOK',
         \A call \in BagToSet(calls') : call \in BagToSet(calls) \/ CallOK(call)
  PROVE  HandoffInv'
<1>1. \A p : PlanOK(p) => PlanOK(p)'  BY PlanStays
<1>2. \A call \in BagToSet(calls') : CallOK(call)'
  BY <1>1, CallStays DEF HandoffInv
<1>3. FirstOK'  BY DEF HandoffInv, FirstOK, FactsOf
<1> QED  BY <1>1, <1>2, <1>3 DEF HandoffInv

\* Steps that revise the run keep the invariant if the new revision has grown
\* from the old one and carries the same changes and only sound plans.
LEMMA StampKeeps ==
  ASSUME HandoffInv, NEW r, NEW rest \in Seq(Entries(run)), RunShape(r), Grows(run, r),
         Revise(r, rest), r.change = run.change, \A p \in r.plans : PlanOK(p),
         facts' = facts, ClockOK', ArcOK', FirstOK', BagToSet(calls') \subseteq BagToSet(calls)
  PROVE  HandoffInv'
<1>1. run' = r /\ queue' \in Seq(Entries(r))  BY ReviseKeeps
<1>2. \A p : PlanOK(p) => PlanOK(p)'  BY <1>1, PlanStays DEF Grows
<1>3. \A call \in BagToSet(calls') : CallOK(call)'
  BY <1>2, CallStays DEF HandoffInv
<1>4. \A p \in r.plans : PlanOK(p)'  BY <1>2
<1>5. \A i \in DOMAIN r.change : ChangeOK(r.change[i])  BY DEF HandoffInv
<1> QED  BY <1>1, <1>3, <1>4, <1>5 DEF HandoffInv

(***************************************************************************)
(* One lemma per action.                                                   *)
(***************************************************************************)

HandoffRoles == {"author", "reviewer", "wakeup", "recovery", "asker", "walker"}

\* The roles of the arc.
LEMMA RoleNames == DOMAIN Decisions = HandoffRoles
BY DEF Decisions, HandoffRoles

\* The initial states satisfy the invariant.
LEMMA InitOK == HandoffInit => HandoffInv
<1> SUFFICES ASSUME HandoffInit PROVE HandoffInv
  OBVIOUS
<1>1. ClockOK
  <2>1. Listed(facts) /\ facts # << >>  BY HandoffConstantsOK DEF HandoffInit, World
  <2>2. 1 \in DOMAIN facts  BY <2>1 DEF Listed
  <2>3. World.until \in Nat \ {0} /\ World.calls \in Nat
    BY HandoffConstantsOK DEF HandoffInit, World
  <2> QED  BY <2>2, <2>3 DEF HandoffInit, ClockOK
<1>2. run = NewRun /\ queue = << >> /\ BagToSet(calls) = {}
  BY BagFacts DEF HandoffInit
<1>3. RunShape(run)
  <2>1. Listed(<< >>)  BY DEF Listed
  <2>2. run.outcome = << >> /\ run.status = << >> /\ run.marks = {} /\ run.change = << >>
    BY <1>2 DEF NewRun
  <2>3. run = [outcome |-> run.outcome, status |-> run.status, routes |-> run.routes,
               marks |-> run.marks, change |-> run.change, plans |-> run.plans, first |-> run.first]
    BY <1>2 DEF NewRun
  <2> QED  BY <2>1, <2>2, <2>3 DEF RunShape
<1>4. FirstOK  BY <1>2 DEF FirstOK, NewRun
<1>5. ArcOK
  <2>1. ToSet(run.outcome) = {}  BY <1>2 DEF NewRun, ToSet
  <2> QED  BY <2>1, RoleNames DEF HandoffInit, ArcOK, HandoffRoles
<1>6. run.change = << >> /\ run.plans = {}  BY <1>2 DEF NewRun
<1> QED  BY <1>1, <1>2, <1>3, <1>4, <1>5, <1>6 DEF HandoffInv

\* The run entity as a record.
LEMMA RunRecord ==
  ASSUME HandoffInv
  PROVE  run = [outcome |-> run.outcome, status |-> run.status, routes |-> run.routes,
                marks |-> run.marks, change |-> run.change, plans |-> run.plans, first |-> run.first]
BY DEF HandoffInv, RunShape

\* The run with one more outcome.
LEMMA OutcomeStamp ==
  ASSUME HandoffInv, NEW v \in RunOutcomes
  PROVE  LET r == [run EXCEPT !.outcome = Recorded(@, v)]
         IN /\ RunShape(r) /\ Grows(run, r)
            /\ r.change = run.change /\ r.plans = run.plans /\ r.first = run.first
            /\ r.status = run.status /\ r.marks = run.marks
            /\ ToSet(r.outcome) = ToSet(run.outcome) \cup {v}
<1> DEFINE o == Recorded(run.outcome, v)
           r == [run EXCEPT !.outcome = o]
<1>1. o \in Seq(RunOutcomes) /\ ToSet(o) = ToSet(run.outcome) \cup {v}
  BY RecordedKeeps DEF HandoffInv, RunShape
<1> HIDE DEF o
<1>2. r = [outcome |-> o, status |-> run.status, routes |-> run.routes, marks |-> run.marks,
           change |-> run.change, plans |-> run.plans, first |-> run.first]
  BY RunRecord
<1> HIDE DEF r
<1>3. /\ r.outcome = o /\ r.status = run.status /\ r.routes = run.routes /\ r.marks = run.marks
      /\ r.change = run.change /\ r.plans = run.plans /\ r.first = run.first
  BY <1>2
<1>4. RunShape(r)
  <2>1. r = [outcome |-> r.outcome, status |-> r.status, routes |-> r.routes, marks |-> r.marks,
             change |-> r.change, plans |-> r.plans, first |-> r.first]
    BY <1>2, <1>3
  <2> QED  BY <1>1, <1>3, <2>1 DEF HandoffInv, RunShape, Released
<1>5. Grows(run, r)  BY <1>1, <1>3 DEF Grows
<1> QED  BY <1>1, <1>3, <1>4, <1>5 DEF o, r

\* The run with more marks.
LEMMA MarkStamp ==
  ASSUME HandoffInv, NEW m, m = "implementation_ready" => Released(run)
  PROVE  LET r == [run EXCEPT !.marks = @ \cup {m}]
         IN /\ RunShape(r) /\ Grows(run, r)
            /\ r.change = run.change /\ r.plans = run.plans /\ r.first = run.first
            /\ r.status = run.status /\ r.outcome = run.outcome
            /\ r.marks = run.marks \cup {m}
<1> DEFINE M == run.marks \cup {m}
           r == [run EXCEPT !.marks = M]
<1> HIDE DEF M
<1>2. r = [outcome |-> run.outcome, status |-> run.status, routes |-> run.routes, marks |-> M,
           change |-> run.change, plans |-> run.plans, first |-> run.first]
  BY RunRecord
<1> USE DEF M
<1> HIDE DEF r
<1>3. /\ r.outcome = run.outcome /\ r.status = run.status /\ r.routes = run.routes
      /\ r.marks = run.marks \cup {m}
      /\ r.change = run.change /\ r.plans = run.plans /\ r.first = run.first
  BY <1>2
<1>4. RunShape(r)
  <2>1. r = [outcome |-> r.outcome, status |-> r.status, routes |-> r.routes, marks |-> r.marks,
             change |-> r.change, plans |-> r.plans, first |-> r.first]
    BY <1>2, <1>3
  <2> QED  BY <1>3, <2>1 DEF HandoffInv, RunShape, Released
<1>5. Grows(run, r)  BY <1>3 DEF Grows
<1> QED  BY <1>3, <1>4, <1>5 DEF r

\* A stamp of a rule on the run leaves the analysis alone.
LEMMA FirstStays ==
  ASSUME HandoffInv, facts' = facts, run'.first = run.first, run'.status = run.status
  PROVE  FirstOK'
BY DEF HandoffInv, FirstOK, FactsOf

\* The outcome of a rule: the success is the reviewer's.
LEMMA RunOutcomeStep ==
  ASSUME HandoffInv, NEW v \in RunOutcomes, v = "success" => arc.reviewer = "approved",
         StampRun([run EXCEPT !.outcome = Recorded(@, v)]), enacted \subseteq enacted'
  PROVE  HandoffInv'
<1> DEFINE r == [run EXCEPT !.outcome = Recorded(@, v)]
<1>1. /\ RunShape(r) /\ Grows(run, r)
      /\ r.change = run.change /\ r.plans = run.plans /\ r.first = run.first
      /\ r.status = run.status /\ r.marks = run.marks
      /\ ToSet(r.outcome) = ToSet(run.outcome) \cup {v}
  BY OutcomeStamp
<1>2. Revise(r, queue) /\ UNCHANGED <<world, facts, stage, now, arc, calls, begun>>
  BY DEF StampRun
<1> HIDE DEF r
<1>3. run' = r  BY <1>2 DEF Revise
<1>4. ClockOK'  BY <1>2 DEF HandoffInv, ClockOK, World
<1>5. FirstOK'  BY <1>1, <1>2, <1>3, FirstStays
<1>6. ArcOK'
  BY <1>1, <1>2, <1>3 DEF HandoffInv, ArcOK, Requestable
<1>7. queue \in Seq(Entries(run)) /\ \A p \in r.plans : PlanOK(p)
  BY <1>1 DEF HandoffInv
<1> QED  BY <1>1, <1>2, <1>4, <1>5, <1>6, <1>7, StampKeeps

\* dev-from-task 01a and 01b: the request.
LEMMA RequestStep ==
  ASSUME HandoffInv, StampRun([run EXCEPT !.marks = @ \cup {"requested"}]), enacted \subseteq enacted'
  PROVE  HandoffInv'
<1> DEFINE r == [run EXCEPT !.marks = @ \cup {"requested"}]
<1>1. /\ RunShape(r) /\ Grows(run, r)
      /\ r.change = run.change /\ r.plans = run.plans /\ r.first = run.first
      /\ r.status = run.status /\ r.outcome = run.outcome
      /\ r.marks = run.marks \cup {"requested"}
  BY MarkStamp
<1>2. Revise(r, queue) /\ UNCHANGED <<world, facts, stage, now, arc, calls, begun>>
  BY DEF StampRun
<1> HIDE DEF r
<1>3. run' = r  BY <1>2 DEF Revise
<1>4. ClockOK'  BY <1>2 DEF HandoffInv, ClockOK, World
<1>5. FirstOK'  BY <1>1, <1>2, <1>3, FirstStays
<1>6. ArcOK'
  BY <1>1, <1>2, <1>3 DEF HandoffInv, ArcOK, Requestable
<1>7. queue \in Seq(Entries(run)) /\ \A p \in r.plans : PlanOK(p)
  BY <1>1 DEF HandoffInv
<1> QED  BY <1>1, <1>2, <1>4, <1>5, <1>6, <1>7, StampKeeps

\* RuleAction: a triple on the run, or the walker's loop.
LEMMA RuleActionStep ==
  ASSUME HandoffInv, RuleAction
  PROVE  HandoffInv'
<1> DEFINE head == Head(queue)
           actions == OnEnter(head.rule)
           mark == actions[head.step]
           rest == IF head.step = Len(actions) THEN Tail(queue)
                   ELSE <<[head EXCEPT !.step = @ + 1]>> \o Tail(queue)
           r == [run EXCEPT !.marks = @ \cup {mark}]
<1>1. /\ queue # << >> /\ Revise(r, rest)
      /\ arc' = IF mark = "walker" THEN [arc EXCEPT !.walker = "running"] ELSE arc
      /\ UNCHANGED <<world, facts, stage, now, enacted, calls, begun>>
  BY DEF RuleAction
<1>2. head \in Entries(run) /\ Tail(queue) \in Seq(Entries(run))
  BY <1>1 DEF HandoffInv
<1>3. /\ head.rule \in RunRules /\ head.step \in 1..3 /\ head.step <= Len(actions)
      /\ head.rule = "proof-readiness/01" => Released(run)
      /\ head.rule = "dev-from-task/02" => Requestable(run)
      /\ head = [rule |-> head.rule, step |-> head.step]
  BY <1>2 DEF Entries
<1> HIDE DEF head
<1>4. /\ mark = "implementation_ready" => head.rule = "proof-readiness/01"
      /\ mark = "walker" => head.rule = "dev-from-task/02"
      /\ Len(actions) \in 1..3
  BY <1>3 DEF OnEnter, RunRules
<1>5. rest \in Seq(Entries(run))
  <2>1. CASE head.step = Len(actions)  BY <1>2, <2>1
  <2>2. CASE head.step # Len(actions)
    <3> DEFINE e == [head EXCEPT !.step = @ + 1]
    <3>1. e = [rule |-> head.rule, step |-> head.step + 1]  BY <1>3
    <3> HIDE DEF e, actions
    <3>a. e.rule = head.rule /\ e.step = head.step + 1  BY <3>1
    <3>b. e \in [rule : RunRules, step : 1..3] /\ e.step <= Len(actions)
      <4>0. \A n, k \in 1..3 : n <= k /\ n # k => n + 1 \in 1..3 /\ n + 1 <= k
        OBVIOUS
      <4>1. head.step + 1 \in 1..3 /\ head.step + 1 <= Len(actions)
        BY <1>3, <1>4, <2>2, <4>0, Zenon
      <4> QED  BY <1>3, <3>1, <3>a, <4>1
    <3>2. e \in Entries(run)  BY <1>3, <3>a, <3>b DEF Entries, actions
    <3>3. <<e>> \in Seq(Entries(run))  BY <3>2
    <3>4. rest = <<e>> \o Tail(queue)  BY <2>2 DEF e
    <3> QED  BY <1>2, <3>3, <3>4
  <2> QED  BY <2>1, <2>2
<1> HIDE DEF rest, mark
<1>6. /\ RunShape(r) /\ Grows(run, r)
      /\ r.change = run.change /\ r.plans = run.plans /\ r.first = run.first
      /\ r.status = run.status /\ r.outcome = run.outcome
      /\ r.marks = run.marks \cup {mark}
  BY <1>3, <1>4, MarkStamp
<1> HIDE DEF r
<1>7. run' = r  BY <1>1 DEF Revise
<1>8. ClockOK'  BY <1>1 DEF HandoffInv, ClockOK, World
<1>9. FirstOK'  BY <1>1, <1>6, <1>7, FirstStays
<1>10. ArcOK'
  <2>1. CASE mark = "walker"
    <3>1. arc' = [arc EXCEPT !.walker = "running"] /\ Requestable(run)
      BY <1>1, <1>3, <1>4, <2>1
    <3>2. Requestable(run')  BY <1>6, <1>7, <3>1 DEF Requestable
    <3> QED  BY <1>1, <1>6, <1>7, <3>1, <3>2, RoleNames DEF HandoffInv, ArcOK, HandoffRoles
  <2>2. CASE mark # "walker"
    BY <1>1, <1>6, <1>7, <2>2 DEF HandoffInv, ArcOK, Requestable
  <2> QED  BY <2>1, <2>2
<1>11. \A p \in r.plans : PlanOK(p)  BY <1>6 DEF HandoffInv
<1> QED  BY <1>1, <1>5, <1>6, <1>8, <1>9, <1>10, <1>11, StampKeeps

\* The loops that rules 02 to 05 of create-change spawn.
LEMMA SpawnStep ==
  ASSUME HandoffInv, NEW role \in {"reviewer", "wakeup", "recovery"}, SpawnLoop(role),
         enacted \subseteq enacted',
         role = "reviewer" => /\ <<"create-change/02", "author">> \notin enacted
                              /\ <<"create-change/02", "author">> \in enacted'
  PROVE  HandoffInv'
<1>1. /\ arc' = [arc EXCEPT ![role] = "running"]
      /\ UNCHANGED <<world, facts, stage, now, run, queue, calls, begun>>
  BY DEF SpawnLoop
<1>2. ClockOK'  BY <1>1 DEF HandoffInv, ClockOK, World
<1>3. ArcOK'
  <2>1. DOMAIN arc = HandoffRoles  BY RoleNames DEF HandoffInv, ArcOK
  <2>2. role = "reviewer" => "success" \notin ToSet(run.outcome)
    BY DEF HandoffInv, ArcOK
  <2>0. role \in HandoffRoles  BY DEF HandoffRoles
  <2>3. arc'[role] = "running" /\ \A x \in HandoffRoles : x # role => arc'[x] = arc[x]
    BY <1>1, <2>0, <2>1
  <2>4. DOMAIN arc' = HandoffRoles  BY <1>1, <2>1
  <2>5. \A x \in HandoffRoles : arc'[x] \in Decisions[x] \cup {"none", "running", "failed"}
    <3>1. \A x \in HandoffRoles : arc[x] \in Decisions[x] \cup {"none", "running", "failed"}
      BY <2>1 DEF HandoffInv, ArcOK
    <3> QED  BY <2>3, <3>1
  <2>6. arc'.walker = arc.walker  BY <2>3 DEF HandoffRoles
  <2>7. arc'.reviewer # "none" => <<"create-change/02", "author">> \in enacted'
    BY <2>3 DEF HandoffRoles, HandoffInv, ArcOK
  <2>8. "success" \in ToSet(run.outcome) => arc'.reviewer = "approved"
    BY <2>2, <2>3 DEF HandoffRoles, HandoffInv, ArcOK
  <2> QED  BY <1>1, <2>4, <2>5, <2>6, <2>7, <2>8, RoleNames DEF HandoffInv, ArcOK
<1> QED  BY <1>1, <1>2, <1>3, QuietKeeps

\* The rules that fire on a loop.
LEMMA LoopRuleStep ==
  ASSUME HandoffInv, LoopRule
  PROVE  HandoffInv'
<1>1. CASE AuthorToReviewer
  BY <1>1, SpawnStep DEF AuthorToReviewer, Enact
<1>2. CASE ReviewerApproved
  BY <1>2, RunOutcomeStep DEF ReviewerApproved, Enact, RunOutcomes
<1>3. CASE WakeUpSpawned
  BY <1>3, SpawnStep DEF WakeUpSpawned, Enact
<1>4. CASE RejectedToRecovery
  BY <1>4, SpawnStep DEF RejectedToRecovery, Enact
<1>5. CASE \E role \in DOMAIN Decisions : ClarificationToRecovery(role)
  BY <1>5, SpawnStep DEF ClarificationToRecovery, Enact
<1>6. ASSUME NEW role \in DOMAIN Decisions, LoopFailedPause(role) PROVE HandoffInv'
  <2>1. UNCHANGED <<world, facts, stage, now, arc, run, queue, calls, begun>>
        /\ enacted \subseteq enacted'
    BY <1>6 DEF LoopFailedPause, Enact
  <2>2. ClockOK'  BY <2>1 DEF HandoffInv, ClockOK, World
  <2>3. ArcOK'  BY <2>1 DEF HandoffInv, ArcOK
  <2> QED  BY <2>1, <2>2, <2>3, QuietKeeps
<1>7. CASE \E role \in DOMAIN Decisions : LoopFailedOutcome(role)
  BY <1>7, RunOutcomeStep DEF LoopFailedOutcome, Enact, RunOutcomes
<1>8. CASE RequestRunAnchor
  BY <1>8, RequestStep DEF RequestRunAnchor, Enact
<1>9. CASE RequestLineage
  BY <1>9, RequestStep DEF RequestLineage, Enact
<1> QED  BY <1>1, <1>2, <1>3, <1>4, <1>5, <1>6, <1>7, <1>8, <1>9 DEF LoopRule

\* A loop decides and completes, or fails.
LEMMA LoopEndsStep ==
  ASSUME HandoffInv, NEW role \in DOMAIN Decisions, NEW how \in Decisions[role] \cup {"failed"},
         LoopEnds(role, how)
  PROVE  HandoffInv'
<1>1. /\ arc[role] = "running" /\ arc' = [arc EXCEPT ![role] = how]
      /\ UNCHANGED <<world, facts, stage, now, enacted, run, queue, calls, begun>>
  BY DEF LoopEnds
<1>2. ClockOK'  BY <1>1 DEF HandoffInv, ClockOK, World
<1>3. ArcOK'
  <2>1. DOMAIN arc = HandoffRoles  BY RoleNames DEF HandoffInv, ArcOK
  <2>2. role = "reviewer" => "success" \notin ToSet(run.outcome)
    BY <1>1 DEF HandoffInv, ArcOK
  <2>3. arc'[role] = how /\ \A x \in HandoffRoles : x # role => arc'[x] = arc[x]
    BY <1>1, <2>1, RoleNames
  <2>4. DOMAIN arc' = HandoffRoles  BY <1>1, <2>1
  <2>5. \A x \in HandoffRoles : arc'[x] \in Decisions[x] \cup {"none", "running", "failed"}
    BY <2>1, <2>3 DEF HandoffInv, ArcOK
  <2>6. arc'.walker # "none" => arc.walker # "none"  BY <1>1, <2>3 DEF HandoffRoles
  <2>7. arc'.reviewer # "none" => arc.reviewer # "none"  BY <1>1, <2>3 DEF HandoffRoles
  <2>8. "success" \in ToSet(run.outcome) => arc'.reviewer = "approved"
    BY <2>2, <2>3 DEF HandoffRoles, HandoffInv, ArcOK
  <2> QED  BY <1>1, <2>4, <2>5, <2>6, <2>7, <2>8, RoleNames DEF HandoffInv, ArcOK
<1> QED  BY <1>1, <1>2, <1>3, QuietKeeps

\* A message to a coordinator, new facts, and time.
LEMMA WorldStep ==
  ASSUME HandoffInv, AskerSpawned \/ FactsChange \/ Tick
  PROVE  HandoffInv'
<1>1. CASE AskerSpawned
  <2>1. /\ arc' = [arc EXCEPT !.asker = "running"]
        /\ UNCHANGED <<world, facts, stage, now, enacted, run, queue, calls, begun>>
    BY <1>1 DEF AskerSpawned
  <2>2. ClockOK'  BY <2>1 DEF HandoffInv, ClockOK, World
  <2>3. ArcOK'
    <3>1. DOMAIN arc = HandoffRoles  BY RoleNames DEF HandoffInv, ArcOK
    <3>2. arc'["asker"] = "running" /\ \A x \in HandoffRoles : x # "asker" => arc'[x] = arc[x]
      BY <2>1, <3>1
    <3>3. DOMAIN arc' = HandoffRoles  BY <2>1, <3>1
    <3>4. \A x \in HandoffRoles : arc'[x] \in Decisions[x] \cup {"none", "running", "failed"}
      BY <3>1, <3>2 DEF HandoffInv, ArcOK
    <3>5. arc'.walker = arc.walker /\ arc'.reviewer = arc.reviewer  BY <3>2 DEF HandoffRoles
    <3> QED  BY <2>1, <3>3, <3>4, <3>5, RoleNames DEF HandoffInv, ArcOK
  <2> QED  BY <2>1, <2>2, <2>3, QuietKeeps
<1>2. CASE FactsChange
  <2>1. /\ stage < Len(facts) /\ stage' = stage + 1
        /\ UNCHANGED <<world, facts, now, arc, enacted, run, queue, calls, begun>>
    BY <1>2 DEF FactsChange
  <2>2. ClockOK'
    <3>1. Listed(facts)  BY HandoffConstantsOK DEF HandoffInv, ClockOK, World
    <3>2. stage + 1 \in DOMAIN facts  BY <2>1, <3>1 DEF Listed, HandoffInv, ClockOK
    <3> QED  BY <2>1, <3>2 DEF HandoffInv, ClockOK, World
  <2>3. ArcOK'  BY <2>1 DEF HandoffInv, ArcOK
  <2> QED  BY <2>1, <2>2, <2>3, QuietKeeps
<1>3. CASE Tick
  <2>1. /\ now < World.until /\ now' = now + 1
        /\ UNCHANGED <<world, facts, stage, arc, enacted, run, queue, calls, begun>>
    BY <1>3 DEF Tick
  <2>2. ClockOK'
    <3>1. World.until \in Nat  BY HandoffConstantsOK DEF HandoffInv, ClockOK, World
    <3>2. World' = World  BY <2>1 DEF World
    <3>3. now + 1 \in 1..World.until  BY <2>1, <3>1 DEF HandoffInv, ClockOK
    <3> QED  BY <2>1, <3>2, <3>3 DEF HandoffInv, ClockOK
  <2>3. ArcOK'  BY <2>1 DEF HandoffInv, ArcOK
  <2> QED  BY <2>1, <2>2, <2>3, QuietKeeps
<1> QED  BY <1>1, <1>2, <1>3

(***************************************************************************)
(* Calls.                                                                  *)
(***************************************************************************)

\* A sound call begins.
LEMMA BeginStep ==
  ASSUME HandoffInv, NEW call, CallOK(call), Begin(call)
  PROVE  HandoffInv'
<1>1. /\ begun < World.calls /\ begun' = begun + 1
      /\ calls' = calls (+) SetToBag({call})
      /\ UNCHANGED <<world, facts, stage, now, arc, enacted, run, queue>>
  BY DEF Begin
<1>2. BagToSet(calls') = BagToSet(calls) \cup {call}
  <2> HIDE DEF Begin
  <2>1. BagToSet(calls (+) SetToBag({call})) = BagToSet(calls) \cup {call}  BY BagFacts
  <2> QED  BY <1>1, <2>1
<1>3. ClockOK'
  <2>1. World.calls \in Nat  BY HandoffConstantsOK DEF HandoffInv, ClockOK, World
  <2>2. World' = World  BY <1>1 DEF World
  <2>3. begun + 1 \in 0..World.calls  BY <1>1, <2>1 DEF HandoffInv, ClockOK
  <2> QED  BY <1>1, <2>2, <2>3 DEF HandoffInv, ClockOK
<1>4. ArcOK'  BY <1>1 DEF HandoffInv, ArcOK
<1> QED  BY <1>1, <1>2, <1>3, <1>4, QuietKeeps

\* An analysis, with or without a request, reads facts the run has now.
LEMMA AnalyzeBegins ==
  ASSUME HandoffInv,
         CallAnalyze \/ \E m \in World.commands : CallCommand(m)
  PROVE  HandoffInv'
<1>1. \A op \in {"analyze", "command"} : CallOK([op |-> op, stage |-> stage, since |-> now])
  BY DEF CallOK, HandoffInv, ClockOK
<1> QED  BY <1>1, BeginStep DEF CallAnalyze, CallCommand

\* In a delta whose requirements reduce to different keys, each is stored under
\* its own, without a suffix.
LEMMA MintIsRid ==
  ASSUME NEW d, NEW i \in DOMAIN Names(d), Listed(Names(d)),
         \A j, k \in DOMAIN Names(d) : Rid(Names(d)[j]) = Rid(Names(d)[k]) => j = k
  PROVE  mint(d, i) = Rid(Names(d)[i])
<1>1. DOMAIN Names(d) = 1..Len(Names(d)) /\ Len(Names(d)) \in Nat  BY DEF Listed
<1>2. {j \in 1..i : Rid(Names(d)[j]) = Rid(Names(d)[i])} = {i}
  <2>1. i \in Nat /\ i \in 1..i /\ \A j \in 1..i : j \in DOMAIN Names(d)  BY <1>1
  <2> QED  BY <2>1
<1>3. Cardinality({i}) = 1  BY FS_Singleton
<1> QED  BY <1>2, <1>3 DEF mint

\* Joined lists are lists, and hold the items of each.
LEMMA NamesListed ==
  ASSUME NEW d, Listed(d.added), Listed(d.modified), Listed(d.removed)
  PROVE  /\ Listed(Names(d))
         /\ Listed(d.added \o d.modified)
         /\ ToSet(d.added \o d.modified) \subseteq ToSet(Names(d))
<1> DEFINE S == Range(d.added) \cup Range(d.modified) \cup Range(d.removed)
           m == d.added \o d.modified
<1>1. d.added \in Seq(S) /\ d.modified \in Seq(S) /\ d.removed \in Seq(S)
  BY DEF Listed
<1>2. m \in Seq(S) /\ m \o d.removed \in Seq(S)
  <2> HIDE DEF S
  <2> QED  BY <1>1
<1>3. ASSUME NEW s \in Seq(S) PROVE Listed(s)
  <2> HIDE DEF S
  <2>1. s = [i \in 1..Len(s) |-> s[i]] /\ Len(s) \in Nat /\ DOMAIN s = 1..Len(s)  OBVIOUS
  <2>2. \A i \in 1..Len(s) : s[i] \in Range(s)  BY <2>1 DEF Range
  <2> QED  BY <2>1, <2>2 DEF Listed
<1>4. Names(d) = m \o d.removed  BY DEF Names
<1> HIDE DEF S, m
<1>5. /\ Len(m \o d.removed) = Len(m) + Len(d.removed)
      /\ \A i \in 1..Len(m) + Len(d.removed) :
           (m \o d.removed)[i] = IF i <= Len(m) THEN m[i] ELSE d.removed[i - Len(m)]
  BY <1>1, <1>2, ConcatProperties
<1>6. ToSet(m) \subseteq ToSet(m \o d.removed)
  <2> SUFFICES ASSUME NEW i \in DOMAIN m PROVE m[i] \in ToSet(m \o d.removed)
    BY DEF ToSet
  <2>1. /\ DOMAIN m = 1..Len(m) /\ DOMAIN (m \o d.removed) = 1..(Len(m) + Len(d.removed))
        /\ Len(m) \in Nat /\ Len(d.removed) \in Nat
    BY <1>1, <1>2, <1>5
  <2>2. i \in DOMAIN (m \o d.removed) /\ i \in 1..Len(m) + Len(d.removed) /\ i <= Len(m)
    BY <2>1
  <2>3. (m \o d.removed)[i] = m[i]  BY <1>5, <2>2
  <2> QED  BY <2>2, <2>3 DEF ToSet
<1> QED  BY <1>2, <1>3, <1>4, <1>6 DEF m

\* A draft that emit_change accepts is stored with references that lead to the
\* requirements its author named.
LEMMA EmitOK ==
  ASSUME NEW p, DraftOK(p), parseChange(p)
  PROVE  ChangeOK(Normalized(p))
<1> DEFINE e == Normalized(p)
<1>1. /\ e.deltas = p.deltas /\ DOMAIN e.tasks = DOMAIN p.tasks
      /\ \A t \in DOMAIN p.tasks :
           /\ e.tasks[t].ref = p.tasks[t].ref
           /\ p.tasks[t].ref # << >> => e.tasks[t].key = <<p.tasks[t].ref[1], Rid(p.tasks[t].ref[2])>>
  BY DEF Normalized
<1>2. Listed(e.tasks)
  <2>1. Len(p.tasks) \in Nat /\ DOMAIN p.tasks = 1..Len(p.tasks)  BY DEF DraftOK, Listed
  <2> DEFINE Stored(i) ==
        [id |-> p.tasks[i].id, expects |-> p.tasks[i].expects, ref |-> p.tasks[i].ref,
         key |-> IF p.tasks[i].ref = << >> THEN << >>
                 ELSE <<p.tasks[i].ref[1], Rid(p.tasks[i].ref[2])>>]
  <2>2. e.tasks = [i \in 1..Len(p.tasks) |-> Stored(i)]
    BY <2>1 DEF Normalized
  <2>3. \A i \in 1..Len(p.tasks) : e.tasks[i] \in Range(e.tasks)  BY <1>1, <2>1 DEF Range
  <2> HIDE DEF e, Stored
  <2>4. e.tasks = [i \in 1..Len(p.tasks) |-> e.tasks[i]]  BY <2>2
  <2> QED  BY <2>1, <2>3, <2>4 DEF Listed
<1>3. ASSUME NEW t \in DOMAIN e.tasks, e.tasks[t].ref # << >>
      PROVE  RefTrue(e, e.tasks[t])
  <2> DEFINE ref == p.tasks[t].ref
             d == DeltaOf(p, ref[1])
             N == DOMAIN Names(d)
  <2>1. t \in DOMAIN p.tasks /\ ref # << >>  BY <1>1, <1>3
  <2>2. Resolves(p, ref)  BY <2>1 DEF parseChange, validateRefs
  <2>3. d \in Range(p.deltas)
    <3>1. \E x \in Range(p.deltas) : x.cap = ref[1]  BY <2>2 DEF Resolves
    <3> QED  BY <3>1 DEF DeltaOf
  <2>4. Rid(ref[2]) \in {Rid(n) : n \in ToSet(d.added \o d.modified)}
    BY <2>2 DEF Resolves
  <2>5. DeltaOf(e, e.tasks[t].ref[1]) = d /\ e.tasks[t].key[2] = Rid(ref[2]) /\ e.tasks[t].ref = ref
    BY <1>1, <2>1 DEF DeltaOf
  <2> HIDE DEF d, e
  <2>6. Listed(Names(d)) /\ ToSet(d.added \o d.modified) \subseteq ToSet(Names(d))
    BY <2>3, NamesListed DEF DraftOK
  <2>7. \A j, k \in N : Rid(Names(d)[j]) = Rid(Names(d)[k]) => j = k
    BY <2>3 DEF parseChange, validateRefs
  <2>8. \A i \in N : mint(d, i) = Rid(Names(d)[i])
    BY <2>6, <2>7, MintIsRid
  <2>9. PICK i \in N : Rid(Names(d)[i]) = Rid(ref[2])
    BY <2>4, <2>6 DEF ToSet
  <2> DEFINE found == {x \in N : mint(d, x) = Rid(ref[2])}
             named == {x \in N : Names(d)[x] = ref[2]}
  <2>10. found = {i}  BY <2>7, <2>8, <2>9
  <2>11. named \subseteq found  BY <2>8
  <2>12. Cardinality(found) = 1  BY <2>10, FS_Singleton
  <2>13. named # {} => found = named  BY <2>10, <2>11
  <2> QED  BY <2>5, <2>12, <2>13 DEF RefTrue
<1> HIDE DEF e
<1> QED  BY <1>2, <1>3 DEF ChangeOK, e

\* emit_change begins with a draft it has accepted.
LEMMA EmitBegins ==
  ASSUME HandoffInv, NEW p \in World.drafts, CallEmitChange(p)
  PROVE  HandoffInv'
<1> DEFINE call == [op |-> "emit", draft |-> Normalized(p)]
<1>1. DraftOK(p)  BY HandoffConstantsOK DEF HandoffInv, ClockOK, World
<1>2. ChangeOK(Normalized(p))  BY <1>1, EmitOK DEF CallEmitChange
<1>3. CallOK(call)  BY <1>2 DEF CallOK
<1>4. Begin(call)  BY DEF CallEmitChange
<1> QED  BY <1>3, <1>4, BeginStep

\* The emissions of a slug are finitely many positions.
LEMMA EmissionsFinite ==
  ASSUME NEW slug, Listed(run.change)
  PROVE  /\ Emissions(slug) \subseteq Nat
         /\ \A S : S \subseteq Emissions(slug) => S \subseteq Nat /\ IsFiniteSet(S)
<1>1. Len(run.change) \in Nat /\ DOMAIN run.change = 1..Len(run.change)  BY DEF Listed
<1>2. IsFiniteSet(1..Len(run.change))  BY <1>1, FS_Interval
<1>3. Emissions(slug) \subseteq 1..Len(run.change)  BY <1>1 DEF Emissions
<1>4. 1..Len(run.change) \subseteq Nat  BY <1>1
<1>5. ASSUME NEW S, S \subseteq Emissions(slug) PROVE S \subseteq Nat /\ IsFiniteSet(S)
  <2>1. S \subseteq 1..Len(run.change)  BY <1>3, <1>5
  <2>2. IsFiniteSet(S)  BY <1>2, <2>1, FS_Subset
  <2> QED  BY <1>4, <2>1, <2>2
<1> QED  BY <1>3, <1>4, <1>5

\* What project_spec_tasks reads back is made of what was emitted, and is the
\* whole of a change that was emitted once.
LEMMA ProjectedOK ==
  ASSUME HandoffInv, NEW slug \in ChangeSlugs, "success" \in ToSet(run.outcome)
  PROVE  PlanOK(Projected(slug))
<1> DEFINE tasks(i) == run.change[i].tasks
           E == Emissions(slug)
           having(t) == {i \in E : t <= Len(tasks(i))}
           expecting(t) == {i \in having(t) : tasks(i)[t].expects # NoText}
           lens == {Len(tasks(i)) : i \in E}
           size == Max(lens)
           plan == Projected(slug)
           id(t) == tasks(Max(having(t)))[t].id
           expects(t) == IF expecting(t) = {} THEN NoText
                         ELSE tasks(Max(expecting(t)))[t].expects
<1>1. plan.slug = slug /\ plan.tasks = [t \in 1..size |-> [id |-> id(t), expects |-> expects(t)]]
  BY DEF Projected
<1>2. E # {}  BY DEF ChangeSlugs, Emissions
<1>3. \A i \in E : Len(tasks(i)) \in Nat /\ DOMAIN tasks(i) = 1..Len(tasks(i))
  BY DEF Emissions, HandoffInv, ChangeOK, Listed
<1>4. \A S : S \subseteq E => S \subseteq Nat /\ IsFiniteSet(S)
  BY EmissionsFinite DEF HandoffInv, RunShape
<1> HIDE DEF E, plan
<1>5. size \in lens /\ \A n \in lens : n <= size
  <2>1. lens \subseteq Nat /\ lens # {}  BY <1>2, <1>3
  <2>2. IsFiniteSet(lens)
    <3>1. IsFiniteSet(E)  BY <1>4
    <3> DEFINE len == [i \in E |-> Len(tasks(i))]
    <3>2. len \in Surjection(E, lens)  BY DEF Surjection
    <3> HIDE DEF len, lens
    <3> QED  BY <3>1, <3>2, FS_Surjection
  <2> HIDE DEF lens
  <2> QED  BY <2>1, <2>2, MaxIn
<1>6. PICK top \in E : size = Len(tasks(top))  BY <1>5
<1> HIDE DEF size, lens
<1>7. ASSUME NEW t \in 1..size
      PROVE  /\ Max(having(t)) \in having(t)
             /\ expecting(t) # {} => Max(expecting(t)) \in expecting(t)
             /\ \A i \in having(t) : i \in E /\ t \in DOMAIN tasks(i)
  <2>0. size \in Nat /\ t \in Nat /\ 1 <= t  BY <1>3, <1>6
  <2>1. top \in having(t)  BY <1>6, <2>0
  <2>2. having(t) \subseteq E /\ expecting(t) \subseteq E  OBVIOUS
  <2>3. \A i \in having(t) : i \in E /\ t \in DOMAIN tasks(i)
    BY <1>3, <2>0
  <2> HIDE DEF having, expecting
  <2>4. /\ having(t) \subseteq Nat /\ IsFiniteSet(having(t))
        /\ expecting(t) \subseteq Nat /\ IsFiniteSet(expecting(t))
    BY <1>4, <2>2
  <2>5. Max(having(t)) \in having(t)  BY <2>1, <2>4, MaxIn
  <2>6. expecting(t) # {} => Max(expecting(t)) \in expecting(t)  BY <2>4, MaxIn
  <2> QED  BY <2>3, <2>5, <2>6
<1>8. ASSUME NEW t \in 1..size
      PROVE  /\ \E i \in E : t \in DOMAIN tasks(i) /\ id(t) = tasks(i)[t].id
             /\ \E i \in E : t \in DOMAIN tasks(i) /\ expects(t) = tasks(i)[t].expects
  <2>1. /\ Max(having(t)) \in having(t)
        /\ expecting(t) # {} => Max(expecting(t)) \in expecting(t)
        /\ \A i \in having(t) : i \in E /\ t \in DOMAIN tasks(i)
    BY <1>7
  <2>2. expecting(t) = {} => \A i \in having(t) : tasks(i)[t].expects = NoText
    OBVIOUS
  <2>3. expecting(t) \subseteq having(t)  OBVIOUS
  <2> HIDE DEF having, expecting
  <2>4. \E i \in E : t \in DOMAIN tasks(i) /\ id(t) = tasks(i)[t].id
    BY <2>1
  <2>5. \E i \in E : t \in DOMAIN tasks(i) /\ expects(t) = tasks(i)[t].expects
    <3>1. CASE expecting(t) = {}  BY <2>1, <2>2, <3>1
    <3>2. CASE expecting(t) # {}  BY <2>1, <2>3, <3>2
    <3> QED  BY <3>1, <3>2
  <2> QED  BY <2>4, <2>5
<1>9. ASSUME NEW i \in E, E = {i}
      PROVE  /\ DOMAIN tasks(i) = 1..size
             /\ \A t \in 1..size : id(t) = tasks(i)[t].id /\ expects(t) = tasks(i)[t].expects
  <2>1. top = i  BY <1>9
  <2>2. DOMAIN tasks(i) = 1..size  BY <1>3, <1>6, <2>1
  <2>3. ASSUME NEW t \in 1..size
        PROVE  id(t) = tasks(i)[t].id /\ expects(t) = tasks(i)[t].expects
    <3>1. /\ Max(having(t)) \in having(t)
          /\ expecting(t) # {} => Max(expecting(t)) \in expecting(t)
      BY <1>7
    <3>2. having(t) \subseteq {i} /\ expecting(t) \subseteq {i}  BY <1>9
    <3>3. expecting(t) = {} => \A j \in having(t) : tasks(j)[t].expects = NoText
      OBVIOUS
    <3> HIDE DEF having, expecting
    <3>4. Max(having(t)) = i /\ i \in having(t)  BY <3>1, <3>2
    <3>5. expecting(t) # {} => Max(expecting(t)) = i  BY <3>1, <3>2
    <3> QED  BY <3>3, <3>4, <3>5
  <2> QED  BY <2>2, <2>3
<1> HIDE DEF id, expects
<1>10. /\ DOMAIN plan.tasks = 1..size
       /\ \A t \in 1..size : /\ plan.tasks[t] = [id |-> id(t), expects |-> expects(t)]
                             /\ plan.tasks[t].id = id(t) /\ plan.tasks[t].expects = expects(t)
  BY <1>1
<1> QED  BY <1>1, <1>2, <1>8, <1>9, <1>10 DEF PlanOK, E, plan

\* project_spec_tasks begins on a run whose last outcome is a success.
LEMMA ProjectBegins ==
  ASSUME HandoffInv, NEW want, CallProject(want)
  PROVE  HandoffInv'
<1>1. PICK p \in buildProjection(want) : Begin([op |-> "project", plan |-> p])
  BY DEF CallProject
<1>2. LastValue(run.outcome) = "success"  BY <1>1 DEF buildProjection
<1>3. PICK s \in resolveSlug(want) : p = Projected(s)  BY <1>1, <1>2 DEF buildProjection
<1>4. s \in ChangeSlugs  BY <1>3 DEF resolveSlug
<1>5. "success" \in ToSet(run.outcome)
  <2>1. run.outcome \in Seq(RunOutcomes) /\ run.outcome # << >>
    BY <1>2 DEF LastValue, HandoffInv, RunShape
  <2>2. run.outcome[Len(run.outcome)] = "success"  BY <1>2, <2>1 DEF LastValue, Last
  <2>3. Len(run.outcome) \in DOMAIN run.outcome  BY <2>1
  <2> QED  BY <2>2, <2>3 DEF ToSet
<1>6. PlanOK(p)  BY <1>3, <1>4, <1>5, ProjectedOK
<1>7. CallOK([op |-> "project", plan |-> p])  BY <1>6 DEF CallOK
<1> QED  BY <1>1, <1>7, BeginStep

\* A batch that arrives leaves all else alone.
LEMMA LandLeaves ==
  ASSUME HandoffInv, NEW call \in BagToSet(calls), NEW r, Land(call, r)
  PROVE  /\ Revise(r, queue) /\ run' = r
         /\ UNCHANGED <<world, facts, stage, now, arc, enacted, begun>>
         /\ ClockOK' /\ BagToSet(calls') \subseteq BagToSet(calls)
<1>1. /\ Revise(r, queue) /\ calls' = calls (-) SetToBag({call})
      /\ UNCHANGED <<world, facts, stage, now, arc, enacted, begun>>
  BY DEF Land
<1>2. BagToSet(calls (-) SetToBag({call})) \subseteq BagToSet(calls)  BY BagFacts
<1>3. run' = r  BY <1>1 DEF Revise
<1>4. ClockOK'  BY <1>1 DEF HandoffInv, ClockOK, World
<1> QED  BY <1>1, <1>2, <1>3, <1>4

\* The status of an analysis.
LEMMA StatusType ==
  ASSUME NEW f, NEW at
  PROVE  AnalyzeFacts(f, at).status \in Analyses
BY DEF AnalyzeFacts, Analyses

\* The triples of an analysis: its status is the first one that a rule reads
\* exactly when no other analysis was there.
LEMMA LandAnalysisStep ==
  ASSUME HandoffInv, NEW call \in BagToSet(calls), LandAnalysis(call)
  PROVE  HandoffInv'
<1>1. call.op \in {"analyze", "command"} /\ \E at \in call.since..now : Land(call, Analysed(call, at))
  BY DEF LandAnalysis
<1>2. PICK at \in call.since..now : Land(call, Analysed(call, at))
  BY <1>1
<1>3. call.stage \in DOMAIN facts /\ call.since \in Int  BY <1>1 DEF HandoffInv, CallOK
<1>4. at \in Int
  <2>1. now \in Int  BY DEF HandoffInv, ClockOK
  <2> QED  BY <1>3, <2>1
<1> DEFINE a == AnalyzeFacts(ParseProofFacts(facts[call.stage]), at)
           ready == a.status = "passed" /\ "implementation" \in routes(a)
           st == Recorded(run.status, a.status)
           ro == run.routes \cup routes(a)
           fi == IF run.first = << >> THEN <<[stage |-> call.stage, at |-> at]>> ELSE run.first
           ma == IF call.op = "command" /\ ready THEN run.marks \cup {"requested"} ELSE run.marks
           r == Analysed(call, at)
<1>5. a.status \in Analyses  BY StatusType
<1>6. r = [run EXCEPT !.status = st, !.routes = ro, !.first = fi, !.marks = ma]
  BY DEF Analysed
<1>7. /\ st \in Seq(Analyses) /\ st # << >>
      /\ run.status # << >> => st[1] = run.status[1]
      /\ run.status = << >> => st[1] = a.status
  <2>1. run.status \in Seq(Analyses)  BY DEF HandoffInv, RunShape
  <2>2. ASSUME NEW v \in Analyses
        PROVE  /\ Recorded(run.status, v) \in Seq(Analyses) /\ Recorded(run.status, v) # << >>
               /\ run.status # << >> => Recorded(run.status, v)[1] = run.status[1]
               /\ run.status = << >> => Recorded(run.status, v)[1] = v
    <3> DEFINE S == Analyses
               values == run.status
    <3>1. values \in Seq(S) /\ v \in S  BY <2>1
    <3> HIDE DEF S, values
    <3>2. /\ Recorded(values, v) \in Seq(S) /\ Recorded(values, v) # << >>
          /\ values # << >> => Recorded(values, v)[1] = values[1]
          /\ values = << >> => Recorded(values, v)[1] = v
      BY <3>1, RecordedKeeps
    <3> QED  BY <3>2 DEF S, values
  <2> HIDE DEF a
  <2> QED  BY <1>5, <2>2
<1>8. run.marks \subseteq ma /\ ("implementation_ready" \in ma => "implementation_ready" \in run.marks)
  <2> HIDE DEF ready
  <2> QED  OBVIOUS
<1>9. /\ run.first # << >> => fi = run.first
      /\ run.first = << >> => fi[1].stage = call.stage /\ fi[1].at = at
      /\ fi # << >>
  OBVIOUS
<1>10. a = AnalyzeFacts(FactsOf(call.stage), at)  BY DEF FactsOf
<1> HIDE DEF a, ready, st, ro, fi, ma, r
<1>11. r = [outcome |-> run.outcome, status |-> st, routes |-> ro, marks |-> ma,
            change |-> run.change, plans |-> run.plans, first |-> fi]
  BY <1>6, RunRecord
<1>12. /\ r.outcome = run.outcome /\ r.status = st /\ r.routes = ro /\ r.marks = ma
       /\ r.change = run.change /\ r.plans = run.plans /\ r.first = fi
  BY <1>11
<1>13. RunShape(r) /\ Grows(run, r)
  <2>1. r = [outcome |-> r.outcome, status |-> r.status, routes |-> r.routes, marks |-> r.marks,
             change |-> r.change, plans |-> r.plans, first |-> r.first]
    BY <1>11, <1>12
  <2>2. "implementation_ready" \in r.marks => Released(r)
    BY <1>7, <1>8, <1>12 DEF HandoffInv, RunShape, Released
  <2>3. RunShape(r)  BY <1>7, <1>12, <2>1, <2>2 DEF HandoffInv, RunShape
  <2>4. Grows(run, r)  BY <1>7, <1>8, <1>12 DEF Grows
  <2> QED  BY <2>3, <2>4
<1>14. /\ Revise(r, queue) /\ run' = r
       /\ UNCHANGED <<world, facts, stage, now, arc, enacted, begun>>
       /\ ClockOK' /\ BagToSet(calls') \subseteq BagToSet(calls)
  BY <1>2, LandLeaves DEF r
<1>15. FirstOK'
  <2>1. run'.first = fi /\ run'.status = st /\ facts' = facts  BY <1>12, <1>14
  <2>2. CASE run.first # << >>
    <3>1. run.status # << >>  BY <2>2 DEF HandoffInv, FirstOK
    <3>2. run'.first = run.first /\ st[1] = run.status[1]  BY <1>7, <1>9, <2>1, <2>2, <3>1
    <3> QED  BY <1>7, <2>1, <2>2, <3>1, <3>2 DEF HandoffInv, FirstOK, FactsOf
  <2>3. CASE run.first = << >>
    <3>1. run.status = << >>  BY <2>3 DEF HandoffInv, FirstOK
    <3>2. st[1] = a.status /\ fi[1].stage = call.stage /\ fi[1].at = at /\ fi # << >>
      BY <1>7, <1>9, <2>3, <3>1
    <3> QED  BY <1>3, <1>4, <1>7, <1>10, <2>1, <3>2 DEF FirstOK, FactsOf
  <2> QED  BY <2>2, <2>3
<1>16. ArcOK'
  BY <1>8, <1>12, <1>14 DEF HandoffInv, ArcOK, Requestable
<1>17. queue \in Seq(Entries(run)) /\ \A p \in r.plans : PlanOK(p)
  BY <1>12 DEF HandoffInv
<1> QED  BY <1>12, <1>13, <1>14, <1>15, <1>16, <1>17, StampKeeps

\* A change arrives: the plans that were made of earlier ones stay true.
LEMMA LandChangeStep ==
  ASSUME HandoffInv, NEW call \in BagToSet(calls), LandChange(call)
  PROVE  HandoffInv'
<1> DEFINE ch == Append(run.change, call.draft)
           r == [run EXCEPT !.change = ch]
<1>1. call.op = "emit" /\ Land(call, r)  BY DEF LandChange
<1>2. ChangeOK(call.draft)  BY <1>1 DEF HandoffInv, CallOK
<1>3. Listed(run.change)  BY DEF HandoffInv, RunShape
<1>4. /\ Listed(ch) /\ Len(run.change) \in Nat /\ DOMAIN run.change = 1..Len(run.change)
      /\ DOMAIN ch = 1..(Len(run.change) + 1) /\ ch[Len(run.change) + 1] = call.draft
      /\ \A i \in DOMAIN run.change : ch[i] = run.change[i]
  BY <1>3, ListedAppend
<1> HIDE DEF ch
<1>5. r = [outcome |-> run.outcome, status |-> run.status, routes |-> run.routes, marks |-> run.marks,
           change |-> ch, plans |-> run.plans, first |-> run.first]
  BY RunRecord
<1> HIDE DEF r
<1>6. /\ r.outcome = run.outcome /\ r.status = run.status /\ r.routes = run.routes
      /\ r.marks = run.marks /\ r.change = ch /\ r.plans = run.plans /\ r.first = run.first
  BY <1>5
<1>7. RunShape(r) /\ Grows(run, r)
  <2>1. r = [outcome |-> r.outcome, status |-> r.status, routes |-> r.routes, marks |-> r.marks,
             change |-> r.change, plans |-> r.plans, first |-> r.first]
    BY <1>5, <1>6
  <2>2. RunShape(r)  BY <1>4, <1>6, <2>1 DEF HandoffInv, RunShape, Released
  <2>3. Grows(run, r)  BY <1>6 DEF Grows
  <2> QED  BY <2>2, <2>3
<1>8. /\ Revise(r, queue) /\ run' = r
      /\ UNCHANGED <<world, facts, stage, now, arc, enacted, begun>>
      /\ ClockOK' /\ BagToSet(calls') \subseteq BagToSet(calls)
  BY <1>1, LandLeaves
<1>9. queue' \in Seq(Entries(r))
  <2>1. queue \in Seq(Entries(run))  BY DEF HandoffInv
  <2> QED  BY <1>7, <1>8, <2>1, ReviseKeeps
<1>10. FirstOK'  BY <1>6, <1>8, FirstStays
<1>11. ArcOK'  BY <1>6, <1>8 DEF HandoffInv, ArcOK, Requestable
<1>12. \A p : PlanOK(p) => PlanOK(p)'
  <2>1. run'.change = Append(run.change, call.draft) /\ run'.outcome = run.outcome
    BY <1>6, <1>8 DEF ch
  <2> QED  BY <1>3, <2>1, PlanGrows
<1>13. \A c \in BagToSet(calls') : CallOK(c)'
  BY <1>8, <1>12, CallStays DEF HandoffInv
<1>14. \A i \in DOMAIN r.change : ChangeOK(r.change[i])
  <2>1. \A i \in DOMAIN ch : i \in DOMAIN run.change \/ i = Len(run.change) + 1  BY <1>4
  <2> QED  BY <1>2, <1>4, <1>6, <2>1 DEF HandoffInv
<1>15. \A p \in r.plans : PlanOK(p)'  BY <1>6, <1>12 DEF HandoffInv
<1> QED  BY <1>7, <1>8, <1>9, <1>10, <1>11, <1>13, <1>14, <1>15 DEF HandoffInv

\* A plan arrives.
LEMMA LandPlanStep ==
  ASSUME HandoffInv, NEW call \in BagToSet(calls), LandPlan(call)
  PROVE  HandoffInv'
<1> DEFINE pl == run.plans \cup {call.plan}
           r == [run EXCEPT !.plans = pl]
<1>1. call.op = "project" /\ Land(call, r)  BY DEF LandPlan
<1>2. \A p \in pl : PlanOK(p)  BY <1>1 DEF HandoffInv, CallOK
<1> HIDE DEF pl
<1>3. r = [outcome |-> run.outcome, status |-> run.status, routes |-> run.routes, marks |-> run.marks,
           change |-> run.change, plans |-> pl, first |-> run.first]
  BY RunRecord
<1> HIDE DEF r
<1>4. /\ r.outcome = run.outcome /\ r.status = run.status /\ r.routes = run.routes
      /\ r.marks = run.marks /\ r.change = run.change /\ r.plans = pl /\ r.first = run.first
  BY <1>3
<1>5. RunShape(r) /\ Grows(run, r)
  <2>1. r = [outcome |-> r.outcome, status |-> r.status, routes |-> r.routes, marks |-> r.marks,
             change |-> r.change, plans |-> r.plans, first |-> r.first]
    BY <1>3, <1>4
  <2>2. RunShape(r)  BY <1>4, <2>1 DEF HandoffInv, RunShape, Released
  <2>3. Grows(run, r)  BY <1>4 DEF Grows
  <2> QED  BY <2>2, <2>3
<1>6. /\ Revise(r, queue) /\ run' = r
      /\ UNCHANGED <<world, facts, stage, now, arc, enacted, begun>>
      /\ ClockOK' /\ BagToSet(calls') \subseteq BagToSet(calls)
  BY <1>1, LandLeaves
<1>7. FirstOK'  BY <1>4, <1>6, FirstStays
<1>8. ArcOK'  BY <1>4, <1>6 DEF HandoffInv, ArcOK, Requestable
<1>9. queue \in Seq(Entries(run)) /\ \A p \in r.plans : PlanOK(p)
  BY <1>2, <1>4 DEF HandoffInv
<1> QED  BY <1>4, <1>5, <1>6, <1>7, <1>8, <1>9, StampKeeps

(***************************************************************************)
(* The theorems.                                                           *)
(***************************************************************************)

\* Every step of the hand-off keeps the invariant.
LEMMA NextKeeps == HandoffInv /\ [HandoffNext]_handoffVars => HandoffInv'
<1> SUFFICES ASSUME HandoffInv, [HandoffNext]_handoffVars PROVE HandoffInv'
  OBVIOUS
<1>1. CASE UNCHANGED handoffVars
  <2>1. UNCHANGED <<world, facts, stage, now, arc, enacted, run, queue, calls, begun>>
    BY <1>1 DEF handoffVars
  <2>2. ClockOK'  BY <2>1 DEF HandoffInv, ClockOK, World
  <2>3. ArcOK'  BY <2>1 DEF HandoffInv, ArcOK
  <2> QED  BY <2>1, <2>2, <2>3, QuietKeeps
<1>2. CASE RuleAction  BY <1>2, RuleActionStep
<1>3. CASE LoopRule  BY <1>3, LoopRuleStep
<1>4. CASE AskerSpawned \/ FactsChange \/ Tick  BY <1>4, WorldStep
<1>5. CASE \E role \in DOMAIN Decisions : \E how \in Decisions[role] \cup {"failed"} :
             LoopEnds(role, how)
  BY <1>5, LoopEndsStep
<1>6. CASE \E p \in World.drafts : CallEmitChange(p)  BY <1>6, EmitBegins
<1>7. CASE CallAnalyze \/ \E m \in World.commands : CallCommand(m)  BY <1>7, AnalyzeBegins
<1>8. CASE \E want \in {NoText} \cup ChangeSlugs : CallProject(want)  BY <1>8, ProjectBegins
<1>9. ASSUME NEW call \in BagToSet(calls),
             LandAnalysis(call) \/ LandChange(call) \/ LandPlan(call)
      PROVE  HandoffInv'
  BY <1>9, LandAnalysisStep, LandChangeStep, LandPlanStep
<1> QED  BY <1>1, <1>2, <1>3, <1>4, <1>5, <1>6, <1>7, <1>8, <1>9 DEF HandoffNext

\* Every reachable state satisfies the invariant.
THEOREM HandoffInductive == HandoffSpec => []HandoffInv
BY InitOK, NextKeeps, PTL DEF HandoffSpec

\* The verdict is exact, and what was released was proven, approved and requested.
LEMMA InvProven == HandoffInv => ReadyIsProven
<1> SUFFICES ASSUME HandoffInv PROVE ReadyIsProven
  OBVIOUS
<1>1. \A i \in DOMAIN facts : Dated(FactsOf(i))
  <2>1. \A raw \in Range(facts) : DatesOK(raw)
    BY HandoffConstantsOK DEF HandoffInv, ClockOK, World
  <2>2. \A i \in DOMAIN facts : facts[i] \in Range(facts)  BY DEF Range
  <2> QED  BY <2>1, <2>2, ParsedDates DEF FactsOf
<1>2. stage \in DOMAIN facts /\ now \in Int  BY DEF HandoffInv, ClockOK
<1>3. HandoffTypeOK
  <2>1. ToSet(run.outcome) \subseteq {"success", "failed"}
    BY DEF HandoffInv, RunShape, RunOutcomes, ToSet
  <2>2. ToSet(run.status) \subseteq {"passed", "failed", "ambiguous"}
    BY DEF HandoffInv, RunShape, Analyses, ToSet
  <2>3. \A i \in DOMAIN queue : queue[i].rule \in RunRules /\ queue[i].step \in 1..3
    <3>1. \A i \in DOMAIN queue : queue[i] \in Entries(run)  BY DEF HandoffInv
    <3> QED  BY <3>1 DEF Entries
  <2> QED  BY <2>1, <2>2, <2>3 DEF HandoffInv, ClockOK, ArcOK, HandoffTypeOK
<1>4. AnalyzeFacts(FactsOf(stage), now).status = "passed" <=> Proven(FactsOf(stage), now)
  BY <1>1, <1>2, AnalyzerExact
<1>5. ASSUME "implementation_ready" \in run.marks
      PROVE  run.first # << >> /\ Proven(FactsOf(run.first[1].stage), run.first[1].at)
  <2>1. run.status # << >> /\ run.status[1] = "passed"
    BY <1>5 DEF HandoffInv, RunShape, Released
  <2>2. /\ run.first # << >> /\ run.first[1].stage \in DOMAIN facts /\ run.first[1].at \in Int
        /\ AnalyzeFacts(FactsOf(run.first[1].stage), run.first[1].at).status = "passed"
    BY <2>1 DEF HandoffInv, FirstOK
  <2>3. Dated(FactsOf(run.first[1].stage))  BY <1>1, <2>2
  <2>4. Proven(FactsOf(run.first[1].stage), run.first[1].at)  BY <2>2, <2>3, AnalyzerExact
  <2> QED  BY <2>2, <2>4
<1>6. arc.walker # "none" =>
        arc.reviewer = "approved" /\ {"implementation_ready", "requested"} \subseteq run.marks
  BY DEF HandoffInv, ArcOK, Requestable
<1> QED  BY <1>3, <1>4, <1>5, <1>6 DEF ReadyIsProven

\* Code is changed only for what was proven, approved and asked for, for every
\* set of facts and drafts, however the calls, verdicts, stamps and failures of
\* the packs interleave.
THEOREM ReadyIsProvenAlways == HandoffSpec => []ReadyIsProven
BY HandoffInductive, InvProven, PTL

\* Plans are made of what was emitted and references lead where they should.
LEMMA InvReviewed == HandoffInv => PlanIsReviewed
<1> SUFFICES ASSUME HandoffInv PROVE PlanIsReviewed
  OBVIOUS
<1>1. \A i \in DOMAIN run.change : \A t \in DOMAIN run.change[i].tasks :
        run.change[i].tasks[t].ref # << >> => RefTrue(run.change[i], run.change[i].tasks[t])
  BY DEF HandoffInv, ChangeOK
<1>2. ASSUME NEW p \in run.plans
      PROVE  LET of == Emissions(p.slug)
                 tasks(i) == run.change[i].tasks
                 emitted(t) == {tasks(i)[t] : i \in {j \in of : t \in DOMAIN tasks(j)}}
             IN /\ arc.reviewer = "approved"
                /\ \A t \in DOMAIN p.tasks :
                     /\ p.tasks[t].id \in {e.id : e \in emitted(t)}
                     /\ p.tasks[t].expects \in {e.expects : e \in emitted(t)}
                /\ Cardinality(of) = 1 => \A i \in of :
                     /\ DOMAIN p.tasks = DOMAIN tasks(i)
                     /\ \A t \in DOMAIN p.tasks :
                          p.tasks[t] = [id |-> tasks(i)[t].id, expects |-> tasks(i)[t].expects]
  <2> DEFINE of == Emissions(p.slug)
             tasks(i) == run.change[i].tasks
             emitted(t) == {tasks(i)[t] : i \in {j \in of : t \in DOMAIN tasks(j)}}
  <2>1. PlanOK(p)  BY DEF HandoffInv
  <2>2. arc.reviewer = "approved"  BY <2>1 DEF PlanOK, HandoffInv, ArcOK
  <2>3. ASSUME NEW t \in DOMAIN p.tasks
        PROVE  /\ p.tasks[t].id \in {e.id : e \in emitted(t)}
               /\ p.tasks[t].expects \in {e.expects : e \in emitted(t)}
    <3>1. PICK i \in of : t \in DOMAIN tasks(i) /\ p.tasks[t].id = tasks(i)[t].id
      BY <2>1 DEF PlanOK
    <3>2. PICK j \in of : t \in DOMAIN tasks(j) /\ p.tasks[t].expects = tasks(j)[t].expects
      BY <2>1 DEF PlanOK
    <3>3. tasks(i)[t] \in emitted(t) /\ tasks(j)[t] \in emitted(t)  BY <3>1, <3>2
    <3> HIDE DEF emitted
    <3> QED  BY <3>1, <3>2, <3>3
  <2>4. ASSUME Cardinality(of) = 1, NEW i \in of PROVE of = {i}
    <3>1. IsFiniteSet(of)  BY EmissionsFinite DEF HandoffInv, RunShape
    <3> HIDE DEF of
    <3>2. \E x : of = {x}  BY <2>4, <3>1, FS_Singleton
    <3> QED  BY <3>2
  <2>5. \A i \in of : of = {i} =>
          /\ DOMAIN p.tasks = DOMAIN tasks(i)
          /\ \A t \in DOMAIN p.tasks :
               p.tasks[t] = [id |-> tasks(i)[t].id, expects |-> tasks(i)[t].expects]
    BY <2>1 DEF PlanOK
  <2> QED  BY <2>2, <2>3, <2>4, <2>5
<1> QED  BY <1>1, <1>2 DEF PlanIsReviewed

\* What is planned was emitted and reviewed, for every draft and every order in
\* which emissions, approvals and projections are made and arrive.
THEOREM PlanIsReviewedAlways == HandoffSpec => []PlanIsReviewed
BY HandoffInductive, InvReviewed, PTL
=============================================================================
