------------------------- MODULE AutoresearchProofs -------------------------
(***************************************************************************)
(* TLAPS proofs about Autoresearch, for any values, baseline, cap and      *)
(* numbers of repeated calls and reviews.                                  *)
(***************************************************************************)
EXTENDS Autoresearch, FiniteSetTheorems, TLAPS

RoleNames == {"baseline", "propose", "execute", "synthesize", "reviewer"}
Actions == {"none", "propose", "measure", "measured", "emit", "approved", "insufficient",
            "needs_clarification"}
Measurement == [value : Values, verdict : {"kept", "reverted", "crashed"}]
RollupType == [kept : Nat, value : Nat, experiment : Nat, clean : BOOLEAN]
LoopType ==
  [role : RoleNames, action : Actions, outcome : {"none", "success", "failed", "truncated"},
   seen : Nat, measured : Seq(Measurement), rollup : RollupType]
RunType ==
  [limit : Limits, status : {"none", "active", "stopped"}, pending : BOOLEAN, iteration : Nat,
   best : Seq(Values), experiment : Nat, completed : SUBSET Nat,
   outcome : Seq({"success", "failed"}), phase : {"executing", "completed", "failed"},
   reply : [Kinds -> SUBSET Nat], baselines : Seq(Values)]

Types ==
  /\ loops \in Seq(LoopType) /\ run \in RunType /\ driver \in Seq(Nat)
  /\ woken \subseteq Kinds \cup {"baseline"}
  /\ \A l \in Ids : /\ loops[l].action \in Allowlist[loops[l].role] \cup {"none"}
                    /\ loops[l].seen \in Values \cup {None}
  /\ Len(run.baselines) <= Len(run.limit.baselines)
  /\ run.completed \subseteq Roles("execute")

\* Rule 05 numbers its firings; those not yet dispatched are in the queue, in
\* order.  Up to the cap each one dispatched has proposed.
Dispatched == run.iteration - Len(driver)
CountOK ==
  /\ Len(driver) <= run.iteration
  /\ \A i \in DOMAIN driver : driver[i] = Dispatched + i
  /\ Cardinality(Roles("propose")) =
       IF Dispatched <= run.limit.cap THEN Dispatched ELSE run.limit.cap
  /\ run.status = "stopped" => Dispatched > run.limit.cap

\* One execute loop for each propose loop that rule 03 fired on.
Handed == {l \in Roles("propose") : <<"03", l>> \in fired}
HandedOK ==
  /\ \A l : <<"03", l>> \in fired => l \in Roles("propose")
  /\ Cardinality(Roles("execute")) = Cardinality(Handed)

\* A loop that works on an experiment, or whose successor has not been arranged:
\* it holds the token that rule 05 gave out.
Live(l) ==
  \/ Running(l) /\ loops[l].role \in {"propose", "execute"}
  \/ Decided(l, "propose", "measure") /\ <<"03", l>> \notin fired
  \/ /\ Decided(l, "execute", "measured") /\ loops[l].outcome \in {"none", "success"}
     /\ <<"04a", l>> \notin fired
  \/ Is(l, "execute") /\ loops[l].outcome = "failed" /\ <<"04b", l>> \notin fired

\* One baseline, one token: it is in the queue of rule 05 or with one loop.
TokenOK ==
  /\ run.baselines = <<>> => driver = <<>> /\ \A l \in Ids : ~Live(l)
  /\ Len(run.baselines) <= 1 =>
       /\ Len(driver) <= 1 /\ (driver # <<>> => \A l \in Ids : ~Live(l))
       /\ \A l, m \in Ids : Live(l) /\ Live(m) => l = m

\* An experiment that was kept, and the value it measured.
KeptAt(x) == x \in Ids /\ Kept(x)
ValueOf(x) == Head(loops[x].measured).value
Credited(x, value) ==
  IF x = None THEN run.baselines # <<>> /\ value = Head(run.baselines)
  ELSE KeptAt(x) /\ value = ValueOf(x)

RollupOK(r) ==
  /\ (r.kept = 0) <=> (r.experiment = None)
  /\ r.experiment # None => KeptAt(r.experiment)
  /\ r.clean => Credited(r.experiment, r.value)

NoWorse(value) == \E b \in ToSet(run.baselines) : value <= b

\* What loops compare with, and what they kept, is no worse than a baseline.
LoopOK(a) ==
  /\ a.seen # None => run.baselines # <<>> /\ NoWorse(a.seen)
  /\ a.measured # <<>> => run.baselines # <<>>
  /\ \A i \in DOMAIN a.measured : a.measured[i].verdict = "kept" => Beats(a.measured[i].value)
  /\ a.rollup # NoRollup => RollupOK(a.rollup)

BestOK ==
  /\ (run.best = <<>>) <=> (run.baselines = <<>>)
  /\ Len(run.baselines) = 1 => Len(run.best) = 1
  /\ \A i \in DOMAIN run.best : NoWorse(run.best[i])
  /\ \A l \in Ids : LoopOK(loops[l])
  /\ \A l : <<"04c_value", l>> \in fired => KeptAt(l)
  /\ \A l : <<"04c_id", l>> \in fired => <<"04c_value", l>> \in fired
  /\ \A l, m : Half(l) /\ Half(m) => l = m
  /\ \A l : Half(l) => Head(run.best) = ValueOf(l)
  /\ run.experiment # None => KeptAt(run.experiment)
  /\ run.baselines # <<>> /\ (\A l : ~Half(l)) => Credited(run.experiment, Head(run.best))

XInv == Types /\ CountOK /\ HandedOK /\ TokenOK /\ BestOK

-----------------------------------------------------------------------------
\* Loops keep their role, and what they measured first.
Grown ==
  \A x \in Ids :
    /\ x \in DOMAIN loops' /\ loops'[x].role = loops[x].role
    /\ loops[x].measured # <<>> =>
         loops'[x].measured # <<>> /\ Head(loops'[x].measured) = Head(loops[x].measured)

\* An experiment that was kept stays kept, with its value.
LEMMA KeptStays ==
  ASSUME Grown, NEW x, KeptAt(x)
  PROVE  KeptAt(x)' /\ ValueOf(x)' = ValueOf(x)
BY DEF Grown, KeptAt, Kept, ValueOf, Ids

\* Baselines are added behind the ones the run has.
Added ==
  /\ ToSet(run.baselines) \subseteq ToSet(run'.baselines)
  /\ run.baselines # <<>> =>
       run'.baselines # <<>> /\ Head(run'.baselines) = Head(run.baselines)

\* Most steps add none.
LEMMA SameAdded ==
  ASSUME run'.baselines = run.baselines
  PROVE  Added
BY DEF Added

\* Credit, once due, stays due.
LEMMA CreditedStays ==
  ASSUME Grown, Added, NEW x, NEW v, Credited(x, v)
  PROVE  Credited(x, v)'
BY KeptStays DEF Credited, Added

\* A true rollup stays true.
LEMMA RollupStays ==
  ASSUME Grown, Added, NEW r, RollupOK(r)
  PROVE  RollupOK(r)'
BY KeptStays, CreditedStays DEF RollupOK

\* What is known of a loop stays true while others move.
LEMMA LoopStays ==
  ASSUME Grown, Added, NEW a, LoopOK(a)
  PROVE  LoopOK(a)'
<1>1. a.rollup # NoRollup => RollupOK(a.rollup)'  BY RollupStays DEF LoopOK
<1>2. \A v : (NoWorse(v) => NoWorse(v)') /\ (Beats(v) => Beats(v)')
  BY DEF Added, NoWorse, Beats
<1> QED BY <1>1, <1>2 DEF LoopOK, Added

\* Rules other than 04c, and sessions, leave the best value alone.
SameHalf ==
  \A x : /\ <<"04c_value", x>> \in fired' <=> <<"04c_value", x>> \in fired
         /\ <<"04c_id", x>> \in fired' <=> <<"04c_id", x>> \in fired

\* Steps that promote nothing keep what is known of the best value.
LEMMA BestStays ==
  ASSUME BestOK, Grown, SameHalf, run'.best = run.best, run'.experiment = run.experiment,
         run'.baselines = run.baselines, \A x \in DOMAIN loops' : LoopOK(loops[x])'
  PROVE  BestOK'
<1>1. \A x : Half(x)' <=> Half(x)  BY DEF SameHalf, Half
<1>2. \A x : <<"04c_value", x>> \in fired' => KeptAt(x)'  BY KeptStays DEF SameHalf, BestOK
<1>3. \A x : Half(x) => ValueOf(x)' = ValueOf(x)  BY KeptStays DEF BestOK, Half
<1>4. run'.experiment # None => KeptAt(run.experiment)'
  <2>1. PICK x : x = run.experiment  OBVIOUS
  <2>2. x # None => KeptAt(x)'  BY <2>1, KeptStays DEF BestOK
  <2>3. x = run'.experiment  BY <2>1
  <2> QED BY <2>2, <2>3 DEF KeptAt, Kept
<1>5. run'.baselines # <<>> /\ (\A x : ~Half(x)') => Credited(run.experiment, Head(run.best))'
  <2>1. PICK x, v : x = run.experiment /\ v = Head(run.best)  OBVIOUS
  <2>2. run.baselines # <<>> /\ (\A y : ~Half(y)) => Credited(x, v)'
    BY <2>1, SameAdded, CreditedStays DEF BestOK
  <2>3. x = run'.experiment /\ v = Head(run'.best)  BY <2>1
  <2>4. Credited(x, v)' => Credited(run.experiment, Head(run.best))'
    BY <2>3 DEF Credited, KeptAt, Kept, ValueOf
  <2> QED BY <1>1, <2>2, <2>4
<1>6. \A x : <<"04c_id", x>> \in fired' => <<"04c_value", x>> \in fired'
  BY DEF SameHalf, BestOK
<1>7. \A i \in DOMAIN run'.best : NoWorse(run.best[i])'  BY DEF BestOK, NoWorse
<1> QED BY <1>1, <1>2, <1>3, <1>4, <1>5, <1>6, <1>7 DEF BestOK, Ids

\* Steps that dispatch and propose nothing keep the count.
LEMMA CountStays ==
  ASSUME CountOK, UNCHANGED driver, run'.iteration = run.iteration, run'.limit = run.limit,
         run'.status = run.status, Roles("propose")' = Roles("propose")
  PROVE  CountOK'
BY DEF CountOK, Dispatched

\* Steps that hand no proposal on keep the pairing.
LEMMA HandedStays ==
  ASSUME HandedOK, Roles("propose")' = Roles("propose"), Roles("execute")' = Roles("execute"),
         \A x : <<"03", x>> \in fired' <=> <<"03", x>> \in fired
  PROVE  HandedOK'
<1>1. Handed' = Handed  BY DEF Handed
<1> QED BY <1>1 DEF HandedOK

\* Steps after which no more loops are live keep the token.
LEMMA TokenStays ==
  ASSUME TokenOK, UNCHANGED driver, run'.baselines = run.baselines,
         \A x \in DOMAIN loops' : Live(x)' => x \in Ids /\ Live(x)
  PROVE  TokenOK'
BY DEF TokenOK, Ids

\* A session moves one loop to a new record.
LEMMA LoopStep ==
  ASSUME XInv, NEW l \in Ids, NEW new \in LoopType, loops' = [loops EXCEPT ![l] = new],
         new.role = loops[l].role, new.action \in Allowlist[new.role] \cup {"none"},
         new.seen \in Values \cup {None},
         loops[l].measured # <<>> =>
           new.measured # <<>> /\ Head(new.measured) = Head(loops[l].measured),
         LoopOK(new), Live(l)' => Live(l), UNCHANGED <<run, driver, fired, woken>>
  PROVE  XInv'
<1>1. loops \in Seq(LoopType) /\ run \in RunType  BY DEF XInv, Types
<1>2. /\ loops' \in Seq(LoopType) /\ DOMAIN loops' = Ids /\ loops'[l] = new
      /\ \A x \in Ids \ {l} : loops'[x] = loops[x]
  BY <1>1 DEF Ids
<1>3. Grown  BY <1>2 DEF Grown
<1>4. \A r : Roles(r)' = Roles(r)  BY <1>2 DEF Roles, Is, Ids
<1>5. Types'
  <2>1. \A x \in DOMAIN loops' : /\ loops'[x].action \in Allowlist[loops'[x].role] \cup {"none"}
                                  /\ loops'[x].seen \in Values \cup {None}
    BY <1>2 DEF XInv, Types
  <2>2. run'.completed \subseteq Roles("execute")'  BY <1>4 DEF XInv, Types
  <2> QED BY <1>2, <2>1, <2>2 DEF XInv, Types, Ids
<1>6. CountOK'  BY <1>4, CountStays DEF XInv
<1>7. HandedOK'  BY <1>4, HandedStays DEF XInv
<1>8. TokenOK'
  <2>1. \A x \in Ids \ {l} : Live(x)' => Live(x)
    BY <1>2 DEF Live, Running, Decided, Is
  <2> QED BY <1>2, <2>1, TokenStays DEF XInv
<1>9. BestOK'
  <2>1. ASSUME NEW x \in Ids PROVE LoopOK(loops[x])'
    <3>1. PICK a : a = loops'[x]  OBVIOUS
    <3>2. LoopOK(a)  BY <1>2, <3>1 DEF XInv, BestOK
    <3>3. Added  BY SameAdded
    <3>4. LoopOK(a)'  BY <1>3, <3>2, <3>3, LoopStays
    <3> QED BY <3>1, <3>4 DEF LoopOK
  <2>2. SameHalf  BY DEF SameHalf
  <2> QED BY <1>2, <1>3, <2>1, <2>2, BestStays DEF XInv
<1> QED BY <1>5, <1>6, <1>7, <1>8, <1>9 DEF XInv

-----------------------------------------------------------------------------
\* Sessions.
LEMMA AtLoop ==
  ASSUME XInv, NEW l \in Ids
  PROVE  /\ loops[l] \in LoopType /\ LoopOK(loops[l]) /\ run \in RunType
         /\ loops[l].action \in Allowlist[loops[l].role] \cup {"none"}
         /\ loops[l].seen \in Values \cup {None}
BY DEF XInv, Types, BestOK, Ids

\* The best value a tool reads is no worse than a baseline.
LEMMA LastBest ==
  ASSUME XInv, run.best # <<>>
  PROVE  Last(run.best) \in Values /\ NoWorse(Last(run.best)) /\ run.baselines # <<>>
<1>1. run.best \in Seq(Values) /\ run.baselines \in Seq(Values)  BY DEF XInv, Types, RunType
<1>2. Len(run.best) \in DOMAIN run.best  BY <1>1
<1> QED BY <1>1, <1>2 DEF XInv, BestOK, Last

\* A measurement begins by reading the best value.
LEMMA ReadStep ==
  ASSUME XInv, NEW l \in Ids, ReadBestValue(l)
  PROVE  XInv'
<1>1. PICK a : a = loops[l]  OBVIOUS
<1>2. PICK v : v = Last(run.best)  OBVIOUS
<1>3. PICK new : new = [a EXCEPT !.seen = v]  OBVIOUS
<1>4. /\ a \in LoopType /\ LoopOK(a) /\ a.action \in Allowlist[a.role] \cup {"none"}
      /\ v \in Values /\ NoWorse(v) /\ run.baselines # <<>>
  BY <1>1, <1>2, AtLoop, LastBest DEF ReadBestValue
<1>5. /\ new \in LoopType /\ new.role = a.role /\ new.action = a.action /\ new.outcome = a.outcome
      /\ new.measured = a.measured /\ new.rollup = a.rollup /\ new.seen = v
  BY <1>3, <1>4, AutoresearchConstantsOK DEF LoopType
<1>6. /\ loops' = [loops EXCEPT ![l] = new] /\ UNCHANGED <<run, driver, fired, woken>>
      /\ loops'[l] = new
  BY <1>1, <1>2, <1>3 DEF ReadBestValue, Ids
<1>7. LoopOK(new)  BY <1>4, <1>5 DEF LoopOK
<1>8. Live(l)' => Live(l)  BY <1>1, <1>5, <1>6 DEF Live, Running, Decided, Is
<1> QED BY <1>1, <1>4, <1>5, <1>6, <1>7, <1>8, LoopStep

\* It keeps only what beats the value that was read, and so the baseline.
LEMMA MeasureStep ==
  ASSUME XInv, NEW l \in Ids, NEW value \in Values, NEW pass \in BOOLEAN, Measure(l, value, pass)
  PROVE  XInv'
<1>1. PICK a : a = loops[l]  OBVIOUS
<1>2. PICK t : t = executeTriples(value, pass, a.seen)  OBVIOUS
<1>3. PICK ms : ms = Append(a.measured, t)  OBVIOUS
<1>4. PICK new : new = [a EXCEPT !.measured = ms, !.seen = None]  OBVIOUS
<1>5. /\ a \in LoopType /\ LoopOK(a) /\ a.action \in Allowlist[a.role] \cup {"none"}
      /\ a.seen \in Values /\ a.seen # None
  BY <1>1, AtLoop DEF Measure
<1>6. t \in Measurement /\ (t.verdict = "kept" => t.value < a.seen)
  BY <1>2 DEF executeTriples, compareOutcome, Measurement
<1>7. a.measured \in Seq(Measurement)  BY <1>5 DEF LoopType
<1>8. /\ ms \in Seq(Measurement) /\ ms # <<>> /\ (a.measured # <<>> => Head(ms) = Head(a.measured))
      /\ \A i \in DOMAIN ms : ms[i] = t \/ (i \in DOMAIN a.measured /\ ms[i] = a.measured[i])
  BY <1>3, <1>6, <1>7
<1>9. /\ new \in LoopType /\ new.role = a.role /\ new.action = a.action /\ new.outcome = a.outcome
      /\ new.measured = ms /\ new.rollup = a.rollup /\ new.seen = None
  BY <1>4, <1>5, <1>8 DEF LoopType, None
<1>10. /\ loops' = [loops EXCEPT ![l] = new] /\ UNCHANGED <<run, driver, fired, woken>>
       /\ loops'[l] = new
  BY <1>1, <1>2, <1>3, <1>4 DEF Measure, Ids
<1>11. LoopOK(new)
  <2>1. run.baselines # <<>> /\ NoWorse(a.seen)  BY <1>5 DEF LoopOK
  <2>2. t.verdict = "kept" => Beats(t.value)
    <3>1. PICK b \in ToSet(run.baselines) : a.seen <= b  BY <2>1 DEF NoWorse
    <3>2. a.seen \in Nat /\ b \in Nat
      <4>1. run.baselines \in Seq(Values)  BY AtLoop DEF RunType
      <4>2. b \in Values  BY <4>1 DEF ToSet
      <4> QED BY <1>5, <4>2, AutoresearchConstantsOK
    <3>3. t.value \in Nat  BY <1>6, AutoresearchConstantsOK DEF Measurement
    <3>4. t.verdict = "kept" => t.value < b  BY <1>6, <3>1, <3>2, <3>3
    <3> QED BY <3>4 DEF Beats
  <2>3. \A i \in DOMAIN ms : ms[i].verdict = "kept" => Beats(ms[i].value)
    BY <1>5, <1>8, <2>2 DEF LoopOK
  <2> QED BY <1>5, <1>9, <2>1, <2>3 DEF LoopOK
<1>12. Live(l)' => Live(l)  BY <1>1, <1>9, <1>10 DEF Live, Running, Decided, Is
<1> QED BY <1>1, <1>5, <1>8, <1>9, <1>10, <1>11, <1>12, LoopStep

\* The synthesize loop reads the run at one moment.
LEMMA RollupStep ==
  ASSUME XInv, NEW l \in Ids, EmitRollup(l)
  PROVE  XInv'
<1>1. PICK a : a = loops[l]  OBVIOUS
<1>2. PICK kept : kept = Cardinality({x \in Ids : Is(x, "execute") /\ Kept(x)})  OBVIOUS
<1>3. PICK clean \in BOOLEAN : clean <=> (Len(run.baselines) = 1 /\ \A x \in Ids : ~Half(x))
  OBVIOUS
<1>4. PICK r : r = [kept |-> kept, value |-> Last(run.best), experiment |-> run.experiment,
                    clean |-> clean]
  OBVIOUS
<1>5. PICK new : new = [a EXCEPT !.rollup = r]  OBVIOUS
<1>6. /\ a \in LoopType /\ LoopOK(a) /\ a.action \in Allowlist[a.role] \cup {"none"}
      /\ a.seen \in Values \cup {None} /\ run \in RunType
  BY <1>1, AtLoop
<1>7. kept \in Nat
  <2>1. loops \in Seq(LoopType)  BY DEF XInv, Types
  <2>2. IsFiniteSet(Ids)  BY <2>1, FS_Interval DEF Ids
  <2>3. IsFiniteSet({x \in Ids : Is(x, "execute") /\ Kept(x)})  BY <2>2, FS_Subset
  <2> QED BY <1>2, <2>3, FS_CardinalityType
<1>8. r \in RollupType
  BY <1>4, <1>6, <1>7, LastBest, AutoresearchConstantsOK DEF EmitRollup, RollupType, RunType
<1>9. /\ new \in LoopType /\ new.role = a.role /\ new.action = a.action /\ new.outcome = a.outcome
      /\ new.measured = a.measured /\ new.seen = a.seen /\ new.rollup = r
  BY <1>5, <1>6, <1>8 DEF LoopType
<1>10. /\ UNCHANGED <<run, driver, fired, woken>> /\ run.best # <<>>
       /\ (kept = 0) <=> (run.experiment = None)
  BY <1>2 DEF EmitRollup, validate
<1>11. loops' = [loops EXCEPT ![l] = new] /\ loops'[l] = new
  <2>1. clean = (Len(run.baselines) = 1 /\ \A x \in Ids : ~Half(x))  BY <1>3, Zenon
  <2>2. loops' = [loops EXCEPT ![l].rollup = r]  BY <1>2, <1>4, <2>1, Zenon DEF EmitRollup
  <2> QED BY <1>1, <1>5, <2>2 DEF Ids
<1>12. RollupOK(r)
  <2>1. r.experiment # None => KeptAt(r.experiment)  BY <1>4 DEF XInv, BestOK
  <2>2. ASSUME clean PROVE Credited(run.experiment, Last(run.best))
    <3>1. Len(run.baselines) = 1 /\ \A x \in Ids : ~Half(x)  BY <1>3, <2>2
    <3>2. \A x : ~Half(x)  BY <3>1 DEF XInv, BestOK, KeptAt, Half
    <3>3. Len(run.best) = 1 /\ Credited(run.experiment, Head(run.best))
      BY <3>1, <3>2 DEF XInv, BestOK
    <3>4. Last(run.best) = Head(run.best)  BY <1>6, <3>3 DEF Last, RunType
    <3> QED BY <3>3, <3>4
  <2> QED BY <1>4, <1>10, <2>1, <2>2 DEF RollupOK
<1>13. LoopOK(new)  BY <1>6, <1>9, <1>12 DEF LoopOK
<1>14. Live(l)' => Live(l)  BY <1>1, <1>9, <1>10, <1>11 DEF Live, Running, Decided, Is
<1> QED BY <1>1, <1>6, <1>9, <1>10, <1>11, <1>13, <1>14, LoopStep

\* Roles decide with actions.
LEMMA AllowlistIs == \A role \in RoleNames : Allowlist[role] \subseteq Actions
BY DEF RoleNames, Allowlist, Actions

\* A session decides.
LEMMA DecideStep ==
  ASSUME XInv, NEW l \in Ids, NEW action, Decide(l, action)
  PROVE  XInv'
<1>1. PICK a : a = loops[l]  OBVIOUS
<1>2. PICK new : new = [a EXCEPT !.action = action]  OBVIOUS
<1>3. a \in LoopType /\ LoopOK(a) /\ a.seen \in Values \cup {None}  BY <1>1, AtLoop
<1>4. action \in Allowlist[a.role] /\ action \in Actions /\ a.action = "none" /\ a.outcome = "none"
  <2>1. a.role \in RoleNames  BY <1>3 DEF LoopType
  <2> QED BY <1>1, <2>1, AllowlistIs DEF Decide, Running
<1>5. /\ new \in LoopType /\ new.role = a.role /\ new.action = action /\ new.outcome = a.outcome
      /\ new.measured = a.measured /\ new.rollup = a.rollup /\ new.seen = a.seen
  BY <1>2, <1>3, <1>4 DEF LoopType
<1>6. /\ loops' = [loops EXCEPT ![l] = new] /\ UNCHANGED <<run, driver, fired, woken>>
      /\ loops'[l] = new
  BY <1>1, <1>2 DEF Decide, Ids
<1>7. LoopOK(new)  BY <1>3, <1>5 DEF LoopOK
<1>8. Live(l)' => Live(l)  BY <1>1, <1>4, <1>5, <1>6 DEF Live, Running, Decided, Is
<1> QED BY <1>1, <1>3, <1>4, <1>5, <1>6, <1>7, <1>8, LoopStep

\* A session ends.
LEMMA EndStep ==
  ASSUME XInv, NEW l \in Ids, Complete(l) \/ Fail(l)
  PROVE  XInv'
<1>1. PICK a : a = loops[l]  OBVIOUS
<1>2. PICK outcome \in {"success", "failed", "truncated"} :
        /\ loops' = [loops EXCEPT ![l].outcome = outcome]
        /\ outcome # "success" => Running(l)
        /\ outcome = "success" => loops[l].outcome = "none" /\ loops[l].action # "none"
    BY DEF Complete, Fail
<1>3. PICK new : new = [a EXCEPT !.outcome = outcome]  OBVIOUS
<1>4. /\ a \in LoopType /\ LoopOK(a) /\ a.seen \in Values \cup {None}
      /\ a.action \in Allowlist[a.role] \cup {"none"}
  BY <1>1, AtLoop
<1>5. /\ new \in LoopType /\ new.role = a.role /\ new.action = a.action /\ new.outcome = outcome
      /\ new.measured = a.measured /\ new.rollup = a.rollup /\ new.seen = a.seen
  BY <1>3, <1>4 DEF LoopType
<1>6. /\ loops' = [loops EXCEPT ![l] = new] /\ UNCHANGED <<run, driver, fired, woken>>
      /\ loops'[l] = new
  BY <1>1, <1>2, <1>3 DEF Complete, Fail, Ids
<1>7. LoopOK(new)  BY <1>4, <1>5 DEF LoopOK
<1>8. Live(l)' => Live(l)  BY <1>1, <1>2, <1>5, <1>6 DEF Live, Running, Decided, Is
<1> QED BY <1>1, <1>4, <1>5, <1>6, <1>7, <1>8, LoopStep

-----------------------------------------------------------------------------
\* A revision of the run: rule 05 is selected under the next number, or not.
LEMMA ReviseIs ==
  ASSUME NEW r \in RunType, Revise(r), driver \in Seq(Nat)
  PROVE  /\ run' \in RunType /\ driver' \in Seq(Nat)
         /\ run'.limit = r.limit /\ run'.status = r.status /\ run'.best = r.best
         /\ run'.experiment = r.experiment /\ run'.completed = r.completed
         /\ run'.baselines = r.baselines
         /\ \/ run'.iteration = r.iteration /\ driver' = driver
            \/ /\ run'.iteration = r.iteration + 1 /\ driver' = Append(driver, r.iteration + 1)
               /\ ~Matches05(run) /\ Matches05(r)
<1>1. PICK n \in Nat : /\ run' = [r EXCEPT !.iteration = n]
                       /\ \/ n = r.iteration /\ driver' = driver
                          \/ /\ n = r.iteration + 1 /\ driver' = Append(driver, n)
                             /\ ~Matches05(run) /\ Matches05(r)
  <2>1. r.iteration \in Nat  BY DEF RunType
  <2>2. CASE ~Matches05(run) /\ Matches05(r)
    <3>1. PICK n \in Nat : n = r.iteration + 1  BY <2>1
    <3>2. run' = [r EXCEPT !.iteration = n]  BY <2>2, <3>1 DEF Revise
    <3>3. run'.iteration = n  BY <3>2 DEF RunType
    <3>4. driver' = Append(driver, n)  BY <2>2, <3>1, <3>3 DEF Revise, RunType
    <3> QED BY <2>2, <3>1, <3>2, <3>4
  <2>3. CASE ~(~Matches05(run) /\ Matches05(r))
    BY <2>1, <2>3 DEF Revise
  <2> QED BY <2>2, <2>3
<1>2. /\ run' \in RunType /\ run'.limit = r.limit /\ run'.status = r.status /\ run'.best = r.best
      /\ run'.experiment = r.experiment /\ run'.completed = r.completed
      /\ run'.baselines = r.baselines /\ run'.iteration = n
  BY <1>1 DEF RunType
<1>3. driver' \in Seq(Nat)  BY <1>1
<1> QED BY <1>1, <1>2, <1>3

\* What is common to all steps that revise the run and leave the loops alone.
LEMMA RunStep ==
  ASSUME XInv, NEW r \in RunType, Revise(r), UNCHANGED <<loops, woken>>,
         r.iteration = run.iteration, r.limit = run.limit,
         r.status = "stopped" => run.status = "stopped",
         r.completed \subseteq Roles("execute"), Len(r.baselines) <= Len(r.limit.baselines),
         \A x : <<"03", x>> \in fired' <=> <<"03", x>> \in fired, TokenOK', BestOK'
  PROVE  XInv'
<1>1. driver \in Seq(Nat) /\ run \in RunType /\ CountOK  BY DEF XInv, Types
<1>2. /\ run' \in RunType /\ driver' \in Seq(Nat)
      /\ run'.limit = r.limit /\ run'.status = r.status /\ run'.completed = r.completed
      /\ run'.baselines = r.baselines
      /\ \/ run'.iteration = r.iteration /\ driver' = driver
         \/ run'.iteration = r.iteration + 1 /\ driver' = Append(driver, r.iteration + 1)
  BY <1>1, ReviseIs
<1>3. \A role : Roles(role)' = Roles(role)  BY DEF Roles, Ids, Is
<1>4. Types'  BY <1>2, <1>3 DEF XInv, Types, Ids
<1>5. HandedOK'  BY <1>3, HandedStays DEF XInv
<1>6. CountOK'
  <2>1. run.iteration \in Nat  BY <1>1 DEF RunType
  <2>2. Dispatched' = Dispatched  BY <1>1, <1>2, <2>1 DEF Dispatched
  <2>3. Len(driver') <= run'.iteration  BY <1>1, <1>2, <2>1 DEF CountOK
  <2>4. ASSUME NEW i \in DOMAIN driver' PROVE driver'[i] = Dispatched + i
    <3>1. CASE i \in DOMAIN driver
      <4>1. PICK n \in Nat : n = run.iteration + 1  BY <2>1
      <4>2. Append(driver, n)[i] = driver[i]  BY <1>1, <3>1
      <4>3. driver' \in {driver, Append(driver, n)}  BY <1>2, <4>1
      <4>4. driver'[i] = driver[i]  BY <4>2, <4>3
      <4> QED BY <1>1, <3>1, <4>4 DEF CountOK
    <3>2. CASE i \notin DOMAIN driver
      <4>1. i = Len(driver) + 1 /\ driver'[i] = run.iteration + 1  BY <1>1, <1>2, <2>1, <3>2
      <4> QED BY <1>1, <2>1, <4>1 DEF Dispatched
    <3> QED BY <3>1, <3>2
  <2> QED BY <1>1, <1>2, <1>3, <2>2, <2>3, <2>4 DEF CountOK
<1> QED BY <1>4, <1>5, <1>6 DEF XInv

\* Nothing gets to hold the token by a rule that fires.
LEMMA LiveStays ==
  ASSUME UNCHANGED loops, fired \subseteq fired'
  PROVE  \A x : Live(x)' => Live(x)
BY DEF Live, Running, Decided, Is

\* Steps that move no loop, ask for no iteration and promote nothing.
LEMMA QuietStep ==
  ASSUME XInv, UNCHANGED <<loops, driver>>, run' \in RunType, woken' \subseteq Kinds \cup {"baseline"},
         run'.iteration = run.iteration, run'.limit = run.limit, run'.status = run.status,
         run'.best = run.best, run'.experiment = run.experiment, run'.completed = run.completed,
         run'.baselines = run.baselines, fired \subseteq fired', SameHalf,
         \A x : <<"03", x>> \in fired' <=> <<"03", x>> \in fired
  PROVE  XInv'
<1>1. run \in RunType /\ loops \in Seq(LoopType)  BY DEF XInv, Types
<1>2. \A role : Roles(role)' = Roles(role)  BY DEF Roles, Ids, Is
<1>3. Types'  BY <1>2 DEF XInv, Types, Ids
<1>4. CountOK' /\ HandedOK'  BY <1>2, CountStays, HandedStays DEF XInv
<1>5. TokenOK'  BY LiveStays, TokenStays DEF XInv, Ids
<1>6. BestOK'
  <2>1. Grown  BY DEF Grown, Ids
  <2>2. ASSUME NEW x \in DOMAIN loops' PROVE LoopOK(loops[x])'
    <3>1. PICK a : a = loops'[x]  OBVIOUS
    <3>2. LoopOK(a)  BY <3>1 DEF XInv, BestOK, Ids
    <3>3. Added  BY SameAdded
    <3>4. LoopOK(a)'  BY <2>1, <3>2, <3>3, LoopStays
    <3> QED BY <3>1, <3>4 DEF LoopOK
  <2> QED BY <2>1, <2>2, BestStays DEF XInv
<1> QED BY <1>3, <1>4, <1>5, <1>6 DEF XInv

\* Revisions that ask for no iteration and promote nothing.
LEMMA QuietRevision ==
  ASSUME XInv, NEW r \in RunType, Revise(r), UNCHANGED <<loops, woken>>,
         r.iteration = run.iteration, r.limit = run.limit, r.status = run.status,
         r.pending => run.pending, r.best = run.best, r.experiment = run.experiment,
         r.completed = run.completed, r.baselines = run.baselines,
         fired \subseteq fired', SameHalf,
         \A x : <<"03", x>> \in fired' <=> <<"03", x>> \in fired
  PROVE  XInv'
<1>1. driver \in Seq(Nat) /\ woken \subseteq Kinds \cup {"baseline"}  BY DEF XInv, Types
<1>2. Matches05(r) => Matches05(run)  BY DEF Matches05
<1>3. /\ run' \in RunType /\ driver' = driver /\ run'.iteration = r.iteration
      /\ run'.limit = r.limit /\ run'.status = r.status /\ run'.best = r.best
      /\ run'.experiment = r.experiment /\ run'.completed = r.completed
      /\ run'.baselines = r.baselines
  BY <1>1, <1>2, ReviseIs
<1> QED BY <1>1, <1>3, QuietStep

\* The types of the run's fields.
LEMMA RunIs ==
  ASSUME XInv
  PROVE  /\ run \in RunType /\ driver \in Seq(Nat) /\ loops \in Seq(LoopType)
         /\ run.best \in Seq(Values) /\ run.outcome \in Seq({"success", "failed"})
         /\ run.reply \in [Kinds -> SUBSET Nat] /\ run.baselines \in Seq(Values)
         /\ run.iteration \in Nat /\ run.limit.cap \in Nat \ {0} /\ run.limit.baselines \in Seq(Values)
         /\ run.completed \in SUBSET Nat /\ Ids \subseteq Nat
<1>1. run \in RunType /\ loops \in Seq(LoopType) /\ driver \in Seq(Nat)  BY DEF XInv, Types
<1>2. run.limit \in Limits  BY <1>1 DEF RunType
<1>3. run.limit.cap \in Nat \ {0} /\ run.limit.baselines \in Seq(Values)
  BY <1>2, AutoresearchConstantsOK
<1> QED BY <1>1, <1>3 DEF RunType, Ids

\* Appending keeps the first value.
LEMMA AppendedIs ==
  ASSUME NEW S, NEW s \in Seq(S), NEW v \in S
  PROVE  /\ Appended(s, v) \in Seq(S) /\ Appended(s, v) # <<>>
         /\ s = <<>> => Appended(s, v) = <<v>>
         /\ s # <<>> => Head(Appended(s, v)) = Head(s)
         /\ \A i \in DOMAIN Appended(s, v) :
              Appended(s, v)[i] = v \/ (i \in DOMAIN s /\ Appended(s, v)[i] = s[i])
<1>1. CASE v \in ToSet(s)
  <2>1. s # <<>>  BY <1>1 DEF ToSet
  <2> QED BY <1>1, <2>1 DEF Appended
<1>2. CASE v \notin ToSet(s)
  <2>1. PICK t : t = Append(s, v)  OBVIOUS
  <2>2. t = Appended(s, v)  BY <1>2, <2>1 DEF Appended
  <2>3. t \in Seq(S) /\ t # <<>> /\ Len(t) = Len(s) + 1 /\ t[Len(s) + 1] = v  BY <2>1
  <2>4. \A i \in DOMAIN s : i \in DOMAIN t /\ t[i] = s[i]  BY <2>1
  <2>5. s = <<>> => t = <<v>>  BY <2>1
  <2>6. s # <<>> => Head(t) = Head(s)  BY <2>1
  <2>7. \A i \in DOMAIN t : t[i] = v \/ (i \in DOMAIN s /\ t[i] = s[i])
    <3> SUFFICES ASSUME NEW i \in DOMAIN t PROVE i = Len(s) + 1 \/ i \in DOMAIN s
      BY <2>3, <2>4
    <3> QED BY <2>3
  <2> QED BY <2>2, <2>3, <2>5, <2>6, <2>7
<1> QED BY <1>1, <1>2

\* Replies and outcomes of a run.
Replied(r, kind, l) == [r EXCEPT !.reply[kind] = @ \cup {l}]
Concluded(r, kind, l, o) == [r EXCEPT !.reply[kind] = @ \cup {l}, !.outcome = Appended(@, o)]

\* Replies and outcomes touch nothing else of the run.
LEMMA RepliedIs ==
  ASSUME XInv, NEW kind \in Kinds, NEW l \in Ids, NEW o \in {"success", "failed"},
         NEW r \in {Replied(run, kind, l), Concluded(run, kind, l, o)}
  PROVE  /\ r \in RunType /\ r.iteration = run.iteration /\ r.limit = run.limit
         /\ r.status = run.status /\ r.pending = run.pending /\ r.best = run.best
         /\ r.experiment = run.experiment /\ r.completed = run.completed
         /\ r.baselines = run.baselines
<1>1. PICK p : p = [run.reply EXCEPT ![kind] = @ \cup {l}]  OBVIOUS
<1>2. PICK q : q = Appended(run.outcome, o)  OBVIOUS
<1>3. p \in [Kinds -> SUBSET Nat] /\ q \in Seq({"success", "failed"})
  BY <1>1, <1>2, RunIs, AppendedIs
<1>4. run \in RunType  BY RunIs
<1>5. r \in {[run EXCEPT !.reply = p], [run EXCEPT !.reply = p, !.outcome = q]}
  BY <1>1, <1>2, <1>4 DEF Replied, Concluded, RunType
<1> QED BY <1>3, <1>4, <1>5 DEF RunType

\* Rules other than 03 and 04c leave their firings alone.
LEMMA OtherRule ==
  ASSUME NEW rule \in {"04a", "04b", "07", "08", "09", "10", "10b", "12/13", "05_clear", "05_synthesize"}, NEW n,
         fired' = fired \cup {<<rule, n>>}
  PROVE  /\ fired \subseteq fired' /\ SameHalf
         /\ \A x : <<"03", x>> \in fired' <=> <<"03", x>> \in fired
BY DEF SameHalf

\* 08, 10b, 12 and 13 write replies.
LEMMA ReplyStep ==
  ASSUME XInv, NEW l \in Ids, ReviewerApproved(l) \/ DescendedClarification(l) \/ LoopFailed(l)
  PROVE  XInv'
<1>1. PICK kind \in Kinds, o \in {"success", "failed"} :
        Revise(Replied(run, kind, l)) \/ Revise(Concluded(run, kind, l, o))
  <2>1. CASE ReviewerApproved(l)
    <3>1. Revise(Concluded(run, "approved", l, "success"))
      BY <2>1, Zenon DEF ReviewerApproved, Concluded
    <3> QED BY <3>1 DEF Kinds
  <2>2. CASE DescendedClarification(l)
    <3>1. Revise(Replied(run, "clarification", l))
      BY <2>2, Zenon DEF DescendedClarification, Replied
    <3> QED BY <3>1 DEF Kinds
  <2>3. CASE LoopFailed(l)
    <3>1. Revise(Concluded(run, "failed", l, "failed"))  BY <2>3, Zenon DEF LoopFailed, Concluded
    <3> QED BY <3>1 DEF Kinds
  <2> QED BY <2>1, <2>2, <2>3
<1>2. PICK r \in {Replied(run, kind, l), Concluded(run, kind, l, o)} : Revise(r)  BY <1>1
<1>3. PICK rule \in {"08", "10b", "12/13"} : fired' = fired \cup {<<rule, l>>}
  BY DEF ReviewerApproved, DescendedClarification, LoopFailed, Fires
<1>4. UNCHANGED <<loops, woken>>  BY DEF ReviewerApproved, DescendedClarification, LoopFailed
<1>5. /\ fired \subseteq fired' /\ SameHalf
      /\ \A x : <<"03", x>> \in fired' <=> <<"03", x>> \in fired
  BY <1>3, OtherRule
<1>6. /\ r \in RunType /\ r.iteration = run.iteration /\ r.limit = run.limit
      /\ r.status = run.status /\ r.pending = run.pending /\ r.best = run.best
      /\ r.experiment = run.experiment /\ r.completed = run.completed
      /\ r.baselines = run.baselines
  BY <1>2, RepliedIs
<1> QED BY <1>2, <1>4, <1>5, <1>6, QuietRevision

\* Steps that only wake a coordinator or set the phase, and stuttering.
LEMMA WokenStep ==
  ASSUME XInv, (\E l \in Ids : BaselineClarification(l))
               \/ (\E kind \in Kinds : ResultToCoordinator(kind)) \/ Conclude \/ UNCHANGED vars
  PROVE  XInv'
<1>1. run \in RunType /\ woken \subseteq Kinds \cup {"baseline"}  BY DEF XInv, Types
<1>2. CASE \E l \in Ids : BaselineClarification(l)
  <2>1. PICK l \in Ids : fired' = fired \cup {<<"10", l>>}
    BY <1>2 DEF BaselineClarification, Fires
  <2>2. UNCHANGED <<loops, run, driver>> /\ woken' \subseteq Kinds \cup {"baseline"}
    BY <1>1, <1>2 DEF BaselineClarification
  <2>3. /\ fired \subseteq fired' /\ SameHalf
        /\ \A x : <<"03", x>> \in fired' <=> <<"03", x>> \in fired
    BY <2>1, OtherRule
  <2> QED BY <1>1, <2>2, <2>3, QuietStep
<1>3. CASE \E kind \in Kinds : ResultToCoordinator(kind)
  <2>1. UNCHANGED <<loops, run, driver, fired>> /\ woken' \subseteq Kinds \cup {"baseline"}
    BY <1>1, <1>3 DEF ResultToCoordinator
  <2> QED BY <1>1, <2>1, QuietStep DEF SameHalf
<1>4. CASE Conclude
  <2>1. PICK phase \in {"completed", "failed"} : run' = [run EXCEPT !.phase = phase]
    BY <1>4 DEF Conclude
  <2>2. /\ run' \in RunType /\ run'.iteration = run.iteration /\ run'.limit = run.limit
        /\ run'.status = run.status /\ run'.best = run.best /\ run'.experiment = run.experiment
        /\ run'.completed = run.completed /\ run'.baselines = run.baselines
    BY <1>1, <2>1 DEF RunType
  <2>3. UNCHANGED <<loops, driver, fired, woken>>  BY <1>4 DEF Conclude
  <2> QED BY <1>1, <2>2, <2>3, QuietStep DEF SameHalf
<1>5. CASE UNCHANGED vars  BY <1>1, <1>5, QuietStep DEF vars, SameHalf
<1> QED BY <1>2, <1>3, <1>4, <1>5

\* 05, first action: the marker is cleared.
LEMMA ClearStep ==
  ASSUME XInv, ClearPending
  PROVE  XInv'
<1>1. PICK r : r = [run EXCEPT !.pending = FALSE]  OBVIOUS
<1>2. Revise(r) /\ UNCHANGED <<loops, woken>>  BY <1>1 DEF ClearPending
<1>3. PICK n : fired' = fired \cup {<<"05_clear", n>>}  BY DEF ClearPending
<1>4. /\ fired \subseteq fired' /\ SameHalf
      /\ \A x : <<"03", x>> \in fired' <=> <<"03", x>> \in fired
  BY <1>3, OtherRule
<1>5. /\ r \in RunType /\ r.iteration = run.iteration /\ r.limit = run.limit
      /\ r.status = run.status /\ r.pending = FALSE /\ r.best = run.best
      /\ r.experiment = run.experiment /\ r.completed = run.completed
      /\ r.baselines = run.baselines
  BY <1>1, RunIs DEF RunType
<1> QED BY <1>2, <1>4, <1>5, QuietRevision

\* 04a and 04b: the loop gives the token back, and rule 05 takes it at most once.
LEMMA StampStep ==
  ASSUME XInv, NEW l \in Ids, StampCompletion(l) \/ StampFailed(l)
  PROVE  XInv'
<1>1. PICK r : r = [run EXCEPT !.completed = @ \cup {l}, !.pending = TRUE]  OBVIOUS
<1>2. Revise(r) /\ UNCHANGED <<loops, woken>> /\ Is(l, "execute")
  BY <1>1 DEF StampCompletion, StampFailed, Decided
<1>3. PICK rule \in {"04a", "04b"} : fired' = fired \cup {<<rule, l>>}
  BY DEF StampCompletion, StampFailed, Fires
<1>4. /\ fired \subseteq fired' /\ SameHalf
      /\ \A x : <<"03", x>> \in fired' <=> <<"03", x>> \in fired
  BY <1>3, OtherRule
<1>5. /\ r \in RunType /\ r.iteration = run.iteration /\ r.limit = run.limit
      /\ r.status = run.status /\ r.best = run.best /\ r.experiment = run.experiment
      /\ r.completed = run.completed \cup {l} /\ r.baselines = run.baselines
  <2>1. run.completed \cup {l} \in SUBSET Nat  BY RunIs
  <2> QED BY <1>1, <2>1, RunIs DEF RunType
<1>6. r.completed \subseteq Roles("execute")  BY <1>2, <1>5 DEF XInv, Types, Roles
<1>7. /\ driver' = driver \/ driver' = Append(driver, r.iteration + 1)
      /\ run'.baselines = run.baselines /\ run'.best = run.best
      /\ run'.experiment = run.experiment
  BY <1>2, <1>5, ReviseIs, RunIs
<1>8. Live(l) /\ ~Live(l)'
  <2>1. CASE StampCompletion(l)
    BY <2>1 DEF StampCompletion, Fires, Decided, Succeeded, Live, Is, Running
  <2>2. CASE StampFailed(l)
    BY <2>2 DEF StampFailed, Fires, Live, Is, Running, Decided
  <2> QED BY <2>1, <2>2
<1>9. \A x : Live(x)' => Live(x)  BY <1>2, <1>4, LiveStays
<1>10. TokenOK'
  <2>1. TokenOK  BY DEF XInv
  <2>2. run.baselines # <<>>  BY <1>8, <2>1 DEF TokenOK
  <2>3. ASSUME Len(run.baselines) <= 1
        PROVE  /\ Len(driver') <= 1 /\ \A x \in Ids : ~Live(x)'
    <3>1. driver = <<>> /\ \A x \in Ids : Live(x) => x = l  BY <1>8, <2>1, <2>3 DEF TokenOK
    <3>2. \A x \in Ids : ~Live(x)'  BY <1>8, <1>9, <3>1
    <3>3. Len(driver') <= 1
      <4>1. PICK n \in Nat : n = r.iteration + 1  BY <1>5, RunIs
      <4>2. driver' = driver \/ driver' = Append(driver, n)  BY <1>7, <4>1
      <4>3. driver \in Seq(Nat) /\ Len(driver) = 0  BY <3>1, RunIs
      <4> QED BY <4>2, <4>3
    <3> QED BY <3>2, <3>3
  <2>4. DOMAIN loops' = Ids  BY <1>2 DEF Ids
  <2> QED BY <1>7, <2>2, <2>3, <2>4 DEF TokenOK, Ids
<1>11. BestOK'
  <2>1. Grown  BY <1>2 DEF Grown, Ids
  <2>2. ASSUME NEW x \in DOMAIN loops' PROVE LoopOK(loops[x])'
    <3>1. PICK a : a = loops'[x]  OBVIOUS
    <3>2. LoopOK(a)  BY <1>2, <3>1 DEF XInv, BestOK, Ids
    <3>3. LoopOK(a)'  BY <1>7, <2>1, <3>2, SameAdded, LoopStays
    <3> QED BY <3>1, <3>3 DEF LoopOK
  <2> QED BY <1>4, <1>7, <2>1, <2>2, BestStays DEF XInv
<1>12. Len(r.baselines) <= Len(r.limit.baselines)  BY <1>5 DEF XInv, Types
<1> QED BY <1>2, <1>4, <1>5, <1>6, <1>10, <1>11, <1>12, RunStep

\* 04c: a promotion writes a value that was kept, then the experiment it is of.
LEMMA PromoteStep ==
  ASSUME XInv, NEW l \in Ids,
         (PromoteValue(l) /\ \A x \in Ids : ~Half(x)) \/ PromoteId(l)
  PROVE  XInv'
<1>1. BestOK /\ run \in RunType /\ run.baselines \in Seq(Values)  BY RunIs DEF XInv
<1>2. UNCHANGED <<loops, woken>>  BY DEF PromoteValue, PromoteId
<1>3. Grown  BY <1>2 DEF Grown, Ids
<1>4. KeptAt(l) /\ run.baselines # <<>>
  <2>1. KeptAt(l)  BY <1>1 DEF PromoteValue, PromoteId, Half, BestOK, KeptAt
  <2>2. LoopOK(loops[l]) /\ loops[l].measured # <<>>  BY <1>1, <2>1 DEF BestOK, KeptAt, Kept
  <2> QED BY <2>1, <2>2 DEF LoopOK
<1>5. PICK v : v = ValueOf(l)  OBVIOUS
<1>6. v \in Values /\ Beats(v)
  <2>1. PICK m : m = loops[l].measured  OBVIOUS
  <2>2. m \in Seq(Measurement)  BY <2>1, AtLoop DEF LoopType
  <2>3. m # <<>> /\ Head(m).verdict = "kept"  BY <1>4, <2>1 DEF KeptAt, Kept
  <2>4. 1 \in DOMAIN m /\ m[1] = Head(m) /\ m[1] \in Measurement  BY <2>2, <2>3
  <2>5. Beats(m[1].value)  BY <1>1, <2>1, <2>3, <2>4 DEF BestOK, LoopOK
  <2> QED BY <1>5, <2>1, <2>4, <2>5 DEF ValueOf, Measurement
<1>7. \A x : KeptAt(x) => KeptAt(x)' /\ ValueOf(x)' = ValueOf(x)  BY <1>3, KeptStays
<1>8. ASSUME run'.baselines = run.baselines, NEW x \in DOMAIN loops' PROVE LoopOK(loops[x])'
  <2>1. PICK a : a = loops'[x]  OBVIOUS
  <2>2. LoopOK(a)  BY <1>1, <1>2, <2>1 DEF BestOK, Ids
  <2>3. LoopOK(a)'  BY <1>1, <1>3, <1>8, <2>2, SameAdded, LoopStays
  <2> QED BY <2>1, <2>3 DEF LoopOK
<1>9. CASE PromoteValue(l) /\ \A x \in Ids : ~Half(x)
  <2>1. PICK r : r = [run EXCEPT !.best = <<v>>]  OBVIOUS
  <2>2. /\ Revise(r) /\ fired' = fired \cup {<<"04c_value", l>>}
        /\ <<"04c_value", l>> \notin fired
    BY <1>5, <1>9, <2>1 DEF PromoteValue, ValueOf, Fires
  <2>3. /\ r \in RunType /\ r.iteration = run.iteration /\ r.limit = run.limit
        /\ r.status = run.status /\ r.pending = run.pending /\ r.best = <<v>>
        /\ r.experiment = run.experiment /\ r.completed = run.completed
        /\ r.baselines = run.baselines
    <3>0. <<>> \in Seq(Values)  OBVIOUS
    <3>1. PICK b \in Seq(Values) : b = <<v>>  BY <1>6, <3>0, AppendedIs
    <3>2. r = [run EXCEPT !.best = b]  BY <2>1, <3>1
    <3> QED BY <1>1, <3>1, <3>2 DEF RunType
  <2>4. Matches05(r) => Matches05(run)  BY <2>3 DEF Matches05
  <2>5. /\ driver' = driver /\ run'.best = <<v>> /\ run'.experiment = run.experiment
        /\ run'.baselines = run.baselines
    BY <2>2, <2>3, <2>4, ReviseIs, RunIs
  <2>6. fired \subseteq fired' /\ \A x : <<"03", x>> \in fired' <=> <<"03", x>> \in fired
    BY <2>2
  <2>7. TokenOK'  BY <1>2, <2>5, <2>6, LiveStays, TokenStays DEF XInv, Ids
  <2>8. \A x : ~Half(x)  BY <1>1, <1>9 DEF BestOK, Half, KeptAt
  <2>9. \A x : Half(x)' <=> x = l
    <3>1. <<"04c_id", l>> \notin fired  BY <1>1, <2>2 DEF BestOK
    <3> QED BY <2>2, <2>8, <3>1 DEF Half
  <2>10. BestOK'
    <3>1. run'.best # <<>> /\ Len(run'.best) = 1 /\ Head(run'.best) = v  BY <2>5
    <3>2. \A i \in DOMAIN run'.best : NoWorse(run.best[i])'
      <4>1. PICK b \in ToSet(run.baselines) : v < b  BY <1>6 DEF Beats
      <4>2. v \in Nat /\ b \in Nat
        <5>1. b \in Values  BY <1>1, <4>1 DEF ToSet
        <5> QED BY <1>6, <5>1, AutoresearchConstantsOK
      <4>3. v <= b /\ b \in ToSet(run'.baselines)  BY <2>5, <4>1, <4>2
      <4>4. \A i \in DOMAIN run'.best : run'.best[i] = v  BY <2>5
      <4> QED BY <4>3, <4>4 DEF NoWorse
    <3>3. \A x : <<"04c_value", x>> \in fired' => KeptAt(x)'  BY <1>1, <1>4, <1>7, <2>2 DEF BestOK
    <3>4. \A x : <<"04c_id", x>> \in fired' => <<"04c_value", x>> \in fired'
      BY <1>1, <2>2 DEF BestOK
    <3>5. Head(run'.best) = ValueOf(l)'  BY <1>4, <1>5, <1>7, <3>1
    <3>6. run'.experiment # None => KeptAt(run.experiment)'
      <4>1. PICK x : x = run.experiment  OBVIOUS
      <4>2. x # None => KeptAt(x)'  BY <1>1, <1>7, <4>1 DEF BestOK
      <4>3. x = run'.experiment  BY <2>5, <4>1
      <4> QED BY <4>2, <4>3 DEF KeptAt, Kept
    <3>7. \A x \in DOMAIN loops' : LoopOK(loops[x])'  BY <1>8, <2>5
    <3>8. run'.baselines # <<>> /\ ~(\A x : ~Half(x)')  BY <1>1, <1>4, <2>5, <2>9
    <3> QED BY <2>9, <3>1, <3>2, <3>3, <3>4, <3>5, <3>6, <3>7, <3>8 DEF BestOK, Ids
  <2> QED BY <1>2, <2>2, <2>3, <2>6, <2>7, <2>10, RunStep DEF XInv, Types
<1>10. CASE PromoteId(l)
  <2>1. PICK r : r = [run EXCEPT !.experiment = l]  OBVIOUS
  <2>2. Revise(r) /\ fired' = fired \cup {<<"04c_id", l>>} /\ Half(l)
    BY <1>10, <2>1 DEF PromoteId, Fires
  <2>3. /\ r \in RunType /\ r.iteration = run.iteration /\ r.limit = run.limit
        /\ r.status = run.status /\ r.pending = run.pending /\ r.best = run.best
        /\ r.experiment = l /\ r.completed = run.completed
        /\ r.baselines = run.baselines
    BY <2>1, RunIs DEF RunType
  <2>4. Matches05(r) => Matches05(run)  BY <2>3 DEF Matches05
  <2>5. /\ driver' = driver /\ run'.best = run.best /\ run'.experiment = l
        /\ run'.baselines = run.baselines
    BY <2>2, <2>3, <2>4, ReviseIs, RunIs
  <2>6. fired \subseteq fired' /\ \A x : <<"03", x>> \in fired' <=> <<"03", x>> \in fired
    BY <2>2
  <2>7. TokenOK'  BY <1>2, <2>5, <2>6, LiveStays, TokenStays DEF XInv, Ids
  <2>8. \A x : ~Half(x)'
    <3>1. \A x : Half(x) => x = l  BY <1>1, <2>2 DEF BestOK
    <3> QED BY <2>2, <3>1 DEF Half
  <2>9. BestOK'
    <3>1. \A x : <<"04c_value", x>> \in fired' => KeptAt(x)'  BY <1>1, <1>7, <2>2 DEF BestOK
    <3>2. \A x : <<"04c_id", x>> \in fired' => <<"04c_value", x>> \in fired'
      BY <1>1, <2>2 DEF BestOK, Half
    <3>3. Head(run.best) = ValueOf(l)' /\ KeptAt(l)'  BY <1>1, <1>4, <1>7, <2>2 DEF BestOK
    <3>4. KeptAt(run.experiment)'  BY <2>5, <3>3 DEF KeptAt, Kept
    <3>5. Credited(run.experiment, Head(run.best))'
      <4>1. Credited(l, Head(run.best))'
        <5>1. PICK w : w = Head(run.best)  OBVIOUS
        <5>2. l # None
          <6>1. loops \in Seq(LoopType)  BY RunIs
          <6> QED BY <6>1 DEF Ids, None
        <5>3. Credited(l, w)'  BY <3>3, <5>1, <5>2 DEF Credited
        <5> QED BY <2>5, <5>1, <5>3 DEF Credited, KeptAt, Kept, ValueOf
      <4> QED BY <2>5, <4>1 DEF Credited, KeptAt, Kept, ValueOf
    <3>6. \A x \in DOMAIN loops' : LoopOK(loops[x])'  BY <1>8, <2>5
    <3>7. \A i \in DOMAIN run'.best : NoWorse(run.best[i])'  BY <1>1, <2>5 DEF BestOK, NoWorse
    <3> QED BY <1>1, <2>5, <2>8, <3>1, <3>2, <3>4, <3>5, <3>6, <3>7 DEF BestOK, Ids
  <2> QED BY <1>2, <2>2, <2>3, <2>6, <2>7, <2>9, RunStep DEF XInv, Types
<1> QED BY <1>9, <1>10

\* The baseline is appended: it is the best value only if there was none.
LEMMA BaselineStep ==
  ASSUME XInv, NEW l \in Ids, EmitBaseline(l)
  PROVE  XInv'
<1>1. /\ BestOK /\ TokenOK /\ run \in RunType /\ run.baselines \in Seq(Values)
      /\ run.best \in Seq(Values) /\ run.limit.baselines \in Seq(Values)
  BY RunIs DEF XInv
<1>0. PICK base \in Values : base = run.limit.baselines[Len(run.baselines) + 1]
  BY <1>1 DEF EmitBaseline
<1>2. PICK b : b = Appended(run.best, base)  OBVIOUS
<1>2a. PICK old \in Seq(Values) : old = run.baselines  BY <1>1
<1>2b. PICK bs : bs = Append(old, base)  OBVIOUS
<1>3. /\ bs \in Seq(Values) /\ bs # <<>> /\ (old = <<>> => Head(bs) = base)
      /\ old # <<>> => Head(bs) = Head(old) /\ Len(old) # 0
      /\ Len(bs) = Len(old) + 1 /\ Len(old) \in Nat /\ Len(bs) \in DOMAIN bs
      /\ bs[Len(bs)] = base /\ DOMAIN old \subseteq DOMAIN bs
      /\ \A i \in DOMAIN old : bs[i] = old[i]
  BY <1>2b
<1>3a. /\ bs # <<>> /\ (run.baselines = <<>> => Head(bs) = base)
       /\ run.baselines # <<>> => Head(bs) = Head(run.baselines)
       /\ bs \in Seq(Values) /\ bs = Append(run.baselines, base)
  BY <1>2a, <1>2b, <1>3
<1>3b. ToSet(run.baselines) \subseteq ToSet(bs) /\ base \in ToSet(bs)
  <2>1. ToSet(old) \subseteq ToSet(bs) /\ base \in ToSet(bs)  BY <1>3 DEF ToSet
  <2> QED BY <1>2a, <2>1
<1>3c. Len(bs) = Len(run.baselines) + 1 /\ Len(run.baselines) \in Nat  BY <1>2a, <1>3
<1>3d. Len(bs) = 1 => run.baselines = <<>>
  <2>1. Len(bs) = 1 => old = <<>>  BY <1>3
  <2> QED BY <1>2a, <2>1
<1>4. PICK status \in {"none", "active", "stopped"} :
        status = IF run.status = "none" THEN "active" ELSE run.status
  BY <1>1 DEF RunType
<1>5. PICK r : r = [run EXCEPT !.status = status, !.pending = TRUE, !.best = b, !.baselines = bs]
  OBVIOUS
<1>6. /\ b \in Seq(Values) /\ b # <<>> /\ (run.best = <<>> => b = <<base>>)
      /\ run.best # <<>> => Head(b) = Head(run.best)
      /\ \A i \in DOMAIN b : b[i] = base \/ (i \in DOMAIN run.best /\ b[i] = run.best[i])
  <2>1. PICK s \in Seq(Values) : s = run.best  BY <1>1
  <2>2. b = Appended(s, base)  BY <1>2, <2>1
  <2>3. /\ Appended(s, base) \in Seq(Values) /\ Appended(s, base) # <<>>
        /\ s = <<>> => Appended(s, base) = <<base>>
        /\ s # <<>> => Head(Appended(s, base)) = Head(s)
        /\ \A i \in DOMAIN Appended(s, base) :
             \/ Appended(s, base)[i] = base
             \/ i \in DOMAIN s /\ Appended(s, base)[i] = s[i]
    BY <1>1, AppendedIs
  <2> QED BY <2>1, <2>2, <2>3
<1>7. /\ r \in RunType /\ r.iteration = run.iteration /\ r.limit = run.limit /\ r.status = status
      /\ r.best = b /\ r.experiment = run.experiment /\ r.completed = run.completed
      /\ r.baselines = bs
  <2>1. bs \in Seq(Values) /\ b \in Seq(Values)  BY <1>3a, <1>6
  <2> QED BY <1>1, <1>4, <1>5, <2>1 DEF RunType
<1>8. Revise(r) /\ UNCHANGED <<loops, fired, woken>> /\ Len(bs) <= Len(run.limit.baselines)
  <2>1. r = BaselineTriples(run, base)
    <3>1. bs = Append(run.baselines, base)  BY <1>3a
    <3> QED BY <1>1, <1>2, <3>1, <1>4, <1>5 DEF BaselineTriples, RunType
  <2>2. Len(run.baselines) < Len(run.limit.baselines) /\ Len(run.limit.baselines) \in Nat
    BY <1>1 DEF EmitBaseline
  <2>3. Len(bs) <= Len(run.limit.baselines)  BY <1>3c, <2>2
  <2> QED BY <1>0, <2>1, <2>3 DEF EmitBaseline
<1>9. /\ driver' = driver \/ driver' = Append(driver, r.iteration + 1)
      /\ run'.baselines = bs /\ run'.best = b /\ run'.experiment = run.experiment
  BY <1>7, <1>8, ReviseIs, RunIs
<1>10. TokenOK'
  <2>1. bs # <<>>  BY <1>3a
  <2>2. ASSUME Len(bs) <= 1 PROVE Len(driver') <= 1 /\ \A x \in Ids : ~Live(x)'
    <3>1. run.baselines = <<>>  BY <1>3a, <1>3c, <1>3d, <2>2
    <3>2. driver = <<>> /\ \A x \in Ids : ~Live(x)  BY <1>1, <3>1 DEF TokenOK
    <3>3. \A x \in Ids : ~Live(x)'  BY <1>8, <3>2, LiveStays
    <3>4. PICK k \in Nat : k = r.iteration + 1  BY <1>7, RunIs
    <3>5. driver' = driver \/ driver' = Append(driver, k)  BY <1>9, <3>4
    <3>6. driver = <<>> /\ Append(driver, k) = <<k>>  BY <3>2
    <3>7. Len(<<>>) = 0 /\ Len(<<k>>) = 1  OBVIOUS
    <3>8. driver' = <<>> \/ driver' = <<k>>  BY <3>5, <3>6
    <3>9. 0 <= 1 /\ 1 <= 1  OBVIOUS
    <3>10. Len(driver') <= 1  BY <3>7, <3>8, <3>9, Zenon
    <3> QED BY <3>3, <3>10
  <2>3. DOMAIN loops' = Ids  BY <1>8 DEF Ids
  <2> QED BY <1>9, <2>1, <2>2, <2>3 DEF TokenOK, Ids
<1>11. BestOK'
  <2>0. Added  BY <1>3a, <1>3b, <1>9 DEF Added
  <2>1. Grown  BY <1>8 DEF Grown, Ids
  <2>2. \A x : KeptAt(x) => KeptAt(x)' /\ ValueOf(x)' = ValueOf(x)  BY <2>1, KeptStays
  <2>3. ASSUME NEW x \in DOMAIN loops' PROVE LoopOK(loops[x])'
    <3>1. PICK a : a = loops'[x]  OBVIOUS
    <3>2. LoopOK(a)  BY <1>1, <1>8, <3>1 DEF BestOK, Ids
    <3>4. LoopOK(a)'  BY <2>1, <2>0, <3>2, LoopStays
    <3> QED BY <3>1, <3>4 DEF LoopOK
  <2>4. \A x : KeptAt(x) => run.best # <<>>
    <3> SUFFICES ASSUME NEW x, KeptAt(x) PROVE run.best # <<>>  OBVIOUS
    <3>1. LoopOK(loops[x]) /\ loops[x].measured # <<>>  BY <1>1 DEF BestOK, KeptAt, Kept
    <3>2. run.baselines # <<>>  BY <3>1 DEF LoopOK
    <3> QED BY <1>1, <3>2 DEF BestOK
  <2>5. \A i \in DOMAIN run'.best : NoWorse(run.best[i])'
    <3> SUFFICES ASSUME NEW i \in DOMAIN b PROVE \E c \in ToSet(bs) : b[i] <= c
      BY <1>9 DEF NoWorse
    <3>1. CASE b[i] = base
      <4>1. base <= base  BY AutoresearchConstantsOK
      <4> QED BY <1>3b, <3>1, <4>1
    <3>2. CASE i \in DOMAIN run.best /\ b[i] = run.best[i]
      <4>1. NoWorse(run.best[i])  BY <1>1, <3>2 DEF BestOK
      <4> QED BY <1>3b, <3>2, <4>1 DEF NoWorse
    <3> QED BY <1>6, <3>1, <3>2
  <2>6. Len(bs) = 1 => Len(b) = 1
    <3> SUFFICES ASSUME Len(bs) = 1 PROVE Len(b) = 1  OBVIOUS
    <3>1. run.baselines = <<>>  BY <1>3d
    <3>2. b = <<base>>  BY <1>1, <1>6, <3>1 DEF BestOK
    <3> QED BY <3>2
  <2>7. \A x : Half(x)' <=> Half(x)  BY <1>8 DEF Half
  <2>8. \A x : Half(x) => Head(b) = ValueOf(x)'
    BY <1>1, <1>6, <2>2, <2>4 DEF BestOK, Half
  <2>9. run'.experiment # None => KeptAt(run.experiment)'
    <3>1. PICK x : x = run.experiment  OBVIOUS
    <3>2. x # None => KeptAt(x)'  BY <1>1, <2>2, <3>1 DEF BestOK
    <3>3. x = run'.experiment  BY <1>9, <3>1
    <3> QED BY <3>2, <3>3 DEF KeptAt, Kept
  <2>10. ASSUME \A x : ~Half(x) PROVE Credited(run.experiment, Head(run.best))'
    <3>1. PICK x, v : x = run.experiment /\ v = Head(b)  OBVIOUS
    <3>2. Credited(x, v)'
      <4>1. CASE run.best = <<>>
        <5>1. x = None  BY <1>1, <2>4, <3>1, <4>1 DEF BestOK
        <5>2. v = base  BY <1>6, <3>1, <4>1
        <5>3. run.baselines = <<>>  BY <1>1, <4>1 DEF BestOK
        <5>4. run'.baselines # <<>> /\ Head(run'.baselines) = base  BY <1>3a, <1>9, <5>3
        <5> QED BY <5>1, <5>2, <5>4 DEF Credited
      <4>2. CASE run.best # <<>>
        <5>1. run.baselines # <<>>  BY <1>1, <4>2 DEF BestOK
        <5>2. Credited(x, v)  BY <1>1, <1>6, <2>10, <3>1, <4>2, <5>1 DEF BestOK
        <5> QED BY <2>0, <2>1, <5>2, CreditedStays
      <4> QED BY <4>1, <4>2
    <3>4. x = run'.experiment /\ v = Head(run'.best)  BY <1>9, <3>1
    <3> QED BY <3>2, <3>4 DEF Credited, KeptAt, Kept, ValueOf
  <2>11. /\ \A x : <<"04c_value", x>> \in fired' => KeptAt(x)'
         /\ \A x : <<"04c_id", x>> \in fired' => <<"04c_value", x>> \in fired'
    BY <1>1, <1>8, <2>2 DEF BestOK
  <2>12. (run'.best = <<>>) <=> (run'.baselines = <<>>)  BY <1>3a, <1>6, <1>9
  <2>13. \A x, y : Half(x)' /\ Half(y)' => x = y  BY <1>1, <2>7 DEF BestOK
  <2> QED BY <1>9, <2>3, <2>5, <2>6, <2>7, <2>8, <2>9, <2>10, <2>11, <2>12, <2>13 DEF BestOK, Ids
<1>12. status = "stopped" => run.status = "stopped"  BY <1>4
<1> QED BY <1>7, <1>8, <1>10, <1>11, <1>12, RunStep DEF XInv, Types

-----------------------------------------------------------------------------
\* A new loop gets the next id.
LEMMA SpawnIs ==
  ASSUME XInv, NEW role \in RoleNames, Spawn(role), NEW n, n = Len(loops) + 1
  PROVE  /\ loops' \in Seq(LoopType) /\ DOMAIN loops' = Ids \cup {n} /\ n \notin Ids
         /\ loops'[n] = NewLoop(role) /\ \A x \in Ids : loops'[x] = loops[x]
         /\ Grown /\ Roles(role)' = Roles(role) \cup {n}
         /\ \A q : q # role => Roles(q)' = Roles(q)
<1>1. loops \in Seq(LoopType)  BY RunIs
<1>2. PICK new : new = NewLoop(role)  OBVIOUS
<1>3. new \in LoopType /\ new.role = role
  BY <1>2 DEF NewLoop, LoopType, None, NoRollup, RollupType, Actions
<1>4. loops' = Append(loops, new)  BY <1>2 DEF Spawn
<1>5. /\ loops' \in Seq(LoopType) /\ DOMAIN loops' = Ids \cup {n} /\ n \notin Ids
      /\ loops'[n] = new
  BY <1>1, <1>3, <1>4 DEF Ids
<1>6. \A x \in Ids : loops'[x] = loops[x]  BY <1>1, <1>3, <1>4 DEF Ids
<1>7. Grown  BY <1>5, <1>6 DEF Grown
<1>8. Roles(role)' = Roles(role) \cup {n} /\ \A q : q # role => Roles(q)' = Roles(q)
  BY <1>3, <1>5, <1>6 DEF Roles, Is, Ids
<1> QED BY <1>2, <1>5, <1>6, <1>7, <1>8

\* A new loop has measured nothing and emitted nothing.
LEMMA SpawnKeeps ==
  ASSUME XInv, NEW role \in RoleNames, Spawn(role), SameHalf, UNCHANGED woken,
         run' \in RunType, driver' \in Seq(Nat), run'.best = run.best, run'.limit = run.limit,
         run'.experiment = run.experiment, run'.completed = run.completed,
         run'.baselines = run.baselines
  PROVE  Types' /\ BestOK'
<1>1. PICK n : n = Len(loops) + 1  OBVIOUS
<1>2. /\ loops' \in Seq(LoopType) /\ DOMAIN loops' = Ids \cup {n} /\ n \notin Ids
      /\ loops'[n] = NewLoop(role) /\ \A x \in Ids : loops'[x] = loops[x]
      /\ Grown /\ Roles("execute") \subseteq Roles("execute")'
  BY <1>1, SpawnIs
<1>3. Types'
  <2>1. \A x \in DOMAIN loops' : /\ loops'[x].action \in Allowlist[loops'[x].role] \cup {"none"}
                                  /\ loops'[x].seen \in Values \cup {None}
    <3> SUFFICES ASSUME NEW x \in DOMAIN loops'
                 PROVE  /\ loops'[x].action \in Allowlist[loops'[x].role] \cup {"none"}
                        /\ loops'[x].seen \in Values \cup {None}
      OBVIOUS
    <3>1. CASE x \in Ids  BY <1>2, <3>1 DEF XInv, Types
    <3>2. CASE x = n
      <4>1. loops'[x].action = "none" /\ loops'[x].seen = None  BY <1>2, <3>2 DEF NewLoop
      <4> QED BY <4>1
    <3> QED BY <1>2, <3>1, <3>2
  <2>2. Len(run'.baselines) <= Len(run'.limit.baselines)  BY DEF XInv, Types
  <2>3. run'.completed \subseteq Roles("execute")'  BY <1>2 DEF XInv, Types
  <2> QED BY <1>2, <2>1, <2>2, <2>3 DEF XInv, Types, Ids
<1>4. BestOK'
  <2>1. ASSUME NEW x \in DOMAIN loops' PROVE LoopOK(loops[x])'
    <3>1. PICK a : a = loops'[x]  OBVIOUS
    <3>2. LoopOK(a)
      <4>1. CASE x \in Ids  BY <1>2, <3>1, <4>1 DEF XInv, BestOK
      <4>2. CASE x = n
        <5>1. a.seen = None /\ a.measured = <<>> /\ a.rollup = NoRollup
          BY <1>2, <3>1, <4>2 DEF NewLoop
        <5> QED BY <5>1 DEF LoopOK
      <4> QED BY <1>2, <4>1, <4>2
    <3>3. LoopOK(a)'  BY <1>2, <3>2, SameAdded, LoopStays
    <3> QED BY <3>1, <3>3 DEF LoopOK
  <2> QED BY <1>2, <2>1, BestStays DEF XInv
<1> QED BY <1>3, <1>4

\* The loops of a role are finitely many.
LEMMA RolesFinite ==
  ASSUME XInv, NEW role
  PROVE  /\ IsFiniteSet(Roles(role)) /\ Cardinality(Roles(role)) \in Nat
         /\ Roles(role) \subseteq Ids /\ IsFiniteSet(Ids)
<1>1. loops \in Seq(LoopType)  BY RunIs
<1>2. IsFiniteSet(Ids)  BY <1>1, FS_Interval DEF Ids
<1>3. Roles(role) \subseteq Ids  BY DEF Roles
<1> QED BY <1>2, <1>3, FS_Subset, FS_CardinalityType

\* One element more.
LEMMA OneMore ==
  ASSUME NEW S, IsFiniteSet(S), NEW x, x \notin S
  PROVE  Cardinality(S \cup {x}) = Cardinality(S) + 1
BY FS_AddElement, FS_CardinalityType

\* Rules that spawn a loop that edits nothing.
LEMMA QuietSpawn ==
  ASSUME XInv, NEW role \in {"reviewer", "synthesize"}, Spawn(role), UNCHANGED <<run, driver, woken>>,
         NEW rule \in {"07", "09", "05_synthesize"}, NEW l, fired' = fired \cup {<<rule, l>>}
  PROVE  XInv'
<1>1. /\ fired \subseteq fired' /\ SameHalf
      /\ \A x : <<"03", x>> \in fired' <=> <<"03", x>> \in fired
  BY OtherRule
<1>2. PICK n : n = Len(loops) + 1  OBVIOUS
<1>3. role \in RoleNames  BY DEF RoleNames
<1>4. /\ DOMAIN loops' = Ids \cup {n} /\ loops'[n] = NewLoop(role)
      /\ \A x \in Ids : loops'[x] = loops[x]
      /\ \A q : q # role => Roles(q)' = Roles(q)
  BY <1>2, <1>3, SpawnIs
<1>5. Types' /\ BestOK'  BY <1>1, <1>3, SpawnKeeps, RunIs
<1>6. CountOK' /\ HandedOK'  BY <1>1, <1>4, CountStays, HandedStays DEF XInv
<1>7. TokenOK'
  <2>1. ~Live(n)'  BY <1>4 DEF Live, NewLoop, Decided, Is
  <2>2. \A x \in Ids : Live(x)' => Live(x)
    BY <1>1, <1>4 DEF Live, Running, Decided, Is
  <2> QED BY <1>4, <2>1, <2>2, TokenStays DEF XInv
<1> QED BY <1>5, <1>6, <1>7 DEF XInv

\* 07 and 09.
LEMMA HandOnStep ==
  ASSUME XInv, NEW l \in Ids, SynthesizeToReviewer(l) \/ Resynthesize(l)
  PROVE  XInv'
<1>1. PICK role \in {"reviewer", "synthesize"} : Spawn(role)
  BY DEF SynthesizeToReviewer, Resynthesize
<1>2. PICK rule \in {"07", "09"} : fired' = fired \cup {<<rule, l>>}
  BY DEF SynthesizeToReviewer, Resynthesize, Fires
<1>3. UNCHANGED <<run, driver, woken>>  BY DEF SynthesizeToReviewer, Resynthesize
<1> QED BY <1>1, <1>2, <1>3, QuietSpawn

\* 03: the token passes from the propose loop to its execute loop.
LEMMA ExecuteStep ==
  ASSUME XInv, NEW l \in Ids, ProposeToExecute(l)
  PROVE  XInv'
<1>1. /\ Decided(l, "propose", "measure") /\ Spawn("execute") /\ UNCHANGED <<run, driver, woken>>
      /\ <<"03", l>> \notin fired /\ fired' = fired \cup {<<"03", l>>}
  BY DEF ProposeToExecute, Fires
<1>2. SameHalf  BY <1>1 DEF SameHalf
<1>3. PICK n : n = Len(loops) + 1  OBVIOUS
<1>4. "execute" \in RoleNames /\ "propose" # "execute"  BY DEF RoleNames
<1>5. /\ DOMAIN loops' = Ids \cup {n} /\ n \notin Ids /\ loops'[n] = NewLoop("execute")
      /\ \A x \in Ids : loops'[x] = loops[x]
      /\ Roles("execute")' = Roles("execute") \cup {n} /\ Roles("propose")' = Roles("propose")
  BY <1>1, <1>3, <1>4, SpawnIs
<1>6. Types' /\ BestOK'  BY <1>1, <1>2, <1>4, SpawnKeeps, RunIs
<1>7. CountOK'  BY <1>1, <1>5, CountStays DEF XInv
<1>8. HandedOK'
  <2>1. l \in Roles("propose") /\ l \notin Handed  BY <1>1 DEF Roles, Handed, Decided
  <2>2. Handed' = Handed \cup {l}  BY <1>1, <1>5, <2>1 DEF Handed
  <2>3. Handed \subseteq Roles("propose")  BY DEF Handed
  <2>4. IsFiniteSet(Handed)  BY <2>3, RolesFinite, FS_Subset
  <2>5. Cardinality(Handed \cup {l}) = Cardinality(Handed) + 1  BY <2>1, <2>4, OneMore
  <2>6. n \notin Roles("execute") /\ IsFiniteSet(Roles("execute"))  BY <1>5, RolesFinite
  <2>7. Cardinality(Roles("execute") \cup {n}) = Cardinality(Roles("execute")) + 1
    BY <2>6, OneMore
  <2>8. \A x : <<"03", x>> \in fired' => x \in Roles("propose")'
    BY <1>1, <1>5, <2>1 DEF XInv, HandedOK
  <2> QED BY <1>5, <2>2, <2>5, <2>7, <2>8 DEF XInv, HandedOK
<1>9. TokenOK'
  <2>1. Live(l)  BY <1>1 DEF Live
  <2>2. ~Live(l)'
    BY <1>1, <1>5 DEF Live, Running, Decided, Is
  <2>3. \A x \in Ids : Live(x)' => Live(x)
    BY <1>1, <1>5 DEF Live, Running, Decided, Is
  <2>4. run.baselines # <<>> /\ (Len(run.baselines) <= 1 => driver = <<>> /\ \A x \in Ids : Live(x) => x = l)
    BY <2>1 DEF XInv, TokenOK
  <2>5. Len(run.baselines) <= 1 => \A x \in DOMAIN loops' : Live(x)' => x = n
    BY <1>5, <2>2, <2>3, <2>4
  <2> QED BY <1>1, <1>5, <2>4, <2>5 DEF XInv, TokenOK, Ids
<1> QED BY <1>6, <1>7, <1>8, <1>9 DEF XInv

\* Rule 05 is done with the firing at the head of its queue.
LEMMA HeadDone ==
  ASSUME XInv, driver # <<>>, driver' = Tail(driver), run'.iteration = run.iteration,
         run'.baselines = run.baselines
  PROVE  /\ driver' \in Seq(Nat) /\ Dispatched \in Nat /\ Head(driver) = Dispatched + 1
         /\ Dispatched' = Dispatched + 1 /\ Len(driver') <= run'.iteration
         /\ \A i \in DOMAIN driver' : driver'[i] = Dispatched' + i
         /\ run.baselines # <<>> /\ (Len(run.baselines) <= 1 => driver' = <<>>)
<1>1. driver \in Seq(Nat) /\ CountOK /\ run.iteration \in Nat  BY RunIs DEF XInv
<1>2. /\ driver' \in Seq(Nat) /\ Len(driver') = Len(driver) - 1 /\ Len(driver) \in Nat \ {0}
      /\ Len(driver) <= run.iteration
  BY <1>1 DEF CountOK
<1>3. PICK d : d = Dispatched  OBVIOUS
<1>4. d \in Nat /\ Dispatched' = d + 1 /\ Len(driver') <= run'.iteration
  BY <1>1, <1>2, <1>3 DEF Dispatched
<1>5. Head(driver) = d + 1
  <2>1. 1 \in DOMAIN driver /\ Head(driver) = driver[1]  BY <1>1, <1>2
  <2> QED BY <1>1, <1>3, <1>4, <2>1 DEF CountOK
<1>6. ASSUME NEW i \in DOMAIN driver' PROVE driver'[i] = (d + 1) + i
  <2>1. i \in Nat /\ i + 1 \in DOMAIN driver /\ driver'[i] = driver[i + 1]  BY <1>1, <1>2
  <2>2. driver[i + 1] = d + (i + 1)  BY <1>1, <1>3, <2>1 DEF CountOK
  <2> QED BY <1>4, <2>1, <2>2
<1>7. run.baselines # <<>> /\ (Len(run.baselines) <= 1 => Len(driver) <= 1)
  BY DEF XInv, TokenOK
<1>8. ASSUME Len(run.baselines) <= 1 PROVE driver' = <<>>
  <2>1. Len(driver') = 0  BY <1>2, <1>7, <1>8
  <2> QED BY <1>2, <2>1
<1> QED BY <1>2, <1>3, <1>4, <1>5, <1>6, <1>7, <1>8

\* 05 up to the cap: the token passes from the queue to a propose loop.
LEMMA ProposeStep ==
  ASSUME XInv, Propose
  PROVE  XInv'
<1>1. /\ driver # <<>> /\ driver' = Tail(driver) /\ UNCHANGED <<run, fired, woken>>
      /\ Spawn("propose") /\ run \in RunType /\ run.limit.cap \in Nat /\ CountOK
  BY RunIs DEF Propose, Cleared, XInv
<1>2. PICK d : d = Dispatched  OBVIOUS
<1>3. /\ driver' \in Seq(Nat) /\ d \in Nat /\ Head(driver) = d + 1
      /\ Dispatched' = d + 1 /\ Len(driver') <= run'.iteration
      /\ \A i \in DOMAIN driver' : driver'[i] = (d + 1) + i
      /\ run.baselines # <<>> /\ (Len(run.baselines) <= 1 => driver' = <<>>)
  BY <1>1, <1>2, HeadDone
<1>4. d + 1 <= run.limit.cap  BY <1>3 DEF Propose, MayPropose
<1>5. PICK n : n = Len(loops) + 1  OBVIOUS
<1>6. "propose" \in RoleNames /\ "execute" # "propose"  BY DEF RoleNames
<1>7. /\ DOMAIN loops' = Ids \cup {n} /\ n \notin Ids /\ loops'[n] = NewLoop("propose")
      /\ \A x \in Ids : loops'[x] = loops[x]
      /\ Roles("propose")' = Roles("propose") \cup {n} /\ Roles("execute")' = Roles("execute")
  BY <1>1, <1>5, <1>6, SpawnIs
<1>8. SameHalf  BY <1>1 DEF SameHalf
<1>9. Types' /\ BestOK'  BY <1>1, <1>3, <1>6, <1>8, SpawnKeeps
<1>10. CountOK'
  <2>1. n \notin Roles("propose") /\ IsFiniteSet(Roles("propose"))  BY <1>7, RolesFinite
  <2>2. Cardinality(Roles("propose") \cup {n}) = Cardinality(Roles("propose")) + 1
    BY <2>1, OneMore
  <2>3. Cardinality(Roles("propose")) = d  BY <1>1, <1>2, <1>3, <1>4 DEF CountOK
  <2>4. Cardinality(Roles("propose"))' = d + 1  BY <1>7, <2>2, <2>3
  <2>5. run.status # "stopped"  BY <1>1, <1>2, <1>3, <1>4 DEF CountOK
  <2> QED BY <1>1, <1>3, <1>4, <2>4, <2>5 DEF CountOK
<1>11. HandedOK'
  <2>1. <<"03", n>> \notin fired  BY <1>7 DEF XInv, HandedOK, Roles
  <2>2. Handed' = Handed  BY <1>1, <1>7, <2>1 DEF Handed
  <2> QED BY <1>1, <1>7, <2>2 DEF XInv, HandedOK
<1>12. TokenOK'
  <2>1. \A x \in Ids : Live(x)' => Live(x)
    BY <1>1, <1>7 DEF Live, Running, Decided, Is
  <2>2. Len(run.baselines) <= 1 => \A x \in Ids : ~Live(x)
    BY <1>1 DEF XInv, TokenOK
  <2>3. Len(run.baselines) <= 1 => \A x \in DOMAIN loops' : Live(x)' => x = n
    BY <1>7, <2>1, <2>2
  <2> QED BY <1>1, <1>3, <1>7, <2>3 DEF XInv, TokenOK, Ids
<1> QED BY <1>9, <1>10, <1>11, <1>12 DEF XInv

\* 05 after the cap: a loop that rolls up.
LEMMA SynthesizeStep ==
  ASSUME XInv, Synthesize
  PROVE  XInv'
<1>1. PICK x : fired' = fired \cup {<<"05_synthesize", x>>}  BY DEF Synthesize
<1>2. Spawn("synthesize") /\ UNCHANGED <<run, driver, woken>>  BY DEF Synthesize
<1> QED BY <1>1, <1>2, QuietSpawn

\* 05 after the cap: the run stops, all experiments have been dispatched.
LEMMA StopStep ==
  ASSUME XInv, StopRun
  PROVE  XInv'
<1>1. /\ driver # <<>> /\ driver' = Tail(driver) /\ UNCHANGED <<loops, fired, woken>>
      /\ run' = [run EXCEPT !.status = "stopped"]
      /\ run \in RunType /\ run.limit.cap \in Nat /\ CountOK
  BY RunIs DEF StopRun, Cleared, XInv
<1>2. /\ run' \in RunType /\ run'.best = run.best /\ run'.limit = run.limit
      /\ run'.experiment = run.experiment /\ run'.completed = run.completed
      /\ run'.baselines = run.baselines /\ run'.iteration = run.iteration
  BY <1>1 DEF RunType
<1>3. PICK d : d = Dispatched  OBVIOUS
<1>4. /\ driver' \in Seq(Nat) /\ d \in Nat /\ Head(driver) = d + 1
      /\ Dispatched' = d + 1 /\ Len(driver') <= run'.iteration
      /\ \A i \in DOMAIN driver' : driver'[i] = (d + 1) + i
      /\ run.baselines # <<>> /\ (Len(run.baselines) <= 1 => driver' = <<>>)
  BY <1>1, <1>2, <1>3, HeadDone
<1>5. d + 1 > run.limit.cap  BY <1>1, <1>4 DEF StopRun, MayPropose
<1>6. \A r : Roles(r)' = Roles(r)  BY <1>1 DEF Roles, Is, Ids
<1>7. Types'
  <2>1. run'.completed \subseteq Roles("execute")'  BY <1>2, <1>6 DEF XInv, Types
  <2> QED BY <1>1, <1>2, <1>4, <2>1 DEF XInv, Types, Ids
<1>8. BestOK'
  <2>1. SameHalf /\ Grown  BY <1>1 DEF SameHalf, Grown, Ids
  <2>2. ASSUME NEW x \in Ids PROVE LoopOK(loops[x])'
    <3>1. PICK a : a = loops'[x]  OBVIOUS
    <3>2. LoopOK(a)  BY <1>1, <3>1 DEF XInv, BestOK
    <3>3. LoopOK(a)'  BY <1>2, <2>1, <3>2, SameAdded, LoopStays
    <3> QED BY <3>1, <3>3 DEF LoopOK
  <2> QED BY <1>1, <1>2, <2>1, <2>2, BestStays DEF XInv, Ids
<1>9. CountOK'
  <2>1. Cardinality(Roles("propose")) = run.limit.cap  BY <1>1, <1>3, <1>4, <1>5 DEF CountOK
  <2> QED BY <1>1, <1>2, <1>4, <1>5, <1>6, <2>1 DEF CountOK
<1>10. HandedOK'  BY <1>1, <1>6, HandedStays DEF XInv
<1>11. TokenOK'
  <2>1. \A x : Live(x)' <=> Live(x)  BY <1>1 DEF Live, Running, Decided, Is
  <2> QED BY <1>1, <1>2, <1>4, <2>1 DEF XInv, TokenOK, Ids
<1> QED BY <1>7, <1>8, <1>9, <1>10, <1>11 DEF XInv

-----------------------------------------------------------------------------
\* The run that rule 01 opened.
LEMMA XInvInit == Init => XInv
<1> SUFFICES ASSUME Init PROVE XInv  OBVIOUS
<1>1. PICK new : new = NewLoop("baseline")  OBVIOUS
<1>2. new \in LoopType /\ new.role = "baseline" /\ new.action = "none" /\ new.seen = None
      /\ new.measured = <<>> /\ new.rollup = NoRollup
  BY <1>1 DEF NewLoop, LoopType, RoleNames, Actions, None, NoRollup, RollupType
<1>3. loops = <<new>> /\ driver = <<>> /\ fired = {} /\ woken = {}  BY <1>1 DEF Init
<1>4. /\ loops \in Seq(LoopType) /\ Ids = {1} /\ loops[1] = new
  BY <1>2, <1>3 DEF Ids
<1>5. PICK limit \in Limits :
        run = [limit |-> limit, status |-> "none", pending |-> FALSE, iteration |-> 0,
               best |-> <<>>, experiment |-> None, completed |-> {}, outcome |-> <<>>,
               phase |-> "executing", reply |-> [k \in Kinds |-> {}], baselines |-> <<>>]
  BY DEF Init
<1>6. run \in RunType
  <2>1. [k \in Kinds |-> {}] \in [Kinds -> SUBSET Nat]  OBVIOUS
  <2> QED BY <1>5, <2>1 DEF RunType, None
<1>7. /\ run.limit = limit /\ run.status = "none" /\ run.iteration = 0 /\ run.best = <<>>
      /\ run.experiment = None /\ run.completed = {} /\ run.baselines = <<>>
  BY <1>5
<1>8. limit.cap \in Nat /\ limit.baselines \in Seq(Values)  BY AutoresearchConstantsOK
<1>9. Roles("propose") = {} /\ Roles("execute") = {}  BY <1>2, <1>4 DEF Roles, Is
<1>10. Types
  <2>1. \A l \in Ids : /\ loops[l].action \in Allowlist[loops[l].role] \cup {"none"}
                       /\ loops[l].seen \in Values \cup {None}
    BY <1>2, <1>4
  <2> QED BY <1>3, <1>4, <1>6, <1>7, <1>8, <2>1 DEF Types
<1>11. CountOK
  <2>1. Len(driver) = 0 /\ DOMAIN driver = {}  BY <1>3
  <2>2. Dispatched = 0  BY <1>7, <2>1 DEF Dispatched
  <2>3. Cardinality(Roles("propose")) = 0  BY <1>9, FS_EmptySet
  <2> QED BY <1>7, <1>8, <2>1, <2>2, <2>3 DEF CountOK
<1>12. HandedOK
  <2>1. Handed = {}  BY <1>9 DEF Handed
  <2> QED BY <1>3, <1>9, <2>1 DEF HandedOK
<1>13. TokenOK
  <2>1. \A l \in Ids : ~Live(l)  BY <1>2, <1>4 DEF Live, Decided, Is
  <2> QED BY <1>3, <1>7, <2>1 DEF TokenOK
<1>14. BestOK
  <2>1. \A l \in Ids : LoopOK(loops[l])  BY <1>2, <1>4 DEF LoopOK
  <2> QED BY <1>3, <1>7, <2>1 DEF BestOK, Half
<1> QED BY <1>10, <1>11, <1>12, <1>13, <1>14 DEF XInv

\* Every step of a session, of the engine, and a stuttering step.
LEMMA XInvNext == XInv /\ [Next]_vars => XInv'
<1> SUFFICES ASSUME XInv, [Next]_vars PROVE XInv'  OBVIOUS
<1>1. CASE UNCHANGED vars  BY <1>1, WokenStep
<1>2. ASSUME NEW l \in Ids, Session(l) PROVE XInv'
  <2>1. CASE EmitBaseline(l)  BY <2>1, BaselineStep
  <2>2. CASE ReadBestValue(l)  BY <2>2, ReadStep
  <2>3. CASE EmitRollup(l)  BY <2>3, RollupStep
  <2>4. CASE \E value \in Values : Measure(l, value, TRUE)  BY <2>4, MeasureStep
  <2>5. CASE Measure(l, AnyValue, FALSE)
    <3>1. AnyValue \in Values  BY AutoresearchConstantsOK DEF AnyValue
    <3> QED BY <2>5, <3>1, MeasureStep
  <2>6. CASE \E action \in Allowlist[loops[l].role] : Decide(l, action)  BY <2>6, DecideStep
  <2>7. CASE Complete(l) \/ Fail(l)  BY <2>7, EndStep
  <2> QED BY <1>2, <2>1, <2>2, <2>3, <2>4, <2>5, <2>6, <2>7 DEF Session
<1>3. CASE Engine
  <2>1. CASE \E l \in Ids : PromoteId(l)  BY <2>1, PromoteStep
  <2>2. CASE Propose \/ Synthesize \/ StopRun
    BY <2>2, ProposeStep, SynthesizeStep, StopStep
  <2>3. CASE ClearPending  BY <2>3, ClearStep
  <2>4. CASE OnRun  BY <2>4, WokenStep DEF OnRun
  <2>5. ASSUME NEW l \in Ids, OnLoop(l), \A x \in Ids : ~Half(x) PROVE XInv'
    <3>1. CASE ProposeToExecute(l)  BY <3>1, ExecuteStep
    <3>2. CASE StampCompletion(l) \/ StampFailed(l)  BY <3>2, StampStep
    <3>3. CASE PromoteValue(l)  BY <2>5, <3>3, PromoteStep
    <3>4. CASE SynthesizeToReviewer(l) \/ Resynthesize(l)  BY <3>4, HandOnStep
    <3>5. CASE ReviewerApproved(l) \/ DescendedClarification(l) \/ LoopFailed(l)
      BY <3>5, ReplyStep
    <3>6. CASE BaselineClarification(l)  BY <3>6, WokenStep
    <3> QED BY <2>5, <3>1, <3>2, <3>3, <3>4, <3>5, <3>6 DEF OnLoop
  <2> QED BY <1>3, <2>1, <2>2, <2>3, <2>4, <2>5 DEF Engine
<1> QED BY <1>1, <1>2, <1>3 DEF Next

\* The inductive invariant of the run holds of every behaviour.
THEOREM XInvAlways == Spec => []XInv
<1>1. Init => XInv  BY XInvInit
<1>2. XInv /\ [Next]_vars => XInv'  BY XInvNext
<1> QED BY <1>1, <1>2, PTL DEF Spec

\* The budget (rule 05 and the stamps 04a, 04b): never more experiments than the
\* cap, however often the tools are called again, and the run is stopped only
\* when all of them were dispatched.
THEOREM BudgetKeptAlways == Spec => []BudgetKept
<1>1. ASSUME XInv PROVE BudgetKept
  <2>1. TypeOK
    <3>1. \A l \in Ids : loops[l].outcome \in {"none", "success", "failed", "truncated"}
      BY <1>1, AtLoop DEF LoopType
    <3>2. Len(run.baselines) <= Len(run.limit.baselines)  BY <1>1, RunIs DEF XInv, Types
    <3>3. run.status \in {"none", "active", "stopped"}  BY <1>1, RunIs DEF RunType
    <3> QED BY <1>1, <3>1, <3>2, <3>3 DEF TypeOK, XInv, Types, BestOK
  <2>2. PICK d : d = Dispatched  OBVIOUS
  <2>3. d \in Int /\ run.limit.cap \in Nat  BY <1>1, <2>2, RunIs DEF Dispatched
  <2>4. /\ Cardinality(Roles("propose")) = IF d <= run.limit.cap THEN d ELSE run.limit.cap
        /\ run.status = "stopped" => d > run.limit.cap
    BY <1>1, <2>2 DEF XInv, CountOK
  <2>5. /\ Cardinality(Roles("propose")) <= run.limit.cap
        /\ run.status = "stopped" => Cardinality(Roles("propose")) = run.limit.cap
    BY <2>3, <2>4
  <2>6. IsFiniteSet(Roles("execute")) /\ IsFiniteSet(Roles("propose"))  BY <1>1, RolesFinite
  <2>7. Cardinality(run.completed) <= Cardinality(Roles("execute"))
    <3>1. run.completed \subseteq Roles("execute")  BY <1>1 DEF XInv, Types
    <3> QED BY <2>6, <3>1, FS_Subset
  <2>8. Cardinality(Roles("execute")) <= Cardinality(Roles("propose"))
    <3>1. Handed \subseteq Roles("propose")  BY DEF Handed
    <3>2. Cardinality(Handed) <= Cardinality(Roles("propose"))  BY <2>6, <3>1, FS_Subset
    <3> QED BY <1>1, <3>2 DEF XInv, HandedOK
  <2> QED BY <2>1, <2>5, <2>7, <2>8 DEF BudgetKept
<1> QED BY <1>1, XInvAlways, PTL

\* One editor of the working tree: with one baseline there is one token, so a
\* propose and an execute loop never run at the same time.
THEOREM OneEditorAlways == Spec => []OneEditor
<1>1. ASSUME XInv PROVE OneEditor
  <2> DEFINE Editors == {l \in Roles("propose") \cup Roles("execute") : Running(l)}
  <2> SUFFICES ASSUME Len(run.baselines) <= 1 PROVE Cardinality(Editors) <= 1
    BY DEF OneEditor
  <2>1. \A l \in Editors : l \in Ids /\ Live(l)  BY DEF Roles, Is, Live
  <2>2. \A l, m \in Editors : l = m  BY <1>1, <2>1 DEF XInv, TokenOK
  <2>3. CASE Editors = {}
    <3>1. Cardinality(Editors) = 0  BY <2>3, FS_EmptySet
    <3> QED BY <3>1
  <2>4. CASE Editors # {}
    <3>1. PICK l : Editors = {l}  BY <2>2, <2>4
    <3>2. Cardinality({l}) = 1  BY FS_Singleton
    <3>3. Cardinality(Editors) = 1  BY <3>1, <3>2
    <3> QED BY <3>3
  <2> QED BY <2>3, <2>4
<1> QED BY <1>1, XInvAlways, PTL

\* The best value and the experiment it is credited to belong together, on the
\* run (rule 04c) and in every rollup emit_autoresearch_artifact accepted.
THEOREM BestNamesExperimentAlways == Spec => []BestNamesExperiment
<1>1. ASSUME XInv PROVE BestNamesExperiment
  <2>1. ASSUME run.best # <<>>, \A l \in Ids : ~Half(l)
        PROVE  IF run.experiment = None THEN Head(run.best) = Head(run.baselines)
               ELSE /\ Kept(run.experiment)
                    /\ Head(run.best) = Head(loops[run.experiment].measured).value
                    /\ Beats(Head(run.best))
    <3>1. run.baselines \in Seq(Values) /\ run.baselines # <<>>  BY <1>1, <2>1, RunIs DEF XInv, BestOK
    <3>2. \A l : ~Half(l)  BY <1>1, <2>1 DEF XInv, BestOK, KeptAt, Half
    <3>3. Credited(run.experiment, Head(run.best))  BY <1>1, <3>1, <3>2 DEF XInv, BestOK
    <3>4. ASSUME run.experiment # None PROVE Beats(Head(run.best))
      <4>1. PICK x : x = run.experiment  OBVIOUS
      <4>2. x \in Ids /\ Kept(x) /\ Head(run.best) = ValueOf(x)
        BY <3>3, <3>4, <4>1 DEF Credited, KeptAt
      <4>3. PICK a : a = loops[x]  OBVIOUS
      <4>4. a \in LoopType /\ LoopOK(a)  BY <1>1, <4>2, <4>3, AtLoop
      <4>5. /\ a.measured \in Seq(Measurement) /\ a.measured # <<>>
            /\ Head(a.measured).verdict = "kept"
        BY <4>2, <4>3, <4>4 DEF Kept, LoopType
      <4>6. 1 \in DOMAIN a.measured /\ Head(a.measured) = a.measured[1]  BY <4>5
      <4>7. Beats(Head(a.measured).value)  BY <4>4, <4>5, <4>6 DEF LoopOK
      <4> QED BY <4>2, <4>3, <4>7 DEF ValueOf
    <3> QED BY <3>3, <3>4 DEF Credited, KeptAt, ValueOf
  <2>2. ASSUME NEW l \in Roles("synthesize"), loops[l].rollup # NoRollup
        PROVE  RollupOK(loops[l].rollup)
    <3>1. l \in Ids  BY DEF Roles
    <3>2. LoopOK(loops[l])  BY <1>1, <3>1, AtLoop
    <3> QED BY <2>2, <3>2 DEF LoopOK
  <2>3. ASSUME NEW l \in Roles("synthesize"), NEW r, r = loops[l].rollup, r # NoRollup
        PROVE  /\ (r.kept = 0) <=> (r.experiment = None)
               /\ r.experiment # None => Kept(r.experiment)
               /\ r.clean => r.value = IF r.experiment = None THEN Head(run.baselines)
                                       ELSE Head(loops[r.experiment].measured).value
    <3>1. RollupOK(r)  BY <2>2, <2>3
    <3> QED BY <3>1 DEF RollupOK, Credited, KeptAt, ValueOf
  <2> QED BY <2>1, <2>3 DEF BestNamesExperiment
<1> QED BY <1>1, XInvAlways, PTL
=============================================================================
