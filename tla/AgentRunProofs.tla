--------------------------- MODULE AgentRunProofs ---------------------------
(***************************************************************************)
(* TLAPS proofs about AgentRun, for any loops, gates and bounds.           *)
(***************************************************************************)
EXTENDS AgentRun, FiniteSetTheorems, TLAPS

Entry == [rule : Rules, step : 1..3]

\* Rule r has been selected and has not executed yet.
Queued(r) == \E i \in DOMAIN queue : queue[i].rule = r

\* Rules that complete or fail the run were selected by the first outcome, which
\* never changes; a terminal run agrees with it.
OutcomeOK ==
  /\ Queued("03") => Outcome = "success"
  /\ Queued("04") \/ Queued("04b") => Outcome = "failed"
  /\ phase = "completed" => Outcome = "success"
  /\ phase = "failed" => Outcome = "failed"

\* Rule 02 is selected once, by the handoff, and only a failure overtakes it.
HandoffOK ==
  /\ Queued("02") => handoff /\ phase \in {"dispatched", "failed"}
  /\ \A i, j \in DOMAIN queue : queue[i].rule = "02" /\ queue[j].rule = "02" => i = j
  /\ phase = "dispatched" => \A i \in DOMAIN queue : queue[i].rule \in {"02", "04b"}

\* Rules that pause the run and rules that end a pause.  Since each was selected in
\* the phase it leaves, a pause in the queue of an executing run has no resume
\* behind it, and a resume in the queue of a paused one has no pause behind it.
Pauses == {"09", "12"}
Resumes == {"11", "13"}
OrderOK ==
  /\ phase = "executing" =>
       \A i, j \in DOMAIN queue :
          i < j /\ queue[i].rule \in Pauses => queue[j].rule \notin Resumes
  /\ phase = "awaiting_approval" =>
       \A i, j \in DOMAIN queue :
          i < j /\ queue[i].rule \in Resumes => queue[j].rule \notin Pauses

\* What a rule read of the two markers and still holds when it executes, although
\* questions and replies land between the rules' actions: nothing ahead of rule 09
\* removes the marker that selected it, rule 11 is queued once, and its markers
\* wait for it.
MarkersOK ==
  /\ Queued("09") => clarPending # {}
  /\ Queued("11") => clarResumed # {}
  /\ \A i, j \in DOMAIN queue : queue[i].rule = "11" /\ queue[j].rule = "11" => i = j
  /\ \A i, j \in DOMAIN queue : i < j /\ queue[i].rule = "11" => queue[j].rule # "09"
  /\ \A i \in DOMAIN queue : queue[i].step # 1 => i = 1
  /\ Queued("13") => ~(phase = "awaiting_approval" /\ note = ClarNote)

\* A question whose pause is still to come is counted in asked, not in clarPauses.
\* Once rule 11 has resumed the run it is about to remove the pending markers.
Removing == queue # <<>> /\ queue[1] = [rule |-> "11", step |-> 2]
PauseDue ==
  clarPending # {} /\ ~Removing /\ ~(phase = "awaiting_approval" /\ note = ClarNote)
PausesOK ==
  /\ IsFiniteSet(asked)
  /\ clarPauses + (IF PauseDue THEN 1 ELSE 0) <= Cardinality(asked)

\* The inductive invariant.
RInv == TypeOK /\ OutcomeOK /\ HandoffOK /\ MarkersOK /\ OrderOK /\ PausesOK

-----------------------------------------------------------------------------
\* A step that removes off entries from the front of the queue, keeps the others
\* in order and adds, once each, the rules whose conditions it turned true.
Entered(r) == ~Matches[r] /\ Matches'[r]
Evolves(off) ==
  LET n == Len(queue) - off IN
  /\ queue' \in Seq(Entry) /\ n \in Nat /\ n <= Len(queue')
  /\ \A i \in 1..n : queue'[i].rule = queue[i + off].rule
  /\ \A i \in (n + 1)..Len(queue') : Entered(queue'[i].rule) /\ queue'[i].step = 1
  /\ \A i, j \in (n + 1)..Len(queue') : queue'[i].rule = queue'[j].rule => i = j

\* The pack has finitely many rules.
LEMMA RulesFinite == IsFiniteSet(Rules)
<1>1. \A S, x : IsFiniteSet(S) => IsFiniteSet(S \cup {x})  BY FS_AddElement
<1>2. IsFiniteSet({"02"})  BY FS_Singleton
<1>3. IsFiniteSet({"02"} \cup {"03"} \cup {"04"} \cup {"04b"})  BY <1>1, <1>2
<1>4. IsFiniteSet({"02"} \cup {"03"} \cup {"04"} \cup {"04b"} \cup {"09"} \cup {"11"})  BY <1>1, <1>3
<1>5. IsFiniteSet({"02"} \cup {"03"} \cup {"04"} \cup {"04b"} \cup {"09"} \cup {"11"}
                  \cup {"12"} \cup {"13"})
  BY <1>1, <1>4
<1>6. Rules = {"02"} \cup {"03"} \cup {"04"} \cup {"04b"} \cup {"09"} \cup {"11"}
              \cup {"12"} \cup {"13"}
  BY DEF Rules
<1> QED BY <1>5, <1>6

\* What Select adds to the entries it is given.
LEMMA SelectIs ==
  ASSUME NEW rest \in Seq(Entry), Select(rest)
  PROVE  /\ queue' \in Seq(Entry) /\ Len(rest) <= Len(queue')
         /\ \A i \in 1..Len(rest) : queue'[i] = rest[i]
         /\ \A i \in (Len(rest) + 1)..Len(queue') : Entered(queue'[i].rule) /\ queue'[i].step = 1
         /\ \A i, j \in (Len(rest) + 1)..Len(queue') : queue'[i].rule = queue'[j].rule => i = j
<1> DEFINE entered == {r \in Rules : ~Matches[r] /\ Matches'[r]}
           n == Cardinality(entered)
<1>1. n \in Nat
  <2>1. IsFiniteSet(entered)  BY RulesFinite, FS_Subset
  <2> QED BY <2>1, FS_CardinalityType
<1>2. PICK s \in [1..n -> entered] :
        /\ \A i, j \in 1..n : i # j => s[i] # s[j]
        /\ queue' = rest \o [i \in 1..n |-> [rule |-> s[i], step |-> 1]]
  BY DEF Select
<1>3. \A r \in entered : r \in Rules /\ Entered(r)  BY DEF Entered
<1> HIDE DEF entered, n
<1> DEFINE added == [i \in 1..n |-> [rule |-> s[i], step |-> 1]]
<1>4. added \in Seq(Entry) /\ Len(added) = n
  BY <1>1, <1>3 DEF Entry
<1>5. \A i \in 1..n : added[i].rule = s[i] /\ added[i].step = 1 /\ Entered(s[i])
  BY <1>3
<1> HIDE DEF added
<1>6. /\ queue' = rest \o added /\ queue' \in Seq(Entry) /\ Len(queue') = Len(rest) + n
      /\ \A i \in 1..Len(rest) : queue'[i] = rest[i]
      /\ \A i \in (Len(rest) + 1)..Len(queue') :
           i - Len(rest) \in 1..n /\ queue'[i] = added[i - Len(rest)]
  BY <1>1, <1>2, <1>4 DEF added
<1>7. Len(rest) \in Nat  OBVIOUS
<1>8. \A i, j \in (Len(rest) + 1)..Len(queue') : queue'[i].rule = queue'[j].rule => i = j
  <2> SUFFICES ASSUME NEW i \in (Len(rest) + 1)..Len(queue'),
                      NEW j \in (Len(rest) + 1)..Len(queue'), queue'[i].rule = queue'[j].rule
               PROVE  i = j
    OBVIOUS
  <2>1. s[i - Len(rest)] = s[j - Len(rest)]  BY <1>5, <1>6
  <2>2. i - Len(rest) = j - Len(rest)  BY <1>2, <1>6, <2>1
  <2> QED BY <1>1, <1>6, <1>7, <2>2
<1> QED BY <1>1, <1>5, <1>6, <1>7, <1>8

\* The conditions of the rules, one by one.
LEMMA MatchesIs ==
  /\ (Matches["02"] <=> Cond02) /\ (Matches["03"] <=> Cond03) /\ (Matches["04"] <=> Cond04)
  /\ (Matches["04b"] <=> Cond04b) /\ (Matches["09"] <=> Cond09) /\ (Matches["11"] <=> Cond11)
  /\ (Matches["12"] <=> Cond12) /\ (Matches["13"] <=> Cond13)
  BY DEF Matches, Rules

\* The same in the next state.
LEMMA MatchesNext ==
  /\ (Matches'["02"] <=> Cond02') /\ (Matches'["03"] <=> Cond03') /\ (Matches'["04"] <=> Cond04')
  /\ (Matches'["04b"] <=> Cond04b') /\ (Matches'["09"] <=> Cond09') /\ (Matches'["11"] <=> Cond11')
  /\ (Matches'["12"] <=> Cond12') /\ (Matches'["13"] <=> Cond13')
  BY DEF Matches, Rules

\* The phase each rule writes.
LEMMA TargetIs ==
  /\ Target["02"] = "executing" /\ Target["03"] = "completed" /\ Target["04"] = "failed"
  /\ Target["04b"] = "failed" /\ Target["09"] = "awaiting_approval"
  /\ Target["11"] = "executing" /\ Target["12"] = "awaiting_approval" /\ Target["13"] = "executing"
  BY DEF Target, Rules

\* The three ways in which a step treats the queue.
LEMMA StampEvolves ==
  ASSUME TypeOK, Select(queue)
  PROVE  Evolves(0) /\ \A i \in DOMAIN queue : queue'[i] = queue[i]
<1>1. queue \in Seq(Entry)  BY DEF TypeOK, Entry
<1> QED BY <1>1, SelectIs DEF Evolves

\* A finished rule leaves the queue and what the revision entered is behind the rest.
LEMMA TailEvolves ==
  ASSUME TypeOK, queue # <<>>, Select(Tail(queue))
  PROVE  /\ Evolves(1)
         /\ \A i \in DOMAIN queue' : i <= Len(queue) - 1 => queue'[i] = queue[i + 1]
<1>1. queue \in Seq(Entry)  BY DEF TypeOK, Entry
<1>2. /\ Tail(queue) \in Seq(Entry) /\ Len(Tail(queue)) = Len(queue) - 1 /\ Len(queue) \in Nat \ {0}
      /\ \A i \in 1..(Len(queue) - 1) : Tail(queue)[i] = queue[i + 1]
  BY <1>1
<1> DEFINE rest == Tail(queue)
<1>3. /\ queue' \in Seq(Entry) /\ Len(rest) <= Len(queue')
      /\ \A i \in 1..Len(rest) : queue'[i] = rest[i]
      /\ \A i \in (Len(rest) + 1)..Len(queue') : Entered(queue'[i].rule) /\ queue'[i].step = 1
      /\ \A i, j \in (Len(rest) + 1)..Len(queue') : queue'[i].rule = queue'[j].rule => i = j
  BY <1>2, SelectIs
<1> QED BY <1>2, <1>3 DEF Evolves

\* Rule 11 advances at the head of the queue.
LEMMA AdvanceEvolves ==
  ASSUME TypeOK, queue # <<>>, NEW k \in 1..2, Head(queue) = [rule |-> "11", step |-> k],
         Select(Advance)
  PROVE  /\ Evolves(0) /\ 1 \in DOMAIN queue' /\ queue'[1] = [rule |-> "11", step |-> k + 1]
         /\ \A i \in DOMAIN queue : i > 1 => queue'[i] = queue[i]
<1>1. queue \in Seq(Entry)  BY DEF TypeOK, Entry
<1>2. [Head(queue) EXCEPT !.step = @ + 1] = [rule |-> "11", step |-> k + 1]  OBVIOUS
<1>3. [rule |-> "11", step |-> k + 1] \in Entry  BY DEF Entry, Rules
<1> DEFINE first == [rule |-> "11", step |-> k + 1]
           rest == Advance
<1>4. rest = <<first>> \o Tail(queue)  BY <1>2 DEF Advance
<1>5. first.rule = "11"  OBVIOUS
<1> HIDE DEF rest, first
<1>6. /\ rest \in Seq(Entry) /\ Len(rest) = Len(queue) /\ Len(queue) \in Nat \ {0}
      /\ rest[1] = first /\ \A i \in 2..Len(queue) : rest[i] = queue[i]
  BY <1>1, <1>3, <1>4 DEF first
<1>7. /\ queue' \in Seq(Entry) /\ Len(rest) <= Len(queue')
      /\ \A i \in 1..Len(rest) : queue'[i] = rest[i]
      /\ \A i \in (Len(rest) + 1)..Len(queue') : Entered(queue'[i].rule) /\ queue'[i].step = 1
      /\ \A i, j \in (Len(rest) + 1)..Len(queue') : queue'[i].rule = queue'[j].rule => i = j
  BY <1>6, SelectIs DEF rest
<1>8. queue[1].rule = "11"  BY <1>1
<1>9. \A i \in 1..Len(queue) : queue'[i].rule = queue[i].rule
  BY <1>5, <1>6, <1>7, <1>8
<1>10. queue'[1] = first  BY <1>6, <1>7
<1>11. Evolves(0)  BY <1>6, <1>7, <1>9 DEF Evolves
<1> QED BY <1>1, <1>6, <1>7, <1>10, <1>11 DEF first

\* What a step may do to the run and to the markers, depending on the queue.
Moves(off) ==
  LET rule == queue[1].rule IN
  /\ queue # <<>> /\ <<phase, phase'>> \in Edges
  /\ phase' = Target[rule] /\ note' = Reason(rule)
  /\ rule # "11" => off = 1

Facts(off) ==
  /\ Evolves(off)
  /\ (phase' = phase /\ note' = note) \/ Moves(off)
  /\ handoff => handoff'
  /\ Outcome # "none" => Outcome' = Outcome
  /\ clarPending # {} /\ clarPending' = {} => queue # <<>> /\ queue[1].rule = "11"
  /\ clarResumed # {} /\ clarResumed' = {} => queue # <<>> /\ queue[1].rule = "11" /\ off = 1

\* A rule with one action: the queue moves up by one.
LEMMA ExecuteFacts ==
  ASSUME RInv, NEW r \in Rules, Execute(r)
  PROVE  TypeOK' /\ Facts(1)
<1>1. /\ queue # <<>> /\ Head(queue).rule = r /\ r # "11" /\ queue \in Seq(Entry) /\ TypeOK
      /\ Select(Tail(queue)) /\ UNCHANGED <<markers, gateVars, humanVars>>
  BY DEF Execute, RInv, TypeOK, Entry
<1>2. queue[1].rule = r  BY <1>1
<1>3. Evolves(1)  BY <1>1, TailEvolves
<1>4. queue' \in Seq([rule : Rules, step : 1..3])  BY <1>3 DEF Evolves, Entry
<1>5. UNCHANGED <<handoff, outcome, clarPending, clarResumed, asked, replied>>
  BY <1>1 DEF markers, humanVars
<1>6. CASE LegalTransition(r)
  <2>1. Moves(1)  BY <1>1, <1>2, <1>6 DEF LegalTransition, Moves
  <2>2. Target[r] \in Phases /\ Reason(r) \in {ToolNote, ClarNote, ResumeNote, "other"}
    BY TargetIs DEF Rules, Phases, Reason
  <2>3. TypeOK'
    BY <1>1, <1>4, <1>5, <1>6, <2>2 DEF TypeOK, LegalTransition
  <2> QED BY <1>3, <1>5, <2>1, <2>3 DEF Facts, Outcome
<1>7. CASE UNCHANGED <<runVars, clarPauses>>
  <2>1. UNCHANGED <<phase, note, from, clarPauses>>  BY <1>7 DEF runVars
  <2>2. TypeOK'  BY <1>1, <1>4, <1>5, <2>1 DEF TypeOK
  <2> QED BY <1>3, <1>5, <2>1, <2>2 DEF Facts, Outcome
<1> QED BY <1>6, <1>7 DEF Execute

\* The first action of rule 11; a refused transition may end the rule.
LEMMA Resume1Facts ==
  ASSUME RInv, Resume1
  PROVE  TypeOK' /\ \E off \in {0, 1} : Facts(off)
<1>1. /\ queue # <<>> /\ Head(queue) = [rule |-> "11", step |-> 1] /\ queue \in Seq(Entry) /\ TypeOK
      /\ UNCHANGED <<markers, gateVars, humanVars>>
  BY DEF Resume1, RInv, TypeOK, Entry
<1>2. queue[1].rule = "11"  BY <1>1
<1>3. UNCHANGED <<handoff, outcome, clarPending, clarResumed, asked, replied>>
  BY <1>1 DEF markers, humanVars
<1>4. PICK off \in {0, 1} : Evolves(off)
  <2>1. CASE Select(Advance)  BY <1>1, <2>1, AdvanceEvolves
  <2>2. CASE Select(Tail(queue))  BY <1>1, <2>2, TailEvolves
  <2> QED BY <2>1, <2>2 DEF Resume1
<1>5. queue' \in Seq([rule : Rules, step : 1..3])  BY <1>4 DEF Evolves, Entry
<1>6. CASE LegalTransition("11")
  <2>1. Moves(off)  BY <1>1, <1>2, <1>6 DEF LegalTransition, Moves
  <2>2. Target["11"] \in Phases /\ Reason("11") \in {ToolNote, ClarNote, ResumeNote, "other"}
    BY TargetIs DEF Phases, Reason
  <2>3. TypeOK'
    BY <1>1, <1>3, <1>5, <1>6, <2>2 DEF TypeOK, LegalTransition
  <2>4. Facts(off)  BY <1>3, <1>4, <2>1 DEF Facts, Outcome
  <2> QED BY <2>3, <2>4
<1>7. CASE UNCHANGED <<runVars, clarPauses>>
  <2>1. UNCHANGED <<phase, note, from, clarPauses>>  BY <1>7 DEF runVars
  <2>2. TypeOK'  BY <1>1, <1>3, <1>5, <2>1 DEF TypeOK
  <2>3. Facts(off)  BY <1>3, <1>4, <2>1 DEF Facts, Outcome
  <2> QED BY <2>2, <2>3
<1> QED BY <1>6, <1>7 DEF Resume1

\* The second action of rule 11 keeps its place.
LEMMA Resume2Facts ==
  ASSUME RInv, Resume2
  PROVE  TypeOK' /\ Facts(0)
<1>1. /\ queue # <<>> /\ Head(queue) = [rule |-> "11", step |-> 2] /\ queue \in Seq(Entry) /\ TypeOK
      /\ Select(Advance) /\ clarPending' = {}
      /\ UNCHANGED <<phase, note, from, handoff, outcome, clarResumed, asked, replied, clarPauses>>
  BY DEF Resume2, RInv, TypeOK, Entry, runVars, humanVars
<1>2. queue[1].rule = "11"  BY <1>1
<1>3. Evolves(0)  BY <1>1, AdvanceEvolves
<1>4. queue' \in Seq([rule : Rules, step : 1..3])  BY <1>3 DEF Evolves, Entry
<1>5. TypeOK'  BY <1>1, <1>4 DEF TypeOK
<1> QED BY <1>1, <1>2, <1>3, <1>5 DEF Facts, Outcome

\* The third action of rule 11 ends it.
LEMMA Resume3Facts ==
  ASSUME RInv, Resume3
  PROVE  TypeOK' /\ Facts(1)
<1>1. /\ queue # <<>> /\ Head(queue) = [rule |-> "11", step |-> 3] /\ queue \in Seq(Entry) /\ TypeOK
      /\ Select(Tail(queue)) /\ clarResumed' = {}
      /\ UNCHANGED <<phase, note, from, handoff, outcome, clarPending, asked, replied, clarPauses>>
  BY DEF Resume3, RInv, TypeOK, Entry, runVars, humanVars
<1>2. queue[1].rule = "11"  BY <1>1
<1>3. Evolves(1)  BY <1>1, TailEvolves
<1>4. queue' \in Seq([rule : Rules, step : 1..3])  BY <1>3 DEF Evolves, Entry
<1>5. TypeOK'  BY <1>1, <1>4 DEF TypeOK
<1> QED BY <1>1, <1>2, <1>3, <1>5 DEF Facts, Outcome

\* Everybody else's step: markers grow, the run does not move.
LEMMA StampsFacts ==
  ASSUME RInv, Stamps
  PROVE  TypeOK' /\ Facts(0) /\ UNCHANGED <<phase, note, clarPauses>>
<1>1. TypeOK /\ queue \in Seq(Entry)  BY DEF RInv, TypeOK, Entry
<1>2. Select(queue) /\ UNCHANGED <<phase, note, from, clarPauses>>
  BY DEF Stamps, StampHandoff, StampSuccess, StampFailed, StampOutcome, AskUserRunAnchor,
         AskUserLineageAnchor, StampPending, StampResumed, GateObserved, GateAnswered, runVars
<1>3. Evolves(0)  BY <1>1, <1>2, StampEvolves
<1>4. queue' \in Seq([rule : Rules, step : 1..3])  BY <1>3 DEF Evolves, Entry
<1>5. CASE StampHandoff
  <2>1. handoff' /\ UNCHANGED <<outcome, clarPending, clarResumed, asked, replied>>
    BY <1>5 DEF StampHandoff, humanVars
  <2>2. TypeOK'  BY <1>1, <1>2, <1>4, <1>5, <2>1 DEF TypeOK, StampHandoff
  <2> QED BY <1>2, <1>3, <2>1, <2>2 DEF Facts, Outcome
<1>6. ASSUME NEW o \in {"success", "failed"}, StampOutcome(o)
      PROVE  TypeOK' /\ Facts(0)
  <2>1. outcome' = Append(outcome, o) /\ UNCHANGED <<handoff, clarPending, clarResumed, asked, replied>>
    BY <1>6 DEF StampOutcome, humanVars
  <2>2. outcome' \in Seq({"success", "failed"})  BY <1>1, <2>1 DEF TypeOK
  <2>3. outcome # <<>> => outcome' # <<>> /\ Head(outcome') = Head(outcome)
    BY <1>1, <2>1 DEF TypeOK
  <2>4. TypeOK'  BY <1>1, <1>2, <1>4, <2>1, <2>2 DEF TypeOK
  <2> QED BY <1>2, <1>3, <2>1, <2>3, <2>4 DEF Facts, Outcome
<1>7. ASSUME NEW l \in Loops, StampPending(l)
      PROVE  TypeOK' /\ Facts(0)
  <2>1. /\ clarPending' = clarPending \cup {l} /\ asked' = asked \cup {l}
        /\ UNCHANGED <<handoff, outcome, clarResumed, replied>>
    BY <1>7 DEF StampPending
  <2>2. TypeOK'  BY <1>1, <1>2, <1>4, <2>1 DEF TypeOK
  <2> QED BY <1>2, <1>3, <2>1, <2>2 DEF Facts, Outcome
<1>8. ASSUME NEW l \in Loops, StampResumed(l)
      PROVE  TypeOK' /\ Facts(0)
  <2>1. /\ clarResumed' = clarResumed \cup {l} /\ replied' = replied \cup {l}
        /\ l \in asked /\ UNCHANGED <<handoff, outcome, clarPending, asked>>
    BY <1>8 DEF StampResumed, OpenQuestions
  <2>2. TypeOK'  BY <1>1, <1>2, <1>4, <2>1 DEF TypeOK
  <2> QED BY <1>2, <1>3, <2>1, <2>2 DEF Facts, Outcome
<1>9. ASSUME NEW g \in Gates, GateObserved(g) \/ GateAnswered(g)
      PROVE  TypeOK' /\ Facts(0)
  <2>1. UNCHANGED <<handoff, outcome, clarPending, clarResumed, asked, replied>>
    BY <1>9 DEF GateObserved, GateAnswered, markers, humanVars
  <2>2. TypeOK'  BY <1>1, <1>2, <1>4, <2>1 DEF TypeOK
  <2> QED BY <1>2, <1>3, <2>1, <2>2 DEF Facts, Outcome
<1> QED
  BY <1>2, <1>5, <1>6, <1>7, <1>8, <1>9
  DEF Stamps, StampSuccess, StampFailed, AskUserRunAnchor, AskUserLineageAnchor

-----------------------------------------------------------------------------
\* An entry of the next queue was in the queue, or its rule was just turned on.
Origin(i, off) ==
  \/ i + off \in DOMAIN queue /\ i <= Len(queue) - off /\ queue'[i].rule = queue[i + off].rule
  \/ i > Len(queue) - off /\ Entered(queue'[i].rule) /\ queue'[i].step = 1

\* Every queued selection was there before or was entered by this revision.
LEMMA OldOrEntered ==
  ASSUME RInv, NEW off \in {0, 1}, Evolves(off), NEW i \in DOMAIN queue'
  PROVE  Origin(i, off)
<1>1. queue \in Seq(Entry)  BY DEF RInv, TypeOK, Entry
<1> QED BY <1>1 DEF Evolves, Origin

\* A queued rule was queued before or was entered by this revision.
LEMMA QueuedOrEntered ==
  ASSUME RInv, NEW off \in {0, 1}, Evolves(off), NEW r, Queued(r)'
  PROVE  (Queued(r) /\ queue # <<>>) \/ Entered(r)
<1>1. PICK i \in DOMAIN queue' : queue'[i].rule = r  BY DEF Queued
<1>2. queue \in Seq(Entry)  BY DEF RInv, TypeOK, Entry
<1>3. Origin(i, off)  BY OldOrEntered
<1> QED BY <1>1, <1>2, <1>3 DEF Queued, Origin

\* The head of a queue that is not empty is one of the rules.
LEMMA HeadIsQueued ==
  ASSUME RInv, queue # <<>>
  PROVE  1 \in DOMAIN queue /\ queue[1].rule \in Rules /\ Queued(queue[1].rule)
<1>1. queue \in Seq(Entry)  BY DEF RInv, TypeOK, Entry
<1>2. 1 \in DOMAIN queue /\ queue[1] \in Entry  BY <1>1
<1> QED BY <1>2 DEF Queued, Entry

\* A rule that occurs once in the queue and is removed or not turned on again
\* does not come to occur twice.
LEMMA StaysUnique ==
  ASSUME RInv, NEW off \in {0, 1}, Evolves(off), NEW r,
         \A i, j \in DOMAIN queue : queue[i].rule = r /\ queue[j].rule = r => i = j,
         ~(Queued(r) /\ Entered(r))
  PROVE  \A i, j \in DOMAIN queue' : queue'[i].rule = r /\ queue'[j].rule = r => i = j
<1> SUFFICES ASSUME NEW i \in DOMAIN queue', NEW j \in DOMAIN queue',
                    queue'[i].rule = r, queue'[j].rule = r
             PROVE  i = j
  OBVIOUS
<1>1. i \in Nat /\ j \in Nat /\ Len(queue) \in Nat /\ queue' \in Seq(Entry)
  <2>1. queue \in Seq(Entry)  BY DEF RInv, TypeOK, Entry
  <2> QED BY <2>1 DEF Evolves
<1>i. \/ i + off \in DOMAIN queue /\ i <= Len(queue) - off /\ queue[i + off].rule = r
      \/ i > Len(queue) - off /\ Entered(r)
  BY OldOrEntered DEF Origin
<1>j. \/ j + off \in DOMAIN queue /\ j <= Len(queue) - off /\ queue[j + off].rule = r
      \/ j > Len(queue) - off /\ Entered(r)
  BY OldOrEntered DEF Origin
<1>q. \A k \in DOMAIN queue : queue[k].rule = r => ~Entered(r)  BY DEF Queued
<1>2. CASE i <= Len(queue) - off /\ j <= Len(queue) - off
  <2>1. i + off = j + off  BY <1>1, <1>2, <1>i, <1>j
  <2> QED BY <1>1, <2>1
<1>3. CASE i > Len(queue) - off /\ j > Len(queue) - off
  BY <1>1, <1>3 DEF Evolves
<1>4. CASE i <= Len(queue) - off /\ j > Len(queue) - off
  BY <1>1, <1>4, <1>i, <1>j, <1>q
<1>5. CASE i > Len(queue) - off /\ j <= Len(queue) - off
  BY <1>1, <1>5, <1>i, <1>j, <1>q
<1> QED BY <1>1, <1>2, <1>3, <1>4, <1>5

\* A step keeps the part of the invariant about outcomes and terminal phases.
LEMMA OutcomeStep ==
  ASSUME RInv, NEW off \in {0, 1}, Facts(off)
  PROVE  OutcomeOK'
<1>1. Evolves(off) /\ (Outcome # "none" => Outcome' = Outcome)  BY DEF Facts
<1>2. \A r : Queued(r)' => Queued(r) \/ Entered(r)  BY <1>1, QueuedOrEntered
<1>3. Entered("03") => Outcome' = "success"  BY MatchesNext DEF Entered, Cond03
<1>4. Entered("04") \/ Entered("04b") => Outcome' = "failed"
  BY MatchesNext DEF Entered, Cond04, Cond04b
<1>5. OutcomeOK  BY DEF RInv
<1>6. phase' \in {"completed", "failed"} /\ phase' # phase =>
        /\ phase' = "completed" => Queued("03")
        /\ phase' = "failed" => Queued("04") \/ Queued("04b")
  <2> SUFFICES ASSUME Moves(off), phase' \in {"completed", "failed"}
               PROVE  /\ phase' = "completed" => Queued("03")
                      /\ phase' = "failed" => Queued("04") \/ Queued("04b")
    BY DEF Facts
  <2>1. queue[1].rule \in Rules /\ Queued(queue[1].rule)  BY HeadIsQueued DEF Moves
  <2> QED BY <2>1, TargetIs DEF Moves, Rules
<1> QED BY <1>1, <1>2, <1>3, <1>4, <1>5, <1>6 DEF OutcomeOK

\* What the head of the queue says about a run that moves.
LEMMA MoveIs ==
  ASSUME RInv, NEW off \in {0, 1}, Facts(off), phase' # phase
  PROVE  /\ queue # <<>> /\ 1 \in DOMAIN queue /\ Queued(queue[1].rule) /\ queue \in Seq(Entry)
         /\ phase \notin Terminal /\ phase' # "dispatched"
         /\ phase = "dispatched" => phase' \in {"executing", "failed"}
         /\ phase' = "executing" /\ phase = "dispatched" => queue[1].rule = "02" /\ off = 1
         /\ phase' = "executing" /\ phase # "dispatched" =>
              phase = "awaiting_approval" /\ queue[1].rule \in Resumes
         /\ phase' = "awaiting_approval" =>
              phase = "executing" /\ queue[1].rule \in Pauses /\ off = 1
<1>1. Moves(off)  BY DEF Facts
<1>2. queue[1].rule \in Rules /\ Queued(queue[1].rule) /\ 1 \in DOMAIN queue
  BY <1>1, HeadIsQueued DEF Moves
<1>3. phase' = "executing" => queue[1].rule \in {"02", "11", "13"}
  BY <1>1, <1>2, TargetIs DEF Moves, Rules
<1>4. phase' = "awaiting_approval" => queue[1].rule \in {"09", "12"}
  BY <1>1, <1>2, TargetIs DEF Moves, Rules
<1>5. queue[1].rule = "02" => phase \in {"dispatched", "failed"}
  BY <1>2 DEF RInv, HandoffOK
<1>6. phase = "dispatched" => queue[1].rule \in {"02", "04b"}
  BY <1>2 DEF RInv, HandoffOK
<1>7. <<phase, phase'>> \in Edges /\ queue # <<>> /\ (queue[1].rule # "11" => off = 1)
  BY <1>1 DEF Moves
<1>8. phase \notin Terminal /\ phase' # "dispatched"
      /\ (phase = "dispatched" => phase' \in {"executing", "failed"})
      /\ (phase' = "executing" => phase \in {"dispatched", "awaiting_approval"})
      /\ (phase' = "awaiting_approval" => phase = "executing")
  BY <1>7 DEF Edges, Terminal
<1>9. queue \in Seq(Entry)  BY DEF RInv, TypeOK, Entry
<1> QED BY <1>2, <1>3, <1>4, <1>5, <1>6, <1>7, <1>8, <1>9 DEF Resumes, Pauses

\* A step keeps the part about questions, their pauses and their resumption.
LEMMA HandoffStep ==
  ASSUME RInv, NEW off \in {0, 1}, Facts(off)
  PROVE  HandoffOK'
<1>1. Evolves(off) /\ (handoff => handoff') /\ HandoffOK  BY DEF Facts, RInv
<1>2. Entered("02") => handoff' /\ phase' = "dispatched" /\ ~(handoff /\ phase = "dispatched")
  BY MatchesIs, MatchesNext DEF Entered, Cond02
<1>3. Queued("02")' => handoff' /\ phase' \in {"dispatched", "failed"}
  <2> SUFFICES ASSUME Queued("02")' PROVE handoff' /\ phase' \in {"dispatched", "failed"}  OBVIOUS
  <2>1. CASE Entered("02")  BY <1>2, <2>1
  <2>2. CASE ~Entered("02")
    <3>1. Queued("02")  BY <1>1, <2>2, QueuedOrEntered
    <3>2. handoff' /\ phase \in {"dispatched", "failed"}  BY <1>1, <3>1 DEF HandoffOK
    <3>3. CASE phase' = phase  BY <3>2, <3>3
    <3>4. CASE phase' = "executing" /\ phase # phase'
      <4>1. queue[1].rule = "02" /\ off = 1 /\ 1 \in DOMAIN queue /\ queue \in Seq(Entry)
        BY <3>2, <3>4, MoveIs DEF Terminal
      <4>2. PICK i \in DOMAIN queue' : queue'[i].rule = "02"  BY DEF Queued
      <4>o. Origin(i, off)  BY <1>1, OldOrEntered
      <4>3. i + 1 \in DOMAIN queue /\ queue[i + 1].rule = "02"
        BY <2>2, <4>1, <4>2, <4>o DEF Origin
      <4>4. i + 1 = 1  BY <1>1, <4>1, <4>3 DEF HandoffOK
      <4>5. i \in Nat \ {0}  BY <1>1, <4>2 DEF Evolves
      <4> QED BY <4>4, <4>5
    <3> QED BY <3>2, <3>3, <3>4, MoveIs DEF Terminal
  <2> QED BY <2>1, <2>2
<1>4. \A i, j \in DOMAIN queue' : queue'[i].rule = "02" /\ queue'[j].rule = "02" => i = j
  <2>1. ~(Queued("02") /\ Entered("02"))
    <3> SUFFICES ASSUME Queued("02"), Entered("02") PROVE FALSE  OBVIOUS
    <3>1. handoff /\ phase = "failed" /\ phase' = "dispatched"  BY <1>1, <1>2 DEF HandoffOK
    <3> QED BY <3>1, MoveIs
  <2>2. \A i, j \in DOMAIN queue : queue[i].rule = "02" /\ queue[j].rule = "02" => i = j
    BY <1>1 DEF HandoffOK
  <2> QED BY <1>1, <2>1, <2>2, StaysUnique
<1>5. phase' = "dispatched" => \A i \in DOMAIN queue' : queue'[i].rule \in {"02", "04b"}
  <2> SUFFICES ASSUME phase' = "dispatched", NEW i \in DOMAIN queue'
               PROVE  queue'[i].rule \in {"02", "04b"}
    OBVIOUS
  <2>1. phase = "dispatched"  BY MoveIs
  <2>2. \A r \in Rules : Entered(r) => r \in {"02", "04b"}
    BY MatchesNext DEF Entered, Rules, Cond03, Cond04, Cond09, Cond11, Cond12, Cond13
  <2>3. queue'[i] \in Entry  BY <1>1 DEF Evolves
  <2>4. queue'[i].rule \in Rules  BY <2>3 DEF Entry
  <2>5. Origin(i, off)  BY <1>1, OldOrEntered
  <2> QED BY <1>1, <2>1, <2>2, <2>4, <2>5 DEF HandoffOK, Origin
<1> QED BY <1>3, <1>4, <1>5 DEF HandoffOK

\* The rules that stop and end pauses do not meet in the queue by accident.
LEMMA MarkersStep ==
  ASSUME RInv, NEW off \in {0, 1}, Facts(off)
  PROVE  /\ Queued("09")' => clarPending' # {}
         /\ Queued("11")' => clarResumed' # {}
         /\ \A i, j \in DOMAIN queue' : queue'[i].rule = "11" /\ queue'[j].rule = "11" => i = j
         /\ \A i, j \in DOMAIN queue' : i < j /\ queue'[i].rule = "11" => queue'[j].rule # "09"
         /\ Queued("13")' => ~(phase' = "awaiting_approval" /\ note' = ClarNote)
<1>1. /\ Evolves(off) /\ MarkersOK
      /\ clarPending # {} /\ clarPending' = {} => queue # <<>> /\ queue[1].rule = "11"
      /\ clarResumed # {} /\ clarResumed' = {} =>
           queue # <<>> /\ queue[1].rule = "11" /\ off = 1
  BY DEF Facts, RInv
<1>2. queue \in Seq(Entry) /\ queue' \in Seq(Entry)  BY <1>1 DEF RInv, TypeOK, Entry, Evolves
<1>3. \A r : Queued(r)' => (Queued(r) /\ queue # <<>>) \/ Entered(r)  BY <1>1, QueuedOrEntered
<1>4. queue # <<>> => 1 \in DOMAIN queue /\ Queued(queue[1].rule)  BY HeadIsQueued
<1>5. Queued("09")' => clarPending' # {}
  <2>1. Entered("09") => clarPending' # {}  BY MatchesNext DEF Entered, Cond09
  <2> SUFFICES ASSUME Queued("09"), clarPending' = {} PROVE FALSE  BY <1>3, <2>1
  <2>2. clarPending # {}  BY <1>1 DEF MarkersOK
  <2>3. queue[1].rule = "11" /\ 1 \in DOMAIN queue  BY <1>1, <1>4, <2>2
  <2>4. PICK j \in DOMAIN queue : queue[j].rule = "09"  BY DEF Queued
  <2>5. 1 < j  BY <1>2, <2>3, <2>4
  <2> QED BY <1>1, <2>3, <2>4, <2>5 DEF MarkersOK
<1>6. Entered("11") => clarResumed' # {} /\ phase' = "awaiting_approval"
                       /\ ~(clarResumed # {} /\ phase = "awaiting_approval")
  BY MatchesIs, MatchesNext DEF Entered, Cond11
<1>7. Queued("11")' => clarResumed' # {}
  <2> SUFFICES ASSUME Queued("11")', ~Entered("11"), clarResumed' = {} PROVE FALSE  BY <1>6
  <2>1. Queued("11") /\ clarResumed # {}  BY <1>1, <1>3 DEF MarkersOK
  <2>2. queue[1].rule = "11" /\ off = 1 /\ 1 \in DOMAIN queue  BY <1>1, <1>4, <2>1
  <2>3. PICK i \in DOMAIN queue' : queue'[i].rule = "11"  BY DEF Queued
  <2>o. Origin(i, off)  BY <1>1, OldOrEntered
  <2>4. i + 1 \in DOMAIN queue /\ queue[i + 1].rule = "11"
    BY <2>2, <2>3, <2>o DEF Origin
  <2>5. i + 1 = 1  BY <1>1, <2>2, <2>4 DEF MarkersOK
  <2>6. i \in Nat \ {0}  BY <1>1, <2>3 DEF Evolves
  <2> QED BY <2>5, <2>6
<1>8. ~(Queued("11") /\ Entered("11"))
  <2> SUFFICES ASSUME Queued("11"), Entered("11") PROVE FALSE  OBVIOUS
  <2>1. clarResumed # {}  BY <1>1 DEF MarkersOK
  <2>2. phase' = "awaiting_approval" /\ phase # phase'  BY <1>6, <2>1
  <2>3. phase = "executing" /\ queue[1].rule \in Pauses /\ 1 \in DOMAIN queue /\ queue # <<>>
    BY <2>2, MoveIs
  <2>4. PICK j \in DOMAIN queue : queue[j].rule = "11"  BY DEF Queued
  <2>5. 1 < j
    <3>1. j # 1  BY <2>3, <2>4 DEF Pauses
    <3> QED BY <1>2, <2>4, <3>1
  <2> QED BY <2>3, <2>4, <2>5 DEF RInv, OrderOK, Resumes
<1>9. \A i, j \in DOMAIN queue' : queue'[i].rule = "11" /\ queue'[j].rule = "11" => i = j
  <2>1. \A i, j \in DOMAIN queue : queue[i].rule = "11" /\ queue[j].rule = "11" => i = j
    BY <1>1 DEF MarkersOK
  <2> QED BY <1>1, <1>8, <2>1, StaysUnique
<1>10. ASSUME NEW i \in DOMAIN queue', NEW j \in DOMAIN queue', i < j, queue'[i].rule = "11",
              queue'[j].rule = "09"
       PROVE  FALSE
  <2>1. Queued("11")'  BY <1>10 DEF Queued
  <2>2. ~Entered("09")  BY <1>7, <2>1, MatchesNext DEF Entered, Cond09
  <2>3. Origin(j, off) /\ Origin(i, off)  BY <1>1, <1>10, OldOrEntered
  <2>4. j <= Len(queue) - off /\ j + off \in DOMAIN queue /\ queue[j + off].rule = "09"
    BY <1>10, <2>2, <2>3 DEF Origin
  <2>5. i <= Len(queue) - off /\ i + off < j + off  BY <1>2, <1>10, <2>4
  <2>6. i + off \in DOMAIN queue /\ queue[i + off].rule = "11"
    BY <1>2, <1>10, <2>3, <2>5 DEF Origin
  <2> QED BY <1>1, <2>4, <2>5, <2>6 DEF MarkersOK
<1>11. Queued("13")' => ~(phase' = "awaiting_approval" /\ note' = ClarNote)
  <2>1. Entered("13") => note' # ClarNote
    BY MatchesNext DEF Entered, Cond13, ToolNote, ClarNote
  <2> SUFFICES ASSUME Queued("13"), phase' = "awaiting_approval", note' = ClarNote PROVE FALSE
    BY <1>3, <2>1
  <2>2. ~(phase = "awaiting_approval" /\ note = ClarNote)  BY <1>1 DEF MarkersOK
  <2>3. Moves(off)  BY <2>2 DEF Facts
  <2>4. phase # phase'
    <3>1. <<phase, phase'>> \in Edges  BY <2>3 DEF Moves
    <3> QED BY <3>1 DEF Edges
  <2>5. phase = "executing" /\ queue[1].rule \in Pauses /\ 1 \in DOMAIN queue  BY <2>4, MoveIs
  <2>6. PICK j \in DOMAIN queue : queue[j].rule = "13"  BY DEF Queued
  <2>7. 1 < j
    <3>1. j # 1  BY <2>5, <2>6 DEF Pauses
    <3> QED BY <1>2, <2>6, <3>1
  <2> QED BY <2>5, <2>6, <2>7 DEF RInv, OrderOK, Resumes
<1> QED BY <1>5, <1>7, <1>9, <1>10, <1>11

\* A step keeps the part about the order of the queue.
LEMMA OrderStep ==
  ASSUME RInv, NEW off \in {0, 1}, Facts(off)
  PROVE  OrderOK'
<1>1. Evolves(off) /\ OrderOK /\ HandoffOK  BY DEF Facts, RInv
<1>2. queue \in Seq(Entry) /\ queue' \in Seq(Entry)  BY <1>1 DEF RInv, TypeOK, Entry, Evolves
<1>3. Entered("11") \/ Entered("13") => phase' = "awaiting_approval"
  BY MatchesNext DEF Entered, Cond11, Cond13
<1>4. Entered("09") \/ Entered("12") => phase' = "executing"
  BY MatchesNext DEF Entered, Cond09, Cond12
<1>5. ASSUME phase' = "executing", NEW i \in DOMAIN queue', NEW j \in DOMAIN queue',
             i < j, queue'[i].rule \in Pauses, queue'[j].rule \in Resumes
      PROVE  FALSE
  <2>1. j <= Len(queue) - off /\ j + off \in DOMAIN queue /\ queue[j + off].rule \in Resumes
    <3>1. queue'[j].rule = "11" \/ queue'[j].rule = "13"  BY <1>5 DEF Resumes
    <3>2. ~Entered(queue'[j].rule)  BY <1>3, <1>5, <3>1
    <3>3. Origin(j, off)  BY <1>1, <1>5, OldOrEntered
    <3> QED BY <1>5, <3>2, <3>3 DEF Origin
  <2>2. i + off \in DOMAIN queue /\ queue[i + off].rule \in Pauses /\ i + off < j + off
    <3>1. i <= Len(queue) - off /\ i + off < j + off  BY <1>2, <1>5, <2>1
    <3>2. Origin(i, off)  BY <1>1, <1>5, OldOrEntered
    <3>3. i + off \in DOMAIN queue /\ queue'[i].rule = queue[i + off].rule
      BY <1>2, <3>1, <3>2 DEF Origin
    <3> QED BY <1>5, <3>1, <3>3
  <2>3. CASE phase = "executing"  BY <1>1, <2>1, <2>2, <2>3 DEF OrderOK
  <2>4. CASE phase = "dispatched"  BY <1>1, <2>2, <2>4 DEF HandoffOK, Pauses
  <2>5. CASE phase \notin {"executing", "dispatched"}
    <3>1. phase = "awaiting_approval" /\ queue[1].rule \in Resumes /\ 1 \in DOMAIN queue
      BY <1>5, <2>5, MoveIs
    <3>2. 1 < i + off
      <4>1. i + off # 1  BY <2>2, <3>1 DEF Resumes, Pauses
      <4> QED BY <1>2, <2>2, <4>1
    <3> QED BY <1>1, <2>2, <3>1, <3>2 DEF OrderOK
  <2> QED BY <2>3, <2>4, <2>5
<1>6. ASSUME phase' = "awaiting_approval", NEW i \in DOMAIN queue', NEW j \in DOMAIN queue',
             i < j, queue'[i].rule \in Resumes, queue'[j].rule \in Pauses
      PROVE  FALSE
  <2>1. j <= Len(queue) - off /\ j + off \in DOMAIN queue /\ queue[j + off].rule \in Pauses
    <3>1. Origin(j, off)  BY <1>1, <1>6, OldOrEntered
    <3>2. queue'[j].rule = "09" \/ queue'[j].rule = "12"  BY <1>6 DEF Pauses
    <3>3. ~Entered(queue'[j].rule)  BY <1>4, <1>6, <3>2
    <3> QED BY <1>6, <3>1, <3>3 DEF Origin
  <2>2. i + off \in DOMAIN queue /\ queue[i + off].rule \in Resumes /\ i + off < j + off
    <3>1. i <= Len(queue) - off /\ i + off < j + off  BY <1>2, <1>6, <2>1
    <3>2. Origin(i, off)  BY <1>1, <1>6, OldOrEntered
    <3>3. i + off \in DOMAIN queue /\ queue'[i].rule = queue[i + off].rule
      BY <1>2, <3>1, <3>2 DEF Origin
    <3> QED BY <1>6, <3>1, <3>3
  <2>3. CASE phase = "awaiting_approval"  BY <1>1, <2>1, <2>2, <2>3 DEF OrderOK
  <2>4. CASE phase # "awaiting_approval"
    <3>1. phase = "executing" /\ queue[1].rule \in Pauses /\ off = 1 /\ 1 \in DOMAIN queue
      BY <1>6, <2>4, MoveIs
    <3>2. 1 < i + off  BY <1>2, <1>6, <3>1
    <3> QED BY <1>1, <2>2, <3>1, <3>2 DEF OrderOK
  <2> QED BY <2>3, <2>4
<1> QED BY <1>5, <1>6 DEF OrderOK

\* Only the rule at the head of the queue has begun.
LEMMA BegunStep ==
  ASSUME RInv, Next
  PROVE  (\A i \in DOMAIN queue : queue[i].step # 1 => i = 1)'
<1> SUFFICES ASSUME NEW i \in DOMAIN queue', queue'[i].step # 1
             PROVE  i = 1
  OBVIOUS
<1>1. /\ TypeOK /\ queue \in Seq(Entry)
      /\ \A j \in DOMAIN queue : queue[j].step # 1 => j = 1
  BY DEF RInv, TypeOK, Entry, MarkersOK
<1>2. ASSUME Select(Tail(queue)), queue # <<>> PROVE i = 1
  <2>1. /\ Evolves(1)
        /\ \A j \in DOMAIN queue' : j <= Len(queue) - 1 => queue'[j] = queue[j + 1]
    BY <1>1, <1>2, TailEvolves
  <2>2. i + 1 \in DOMAIN queue /\ i <= Len(queue) - 1  BY <2>1, OldOrEntered DEF Origin
  <2>3. i + 1 = 1  BY <1>1, <2>1, <2>2
  <2>4. i \in Nat \ {0}  BY <2>1 DEF Evolves
  <2> QED BY <2>3, <2>4
<1>3. ASSUME Select(queue) PROVE i = 1
  <2>1. Evolves(0) /\ \A j \in DOMAIN queue : queue'[j] = queue[j]  BY <1>1, <1>3, StampEvolves
  <2>2. i + 0 \in DOMAIN queue  BY <2>1, OldOrEntered DEF Origin
  <2>3. i \in DOMAIN queue
    <3>1. i \in Nat  BY <2>1 DEF Evolves
    <3> QED BY <2>2, <3>1
  <2> QED BY <1>1, <2>1, <2>3
<1>4. ASSUME Select(Advance), queue # <<>>, NEW k \in 1..2, Head(queue) = [rule |-> "11", step |-> k]
      PROVE  i = 1
  <2>1. Evolves(0) /\ \A j \in DOMAIN queue : j > 1 => queue'[j] = queue[j]
    BY <1>1, <1>4, AdvanceEvolves
  <2>2. i + 0 \in DOMAIN queue  BY <2>1, OldOrEntered DEF Origin
  <2>3. i \in DOMAIN queue /\ i \in Nat \ {0}
    <3>1. i \in Nat \ {0}  BY <2>1 DEF Evolves
    <3> QED BY <2>2, <3>1
  <2> QED BY <1>1, <2>1, <2>3
<1>5. CASE \E r \in Rules : Execute(r)  BY <1>2, <1>5 DEF Execute
<1>6. CASE Resume1
  <2>1. queue # <<>> /\ Head(queue) = [rule |-> "11", step |-> 1]  BY <1>6 DEF Resume1
  <2>2. 1 \in 1..2  OBVIOUS
  <2>3. Select(Tail(queue)) \/ Select(Advance)  BY <1>6 DEF Resume1
  <2> QED BY <1>2, <1>4, <2>1, <2>2, <2>3
<1>7. CASE Resume2
  <2>1. queue # <<>> /\ Head(queue) = [rule |-> "11", step |-> 2] /\ Select(Advance)
    BY <1>7 DEF Resume2
  <2>2. 2 \in 1..2  OBVIOUS
  <2> QED BY <1>4, <2>1, <2>2
<1>8. CASE Resume3  BY <1>2, <1>8 DEF Resume3
<1>9. CASE Stamps
  BY <1>3, <1>9
  DEF Stamps, StampHandoff, StampSuccess, StampFailed, StampOutcome, AskUserRunAnchor,
      AskUserLineageAnchor, StampPending, StampResumed, GateObserved, GateAnswered
<1> QED BY <1>5, <1>6, <1>7, <1>8, <1>9 DEF Next, Engine

\* Every pause by rule 09 uses up one question.
LEMMA PausesStep ==
  ASSUME RInv, Next
  PROVE  PausesOK'
<1>1. /\ TypeOK /\ queue \in Seq(Entry) /\ IsFiniteSet(asked) /\ clarPauses \in Nat
      /\ clarPauses + (IF PauseDue THEN 1 ELSE 0) <= Cardinality(asked)
      /\ Cardinality(asked) \in Nat
  BY FS_CardinalityType DEF RInv, TypeOK, Entry, PausesOK
<1>2. ASSUME UNCHANGED <<asked, clarPauses>>, PauseDue' => PauseDue
      PROVE  PausesOK'
  BY <1>1, <1>2 DEF PausesOK
<1>3. ASSUME NEW r \in Rules, Execute(r)
      PROVE  PausesOK'
  <2>1. /\ queue # <<>> /\ Head(queue).rule = r /\ queue[1].rule = r /\ r # "11"
        /\ UNCHANGED <<clarPending, asked>>
    BY <1>1, <1>3 DEF Execute, markers, humanVars
  <2>2. Queued(r) /\ ~Removing  BY <2>1, HeadIsQueued DEF Removing
  <2>3. CASE UNCHANGED <<phase, note, clarPauses>>  BY <1>2, <2>1, <2>2, <2>3 DEF PauseDue
  <2>4. CASE LegalTransition(r)
    <3>1. <<phase, phase'>> \in Edges /\ phase' = Target[r] /\ note' = Reason(r)
          /\ clarPauses' = IF r = "09" THEN clarPauses + 1 ELSE clarPauses
      BY <2>4 DEF LegalTransition
    <3>2. CASE r = "09"
      <4>1. phase = "executing" /\ phase' = "awaiting_approval" /\ note' = ClarNote
        BY <3>1, <3>2, TargetIs DEF Edges, Reason
      <4>2. PauseDue  BY <2>2, <3>2, <4>1 DEF PauseDue, RInv, MarkersOK
      <4>3. ~PauseDue'  BY <4>1 DEF PauseDue
      <4> QED BY <1>1, <2>1, <3>1, <3>2, <4>2, <4>3 DEF PausesOK
    <3>3. CASE r # "09"
      <4>1. ~(phase = "awaiting_approval" /\ note = ClarNote)
        <5> SUFFICES ASSUME phase = "awaiting_approval", note = ClarNote PROVE FALSE  OBVIOUS
        <5>1. phase' = "executing"  BY <3>1 DEF Edges
        <5>2. r \in {"02", "11", "13"}  BY <3>1, <5>1, TargetIs DEF Rules
        <5>3. r = "02"  BY <2>1, <2>2, <5>2 DEF RInv, MarkersOK
        <5> QED BY <2>2, <5>3 DEF RInv, HandoffOK
      <4>2. PauseDue' => PauseDue  BY <2>1, <2>2, <4>1 DEF PauseDue
      <4> QED BY <1>2, <2>1, <3>1, <3>3, <4>2
    <3> QED BY <3>2, <3>3
  <2> QED BY <1>3, <2>3, <2>4 DEF Execute, runVars
<1>4. CASE Resume1
  <2>1. /\ queue # <<>> /\ queue[1].rule = "11" /\ Head(queue) = [rule |-> "11", step |-> 1]
        /\ UNCHANGED <<clarPending, asked>> /\ queue[1] = [rule |-> "11", step |-> 1]
    BY <1>1, <1>4 DEF Resume1, markers, humanVars
  <2>2. UNCHANGED clarPauses  BY <1>4 DEF Resume1, LegalTransition
  <2>3. CASE Select(Advance)
    <3>1. queue' # <<>> /\ queue'[1] = [rule |-> "11", step |-> 2]
      <4>1. 1 \in 1..2 /\ 1 + 1 = 2  OBVIOUS
      <4>2. 1 \in DOMAIN queue' /\ queue'[1] = [rule |-> "11", step |-> 2]
        BY <1>1, <2>1, <2>3, <4>1, AdvanceEvolves
      <4> QED BY <4>2
    <3>2. ~PauseDue'  BY <3>1 DEF PauseDue, Removing
    <3> QED BY <1>2, <2>1, <2>2, <3>2
  <2>4. CASE ~Select(Advance)
    <3>1. UNCHANGED <<phase, note>>  BY <1>4, <2>4 DEF Resume1, runVars
    <3>2. ~Removing  BY <2>1 DEF Removing
    <3> QED BY <1>2, <2>1, <2>2, <3>1, <3>2 DEF PauseDue
  <2> QED BY <2>3, <2>4
<1>5. CASE Resume2
  BY <1>2, <1>5 DEF Resume2, PauseDue, humanVars
<1>6. CASE Resume3
  <2>1. /\ queue # <<>> /\ queue[1] = [rule |-> "11", step |-> 3]
        /\ UNCHANGED <<clarPending, asked, clarPauses, phase, note>>
    BY <1>1, <1>6 DEF Resume3, humanVars, runVars
  <2>2. ~Removing  BY <2>1 DEF Removing
  <2> QED BY <1>2, <2>1, <2>2 DEF PauseDue
<1>7. CASE Stamps
  <2>1. UNCHANGED <<phase, note, clarPauses>>  BY <1>7, StampsFacts
  <2>2. Removing => Removing'
    <3> SUFFICES ASSUME Removing PROVE Removing'  OBVIOUS
    <3>1. Select(queue)
      BY <1>7 DEF Stamps, StampHandoff, StampSuccess, StampFailed, StampOutcome,
         AskUserRunAnchor, AskUserLineageAnchor, StampPending, StampResumed, GateObserved,
         GateAnswered
    <3>2. Evolves(0) /\ \A i \in DOMAIN queue : queue'[i] = queue[i]  BY <1>1, <3>1, StampEvolves
    <3>3. 1 \in DOMAIN queue  BY <1>1 DEF Removing
    <3>4. queue'[1] = queue[1]  BY <3>2, <3>3
    <3>5. queue' # <<>>  BY <1>1, <3>2, <3>3 DEF Evolves
    <3> QED BY <3>4, <3>5 DEF Removing
  <2>3. CASE UNCHANGED <<clarPending, asked>>
    BY <1>2, <2>1, <2>2, <2>3 DEF PauseDue
  <2>4. ASSUME NEW l \in Loops, StampPending(l) PROVE PausesOK'
    <3>1. l \notin asked /\ asked' = asked \cup {l}  BY <2>4 DEF StampPending
    <3>2. IsFiniteSet(asked') /\ Cardinality(asked') = Cardinality(asked) + 1
      BY <1>1, <3>1, FS_AddElement
    <3> QED BY <1>1, <2>1, <3>2 DEF PausesOK
  <2> QED
    BY <1>7, <2>3, <2>4
    DEF Stamps, StampHandoff, StampSuccess, StampFailed, StampOutcome, AskUserRunAnchor,
        AskUserLineageAnchor, StampResumed, GateObserved, GateAnswered, markers, humanVars
<1> QED BY <1>3, <1>4, <1>5, <1>6, <1>7 DEF Next, Engine

\* The run as it is opened.
LEMMA InvInit == Init => RInv
<1> SUFFICES ASSUME Init PROVE RInv  OBVIOUS
<1>1. queue = <<>> /\ DOMAIN queue = {}  BY DEF Init
<1>2. TypeOK
  <2>1. queue \in Seq([rule : Rules, step : 1..3]) /\ outcome \in Seq({"success", "failed"})
    BY DEF Init
  <2>2. phase \in Phases /\ from \in Phases \cup {"none"}
    BY DEF Init, Phases
  <2>3. note \in {ToolNote, ClarNote, ResumeNote, "other"}  BY DEF Init
  <2> QED BY <2>1, <2>2, <2>3 DEF Init, TypeOK
<1>3. \A r : ~Queued(r)  BY <1>1 DEF Queued
<1>4. PausesOK
  <2>1. IsFiniteSet({}) /\ Cardinality({}) = 0  BY FS_EmptySet
  <2> QED BY <2>1 DEF PausesOK, Init, PauseDue
<1>5. OutcomeOK /\ HandoffOK /\ MarkersOK /\ OrderOK
  BY <1>1, <1>3 DEF OutcomeOK, HandoffOK, MarkersOK, OrderOK, Init
<1> QED BY <1>2, <1>4, <1>5 DEF RInv

\* What every step does to the run and to the queue.
LEMMA StepFacts ==
  ASSUME RInv, Next
  PROVE  TypeOK' /\ \E off \in {0, 1} : Facts(off)
  BY ExecuteFacts, Resume1Facts, Resume2Facts, Resume3Facts, StampsFacts DEF Next, Engine

\* Every step keeps the invariant.
LEMMA InvNext == RInv /\ [Next]_vars => RInv'
<1> SUFFICES ASSUME RInv, [Next]_vars PROVE RInv'  OBVIOUS
<1>1. CASE Next
  <2>1. PICK off \in {0, 1} : Facts(off)  BY <1>1, StepFacts
  <2>2. TypeOK' /\ OutcomeOK' /\ HandoffOK' /\ OrderOK' /\ PausesOK'
    BY <1>1, <2>1, StepFacts, OutcomeStep, HandoffStep, OrderStep, PausesStep
  <2>3. MarkersOK'  BY <1>1, <2>1, MarkersStep, BegunStep DEF MarkersOK
  <2> QED BY <2>2, <2>3 DEF RInv
<1>2. CASE UNCHANGED vars
  BY <1>2 DEF vars, runVars, markers, gateVars, humanVars, RInv, TypeOK, OutcomeOK, HandoffOK,
              MarkersOK, OrderOK, PausesOK, Queued, PauseDue, Removing, Outcome
<1> QED BY <1>1, <1>2

-----------------------------------------------------------------------------
\* Whatever order rules, stamps and gates come in, the inductive invariant holds.
THEOREM RInvAlways == Spec => []RInv
  BY InvInit, InvNext, PTL DEF Spec

\* Rule 09 pauses the run at most once per question asked, although rule 11
\* clears the two markers in two revisions (09-clarification-pause.json).
THEOREM OnePausePerQuestionAlways == Spec => []OnePausePerQuestion
<1>1. RInv => OnePausePerQuestion
  <2> SUFFICES ASSUME RInv PROVE OnePausePerQuestion  OBVIOUS
  <2>1. Cardinality(asked) \in Nat /\ clarPauses \in Nat
    BY FS_CardinalityType DEF RInv, PausesOK, TypeOK
  <2> QED BY <2>1 DEF RInv, PausesOK, OnePausePerQuestion
<1> QED BY <1>1, RInvAlways, PTL

\* A run parked by rule 09 goes back to executing only through rule 11, even when
\* rule 13 was selected long before (13-tool-approval-resume.json).
THEOREM ClarificationPauseKeptAlways == Spec => ClarificationPauseKept
<1>1. RInv /\ [Next]_vars =>
        [phase = "awaiting_approval" /\ note = ClarNote /\ phase' = "executing"
           => note' = ResumeNote]_vars
  <2> SUFFICES ASSUME RInv, Next, phase = "awaiting_approval", note = ClarNote, phase' = "executing"
               PROVE  note' = ResumeNote
    OBVIOUS
  <2>1. PICK off \in {0, 1} : Facts(off)  BY StepFacts
  <2>2. queue[1].rule \in Resumes /\ Queued(queue[1].rule)  BY <2>1, MoveIs
  <2>3. queue[1].rule = "11"  BY <2>2 DEF Resumes, RInv, MarkersOK
  <2>4. note' = Reason(queue[1].rule)  BY <2>1 DEF Facts, Moves
  <2> QED BY <2>3, <2>4 DEF Reason
<1> QED BY <1>1, RInvAlways, PTL DEF Spec, ClarificationPauseKept

\* A terminal run never moves again and agrees with the first outcome stamped,
\* whatever is stamped, asked or gated after it (03, 04 and 04b).
THEOREM TerminalIsFinalAlways == Spec => TerminalIsFinal
<1>1. RInv /\ [Next]_vars =>
        [/\ phase \in Terminal => phase' = phase
         /\ phase' = "completed" => Outcome = "success"
         /\ phase' = "failed" => Outcome = "failed"]_vars
  <2> SUFFICES ASSUME RInv, Next
               PROVE  /\ phase \in Terminal => phase' = phase
                      /\ phase' = "completed" => Outcome = "success"
                      /\ phase' = "failed" => Outcome = "failed"
    OBVIOUS
  <2>1. PICK off \in {0, 1} : Facts(off)  BY StepFacts
  <2>2. OutcomeOK  BY DEF RInv
  <2>3. CASE phase' = phase  BY <2>2, <2>3 DEF OutcomeOK
  <2>4. CASE phase' # phase
    <3>1. phase \notin Terminal /\ Queued(queue[1].rule) /\ queue # <<>>  BY <2>1, <2>4, MoveIs
    <3>2. phase' = Target[queue[1].rule]  BY <2>1, <2>4 DEF Facts, Moves
    <3>3. queue[1].rule \in Rules  BY <3>1, HeadIsQueued
    <3>4. /\ phase' = "completed" => queue[1].rule = "03"
          /\ phase' = "failed" => queue[1].rule \in {"04", "04b"}
      BY <3>2, <3>3, TargetIs DEF Rules
    <3> QED BY <2>2, <3>1, <3>4 DEF OutcomeOK
  <2> QED BY <2>3, <2>4
<1> QED BY <1>1, RInvAlways, PTL DEF Spec, TerminalIsFinal
=============================================================================
