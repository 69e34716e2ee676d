---------------------- MODULE ApprovalProjectionProofs ----------------------
(***************************************************************************)
(* TLAPS proofs about ApprovalProjection, for every set of runs, loops,    *)
(* gates and handlers and every bound.                                     *)
(***************************************************************************)
EXTENDS ApprovalProjection, FiniteSetTheorems, TLAPS

\* Either subscription starts the same recording of a gate on its local run.
LEMMA HandleStamps ==
  ASSUME NEW w \in Workers, NEW e \in events, Handle(w, e)
  PROVE  stampRunMarker(w, e) /\ RunOf(e.gate) \in Runs
  BY DEF Handle, handlePendingMsg, handleResponseMsg, HandlePending, HandleResponse,
     stampRunMarker, validateRun

\* Sets of gates have a natural cardinality.
LEMMA GateCardinality == \A S \in SUBSET Gates : Cardinality(S) \in Nat
  BY GatesFinite, FS_Subset, FS_CardinalityType

\* The desired facts are well-typed whatever was read.
LEMMA ApprovalFactsType ==
  ASSUME NEW f \in Facts, NEW g \in Gates, NEW answer \in BOOLEAN
  PROVE  approvalFacts(f, g, answer) \in Facts
<1> DEFINE P == f.pending \cup {g}
           A == IF answer THEN f.answered \cup {g} ELSE f.answered
<1>1. P \in SUBSET Gates /\ A \in SUBSET Gates  BY DEF Facts
<1>2. Cardinality(P) - Cardinality(A) \in Int   BY <1>1, GateCardinality
<1> QED BY <1>1, <1>2 DEF approvalFacts, Facts

\* Every answer of the owner leaves the handlers well-typed.
LEMMA AnsweredType ==
  ASSUME TypeOK, NEW q \in requests, NEW reply \in Replies
  PROVE  /\ Answered(q, reply) \in [Workers -> WorkerStates]
         /\ \A w \in Workers :
              /\ Answered(q, reply)[w].pc = worker[w].pc
              /\ Answered(q, reply)[w].event = worker[w].event
              /\ Answered(q, reply)[w].already = worker[w].already
              /\ Answered(q, reply)[w].result = worker[w].result
              /\ Answered(q, reply)[w].reply =
                   IF w = q.from /\ worker[w].pc = "wait" THEN reply ELSE worker[w].reply
<1> USE ConstantsOK DEF TypeOK
<1>1. q.from \in Workers \cup {NoWorker}  BY DEF Requests
<1>2. CASE q.from \in Workers /\ worker[q.from].pc = "wait"
  <2>1. Answered(q, reply) = [worker EXCEPT ![q.from] = [@ EXCEPT !.reply = reply]]
    BY <1>2 DEF Answered
  <2>2. [worker[q.from] EXCEPT !.reply = reply] \in WorkerStates
    BY <1>2 DEF WorkerStates
  <2> QED BY <1>2, <2>1, <2>2 DEF WorkerStates
<1>3. CASE ~(q.from \in Workers /\ worker[q.from].pc = "wait")
  BY <1>1, <1>3 DEF Answered
<1> QED BY <1>2, <1>3

\* The initial states are well-typed.
LEMMA TypeInit == Init => TypeOK
<1> USE ConstantsOK
<1> SUFFICES ASSUME Init PROVE TypeOK  OBVIOUS
<1>1. facts \in [Runs -> Facts]  BY DEF Init, Facts, NoCount
<1>2. worker \in [Workers -> WorkerStates]
  BY DEF Init, Idle, WorkerStates, Results, Replies
<1> QED BY <1>1, <1>2 DEF Init, TypeOK, Idle

\* Every step keeps the variables in their types.
LEMMA TypeStep == TypeOK /\ [Next]_vars => TypeOK'
<1> USE ConstantsOK
<1> SUFFICES ASSUME TypeOK, [Next]_vars PROVE TypeOK'  OBVIOUS
<1>1. CASE Environment
  <2>1. CASE \E g \in Gates : PublishPending(g)
    BY <2>1 DEF PublishPending, TypeOK, Events
  <2>2. CASE \E g \in Gates, d \in Decisions \cup {"other"} : PublishResponse(g, d)
    BY <2>2 DEF PublishResponse, TypeOK, Events
  <2>3. CASE \E r \in Runs : OtherWrite(r)
    BY <2>3 DEF OtherWrite, TypeOK
  <2> QED BY <1>1, <2>1, <2>2, <2>3 DEF Environment
<1>2. ASSUME NEW w \in Workers, NEW e \in events, Handle(w, e) PROVE TypeOK'
  <2>0. stampRunMarker(w, e)  BY <1>2, HandleStamps
  <2>1. e \in Events /\ e.gate \in Gates /\ RunOf(e.gate) \in Runs
    BY <2>0 DEF stampRunMarker, validateRun, TypeOK, Events
  <2>2. worker' \in [Workers -> WorkerStates]
    BY <2>0, <2>1 DEF stampRunMarker, TypeOK, WorkerStates, Results, Replies
  <2>3. requests' \subseteq Requests
    BY <2>0 DEF stampRunMarker, Disown, TypeOK, Requests
  <2>4. \A v \in Workers : worker'[v].pc # "idle" =>
           worker'[v].event \in Events /\ RunOf(worker'[v].event.gate) \in Runs
    BY <2>0, <2>1 DEF stampRunMarker, TypeOK
  <2> QED BY <2>0, <2>2, <2>3, <2>4 DEF stampRunMarker, TypeOK
<1>3. ASSUME NEW w \in Workers, HandlerStep(w) PROVE TypeOK'
  <2>1. CASE Attempt(w)
    <3> DEFINE g == worker[w].event.gate
               r == RunOf(g)
               a == IsAnswer(worker[w].event)
    <3>1. g \in Gates /\ r \in Runs /\ a \in BOOLEAN
      BY <2>1 DEF Attempt, TypeOK, Events, IsAnswer
    <3>2. approvalFacts(facts[r], g, a) \in Facts
      BY <3>1, ApprovalFactsType DEF TypeOK
    <3>3. requests' \subseteq Requests
      BY <2>1, <3>1, <3>2 DEF Attempt, TypeOK, Requests
    <3> DEFINE s == [worker[w] EXCEPT !.pc = "wait", !.reply = "none",
                                      !.already = g \in facts[r].answered]
    <3>a. s \in WorkerStates
      <4>1. worker[w] \in WorkerStates  BY DEF TypeOK
      <4>2. (g \in facts[r].answered) \in BOOLEAN  OBVIOUS
      <4> HIDE DEF g, r
      <4> QED BY <4>1, <4>2 DEF WorkerStates, Replies
    <3>4. worker' \in [Workers -> WorkerStates]
      BY <2>1, <3>a DEF Attempt, TypeOK
    <3>5. \A v \in Workers : worker'[v].pc # "idle" =>
           worker'[v].event \in Events /\ RunOf(worker'[v].event.gate) \in Runs
      BY <2>1 DEF Attempt, TypeOK, WorkerStates
    <3> QED BY <2>1, <3>3, <3>4, <3>5 DEF Attempt, TypeOK
  <2>2. CASE RejectFacts(w)
    BY <2>2 DEF RejectFacts, TypeOK, Idle, WorkerStates, Results, Replies
  <2>3. CASE Abandon(w)
    BY <2>3 DEF Abandon, TypeOK, Idle, WorkerStates, Results, Replies
  <2>4. CASE Receipt(w)
    <3>1. worker' \in [Workers -> WorkerStates]
      BY <2>4 DEF Receipt, TypeOK, Idle, WorkerStates, Results, Replies
    <3>2. \A v \in Workers : worker'[v].pc # "idle" => worker'[v] = worker[v]
      BY <2>4 DEF Receipt, TypeOK, Idle
    <3>3. worker[w].event \in Events /\ worker[w].event.gate \in Gates
      BY <2>4 DEF Receipt, TypeOK, Events
    <3>4. acked' \subseteq Events /\ stamped' \in [Gates -> Nat]
      BY <2>4, <3>3 DEF Receipt, TypeOK
    <3> QED BY <2>4, <3>1, <3>2, <3>4 DEF Receipt, TypeOK
  <2>5. CASE Retry(w)
    <3>1. CASE worker[w].attempt + 1 < MaxAttempts
      <4> DEFINE s == [worker[w] EXCEPT !.pc = "attempt", !.attempt = @ + 1,
                                        !.reply = "none"]
      <4>1. s \in WorkerStates /\ s.event = worker[w].event
        <5>1. worker[w] \in WorkerStates  BY DEF TypeOK
        <5>2. worker[w].attempt + 1 \in 0..(MaxAttempts - 1)
          BY <3>1, <5>1 DEF WorkerStates
        <5> QED BY <5>1, <5>2 DEF WorkerStates, Replies
      <4>2. worker' = [worker EXCEPT ![w] = s]  BY <2>5, <3>1 DEF Retry
      <4>3. worker[w].pc = "wait"  BY <2>5 DEF Retry
      <4> HIDE DEF s
      <4> QED BY <2>5, <4>1, <4>2, <4>3 DEF Retry, TypeOK
    <3>2. CASE ~(worker[w].attempt + 1 < MaxAttempts)
      BY <2>5, <3>2 DEF Retry, TypeOK, Idle, WorkerStates, Results, Replies
    <3> QED BY <3>1, <3>2
  <2>6. CASE Refuse(w)
    BY <2>6 DEF Refuse, TypeOK, Idle, WorkerStates, Results, Replies
  <2>7. CASE Unknown(w)
    BY <2>7 DEF Unknown, TypeOK, Idle, WorkerStates, Results, Replies
  <2> QED BY <1>3, <2>1, <2>2, <2>3, <2>4, <2>5, <2>6, <2>7 DEF HandlerStep
<1>4. CASE OwnerStep
  <2>1. PICK q \in requests : Commit(q) \/ Unchanged(q) \/ Mismatch(q)
    BY <1>4 DEF OwnerStep
  <2>2. q.run \in Runs /\ q.desired \in Facts  BY DEF TypeOK, Requests
  <2>3. CASE Commit(q)
    <3>1. worker' = Answered(q, "applied")  BY <2>3 DEF Commit
    <3>2. facts' \in [Runs -> Facts] /\ rev' \in [Runs -> Nat]
      BY <2>2, <2>3 DEF Commit, TypeOK
    <3> QED BY <2>3, <3>1, <3>2, AnsweredType DEF Commit, TypeOK, Replies
  <2>4. CASE Unchanged(q)
    <3>1. worker' = Answered(q, "unchanged") /\ "unchanged" \in Replies
      BY <2>4 DEF Unchanged, Replies
    <3> QED BY <2>4, <3>1, AnsweredType DEF Unchanged, TypeOK
  <2>5. CASE Mismatch(q)
    <3>1. worker' = Answered(q, "mismatch") /\ "mismatch" \in Replies
      BY <2>5 DEF Mismatch, Replies
    <3> QED BY <2>5, <3>1, AnsweredType DEF Mismatch, TypeOK
  <2> QED BY <2>1, <2>3, <2>4, <2>5
<1>5. CASE UNCHANGED vars
  BY <1>5 DEF vars, TypeOK
<1> QED BY <1>1, <1>2, <1>3, <1>4, <1>5 DEF Next

\* TypeOK holds in every reachable state: the types of all variables, and a
\* handler at work (Handle guards it) has an event of a loop that is in a run.
THEOREM TypeCorrect == Spec => []TypeOK
  BY TypeInit, TypeStep, PTL DEF Spec

(***************************************************************************)
(* The inductive invariant                                                 *)
(***************************************************************************)

\* A request either is fenced off for good (the run has moved on) or still
\* asks for exactly the facts that one event adds to what is stored now.
Fenced(q) ==
  /\ q.run = RunOf(q.gate)
  /\ q.rev <= rev[q.run]
  /\ q.rev = rev[q.run] =>
       /\ FactsValid(facts[q.run])
       /\ q.desired = approvalFacts(facts[q.run], q.gate, q.answer)

\* A request of a running activation belongs to the event it is working on,
\* is its only one, and has not been answered.
Owned(q) ==
  q.from \in Workers /\ worker[q.from].pc # "idle" =>
     /\ worker[q.from].pc = "wait"
     /\ worker[q.from].reply = "none"
     /\ q.gate = worker[q.from].event.gate
     /\ q.answer = IsAnswer(worker[q.from].event)
     /\ q.rev = rev[q.run] =>
          worker[q.from].already = (q.gate \in facts[q.run].answered)

Single ==
  \A p, q \in requests : p.from = q.from /\ p.from \in Workers => p = q

\* What the answers received so far entitle a waiting handler to report.
Replied(w) ==
  /\ worker[w].pc = "attempt" => ~landed[w]
  /\ worker[w].pc = "wait" /\ worker[w].reply \in {"none", "mismatch"} => ~landed[w]
  /\ worker[w].pc = "wait" /\ worker[w].reply \in {"applied", "unchanged"} =>
       Recorded(worker[w].event)

\* Only events of loops that belong to a run are acknowledged.
AckedInRun == \A e \in acked : RunOf(e.gate) \in Runs

IInv ==
  /\ TypeOK
  /\ AckedInRun
  /\ OutstandingMatches
  /\ AckedRecorded
  /\ NotCommittedIsDefinite
  /\ \A q \in requests : Fenced(q) /\ Owned(q)
  /\ Single
  /\ \A w \in Workers : Replied(w)

\* Facts derived from valid facts are valid and keep every stored receipt.
LEMMA ApprovalFactsGrow ==
  ASSUME NEW f \in Facts, FactsValid(f), NEW g \in Gates, NEW answer \in BOOLEAN
  PROVE  LET d == approvalFacts(f, g, answer)
         IN /\ d.answered \subseteq d.pending
            /\ d.outstanding = Cardinality(d.pending) - Cardinality(d.answered)
            /\ f.pending \subseteq d.pending
            /\ f.answered \subseteq d.answered
            /\ g \in d.pending
            /\ answer => g \in d.answered
  BY DEF approvalFacts, FactsValid, Facts

\* Steps that leave the stored facts, the requests and the acknowledgements
\* alone keep every part of the invariant that is only about them.
LEMMA RecordedStable ==
  ASSUME TypeOK, NEW e \in Events, RunOf(e.gate) \in Runs, Recorded(e),
         \A r \in Runs : /\ facts[r].pending \subseteq facts'[r].pending
                         /\ facts[r].answered \subseteq facts'[r].answered
  PROVE  Recorded(e)'
  BY DEF Recorded, IsAnswer

\* A handler finishing without having committed anything keeps the invariant:
\* it has no request in flight (Owned) and nothing landed (Replied).
LEMMA FinishStep ==
  ASSUME IInv, TypeOK', NEW w \in Workers, NEW res \in Results,
         worker[w].pc # "idle",
         worker' = [worker EXCEPT ![w] = Idle(res)],
         requests' \subseteq requests,
         res \in NotCommitted => ~landed[w] /\ \A q \in requests' : q.from # w,
         UNCHANGED <<facts, rev, acked, landed>>
  PROVE  IInv'
<1> USE ConstantsOK DEF IInv
<1>1. \A v \in Workers \ {w} : worker'[v] = worker[v]  BY DEF TypeOK
<1>2. worker'[w] = Idle(res)  BY DEF TypeOK
<1>3. OutstandingMatches'  BY DEF OutstandingMatches
<1>4. AckedRecorded' /\ AckedInRun'  BY DEF AckedRecorded, AckedInRun, Recorded
<1>5. NotCommittedIsDefinite'
  BY <1>1, <1>2 DEF NotCommittedIsDefinite, Idle
<1>6. \A q \in requests' : Fenced(q)'  BY DEF Fenced
<1>7. ASSUME NEW q \in requests' PROVE Owned(q)'
  <2>1. Owned(q)  OBVIOUS
  <2>2. CASE q.from = w
    <3>1. worker'[w].pc = "idle"  BY <1>2 DEF Idle
    <3> QED BY <2>2, <3>1 DEF Owned
  <2>3. CASE q.from # w
    BY <1>1, <2>1, <2>3 DEF Owned
  <2> QED BY <2>2, <2>3
<1>8. Single'  BY DEF Single
<1>9. \A v \in Workers : Replied(v)'
  BY <1>1, <1>2 DEF Replied, Recorded, Idle
<1> QED BY <1>3, <1>4, <1>5, <1>6, <1>7, <1>8, <1>9

\* The invariant holds initially.
LEMMA IInvInit == Init => IInv
<1> SUFFICES ASSUME Init PROVE IInv  OBVIOUS
<1>1. TypeOK  BY TypeInit
<1> QED BY <1>1 DEF Init, IInv, OutstandingMatches, AckedRecorded, AckedInRun,
                    NotCommittedIsDefinite, Single, Replied, Idle, NotCommitted

\* Publications and other writers: revisions may only move away from requests.
LEMMA EnvironmentStep == IInv /\ TypeOK' /\ Environment => IInv'
<1> SUFFICES ASSUME IInv, TypeOK', Environment PROVE IInv'  OBVIOUS
<1> USE DEF IInv
<1>1. UNCHANGED <<facts, worker, requests, acked, landed>>
  BY DEF Environment, PublishPending, PublishResponse, OtherWrite
<1>2. \A r \in Runs : rev[r] \in Nat /\ rev'[r] \in Nat /\ rev[r] <= rev'[r]
  <2>1. CASE UNCHANGED rev  BY <2>1 DEF TypeOK
  <2>2. CASE \E r \in Runs : OtherWrite(r)  BY <2>2 DEF OtherWrite, TypeOK
  <2> QED BY <2>1, <2>2 DEF Environment, PublishPending, PublishResponse
<1>3. ASSUME NEW q \in requests' PROVE Fenced(q)' /\ Owned(q)'
  <2>1. q \in requests /\ Fenced(q) /\ Owned(q) /\ q.run \in Runs /\ q.rev \in Nat
    BY <1>1 DEF TypeOK, Requests
  <2>2. q.rev <= rev'[q.run] /\ (q.rev = rev'[q.run] => q.rev = rev[q.run])
    BY <1>2, <2>1 DEF Fenced
  <2>3. Fenced(q)'  BY <1>1, <2>1, <2>2 DEF Fenced
  <2>4. Owned(q)'   BY <1>1, <2>1, <2>2 DEF Owned
  <2> QED BY <2>3, <2>4
<1>4. OutstandingMatches' /\ AckedRecorded' /\ AckedInRun' /\ NotCommittedIsDefinite' /\ Single'
  BY <1>1 DEF OutstandingMatches, AckedRecorded, AckedInRun, Recorded, NotCommittedIsDefinite, Single
<1>5. \A w \in Workers : Replied(w)'  BY <1>1 DEF Replied, Recorded
<1> QED BY <1>3, <1>4, <1>5

\* A new activation disowns what its predecessor left in flight.
LEMMA HandleStep ==
  ASSUME IInv, TypeOK', NEW w \in Workers, NEW e \in events, Handle(w, e)
  PROVE  IInv'
<1> USE ConstantsOK DEF IInv
<1>1. UNCHANGED <<facts, rev, acked>>  BY HandleStamps DEF stampRunMarker
<1>2. \A v \in Workers \ {w} : worker'[v] = worker[v] /\ landed'[v] = landed[v]
  BY HandleStamps DEF stampRunMarker, TypeOK
<1>3. worker'[w].pc = "attempt" /\ ~landed'[w]  BY HandleStamps DEF stampRunMarker, TypeOK
<1>4. ASSUME NEW q \in requests'
      PROVE  \E p \in requests :
                /\ q.from # w
                /\ q.run = p.run /\ q.gate = p.gate /\ q.answer = p.answer
                /\ q.rev = p.rev /\ q.desired = p.desired
                /\ q.from \in Workers => q = p
  BY HandleStamps DEF stampRunMarker, Disown, TypeOK, Requests
<1>5. ASSUME NEW q \in requests' PROVE Fenced(q)' /\ Owned(q)'
  <2>1. PICK p \in requests :
          /\ q.from # w
          /\ q.run = p.run /\ q.gate = p.gate /\ q.answer = p.answer
          /\ q.rev = p.rev /\ q.desired = p.desired
          /\ q.from \in Workers => q = p
    BY <1>4
  <2>2. Fenced(p) /\ Owned(p)  OBVIOUS
  <2>3. Fenced(q)'  BY <1>1, <2>1, <2>2 DEF Fenced
  <2>4. Owned(q)'   BY <1>1, <1>2, <2>1, <2>2 DEF Owned
  <2> QED BY <2>3, <2>4
<1>6. Single'  BY <1>4 DEF Single
<1>7. OutstandingMatches' /\ AckedRecorded' /\ AckedInRun'
  BY <1>1 DEF OutstandingMatches, AckedRecorded, AckedInRun, Recorded
<1>8. NotCommittedIsDefinite'
  BY <1>2, <1>3, <1>4 DEF NotCommittedIsDefinite
<1>9. \A v \in Workers : Replied(v)'
  BY <1>1, <1>2, <1>3 DEF Replied, Recorded
<1> QED BY <1>5, <1>6, <1>7, <1>8, <1>9

\* A read computes its request from the stored facts at the stored revision.
LEMMA AttemptStep ==
  ASSUME IInv, TypeOK', NEW w \in Workers, Attempt(w)
  PROVE  IInv'
<1> USE ConstantsOK DEF IInv
<1> DEFINE g == worker[w].event.gate
           r == RunOf(g)
           a == IsAnswer(worker[w].event)
<1>0. PICK n : n = [from |-> w, run |-> r, gate |-> g, answer |-> a, rev |-> rev[r],
                    desired |-> approvalFacts(facts[r], g, a)]
  OBVIOUS
<1>1. /\ worker[w].pc = "attempt" /\ FactsValid(facts[r])
      /\ requests' = requests \cup {n}
      /\ UNCHANGED <<facts, rev, acked, landed>>
  BY <1>0 DEF Attempt
<1>2. \A v \in Workers \ {w} : worker'[v] = worker[v]  BY DEF Attempt, TypeOK
<1>3. /\ worker'[w].pc = "wait" /\ worker'[w].reply = "none"
      /\ worker'[w].event = worker[w].event
      /\ worker'[w].already = (g \in facts[r].answered)
  <2>1. worker[w] \in WorkerStates  BY DEF TypeOK
  <2>2. worker'[w] = [worker[w] EXCEPT !.pc = "wait", !.reply = "none",
                                       !.already = g \in facts[r].answered]
    BY DEF Attempt, TypeOK
  <2> HIDE DEF g, r
  <2> QED BY <2>1, <2>2 DEF WorkerStates
<1>4. r \in Runs /\ rev[r] \in Nat  BY <1>1 DEF TypeOK
<1>5. \A q \in requests : q.from # w
  BY <1>1 DEF Owned
<1>6. Fenced(n)' /\ Owned(n)'
  BY <1>0, <1>1, <1>3, <1>4 DEF Fenced, Owned
<1>7. ASSUME NEW q \in requests PROVE Fenced(q)' /\ Owned(q)'
  <2>1. Fenced(q) /\ Owned(q) /\ q.from # w  BY <1>5
  <2>2. Fenced(q)'  BY <1>1, <2>1 DEF Fenced
  <2>3. Owned(q)'   BY <1>1, <1>2, <2>1 DEF Owned
  <2> QED BY <2>2, <2>3
<1>8. Single'
  <2>1. n.from = w  BY <1>0
  <2> QED BY <1>1, <1>5, <2>1 DEF Single
<1>9. OutstandingMatches' /\ AckedRecorded' /\ AckedInRun'
  BY <1>1 DEF OutstandingMatches, AckedRecorded, AckedInRun, Recorded
<1>10. NotCommittedIsDefinite'
  <2>1. n.from = w  BY <1>0
  <2> QED BY <1>1, <1>2, <1>3, <2>1 DEF NotCommittedIsDefinite
<1>11. \A v \in Workers : Replied(v)'
  BY <1>1, <1>2, <1>3 DEF Replied, Recorded
<1>12. \A q \in requests' : Fenced(q)' /\ Owned(q)'
  BY <1>1, <1>6, <1>7
<1> QED BY <1>8, <1>9, <1>10, <1>11, <1>12

\* A receipt acknowledges only what Replied says is stored.
LEMMA ReceiptStep ==
  ASSUME IInv, TypeOK', NEW w \in Workers, Receipt(w)
  PROVE  IInv'
<1> USE ConstantsOK DEF IInv
<1>1. \A v \in Workers \ {w} : worker'[v] = worker[v]  BY DEF Receipt, TypeOK
<1>2. worker'[w].pc = "idle" /\ worker'[w].result = "ok"  BY DEF Receipt, TypeOK, Idle
<1>3. UNCHANGED <<facts, rev, requests, landed>> /\ acked' = acked \cup {worker[w].event}
  BY DEF Receipt
<1>4. Recorded(worker[w].event)  BY DEF Receipt, Replied
<1>5. AckedRecorded'  BY <1>3, <1>4 DEF AckedRecorded, Recorded
<1>10. AckedInRun'  BY <1>3 DEF AckedInRun, Receipt, TypeOK
<1>6. NotCommittedIsDefinite'
  BY <1>1, <1>2, <1>3 DEF NotCommittedIsDefinite, NotCommitted
<1>7. ASSUME NEW q \in requests' PROVE Fenced(q)' /\ Owned(q)'
  <2>1. Fenced(q) /\ Owned(q)  BY <1>3
  <2>2. Fenced(q)'  BY <1>3, <2>1 DEF Fenced
  <2>3. Owned(q)'   BY <1>1, <1>2, <1>3, <2>1 DEF Owned
  <2> QED BY <2>2, <2>3
<1>8. OutstandingMatches' /\ Single'  BY <1>3 DEF OutstandingMatches, Single
<1>9. \A v \in Workers : Replied(v)'
  BY <1>1, <1>2, <1>3 DEF Replied, Recorded
<1> QED BY <1>5, <1>6, <1>7, <1>8, <1>9, <1>10

\* A definite mismatch leaves nothing in flight and nothing committed.
LEMMA RetryStep ==
  ASSUME IInv, TypeOK', NEW w \in Workers, Retry(w)
  PROVE  IInv'
<1> USE ConstantsOK
<1>1. /\ worker[w].pc = "wait" /\ worker[w].reply = "mismatch"
      /\ UNCHANGED <<facts, rev, requests, acked, landed>>
  BY DEF Retry
<1>2. ~landed[w] /\ \A q \in requests : q.from # w
  BY <1>1 DEF IInv, Replied, Owned
<1>3. CASE worker[w].attempt + 1 < MaxAttempts
  <2>1. \A v \in Workers \ {w} : worker'[v] = worker[v]  BY DEF Retry, IInv, TypeOK
  <2>2. worker'[w].pc = "attempt"
    <3>1. worker[w] \in WorkerStates  BY DEF IInv, TypeOK
    <3>2. worker'[w] = [worker[w] EXCEPT !.pc = "attempt", !.attempt = @ + 1,
                                         !.reply = "none"]
      BY <1>3 DEF Retry, IInv, TypeOK
    <3> QED BY <3>1, <3>2 DEF WorkerStates
  <2>3. ASSUME NEW q \in requests' PROVE Fenced(q)' /\ Owned(q)'
    <3>1. Fenced(q) /\ Owned(q) /\ q.from # w  BY <1>1, <1>2 DEF IInv
    <3>2. Fenced(q)'  BY <1>1, <3>1 DEF Fenced
    <3>3. Owned(q)'   BY <1>1, <2>1, <3>1 DEF Owned
    <3> QED BY <3>2, <3>3
  <2>4. OutstandingMatches' /\ Single' /\ AckedRecorded' /\ AckedInRun'
    BY <1>1 DEF IInv, OutstandingMatches, Single, AckedRecorded, AckedInRun, Recorded
  <2>5. NotCommittedIsDefinite'
    BY <1>1, <2>1, <2>2 DEF IInv, NotCommittedIsDefinite
  <2>6. \A v \in Workers : Replied(v)'
    BY <1>1, <1>2, <2>1, <2>2 DEF IInv, Replied, Recorded
  <2> QED BY <2>3, <2>4, <2>5, <2>6 DEF IInv
<1>4. CASE ~(worker[w].attempt + 1 < MaxAttempts)
  <2>1. worker' = [worker EXCEPT ![w] = Idle("conflict")]  BY <1>4 DEF Retry
  <2>2. "conflict" \in Results  BY DEF Results
  <2> QED BY <1>1, <1>2, <2>1, <2>2, FinishStep
<1> QED BY <1>3, <1>4

\* The owner serves a request: only an unfenced one changes a run, and it adds
\* exactly one event's facts.
LEMMA OwnerPreserves ==
  ASSUME IInv, TypeOK', NEW q \in requests, Commit(q) \/ Unchanged(q) \/ Mismatch(q)
  PROVE  IInv'
<1> USE ConstantsOK
<1> DEFINE reply == IF q.rev # rev[q.run] THEN "mismatch"
                    ELSE IF q.desired = facts[q.run] THEN "unchanged" ELSE "applied"
<1>0. TypeOK  BY DEF IInv
<1>1. /\ q \in Requests /\ q.run \in Runs /\ q.gate \in Gates /\ q.answer \in BOOLEAN
      /\ facts[q.run] \in Facts
      /\ rev[q.run] \in Nat /\ q.rev \in Nat
  BY <1>0 DEF TypeOK, Requests
<1>2. worker' = Answered(q, reply) /\ reply \in Replies
  BY DEF Commit, Unchanged, Mismatch, Replies
<1>3. requests' = requests \ {q} /\ UNCHANGED acked
  BY DEF Commit, Unchanged, Mismatch
<1>4. \A v \in Workers :
        /\ worker'[v].pc = worker[v].pc
        /\ worker'[v].event = worker[v].event
        /\ worker'[v].already = worker[v].already
        /\ worker'[v].result = worker[v].result
        /\ worker'[v].reply =
             IF v = q.from /\ worker[v].pc = "wait" THEN reply ELSE worker[v].reply
  <2> HIDE DEF reply
  <2> QED BY <1>0, <1>2, AnsweredType
<1>5. Fenced(q) /\ Owned(q)  BY DEF IInv
<1>6. \A r \in Runs : r # q.run => facts'[r] = facts[r] /\ rev'[r] = rev[r]
  BY <1>0 DEF Commit, Unchanged, Mismatch, TypeOK
<1>7. CASE Commit(q)
  <2>1. /\ q.rev = rev[q.run] /\ facts'[q.run] = q.desired /\ rev'[q.run] = rev[q.run] + 1
        /\ FactsValid(facts[q.run])
        /\ q.desired = approvalFacts(facts[q.run], q.gate, q.answer)
        /\ reply = "applied"
    BY <1>0, <1>1, <1>5, <1>7 DEF Commit, Fenced, TypeOK
  <2> HIDE DEF reply
  <2>2. /\ facts'[q.run].answered \subseteq facts'[q.run].pending
        /\ facts'[q.run].outstanding = Cardinality(facts'[q.run].pending)
                                       - Cardinality(facts'[q.run].answered)
        /\ facts[q.run].pending \subseteq facts'[q.run].pending
        /\ facts[q.run].answered \subseteq facts'[q.run].answered
        /\ q.gate \in facts'[q.run].pending
        /\ q.answer => q.gate \in facts'[q.run].answered
    BY <1>1, <2>1, ApprovalFactsGrow
  <2>3. \A r \in Runs : /\ facts[r].pending \subseteq facts'[r].pending
                        /\ facts[r].answered \subseteq facts'[r].answered
    BY <1>6, <2>2
  <2>4. OutstandingMatches'
    BY <1>6, <2>2 DEF IInv, OutstandingMatches
  <2>5. \A v \in Workers : landed'[v] = (landed[v] \/ v = q.from)
    BY <1>7 DEF Commit
  <2>6. ASSUME NEW p \in requests' PROVE Fenced(p)' /\ Owned(p)'
    <3>1. p \in requests /\ Fenced(p) /\ Owned(p) /\ p.run \in Runs /\ p.rev \in Nat
      BY <1>0, <1>3 DEF IInv, TypeOK, Requests
    <3>2. CASE p.run = q.run
      <4>1. p.rev <= rev[p.run] /\ rev[p.run] \in Nat /\ p.rev < rev'[p.run]
        BY <1>1, <2>1, <3>1, <3>2 DEF Fenced
      <4>2. p.rev <= rev'[p.run] /\ p.rev # rev'[p.run]  BY <3>1, <4>1, <1>1, <2>1, <3>2
      <4>3. p.from = q.from => p.from \notin Workers  BY <1>3, <3>1 DEF IInv, Single
      <4>4. Fenced(p)'  BY <3>1, <4>2 DEF Fenced
      <4>5. Owned(p)'   BY <1>4, <3>1, <4>2, <4>3 DEF Owned
      <4> QED BY <4>4, <4>5
    <3>3. CASE p.run # q.run
      <4>1. facts'[p.run] = facts[p.run] /\ rev'[p.run] = rev[p.run]  BY <1>6, <3>1, <3>3
      <4>2. p.from = q.from => p.from \notin Workers  BY <1>3, <3>1 DEF IInv, Single
      <4>3. Fenced(p)'  BY <3>1, <4>1 DEF Fenced
      <4>4. Owned(p)'   BY <1>4, <3>1, <4>1, <4>2 DEF Owned
      <4> QED BY <4>3, <4>4
    <3> QED BY <3>2, <3>3
  <2>7. Single'  BY <1>3 DEF IInv, Single
  <2>8. NotCommittedIsDefinite'
    BY <1>3, <1>4, <2>5 DEF IInv, NotCommittedIsDefinite
  <2>9. ASSUME NEW v \in Workers PROVE Replied(v)'
    <3>1. Replied(v)  BY DEF IInv
    <3>2. CASE v = q.from /\ worker[v].pc # "idle"
      <4>1. /\ worker[v].pc = "wait" /\ q.gate = worker[v].event.gate
            /\ q.answer = IsAnswer(worker[v].event) /\ q.run = RunOf(q.gate)
        BY <1>5, <3>2 DEF Owned, Fenced
      <4>2. worker'[v].pc = "wait" /\ worker'[v].reply = "applied"
            /\ worker'[v].event = worker[v].event
        BY <1>4, <2>1, <3>2, <4>1
      <4>3. Recorded(worker[v].event)'
        BY <2>2, <4>1, <4>2 DEF Recorded
      <4> QED BY <4>2, <4>3 DEF Replied, Recorded
    <3>3. CASE worker[v].pc = "idle"  BY <1>4, <3>3 DEF Replied
    <3>4. CASE v # q.from /\ worker[v].pc # "idle"
      <4>1. /\ worker'[v].pc = worker[v].pc /\ worker'[v].reply = worker[v].reply
            /\ worker'[v].event = worker[v].event /\ landed'[v] = landed[v]
        BY <1>0, <1>4, <2>5, <3>4 DEF TypeOK
      <4>2. worker[v].event \in Events /\ RunOf(worker[v].event.gate) \in Runs
        BY <1>0, <3>4 DEF TypeOK
      <4> QED BY <2>3, <3>1, <4>1, <4>2 DEF Replied, Recorded
    <3> QED BY <3>2, <3>3, <3>4
  <2>10. AckedRecorded'
    BY <1>3, <2>3 DEF IInv, AckedRecorded, AckedInRun, Recorded
  <2>11. AckedInRun'  BY <1>3 DEF IInv, AckedInRun
  <2>12. \A p \in requests' : Fenced(p)' /\ Owned(p)'  BY <2>6
  <2>13. \A v \in Workers : Replied(v)'  BY <2>9
  <2> QED BY <2>4, <2>7, <2>8, <2>10, <2>11, <2>12, <2>13 DEF IInv
<1>8. CASE Unchanged(q) \/ Mismatch(q)
  <2>1. UNCHANGED <<facts, rev, landed>> /\ reply \in {"unchanged", "mismatch"}
    BY <1>8 DEF Unchanged, Mismatch
  <2>2. reply = "unchanged" =>
          /\ q.gate \in facts[q.run].pending
          /\ q.answer => q.gate \in facts[q.run].answered
    <3>1. SUFFICES ASSUME q.rev = rev[q.run], q.desired = facts[q.run]
                   PROVE  /\ q.gate \in facts[q.run].pending
                          /\ q.answer => q.gate \in facts[q.run].answered
      OBVIOUS
    <3> QED BY <1>1, <1>5, <3>1, ApprovalFactsGrow DEF Fenced
  <2> HIDE DEF reply
  <2>3. \A p \in requests' : Fenced(p)'
    BY <1>3, <2>1 DEF IInv, Fenced
  <2>4. ASSUME NEW p \in requests' PROVE Owned(p)'
    <3>1. Owned(p) /\ (p.from = q.from => p.from \notin Workers)
      BY <1>3 DEF IInv, Single
    <3> QED BY <1>4, <2>1, <3>1 DEF Owned
  <2>5. Single' /\ OutstandingMatches' /\ AckedRecorded' /\ AckedInRun'
    BY <1>3, <2>1 DEF IInv, Single, OutstandingMatches, AckedRecorded, AckedInRun, Recorded
  <2>6. NotCommittedIsDefinite'
    BY <1>3, <1>4, <2>1 DEF IInv, NotCommittedIsDefinite
  <2>7. ASSUME NEW v \in Workers PROVE Replied(v)'
    <3>1. Replied(v)  BY DEF IInv
    <3>2. CASE v = q.from /\ worker[v].pc = "wait"
      <4>1. /\ q.gate = worker[v].event.gate /\ worker[v].reply = "none"
            /\ q.answer = IsAnswer(worker[v].event) /\ q.run = RunOf(q.gate)
        BY <1>5, <3>2 DEF Owned, Fenced
      <4> QED BY <1>4, <2>1, <2>2, <3>1, <3>2, <4>1 DEF Replied, Recorded
    <3>3. CASE ~(v = q.from /\ worker[v].pc = "wait")
      BY <1>4, <2>1, <3>1, <3>3 DEF Replied, Recorded
    <3> QED BY <3>2, <3>3
  <2> QED BY <2>3, <2>4, <2>5, <2>6, <2>7 DEF IInv
<1> QED BY <1>7, <1>8

\* Every step preserves the inductive invariant.
LEMMA IInvStep == IInv /\ [Next]_vars => IInv'
<1> SUFFICES ASSUME IInv, [Next]_vars PROVE IInv'  OBVIOUS
<1>0. TypeOK /\ TypeOK'  BY TypeStep DEF IInv
<1>1. CASE Environment  BY <1>0, <1>1, EnvironmentStep
<1>2. ASSUME NEW w \in Workers, NEW e \in events, Handle(w, e) PROVE IInv'
  BY <1>0, <1>2, HandleStep
<1>3. ASSUME NEW w \in Workers, HandlerStep(w) PROVE IInv'
  <2>1. CASE Attempt(w)  BY <1>0, <2>1, AttemptStep
  <2>2. CASE RejectFacts(w) \/ Abandon(w)
    <3>1. /\ worker[w].pc = "attempt" /\ worker' = [worker EXCEPT ![w] = Idle("error")]
          /\ UNCHANGED <<facts, rev, requests, acked, landed>>
      BY <2>2 DEF RejectFacts, Abandon
    <3>2. ~landed[w] /\ \A q \in requests : q.from # w
      BY <3>1 DEF IInv, Replied, Owned
    <3>3. "error" \in Results  BY DEF Results
    <3> QED BY <1>0, <3>1, <3>2, <3>3, FinishStep
  <2>3. CASE Receipt(w)  BY <1>0, <2>3, ReceiptStep
  <2>4. CASE Retry(w)  BY <1>0, <2>4, RetryStep
  <2>5. CASE Refuse(w)
    <3>1. PICK q \in requests : q.from = w /\ requests' = requests \ {q}
      BY <2>5 DEF Refuse
    <3>2. /\ worker[w].pc = "wait" /\ worker' = [worker EXCEPT ![w] = Idle("refused")]
          /\ UNCHANGED <<facts, rev, acked, landed>>
      BY <2>5 DEF Refuse
    <3>3. ~landed[w]  BY <3>1, <3>2 DEF IInv, Owned, Replied
    <3>4. \A p \in requests' : p.from # w  BY <3>1 DEF IInv, Single
    <3>5. "refused" \in Results  BY DEF Results
    <3> QED BY <1>0, <3>1, <3>2, <3>3, <3>4, <3>5, FinishStep
  <2>6. CASE Unknown(w)
    <3>1. /\ worker[w].pc = "wait" /\ worker' = [worker EXCEPT ![w] = Idle("unknown")]
          /\ UNCHANGED <<facts, rev, requests, acked, landed>>
      BY <2>6 DEF Unknown
    <3>2. "unknown" \in Results /\ "unknown" \notin NotCommitted
      BY DEF Results, NotCommitted
    <3> QED BY <1>0, <3>1, <3>2, FinishStep
  <2> QED BY <1>3, <2>1, <2>2, <2>3, <2>4, <2>5, <2>6 DEF HandlerStep
<1>4. CASE OwnerStep
  BY <1>0, <1>4, OwnerPreserves DEF OwnerStep
<1>5. CASE UNCHANGED vars
  BY <1>0, <1>5 DEF vars, IInv, OutstandingMatches, AckedRecorded, AckedInRun, Recorded,
     NotCommittedIsDefinite, Fenced, Owned, Single, Replied
<1> QED BY <1>1, <1>2, <1>3, <1>4, <1>5 DEF Next

\* The inductive invariant holds in every reachable state.
LEMMA IInvAlways == Spec => []IInv
  BY IInvInit, IInvStep, PTL DEF Spec

\* approval-outstanding always equals the number of unanswered gates of the
\* run, however many handlers and writers race (approvalFacts, RecordApproval).
THEOREM OutstandingCorrect == Spec => []OutstandingMatches
<1>1. IInv => OutstandingMatches  BY DEF IInv
<1> QED BY <1>1, IInvAlways, PTL

\* No recorded gate or answer is ever lost to a concurrent read-modify-write:
\* what a handler was told is stored stays stored (the revision fence).
THEOREM NoLostReceipt == Spec => []AckedRecorded
<1>1. IInv => AckedRecorded  BY DEF IInv
<1> QED BY <1>1, IInvAlways, PTL

\* A failure reported as not committed is definite: no request of that
\* activation was applied, and none is still on its way to the owner.
THEOREM DefiniteFailure == Spec => []NotCommittedIsDefinite
<1>1. IInv => NotCommittedIsDefinite  BY DEF IInv
<1> QED BY <1>1, IInvAlways, PTL

\* What a committing request does to its run: exactly one event's facts.
LEMMA CommitAdds ==
  ASSUME IInv, NEW q \in requests, Commit(q)
  PROVE  /\ q.run \in Runs /\ q.gate \in Gates /\ q.answer \in BOOLEAN
         /\ FactsValid(facts[q.run])
         /\ facts' = [facts EXCEPT ![q.run] =
                        approvalFacts(facts[q.run], q.gate, q.answer)]
  BY DEF IInv, TypeOK, Requests, Commit, Fenced

\* Only a committing request changes the stored facts.
LEMMA FactsChange ==
  [Next]_vars => UNCHANGED facts \/ \E q \in requests : Commit(q)
  BY DEF Next, vars, Environment, PublishPending, PublishResponse, OtherWrite,
     HandlerStep, Handle, handlePendingMsg, handleResponseMsg, HandlePending,
     HandleResponse, stampRunMarker, Attempt, RejectFacts, Abandon, Receipt, Retry, Refuse,
     Unknown, OwnerStep, Unchanged, Mismatch

\* Receipts are append-only at every step of every actor.
THEOREM ReceiptsAppendOnly == Spec => ReceiptsGrow
<1>1. IInv /\ [Next]_vars =>
        [\A r \in Runs : /\ facts[r].pending \subseteq facts'[r].pending
                         /\ facts[r].answered \subseteq facts'[r].answered]_vars
  <2> SUFFICES ASSUME IInv, [Next]_vars, NEW r \in Runs
               PROVE  /\ facts[r].pending \subseteq facts'[r].pending
                      /\ facts[r].answered \subseteq facts'[r].answered
    OBVIOUS
  <2>1. CASE UNCHANGED facts  BY <2>1
  <2>2. ASSUME NEW q \in requests, Commit(q)
        PROVE  /\ facts[r].pending \subseteq facts'[r].pending
               /\ facts[r].answered \subseteq facts'[r].answered
    <3>1. facts \in [Runs -> Facts]  BY DEF IInv, TypeOK
    <3> QED BY <2>2, <3>1, CommitAdds, ApprovalFactsGrow
  <2> QED BY <2>1, <2>2, FactsChange
<1> QED BY <1>1, IInvAlways, PTL DEF Spec, ReceiptsGrow

\* The projection implements the gate ledger: every revision of the approval
\* facts is one indivisible Observe or Settle of one gate, and runs whose
\* receipts predate the count are never written.
THEOREM LedgerImplemented == Spec => ImplementsLedger
<1>1. Init => Ledger!Init
  BY DEF Init, Ledger!Init, NoCount, Ledger!NoCount
<1>2. IInv /\ [Next]_vars => [Ledger!Next]_(Ledger!vars)
  <2> SUFFICES ASSUME IInv, [Next]_vars PROVE [Ledger!Next]_(Ledger!vars)  OBVIOUS
  <2>1. CASE UNCHANGED facts  BY <2>1 DEF Ledger!vars
  <2>2. ASSUME NEW q \in requests, Commit(q) PROVE Ledger!Next
    <3>1. facts \in [Runs -> Facts]  BY DEF IInv, TypeOK
    <3>2. /\ q.run \in Runs /\ q.gate \in Gates /\ q.answer \in BOOLEAN
          /\ FactsValid(facts[q.run])
          /\ facts' = [facts EXCEPT ![q.run] =
                         approvalFacts(facts[q.run], q.gate, q.answer)]
      BY <2>2, CommitAdds
    <3>3. Ledger!Writable(q.run)
      BY <3>2 DEF Ledger!Writable, FactsValid, NoCount, Ledger!NoCount
    <3> DEFINE P == facts[q.run].pending \cup {q.gate}
               A == IF q.answer THEN facts[q.run].answered \cup {q.gate}
                                ELSE facts[q.run].answered
    <3>a. facts' = [facts EXCEPT ![q.run] =
             [pending |-> P, answered |-> A,
              outstanding |-> Cardinality(P) - Cardinality(A)]]
      BY <3>2 DEF approvalFacts
    <3> HIDE DEF P, A
    <3>e. \A r \in Runs : r # q.run => facts'[r] = facts[r]  BY <3>1, <3>a
    <3>f. /\ facts'[q.run].pending = P /\ facts'[q.run].answered = A
          /\ facts'[q.run].outstanding = Cardinality(P) - Cardinality(A)
      BY <3>1, <3>2, <3>a
    <3>b. [r \in Runs |-> facts'[r].pending]
            = [[r \in Runs |-> facts[r].pending] EXCEPT ![q.run] = P]
      BY <3>e, <3>f
    <3>c. [r \in Runs |-> facts'[r].answered]
            = [[r \in Runs |-> facts[r].answered] EXCEPT ![q.run] = A]
      BY <3>e, <3>f
    <3>d. [r \in Runs |-> facts'[r].outstanding]
            = [[r \in Runs |-> facts[r].outstanding] EXCEPT
                 ![q.run] = Cardinality(P) - Cardinality(A)]
      BY <3>e, <3>f
    <3>g. P = facts[q.run].pending \cup {q.gate}  BY DEF P
    <3>4. CASE q.answer
      <4>1. A = facts[q.run].answered \cup {q.gate}  BY <3>4 DEF A
      <4>2. Ledger!Settle(q.run, q.gate)
        BY <3>2, <3>3, <3>b, <3>c, <3>d, <3>g, <4>1 DEF Ledger!Settle, Cardinality, Ledger!Cardinality
      <4> QED BY <3>2, <4>2 DEF Ledger!Next
    <3>5. CASE ~q.answer
      <4>1. A = facts[q.run].answered  BY <3>5 DEF A
      <4>2. [r \in Runs |-> facts'[r].answered] = [r \in Runs |-> facts[r].answered]
        BY <3>1, <3>c, <4>1
      <4>3. Ledger!Observe(q.run, q.gate)
        BY <3>2, <3>3, <3>b, <3>d, <3>g, <4>1, <4>2 DEF Ledger!Observe, Cardinality, Ledger!Cardinality
      <4> QED BY <3>2, <4>3 DEF Ledger!Next
    <3> QED BY <3>2, <3>4, <3>5
  <2> QED BY <2>1, <2>2, FactsChange
<1> QED BY <1>1, <1>2, IInvAlways, PTL DEF Spec, ImplementsLedger, Ledger!Spec

(***************************************************************************)
(* Answers                                                                 *)
(***************************************************************************)

\* Somebody decided gate g.
Given(g) == \E d \in Decisions : [kind |-> "response", gate |-> g, decision |-> d] \in events

\* Only given answers are stored, on their way, or being handled.
AllGiven ==
  /\ \A r \in Runs : facts[r].outstanding # NoCount => \A g \in facts[r].answered : Given(g)
  /\ \A q \in requests : q.answer => Given(q.gate)
  /\ \A w \in Workers : worker[w].pc # "idle" /\ IsAnswer(worker[w].event) =>
        Given(worker[w].event.gate)

\* A handler whose request was served and that will report the answer as new.
First(w) ==
  /\ worker[w].pc = "wait" /\ worker[w].reply \in {"applied", "unchanged"}
  /\ IsAnswer(worker[w].event) /\ ~worker[w].already

\* The answer of a gate is reported, or about to be, by one handler only, and
\* then it is stored.
OneFirst ==
  /\ \A g \in Gates : \/ stamped[g] = 0
                      \/ stamped[g] = 1 /\ RunOf(g) \in Runs /\ g \in facts[RunOf(g)].answered
  /\ \A w \in Workers : First(w) =>
       LET g == worker[w].event.gate IN stamped[g] = 0 /\ g \in facts[RunOf(g)].answered
  /\ \A v, w \in Workers :
       First(v) /\ First(w) /\ worker[v].event.gate = worker[w].event.gate => v = w

JInv == IInv /\ AllGiven /\ OneFirst

\* What a step does to a handler: it ends, goes on with its event, or starts.
Starts(v, e) ==
  /\ worker'[v].pc = "attempt" /\ worker'[v].event = e
  /\ e.kind = "response" => e.decision \in Decisions
Goes(v) ==
  \/ worker'[v].pc = "idle"
  \/ worker[v].pc # "idle" /\ worker'[v].event = worker[v].event
  \/ \E e \in events : Starts(v, e)

\* What a step puts in flight: requests that were, perhaps disowned, or the one
\* of a handler that has read the run.
Sent(q) ==
  \/ \E p \in requests : q.gate = p.gate /\ q.answer = p.answer
  \/ \E w \in Workers : /\ worker[w].pc = "attempt" /\ q.gate = worker[w].event.gate
                         /\ q.answer = IsAnswer(worker[w].event)

\* The steps of one handler.
LEMMA HandlerGoes ==
  ASSUME TypeOK, NEW w \in Workers, HandlerStep(w)
  PROVE  /\ \A v \in Workers : Goes(v)
         /\ \A v \in Workers \ {w} : worker'[v] = worker[v]
         /\ \A q \in requests' : Sent(q)
         /\ UNCHANGED <<facts, events>>
<1> USE DEF TypeOK
<1>0. worker[w] \in WorkerStates  OBVIOUS
<1>1. CASE Attempt(w)
  <2> DEFINE g == worker[w].event.gate
             r == RunOf(g)
             a == IsAnswer(worker[w].event)
  <2>1. PICK n : n = [from |-> w, run |-> r, gate |-> g, answer |-> a, rev |-> rev[r],
                      desired |-> approvalFacts(facts[r], g, a)]
    OBVIOUS
  <2>2. requests' = requests \cup {n}  BY <1>1, <2>1 DEF Attempt
  <2>3. Sent(n)  BY <1>1, <2>1 DEF Attempt, Sent
  <2>4. \A q \in requests' : Sent(q)  BY <2>2, <2>3 DEF Sent
  <2>5. PICK b : b = (g \in facts[r].answered)  OBVIOUS
  <2>6. worker' = [worker EXCEPT ![w] = [worker[w] EXCEPT !.pc = "wait", !.reply = "none",
                                                          !.already = b]]
    BY <1>1, <2>5, Zenon DEF Attempt
  <2>7. worker'[w].event = worker[w].event /\ worker[w].pc # "idle"
    BY <1>0, <1>1, <2>6 DEF Attempt, WorkerStates
  <2>8. \A v \in Workers \ {w} : worker'[v] = worker[v]  BY <2>6
  <2>9. ASSUME NEW v \in Workers PROVE worker'[v].pc = "idle" \/ Goes(v)
    BY <2>7, <2>8, <1>0 DEF Goes, WorkerStates
  <2> QED BY <1>1, <2>4, <2>8, <2>9 DEF Attempt, Goes
<1>2. CASE ~Attempt(w) /\ \E res \in Results : worker' = [worker EXCEPT ![w] = Idle(res)]
  <2>1. /\ worker'[w].pc = "idle" /\ \A v \in Workers \ {w} : worker'[v] = worker[v]
    BY <1>2 DEF Idle
  <2>2. requests' \subseteq requests /\ UNCHANGED <<facts, events>>
    BY <1>2 DEF HandlerStep, Attempt, RejectFacts, Abandon, Receipt, Retry, Refuse, Unknown
  <2>3. \A v \in Workers : Goes(v)  BY <2>1 DEF Goes
  <2>4. \A q \in requests' : Sent(q)  BY <2>2 DEF Sent
  <2> QED BY <2>1, <2>2, <2>3, <2>4
<1>3. CASE Retry(w) /\ worker[w].attempt + 1 < MaxAttempts
  <2>1. PICK n : n = worker[w].attempt + 1  OBVIOUS
  <2>2. worker' = [worker EXCEPT ![w] = [worker[w] EXCEPT !.pc = "attempt", !.attempt = n,
                                                          !.reply = "none"]]
    BY <1>3, <2>1 DEF Retry
  <2>3. worker'[w].event = worker[w].event /\ worker[w].pc # "idle"
    BY <1>0, <1>3, <2>2 DEF Retry, WorkerStates
  <2>4. \A v \in Workers \ {w} : worker'[v] = worker[v]  BY <2>2
  <2>5. \A v \in Workers : Goes(v)  BY <2>3, <2>4 DEF Goes
  <2> QED BY <1>3, <2>4, <2>5 DEF Retry, Sent
<1> QED BY <1>1, <1>2, <1>3
  DEF HandlerStep, RejectFacts, Abandon, Receipt, Retry, Refuse, Unknown, Results

\* Answers stay given, and every step stores, sends and handles given ones only.
LEMMA AllGivenStep ==
  ASSUME JInv, [Next]_vars
  PROVE  AllGiven'
<1>0. TypeOK /\ AllGiven /\ IInv  BY DEF JInv, IInv
<1>1. \A g : Given(g) => Given(g)'
  <2>1. events \subseteq events'
    BY DEF Next, vars, Environment, PublishPending, PublishResponse, OtherWrite,
       HandlerStep, Handle, handlePendingMsg, handleResponseMsg, HandlePending,
       HandleResponse, stampRunMarker, Attempt, RejectFacts, Abandon, Receipt, Retry, Refuse,
       Unknown, OwnerStep, Commit, Unchanged, Mismatch
  <2> QED BY <2>1 DEF Given
<1>2. (\A v \in Workers : Goes(v)) /\ (\A q \in requests' : Sent(q))
  <2>1. CASE UNCHANGED <<worker, requests>>  BY <2>1 DEF Goes, Sent
  <2>2. ASSUME NEW w \in Workers, NEW e \in events, Handle(w, e)
        PROVE  (\A v \in Workers : Goes(v)) /\ (\A q \in requests' : Sent(q))
    <3>1. stampRunMarker(w, e) /\ (e.kind = "response" => e.decision \in Decisions)
      BY <2>2 DEF Handle, handlePendingMsg, handleResponseMsg, HandlePending, HandleResponse
    <3>2. Starts(w, e) /\ \A v \in Workers \ {w} : worker'[v] = worker[v]
      BY <1>0, <3>1 DEF stampRunMarker, Starts, TypeOK
    <3>3. \A v \in Workers : Goes(v)  BY <3>2 DEF Goes
    <3>4. \A q \in requests' : Sent(q)
      BY <1>0, <3>1 DEF stampRunMarker, Disown, Sent, TypeOK, Requests
    <3> QED BY <3>3, <3>4
  <2>3. ASSUME NEW w \in Workers, HandlerStep(w)
        PROVE  (\A v \in Workers : Goes(v)) /\ (\A q \in requests' : Sent(q))
    BY <1>0, <2>3, HandlerGoes
  <2>4. CASE OwnerStep
    <3>1. PICK q \in requests : Commit(q) \/ Unchanged(q) \/ Mismatch(q)
      BY <2>4 DEF OwnerStep
    <3>2. PICK reply \in Replies : worker' = Answered(q, reply)
      BY <3>1 DEF Commit, Unchanged, Mismatch, Replies
    <3>3. \A v \in Workers : /\ worker'[v].pc = worker[v].pc
                              /\ worker'[v].event = worker[v].event
      BY <1>0, <3>2, AnsweredType
    <3>4. requests' \subseteq requests  BY <3>1 DEF Commit, Unchanged, Mismatch
    <3> QED BY <3>3, <3>4 DEF Goes, Sent
  <2> QED BY <2>1, <2>2, <2>3, <2>4
    DEF Next, Environment, PublishPending, PublishResponse, OtherWrite, vars
<1>3. ASSUME NEW v \in Workers, worker'[v].pc # "idle", IsAnswer(worker'[v].event)
      PROVE  Given(worker[v].event.gate)'
  <2>1. PICK h : h = worker'[v].event  OBVIOUS
  <2>2. CASE worker[v].pc # "idle" /\ worker'[v].event = worker[v].event
    <3>1. Given(h.gate)  BY <1>0, <1>3, <2>1, <2>2 DEF AllGiven
    <3>2. Given(h.gate)'  BY <1>1, <3>1
    <3> QED BY <2>1, <3>2 DEF Given
  <2>3. CASE \E e \in events : Starts(v, e)
    <3>1. PICK e \in events : Starts(v, e)  BY <2>3
    <3>2. e \in Events /\ e.kind = "response" /\ e.decision \in Decisions /\ e = h
      BY <1>0, <1>3, <2>1, <3>1 DEF Starts, IsAnswer, TypeOK
    <3>3. e = [kind |-> "response", gate |-> e.gate, decision |-> e.decision]
      BY <3>2 DEF Events
    <3>4. Given(h.gate)  BY <3>1, <3>2, <3>3 DEF Given
    <3>5. Given(h.gate)'  BY <1>1, <3>4
    <3> QED BY <2>1, <3>5 DEF Given
  <2> QED BY <1>2, <1>3, <2>2, <2>3 DEF Goes
<1>4. ASSUME NEW q \in requests', q.answer PROVE Given(q.gate)'
  <2>1. Given(q.gate)
    <3>1. CASE \E p \in requests : q.gate = p.gate /\ q.answer = p.answer
      BY <1>0, <1>4, <3>1 DEF AllGiven
    <3>2. CASE \E w \in Workers : /\ worker[w].pc = "attempt" /\ q.gate = worker[w].event.gate
                                   /\ q.answer = IsAnswer(worker[w].event)
      BY <1>0, <1>4, <3>2 DEF AllGiven
    <3> QED BY <1>2, <3>1, <3>2 DEF Sent
  <2> QED BY <1>1, <2>1
<1>5. ASSUME NEW r \in Runs, facts'[r].outstanding # NoCount, NEW g \in facts'[r].answered
      PROVE  Given(g)'
  <2>1. CASE UNCHANGED facts  BY <1>0, <1>1, <1>5, <2>1 DEF AllGiven
  <2>2. ASSUME NEW q \in requests, Commit(q) PROVE Given(g)'
    <3>1. /\ q.run \in Runs /\ FactsValid(facts[q.run]) /\ facts \in [Runs -> Facts]
          /\ facts' = [facts EXCEPT ![q.run] = approvalFacts(facts[q.run], q.gate, q.answer)]
      BY <1>0, <2>2, CommitAdds DEF TypeOK
    <3>2. CASE r # q.run
      <4>1. facts'[r] = facts[r]  BY <3>1, <3>2
      <4> QED BY <1>0, <1>1, <1>5, <4>1 DEF AllGiven
    <3>3. CASE r = q.run
      <4>1. facts'[r].answered =
              IF q.answer THEN facts[r].answered \cup {q.gate} ELSE facts[r].answered
        BY <3>1, <3>3 DEF approvalFacts
      <4>2. g \in facts[r].answered \/ (q.answer /\ g = q.gate)  BY <1>5, <4>1
      <4>3. CASE g \in facts[r].answered
        <5>1. facts[r].outstanding # NoCount  BY <3>1, <3>3, <4>3 DEF FactsValid
        <5> QED BY <1>0, <1>1, <4>3, <5>1 DEF AllGiven
      <4>4. CASE q.answer /\ g = q.gate  BY <1>0, <1>1, <4>4 DEF AllGiven
      <4> QED BY <4>2, <4>3, <4>4
    <3> QED BY <3>2, <3>3
  <2> QED BY <2>1, <2>2, FactsChange
<1> QED BY <1>3, <1>4, <1>5 DEF AllGiven

\* Handlers about to report stay the same, and what they report stays stored.
LEMMA FirstStays ==
  ASSUME TypeOK, OneFirst, UNCHANGED stamped,
         \A r \in Runs : facts[r].answered \subseteq facts'[r].answered,
         \A v \in Workers : First(v)' => First(v) /\ worker'[v].event = worker[v].event
  PROVE  OneFirst'
<1>1. ASSUME NEW g \in Gates
      PROVE  \/ stamped'[g] = 0
             \/ stamped'[g] = 1 /\ RunOf(g) \in Runs /\ g \in facts'[RunOf(g)].answered
  BY DEF OneFirst
<1>2. ASSUME NEW v \in Workers, First(v)'
      PROVE  /\ stamped'[worker'[v].event.gate] = 0
             /\ worker'[v].event.gate \in facts'[RunOf(worker'[v].event.gate)].answered
  <2>1. First(v) /\ worker'[v].event = worker[v].event  BY <1>2
  <2>2. PICK g : g = worker[v].event.gate  OBVIOUS
  <2>3. RunOf(g) \in Runs  BY <2>1, <2>2 DEF First, TypeOK
  <2>4. stamped[g] = 0 /\ g \in facts[RunOf(g)].answered  BY <2>1, <2>2 DEF OneFirst
  <2> QED BY <2>1, <2>2, <2>3, <2>4
<1>3. ASSUME NEW v \in Workers, NEW w \in Workers, First(v)', First(w)',
             worker'[v].event.gate = worker'[w].event.gate
      PROVE  v = w
  BY <1>3 DEF OneFirst
<1> QED BY <1>1, <1>2, <1>3 DEF OneFirst

\* A receipt reports the answer of its gate, which nobody else may then report.
LEMMA ReceiptReports ==
  ASSUME TypeOK, OneFirst, NEW w \in Workers, Receipt(w)
  PROVE  OneFirst'
<1>1. /\ UNCHANGED facts /\ worker'[w].pc = "idle"
      /\ \A v \in Workers \ {w} : worker'[v] = worker[v]
  BY DEF Receipt, Idle, TypeOK
<1>2. \A v \in Workers : First(v)' => v # w /\ First(v) /\ worker'[v].event = worker[v].event
  BY <1>1 DEF First
<1>3. CASE ~First(w)
  <2>1. UNCHANGED stamped  BY <1>3 DEF Receipt, First
  <2> QED BY <1>1, <1>2, <2>1, FirstStays
<1>4. CASE First(w)
  <2>1. PICK g : g = worker[w].event.gate  OBVIOUS
  <2>2. g \in Gates /\ RunOf(g) \in Runs  BY <1>4, <2>1 DEF First, TypeOK, Events
  <2>3. stamped[g] = 0 /\ g \in facts[RunOf(g)].answered  BY <1>4, <2>1 DEF OneFirst
  <2>4. stamped' = [stamped EXCEPT ![g] = stamped[g] + 1]
    BY <1>4, <2>1 DEF First, Receipt
  <2>5. stamped'[g] = 1 /\ \A h \in Gates \ {g} : stamped'[h] = stamped[h]
    BY <2>2, <2>3, <2>4 DEF TypeOK
  <2>6. ASSUME NEW h \in Gates
        PROVE  \/ stamped'[h] = 0
               \/ stamped'[h] = 1 /\ RunOf(h) \in Runs /\ h \in facts'[RunOf(h)].answered
    BY <1>1, <2>2, <2>3, <2>5 DEF OneFirst
  <2>7. ASSUME NEW v \in Workers, First(v)'
        PROVE  /\ stamped'[worker'[v].event.gate] = 0
               /\ worker'[v].event.gate \in facts'[RunOf(worker'[v].event.gate)].answered
    <3>1. v # w /\ First(v) /\ worker'[v].event = worker[v].event  BY <1>2, <2>7
    <3>2. PICK h : h = worker[v].event.gate  OBVIOUS
    <3>3. h \in Gates /\ h # g  BY <1>4, <2>1, <3>1, <3>2 DEF First, TypeOK, Events, OneFirst
    <3>4. stamped[h] = 0 /\ h \in facts[RunOf(h)].answered  BY <3>1, <3>2 DEF OneFirst
    <3> QED BY <1>1, <2>5, <3>1, <3>2, <3>3, <3>4
  <2>8. ASSUME NEW u \in Workers, NEW v \in Workers, First(u)', First(v)',
               worker'[u].event.gate = worker'[v].event.gate
        PROVE  u = v
    BY <1>2, <2>8 DEF OneFirst
  <2> QED BY <2>6, <2>7, <2>8 DEF OneFirst
<1> QED BY <1>3, <1>4

\* A request served while its handler waits makes that handler the first to
\* report the answer only if the answer was not stored when it was served.
LEMMA ServedFirst ==
  ASSUME IInv, NEW q \in requests, Commit(q) \/ Unchanged(q) \/ Mismatch(q),
         q.from \in Workers, First(q.from)', ~First(q.from)
  PROVE  /\ Commit(q) /\ q.gate \in Gates /\ q.gate = worker[q.from].event.gate
         /\ RunOf(q.gate) \in Runs
         /\ q.gate \notin facts[RunOf(q.gate)].answered
         /\ q.gate \in facts'[RunOf(q.gate)].answered
<1> DEFINE v == q.from
<1>0. TypeOK /\ Fenced(q) /\ Owned(q) /\ q \in Requests /\ q.run = RunOf(q.gate)
  BY DEF IInv, TypeOK, Fenced
<1>1. PICK reply \in Replies : /\ worker' = Answered(q, reply)
                               /\ Commit(q) => reply = "applied"
                               /\ Mismatch(q) => reply = "mismatch"
  BY DEF Commit, Unchanged, Mismatch, Replies
<1>2. /\ worker'[v].pc = worker[v].pc /\ worker'[v].event = worker[v].event
      /\ worker'[v].already = worker[v].already
      /\ worker'[v].reply = IF worker[v].pc = "wait" THEN reply ELSE worker[v].reply
  BY <1>0, <1>1, AnsweredType
<1>3. /\ worker[v].pc = "wait" /\ IsAnswer(worker[v].event) /\ ~worker[v].already
      /\ reply \in {"applied", "unchanged"}
  BY <1>2 DEF First
<1>4. ~Mismatch(q) /\ q.rev = rev[q.run]
  BY <1>1, <1>3 DEF Commit, Unchanged
<1>5. /\ q.gate = worker[v].event.gate /\ q.answer = IsAnswer(worker[v].event)
      /\ worker[v].already = (q.gate \in facts[q.run].answered)
  BY <1>0, <1>3, <1>4 DEF Owned
<1>6. q.gate \notin facts[q.run].answered /\ q.answer  BY <1>3, <1>5
<1>7. /\ q.desired = approvalFacts(facts[q.run], q.gate, q.answer)
  BY <1>0, <1>4 DEF Fenced
<1>8. q.gate \in q.desired.answered  BY <1>6, <1>7 DEF approvalFacts
<1>9. Commit(q)  BY <1>4, <1>6, <1>8 DEF Unchanged
<1>10. facts'[q.run] = q.desired /\ q.run \in Runs /\ q.gate \in Gates
  BY <1>0, <1>9 DEF Commit, TypeOK, Requests
<1> QED BY <1>0, <1>5, <1>6, <1>8, <1>9, <1>10

\* No step makes a second handler report an answer.
LEMMA OneFirstStep ==
  ASSUME IInv, OneFirst, [Next]_vars
  PROVE  OneFirst'
<1>0. TypeOK  BY DEF IInv
<1>a. \A r \in Runs : facts[r].answered \subseteq facts'[r].answered
  <2>1. CASE UNCHANGED facts  BY <2>1
  <2>2. ASSUME NEW q \in requests, Commit(q), NEW r \in Runs
        PROVE  facts[r].answered \subseteq facts'[r].answered
    BY <1>0, <2>2, CommitAdds, ApprovalFactsGrow DEF TypeOK
  <2> QED BY <2>1, <2>2, FactsChange
<1>1. CASE UNCHANGED <<worker, stamped>>  BY <1>0, <1>1, <1>a, FirstStays DEF First
<1>2. ASSUME NEW w \in Workers, NEW e \in events, Handle(w, e) PROVE OneFirst'
  <2>1. /\ UNCHANGED stamped /\ worker'[w].pc = "attempt"
        /\ \A v \in Workers \ {w} : worker'[v] = worker[v]
    BY <1>0, <1>2, HandleStamps DEF stampRunMarker, TypeOK
  <2>2. \A v \in Workers : First(v)' => First(v) /\ worker'[v].event = worker[v].event
    BY <2>1 DEF First
  <2> QED BY <1>0, <1>a, <2>1, <2>2, FirstStays
<1>3. ASSUME NEW w \in Workers, HandlerStep(w), ~Receipt(w) PROVE OneFirst'
  <2>1. UNCHANGED stamped /\ \A v \in Workers \ {w} : worker'[v] = worker[v]
    BY <1>0, <1>3, HandlerGoes
      DEF HandlerStep, Attempt, RejectFacts, Abandon, Retry, Refuse, Unknown
  <2>2. worker'[w].pc # "wait" \/ worker'[w].reply = "none"
    <3>1. CASE Attempt(w)
      <4>1. PICK b : b = (worker[w].event.gate \in facts[RunOf(worker[w].event.gate)].answered)
        OBVIOUS
      <4>2. worker' = [worker EXCEPT ![w] = [worker[w] EXCEPT !.pc = "wait", !.reply = "none",
                                                              !.already = b]]
        BY <3>1, <4>1, Zenon DEF Attempt
      <4>3. worker[w] \in WorkerStates /\ worker \in [Workers -> WorkerStates]
        BY <1>0 DEF TypeOK
      <4> QED BY <4>2, <4>3 DEF WorkerStates
    <3>2. CASE Retry(w)
      BY <1>0, <3>2 DEF Retry, Idle, TypeOK, WorkerStates
    <3>3. CASE RejectFacts(w) \/ Abandon(w) \/ Refuse(w) \/ Unknown(w)
      BY <1>0, <3>3 DEF RejectFacts, Abandon, Refuse, Unknown, Idle, TypeOK
    <3> QED BY <1>3, <3>1, <3>2, <3>3 DEF HandlerStep
  <2>3. \A v \in Workers : First(v)' => First(v) /\ worker'[v].event = worker[v].event
    BY <2>1, <2>2 DEF First
  <2> QED BY <1>0, <1>a, <2>1, <2>3, FirstStays
<1>4. ASSUME NEW w \in Workers, Receipt(w) PROVE OneFirst'
  BY <1>0, <1>4, ReceiptReports
<1>5. ASSUME NEW q \in requests, Commit(q) \/ Unchanged(q) \/ Mismatch(q) PROVE OneFirst'
  <2>1. PICK reply \in Replies : worker' = Answered(q, reply)
    BY <1>5 DEF Commit, Unchanged, Mismatch, Replies
  <2>2. \A v \in Workers : worker'[v].event = worker[v].event
    BY <1>0, <2>1, AnsweredType
  <2>3. ASSUME NEW v \in Workers, v # q.from PROVE First(v)' => First(v)
    BY <1>0, <2>1, <2>3, AnsweredType DEF First
  <2>4. UNCHANGED stamped  BY <1>5 DEF Commit, Unchanged, Mismatch
  <2>5. CASE \A v \in Workers : First(v)' => First(v)
    BY <1>0, <1>a, <2>2, <2>4, <2>5, FirstStays
  <2>6. CASE ~\A v \in Workers : First(v)' => First(v)
    <3>1. q.from \in Workers /\ First(q.from)' /\ ~First(q.from)  BY <2>3, <2>6
    <3>2. /\ q.gate \in Gates /\ q.gate = worker[q.from].event.gate /\ RunOf(q.gate) \in Runs
          /\ q.gate \notin facts[RunOf(q.gate)].answered
          /\ q.gate \in facts'[RunOf(q.gate)].answered
      BY <1>5, <3>1, ServedFirst
    <3>3. stamped[q.gate] = 0  BY <3>2 DEF OneFirst
    <3>4. ASSUME NEW v \in Workers, First(v)', v # q.from
          PROVE  First(v) /\ worker[v].event.gate # q.gate
      BY <2>3, <3>2, <3>4 DEF OneFirst
    <3>5. ASSUME NEW g \in Gates
          PROVE  \/ stamped'[g] = 0
                 \/ stamped'[g] = 1 /\ RunOf(g) \in Runs /\ g \in facts'[RunOf(g)].answered
      BY <1>a, <2>4 DEF OneFirst
    <3>6. ASSUME NEW v \in Workers, First(v)'
          PROVE  /\ stamped'[worker'[v].event.gate] = 0
                 /\ worker'[v].event.gate \in facts'[RunOf(worker'[v].event.gate)].answered
      <4>1. CASE v = q.from  BY <2>2, <2>4, <3>2, <3>3, <4>1
      <4>2. CASE v # q.from
        <5>1. First(v)  BY <3>4, <3>6, <4>2
        <5>2. PICK g : g = worker[v].event.gate  OBVIOUS
        <5>3. RunOf(g) \in Runs  BY <1>0, <5>1, <5>2 DEF First, TypeOK
        <5>4. stamped[g] = 0 /\ g \in facts[RunOf(g)].answered  BY <5>1, <5>2 DEF OneFirst
        <5> QED BY <1>a, <2>2, <2>4, <5>2, <5>3, <5>4
      <4> QED BY <4>1, <4>2
    <3>7. ASSUME NEW u \in Workers, NEW v \in Workers, First(u)', First(v)',
                 worker'[u].event.gate = worker'[v].event.gate
          PROVE  u = v
      BY <2>2, <3>2, <3>4, <3>7 DEF OneFirst
    <3> QED BY <3>5, <3>6, <3>7 DEF OneFirst
  <2> QED BY <2>5, <2>6
<1> QED BY <1>1, <1>2, <1>3, <1>4, <1>5
  DEF Next, OwnerStep, Environment, PublishPending, PublishResponse, OtherWrite, vars

\* Nothing is stored with a count, sent, handled or reported at the start.
LEMMA JInvInit == Init => JInv
<1> SUFFICES ASSUME Init PROVE JInv  OBVIOUS
<1>1. IInv  BY IInvInit
<1>2. AllGiven  BY DEF Init, AllGiven, Idle
<1>3. OneFirst  BY DEF Init, OneFirst, First, Idle
<1> QED BY <1>1, <1>2, <1>3 DEF JInv

\* The invariant with the answers, in every reachable state.
LEMMA JInvAlways == Spec => []JInv
<1>1. JInv /\ [Next]_vars => JInv'
  <2> SUFFICES ASSUME JInv, [Next]_vars PROVE JInv'  OBVIOUS
  <2>1. IInv'  BY IInvStep DEF JInv
  <2>2. AllGiven'  BY AllGivenStep
  <2>3. OneFirst'  BY OneFirstStep DEF JInv
  <2> QED BY <2>1, <2>2, <2>3 DEF JInv
<1> QED BY <1>1, JInvInit, PTL DEF Spec

\* An answer stored on a fresh run was given, and of the deliveries of an answer,
\* repeated and concurrent, at most one is reported as newly stamped.
THEOREM AnswersTrueAlways == Spec => []AnswersTrue
<1>1. JInv => AnswersTrue
  BY DEF JInv, AllGiven, Given, OneFirst, AnswersTrue
<1> QED BY <1>1, JInvAlways, PTL
=============================================================================
