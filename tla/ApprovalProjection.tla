------------------------- MODULE ApprovalProjection -------------------------
(***************************************************************************)
(* cmd/semteams/approvalpause: the subscriber that mirrors a loop's tool-  *)
(* approval gate onto its run entity.  Two best-effort core-NATS streams   *)
(* (agent.approval_pending, agent.approval_response) feed handlers that    *)
(* read the run at an exact revision, compute the new approval facts from  *)
(* that read, and ask the graph owner to reconcile them fenced on the      *)
(* revision read.  Events may be lost, repeated and reordered; several     *)
(* process instances run at once; requests and replies may be lost or late.*)
(***************************************************************************)
EXTENDS Integers, FiniteSets

CONSTANTS
  Runs,            \* run entities inside the local run contract
  ForeignRuns,     \* anchors that name an entity outside that contract
  NoRun,           \* "": the loop carries no run anchor
  Loops,           \* loop executions
  Gates,           \* approval pairs [loopID, executionID]
  LoopOf,          \* LoopOf[g]: the loop of the pair
  InheritAnchor,   \* agent.run.entity-id of a loop, or NoRun
  LineageAnchor,   \* agent.lineage.run-loop-entity-id of a loop, or NoRun
  Decisions,       \* decisions HandleResponse accepts (approve, reject, modify)
  Workers,         \* concurrent handler activations, over all process instances
  NoWorker,
  MaxAttempts,     \* maxProjectionAttempts
  MaxRevision,     \* bound on the revisions other writers may add to a run
  MaxInFlight,     \* bound on the requests on their way to the graph owner
  MaxDeliveries    \* bound on deliveries, repeated ones included

ASSUME ConstantsOK ==
  /\ LoopOf \in [Gates -> Loops]
  /\ InheritAnchor \in [Loops -> Runs \cup ForeignRuns \cup {NoRun}]
  /\ LineageAnchor \in [Loops -> Runs \cup ForeignRuns \cup {NoRun}]
  /\ NoRun \notin Runs /\ Runs \cap ForeignRuns = {}
  /\ "other" \notin Decisions
  /\ NoWorker \notin Workers
  /\ MaxAttempts \in Nat \ {0}
  /\ MaxRevision \in Nat
  /\ MaxInFlight \in Nat
  /\ MaxDeliveries \in Nat

\* A run sees finitely many gates; approval-outstanding counts them.
ASSUME GatesFinite == IsFiniteSet(Gates)

VARIABLES
  facts,      \* facts[r]: the three approval predicates on run r
  rev,        \* rev[r]: KV revision of run r at the graph owner
  events,     \* approval events published so far
  worker,     \* worker[w]: state of handler activation w
  requests,   \* reconcile requests in flight to the graph owner
  acked,      \* events some handler recorded without an error
  stamped,    \* stamped[g]: handlers that reported g's answer as newly stamped
  delivered,  \* number of deliveries so far (bounds the model, not the code)
  landed      \* landed[w]: a request of w's current activation was committed

vars == <<facts, rev, events, worker, requests, acked, stamped, delivered, landed>>

NoCount == -1     \* approval-outstanding absent from the entity

Events ==
  [kind : {"pending"}, gate : Gates, decision : {"none"}]
    \cup [kind : {"response"}, gate : Gates, decision : Decisions \cup {"other"}]

IsAnswer(e) == e.kind = "response"

Facts == [pending : SUBSET Gates, answered : SUBSET Gates, outstanding : Int]

\* Results of a finished activation: ok, or how RecordApproval failed.
\* "error", "refused" and "conflict" all say that nothing was committed.
Results == {"none", "ok", "error", "refused", "conflict", "unknown"}
NotCommitted == {"error", "refused", "conflict"}

Replies == {"none", "applied", "unchanged", "mismatch"}

NoEvent == [kind |-> "none"]

Idle(result) ==
  [pc |-> "idle", event |-> NoEvent, attempt |-> 0, already |-> FALSE,
   reply |-> "none", result |-> result]

(***************************************************************************)
(* Pure parts of the handler                                               *)
(***************************************************************************)

\* The inherited anchor wins over the one threaded through lineage.
resolveRunAnchor(l) ==
  IF InheritAnchor[l] # NoRun THEN InheritAnchor[l] ELSE LineageAnchor[l]

RunOf(g) == resolveRunAnchor(LoopOf[g])

\* Org, platform and entity family of the anchor match this deployment.
validateRun(r) == r \in Runs

\* Stored facts RecordApproval is willing to build on.
FactsValid(f) ==
  /\ f.answered \subseteq f.pending
  /\ f.outstanding # NoCount
       => f.outstanding = Cardinality(f.pending) - Cardinality(f.answered)
  /\ f.outstanding = NoCount => f.pending = {} /\ f.answered = {}

\* Mutant: the count is taken from the sets as they were read.
StaleCount_approvalFacts(f, g, answer) ==
  [pending |-> f.pending \cup {g},
   answered |-> IF answer THEN f.answered \cup {g} ELSE f.answered,
   outstanding |-> Cardinality(f.pending) - Cardinality(f.answered)]

\* Mutant: an answer that arrives before its pending event is not added to pending.
AnswerOnly_approvalFacts(f, g, answer) ==
  LET pending  == IF answer THEN f.pending ELSE f.pending \cup {g}
      answered == IF answer THEN f.answered \cup {g} ELSE f.answered
  IN [pending |-> pending, answered |-> answered,
      outstanding |-> Cardinality(pending) - Cardinality(answered)]

\* The desired facts: the gate always joins pending, and answered if this is
\* its answer; the count is derived from the two resulting sets.
approvalFacts(f, g, answer) ==
  LET pending  == f.pending \cup {g}
      answered == IF answer THEN f.answered \cup {g} ELSE f.answered
  IN [pending |-> pending, answered |-> answered,
      outstanding |-> Cardinality(pending) - Cardinality(answered)]

(***************************************************************************)
(* Initial states: fresh runs, and runs whose receipts were stored before  *)
(* approval-outstanding existed ("fresh storage required").                *)
(***************************************************************************)
Init ==
  /\ facts \in [Runs -> [pending : SUBSET Gates, answered : SUBSET Gates,
                         outstanding : {NoCount}]]
  /\ rev = [r \in Runs |-> 1]
  /\ events = {}
  /\ worker = [w \in Workers |-> Idle("none")]
  /\ requests = {}
  /\ acked = {}
  /\ stamped = [g \in Gates |-> 0]
  /\ delivered = 0
  /\ landed = [w \in Workers |-> FALSE]

(***************************************************************************)
(* Environment                                                             *)
(***************************************************************************)

\* The loop parks on an approval_required tool.
PublishPending(g) ==
  /\ events' = events \cup {[kind |-> "pending", gate |-> g, decision |-> "none"]}
  /\ UNCHANGED <<facts, rev, worker, requests, acked, stamped, delivered, landed>>

\* The dispatcher forwards a human's answer to a gate that was announced.
PublishResponse(g, d) ==
  /\ [kind |-> "pending", gate |-> g, decision |-> "none"] \in events
  /\ events' = events \cup {[kind |-> "response", gate |-> g, decision |-> d]}
  /\ UNCHANGED <<facts, rev, worker, requests, acked, stamped, delivered, landed>>

\* Rules and the lifecycle manager write other predicates of the run.
OtherWrite(r) ==
  /\ rev[r] < MaxRevision
  /\ rev' = [rev EXCEPT ![r] = @ + 1]
  /\ UNCHANGED <<facts, events, worker, requests, acked, stamped, delivered, landed>>

(***************************************************************************)
(* Handlers                                                                *)
(***************************************************************************)

\* Requests of an earlier activation of w that may still arrive at the owner.
Disown(w) == {IF q.from = w THEN [q EXCEPT !.from = NoWorker] ELSE q : q \in requests}

\* The event's loop belongs to a local run: start recording the gate on it.
\* A loop outside any run, or a foreign anchor, ends the handler with no effect.
stampRunMarker(w, e) ==
  /\ worker[w].pc = "idle"
  /\ delivered < MaxDeliveries /\ delivered' = delivered + 1
  /\ RunOf(e.gate) # NoRun
  /\ validateRun(RunOf(e.gate))
  /\ worker' = [worker EXCEPT ![w] = [pc |-> "attempt", event |-> e, attempt |-> 0,
                                      already |-> FALSE, reply |-> "none",
                                      result |-> "none"]]
  /\ requests' = Disown(w)
  /\ landed' = [landed EXCEPT ![w] = FALSE]
  /\ UNCHANGED <<facts, rev, events, acked, stamped>>

HandlePending(w, e) == stampRunMarker(w, e)

\* Only the three known decisions count as an answer.
HandleResponse(w, e) == e.decision \in Decisions /\ stampRunMarker(w, e)

\* A published event reaches its subscription: again, late, or first of its gate.
handlePendingMsg(w, e) == e.kind = "pending" /\ HandlePending(w, e)
handleResponseMsg(w, e) == e.kind = "response" /\ HandleResponse(w, e)

Handle(w, e) == handlePendingMsg(w, e) \/ handleResponseMsg(w, e)

\* One turn of the retry loop: exact read, desired facts, fenced request.
Attempt(w) ==
  LET g == worker[w].event.gate
      r == RunOf(g)
  IN /\ worker[w].pc = "attempt"
     /\ FactsValid(facts[r])
     /\ Cardinality(requests) < MaxInFlight
     /\ requests' = requests \cup
          {[from |-> w, run |-> r, gate |-> g, answer |-> IsAnswer(worker[w].event),
            rev |-> rev[r],
            desired |-> approvalFacts(facts[r], g, IsAnswer(worker[w].event))]}
     /\ worker' = [worker EXCEPT ![w] =
                    [worker[w] EXCEPT !.pc = "wait", !.reply = "none",
                                      !.already = g \in facts[r].answered]]
     /\ UNCHANGED <<facts, rev, events, acked, stamped, delivered, landed>>

\* The stored facts contradict each other or predate the count.
RejectFacts(w) ==
  /\ worker[w].pc = "attempt"
  /\ ~FactsValid(facts[RunOf(worker[w].event.gate)])
  /\ worker' = [worker EXCEPT ![w] = Idle("error")]
  /\ UNCHANGED <<facts, rev, events, requests, acked, stamped, delivered, landed>>

\* The context expired or the exact read failed before a request was sent.
Abandon(w) ==
  /\ worker[w].pc = "attempt"
  /\ worker' = [worker EXCEPT ![w] = Idle("error")]
  /\ UNCHANGED <<facts, rev, events, requests, acked, stamped, delivered, landed>>

\* Mutant: any reply is taken for success.
AnyReply_Receipt(w) ==
  /\ worker[w].pc = "wait"
  /\ worker[w].reply # "none"
  /\ worker' = [worker EXCEPT ![w] = Idle("ok")]
  /\ acked' = acked \cup {worker[w].event}
  /\ UNCHANGED <<facts, rev, events, requests, stamped, delivered, landed>>

\* Mutant: every recorded answer is reported as newly stamped.
AlwaysStamped_Receipt(w) ==
  /\ worker[w].pc = "wait"
  /\ worker[w].reply \in {"applied", "unchanged"}
  /\ worker' = [worker EXCEPT ![w] = Idle("ok")]
  /\ acked' = acked \cup {worker[w].event}
  /\ stamped' = IF IsAnswer(worker[w].event)
                  THEN [stamped EXCEPT ![worker[w].event.gate] = @ + 1] ELSE stamped
  /\ UNCHANGED <<facts, rev, events, requests, delivered, landed>>

\* A valid receipt: the event is recorded, and stamped unless already answered.
Receipt(w) ==
  LET e == worker[w].event
  IN /\ worker[w].pc = "wait"
     /\ worker[w].reply \in {"applied", "unchanged"}
     /\ worker' = [worker EXCEPT ![w] = Idle("ok")]
     /\ acked' = acked \cup {e}
     /\ stamped' = IF IsAnswer(e) /\ ~worker[w].already
                     THEN [stamped EXCEPT ![e.gate] = @ + 1] ELSE stamped
     /\ UNCHANGED <<facts, rev, events, requests, delivered, landed>>

\* Mutant: a mismatch is retried without counting the reads already made.
Forever_Retry(w) ==
  /\ worker[w].pc = "wait"
  /\ worker[w].reply = "mismatch"
  /\ worker' = [worker EXCEPT ![w] = [worker[w] EXCEPT !.pc = "attempt",
                                                     !.attempt = @ + 1, !.reply = "none"]]
  /\ UNCHANGED <<facts, rev, events, requests, acked, stamped, delivered, landed>>

\* A definite revision mismatch: read again, up to MaxAttempts reads in all.
Retry(w) ==
  /\ worker[w].pc = "wait"
  /\ worker[w].reply = "mismatch"
  /\ worker' =
       [worker EXCEPT ![w] =
          IF worker[w].attempt + 1 < MaxAttempts
            THEN [worker[w] EXCEPT !.pc = "attempt", !.attempt = @ + 1, !.reply = "none"]
            ELSE Idle("conflict")]
  /\ UNCHANGED <<facts, rev, events, requests, acked, stamped, delivered, landed>>

\* A classified refusal, or no responder: the owner never saw a valid request.
Refuse(w) ==
  /\ worker[w].pc = "wait"
  /\ \E q \in requests : q.from = w /\ requests' = requests \ {q}
  /\ worker' = [worker EXCEPT ![w] = Idle("refused")]
  /\ UNCHANGED <<facts, rev, events, acked, stamped, delivered, landed>>

\* Mutant: an ambiguous failure is replayed like a revision mismatch.
Replay_Unknown(w) ==
  /\ worker[w].pc = "wait"
  /\ worker' =
       [worker EXCEPT ![w] =
          IF worker[w].attempt + 1 < MaxAttempts
            THEN [worker[w] EXCEPT !.pc = "attempt", !.attempt = @ + 1, !.reply = "none"]
            ELSE Idle("conflict")]
  /\ UNCHANGED <<facts, rev, events, requests, acked, stamped, delivered, landed>>

\* The transport fails, the deadline passes or the receipt is invalid: the
\* request may be unserved, served or still on its way, and is not replayed.
Unknown(w) ==
  /\ worker[w].pc = "wait"
  /\ worker' = [worker EXCEPT ![w] = Idle("unknown")]
  /\ UNCHANGED <<facts, rev, events, requests, acked, stamped, delivered, landed>>

(***************************************************************************)
(* The graph owner (framework), as RecordApproval relies on it             *)
(***************************************************************************)

Answered(q, reply) ==
  IF q.from # NoWorker /\ worker[q.from].pc = "wait"
    THEN [worker EXCEPT ![q.from].reply = reply] ELSE worker

Commit(q) ==
  /\ q.rev = rev[q.run]
  /\ q.desired # facts[q.run]
  /\ requests' = requests \ {q}
  /\ facts' = [facts EXCEPT ![q.run] = q.desired]
  /\ rev' = [rev EXCEPT ![q.run] = @ + 1]
  /\ worker' = Answered(q, "applied")
  /\ landed' = [w \in Workers |-> landed[w] \/ w = q.from]
  /\ UNCHANGED <<events, acked, stamped, delivered>>

Unchanged(q) ==
  /\ q.rev = rev[q.run]
  /\ q.desired = facts[q.run]
  /\ requests' = requests \ {q}
  /\ worker' = Answered(q, "unchanged")
  /\ UNCHANGED <<facts, rev, events, acked, stamped, delivered, landed>>

Mismatch(q) ==
  /\ q.rev # rev[q.run]
  /\ requests' = requests \ {q}
  /\ worker' = Answered(q, "mismatch")
  /\ UNCHANGED <<facts, rev, events, acked, stamped, delivered, landed>>

(***************************************************************************)
(* Specification                                                           *)
(***************************************************************************)

HandlerStep(w) ==
  \/ Attempt(w) \/ RejectFacts(w) \/ Abandon(w)
  \/ Receipt(w) \/ Retry(w) \/ Refuse(w) \/ Unknown(w)

OwnerStep == \E q \in requests : Commit(q) \/ Unchanged(q) \/ Mismatch(q)

Environment ==
  \/ \E g \in Gates : PublishPending(g)
  \/ \E g \in Gates, d \in Decisions \cup {"other"} : PublishResponse(g, d)
  \/ \E r \in Runs : OtherWrite(r)

Next ==
  \/ Environment
  \/ \E w \in Workers : HandlerStep(w) \/ \E e \in events : Handle(w, e)
  \/ OwnerStep

Spec == Init /\ [][Next]_vars

\* The five-second deadline ends a wait, and the Go scheduler runs a handler
\* that has something to do.  Nothing is assumed of the owner or the network.
Fairness ==
  \A w \in Workers : /\ WF_vars(Attempt(w) \/ RejectFacts(w) \/ Abandon(w))
                     /\ WF_vars(Receipt(w) \/ Retry(w) \/ Unknown(w))

FairSpec == Spec /\ Fairness

(***************************************************************************)
(* Properties                                                              *)
(***************************************************************************)

WorkerStates ==
  [pc : {"idle", "attempt", "wait"}, event : Events \cup {NoEvent},
   attempt : 0..(MaxAttempts - 1), already : BOOLEAN, reply : Replies, result : Results]

Requests ==
  [from : Workers \cup {NoWorker}, run : Runs, gate : Gates, answer : BOOLEAN,
   rev : Nat, desired : Facts]

\* Types of the variables; a handler at work has an event of a loop in a run.
TypeOK ==
  /\ facts \in [Runs -> Facts]
  /\ rev \in [Runs -> Nat]
  /\ events \subseteq Events
  /\ worker \in [Workers -> WorkerStates]
  /\ \A w \in Workers : worker[w].pc # "idle" =>
        worker[w].event \in Events /\ RunOf(worker[w].event.gate) \in Runs
  /\ requests \subseteq Requests
  /\ acked \subseteq Events
  /\ stamped \in [Gates -> Nat]
  /\ delivered \in Nat
  /\ landed \in [Workers -> BOOLEAN]

\* A run with a derived count has answered <= pending and the count is the
\* number of unanswered gates, at every revision (approvalFacts, one mutation).
OutstandingMatches ==
  \A r \in Runs : facts[r].outstanding # NoCount =>
     /\ facts[r].answered \subseteq facts[r].pending
     /\ facts[r].outstanding = Cardinality(facts[r].pending) - Cardinality(facts[r].answered)

Recorded(e) ==
  LET f == facts[RunOf(e.gate)]
  IN e.gate \in f.pending /\ (IsAnswer(e) => e.gate \in f.answered)

\* No lost update: a gate or answer a handler recorded without an error is on
\* the run for good, whatever concurrent handlers and other writers did since.
AckedRecorded == \A e \in acked : Recorded(e)

\* An answer stored on a fresh run was given, and given once: some response with
\* one of the three decisions was published for that very (loop, execution) pair,
\* and of its repeated and concurrent deliveries at most one is reported as newly
\* stamped (AlreadyAnswered absorbs the others).
AnswersTrue ==
  /\ \A r \in Runs : facts[r].outstanding # NoCount =>
       \A g \in facts[r].answered : \E d \in Decisions :
          [kind |-> "response", gate |-> g, decision |-> d] \in events
  /\ \A g \in Gates : stamped[g] <= 1

\* RecordApproval's failure report is truthful: a handler that ended without
\* "commit unknown" has nothing committed and nothing that can still commit.
NotCommittedIsDefinite ==
  \A w \in Workers : worker[w].pc = "idle" /\ worker[w].result \in NotCommitted =>
     ~landed[w] /\ \A q \in requests : q.from # w

\* Receipts are append-only: no step of any actor removes a gate or an answer
\* from a run, and a late request never rolls a run back.
ReceiptsGrow ==
  [][\A r \in Runs : /\ facts[r].pending \subseteq facts'[r].pending
                     /\ facts[r].answered \subseteq facts'[r].answered]_vars

\* Every activation ends: it reads the run at most MaxAttempts times, however
\* often others move the revision under it, and a wait has a deadline.
HandlersEnd ==
  /\ \A w \in Workers : [](worker[w].attempt < MaxAttempts)
  /\ \A w \in Workers : worker[w].pc # "idle" ~> worker[w].pc = "idle"

\* The projection implements the ledger: every commit records exactly one gate.
Ledger == INSTANCE GateLedger WITH
  observed <- [r \in Runs |-> facts[r].pending],
  settled  <- [r \in Runs |-> facts[r].answered],
  open     <- [r \in Runs |-> facts[r].outstanding]

ImplementsLedger == Ledger!Spec
=============================================================================
