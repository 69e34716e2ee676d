----------------------------- MODULE ChainPause -----------------------------
(***************************************************************************)
(* cmd/semteams/chainpause: a managed loop fails, the Pauser stamps what   *)
(* failed on the run ("chain") entity one triple at a time, and operators  *)
(* decide over HTTP to retry, kill or defer.  The failure event is core    *)
(* NATS (it may be lost), every graph write may fail or be applied without *)
(* its acknowledgement, decisions run concurrently with each other and     *)
(* with the Pauser, and the process may crash between any two writes.      *)
(***************************************************************************)
EXTENDS Integers, Sequences, FiniteSets

CONSTANTS
  Runs,        \* run entities
  Seeds,       \* loop id |-> [role, model, run] of the loops the packs spawned
  ManagedRoles,
  NoRun,       \* a loop without agent.run.entity-id
  Malformed,   \* a failed_loop_id that is not one
  Requests,    \* HTTP requests
  TaskIds      \* ids of the retry tasks there may be, in order (the bound)

ASSUME ChainConstantsOK ==
  /\ \A l \in DOMAIN Seeds : Seeds[l].run \in Runs \cup {NoRun}
  /\ NoRun \notin Runs /\ Malformed \notin DOMAIN Seeds
  /\ \A i \in 1..Len(TaskIds) : TaskIds[i] \notin DOMAIN Seeds

FallbackRole == "dispatch"
FallbackModel == "claude-haiku"
Verbs == {"retry", "kill", "defer"}
BadVerb == "reserved or unknown"

VARIABLES
  loops,    \* loops that exist: id |-> [role, model, run, prior]; a retry's id is its task's
  failed,   \* loops that have failed
  events,   \* agent.failed events on their way to the Pauser
  pause,    \* the Pauser's activation: the loop and the next triple to write
  chain,    \* per run: the triples this package writes and reads back
  req       \* per request: where it is and what it holds

vars == <<loops, failed, events, pause, chain, req>>

Idle == [loop |-> NoRun, step |-> 0]
NewReq == [pc |-> "idle", verb |-> "none", loop |-> NoRun, run |-> NoRun,
           role |-> "", model |-> "", warned |-> FALSE,
           task |-> NoRun, status |-> 0]

Stamped == {"role", "model"}
EmptyChain == [paused |-> [p \in Stamped |-> <<>>], verbs |-> {},
               resumed |-> {}, killed |-> FALSE, deferred |-> FALSE]

Init ==
  /\ loops = [l \in DOMAIN Seeds |->
                [role |-> Seeds[l].role, model |-> Seeds[l].model,
                 run |-> Seeds[l].run, prior |-> NoRun]]
  /\ failed = {} /\ events = {} /\ pause = Idle
  /\ chain = [r \in Runs |-> EmptyChain]
  /\ req = [q \in Requests |-> NewReq]

Tasks == {TaskIds[i] : i \in 1..Len(TaskIds)} \cap DOMAIN loops

\* TriplePublisher.Append: acknowledged, applied but not acknowledged, or not
\* applied.  Written is the run's triples with the appended one.
Append1(r, written, ok) ==
  \/ chain' = [chain EXCEPT ![r] = written] /\ ok
  \/ ~ok /\ \/ chain' = [chain EXCEPT ![r] = written]
            \/ UNCHANGED chain

(***************************************************************************)
(* The Pauser                                                              *)
(***************************************************************************)

\* The framework publishes agent.failed for a loop; nobody may receive it.
LoopFails(l) ==
  /\ l \notin failed
  /\ failed' = failed \cup {l}
  /\ events' \in {events, events \cup {l}}
  /\ UNCHANGED <<loops, pause, chain, req>>

isManagedRole(role) == role \in ManagedRoles

\* One subscription, so one event at a time.  Unmanaged roles and loops
\* outside a run are skipped.
HandleFailed(l) ==
  /\ l \in events /\ pause = Idle
  /\ events' = events \ {l}
  /\ pause' = IF isManagedRole(loops[l].role) /\ loops[l].run # NoRun
              THEN [loop |-> l, step |-> 1] ELSE Idle
  /\ UNCHANGED <<loops, failed, chain, req>>

\* The triples the decision path reads back, in the order they are written;
\* the other seven are write-only.
PauseTriple(i) == <<"role", "model">>[i]

\* One single-triple Append per step; an error does not stop the rest.
WritePauseTriple ==
  /\ pause # Idle
  /\ LET l == pause.loop
         r == loops[l].run
         p == PauseTriple(pause.step)
     IN \E ok \in BOOLEAN :
          Append1(r, [chain[r] EXCEPT !.paused[p] = Append(@, loops[l][p])], ok)
  /\ pause' = IF pause.step < Cardinality(Stamped)
              THEN [pause EXCEPT !.step = @ + 1] ELSE Idle
  /\ UNCHANGED <<loops, failed, events, req>>

(***************************************************************************)
(* The decision handler                                                    *)
(***************************************************************************)

\* The answer: what was decided is remembered only if it was accepted.
Answered(l, status) == [NewReq EXCEPT !.pc = "done", !.loop = l, !.status = status]
Accepted(q) ==
  [NewReq EXCEPT !.pc = "done", !.status = 200, !.verb = req[q].verb,
                 !.run = req[q].run, !.task = req[q].task, !.warned = req[q].warned]
End(q, status) == IF status = 200 THEN Accepted(q) ELSE Answered(NoRun, status)

\* handleDecide and HandleDecision up to the run anchor.  Nothing checks that
\* the loop failed.  Only verb errors are 400; a malformed id, a failed read
\* and a missing anchor are all 500.
HandleDecision(q, verb, l) ==
  /\ req[q].pc = "idle"
  /\ \/ verb \notin Verbs /\ req' = [req EXCEPT ![q] = Answered(l, 400)]
     \/ verb \in Verbs /\ req' = [req EXCEPT ![q] = Answered(l, 500)]
     \/ /\ verb \in Verbs /\ l # Malformed /\ loops[l].run # NoRun
        /\ req' = [req EXCEPT ![q] = [@ EXCEPT !.pc = "audit", !.verb = verb,
                                        !.loop = l, !.run = loops[l].run]]
  /\ UNCHANGED <<loops, failed, events, pause, chain>>

\* Mutant: the action is dispatched first and the audit trail is forgotten.
Unaudited_writeDecisionTriples(q) ==
  /\ req[q].pc = "audit"
  /\ req' = [req EXCEPT ![q].pc = "act"]
  /\ UNCHANGED <<loops, failed, events, pause, chain>>

\* The audit trail.  A failed write is logged and the action still happens.
writeDecisionTriples(q) ==
  /\ req[q].pc = "audit"
  /\ LET r == req[q].run
     IN \E ok \in BOOLEAN :
          /\ Append1(r, [chain[r] EXCEPT !.verbs = @ \cup {req[q].verb}], ok)
          /\ req' = [req EXCEPT ![q].pc = "act", ![q].warned = ~ok]
  /\ UNCHANGED <<loops, failed, events, pause>>

\* The value written last wins; "" when the predicate is absent.
LastOf(s) == IF s = <<>> THEN "" ELSE s[Len(s)]
OrElse(v, default) == IF v = "" THEN default ELSE v

ReadPauseData(r) ==
  [role |-> LastOf(chain[r].paused["role"]),
   model |-> LastOf(chain[r].paused["model"])]

Unresolved == [role |-> "", model |-> ""]

\* retry, first half: one read of the run, which may fail or time out.
RetryRead(q) ==
  /\ req[q].pc = "act" /\ req[q].verb = "retry"
  /\ \E data \in {ReadPauseData(req[q].run), Unresolved} :
       req' = [req EXCEPT ![q] = [@ EXCEPT !.pc = "publish",
                 !.role = OrElse(data.role, FallbackRole),
                 !.model = OrElse(data.model, FallbackModel)]]
  /\ UNCHANGED <<loops, failed, events, pause, chain>>

\* The task carries no run id, so its loop has no run anchor.
Spawned(q) ==
  [role |-> req[q].role, model |-> req[q].model, run |-> NoRun, prior |-> req[q].loop]

\* Task ids are never reused: the first one that no loop has.
NextTask ==
  {TaskIds[i] : i \in {i \in 1..Len(TaskIds) :
     TaskIds[i] \notin DOMAIN loops /\ \A j \in 1..(i - 1) : TaskIds[j] \in DOMAIN loops}}

Spawn(q, t) ==
  loops' = [l \in DOMAIN loops \cup {t} |-> IF l = t THEN Spawned(q) ELSE loops[l]]

\* Mutant: the result of the publish is ignored.
Blind_RetryPublish(q) ==
  /\ req[q].pc = "publish"
  /\ \E t \in NextTask :
       /\ Spawn(q, t) \/ UNCHANGED loops
       /\ req' = [req EXCEPT ![q].pc = "record", ![q].task = t]
  /\ UNCHANGED <<failed, events, pause, chain>>

\* retry, second half: publish to the stream; without an acknowledgement the
\* request fails although the task may have been stored.
RetryPublish(q) ==
  /\ req[q].pc = "publish"
  /\ \E t \in NextTask :
       \/ /\ Spawn(q, t)
          /\ req' = [req EXCEPT ![q].pc = "record", ![q].task = t]
       \/ /\ Spawn(q, t) \/ UNCHANGED loops
          /\ req' = [req EXCEPT ![q] = End(q, 500)]
  /\ UNCHANGED <<failed, events, pause, chain>>

\* The action's closing triple: its error is the request's error.
Close(q, written) ==
  /\ \E ok \in BOOLEAN :
       /\ Append1(req[q].run, written, ok)
       /\ req' = [req EXCEPT ![q] = End(q, IF ok THEN 200 ELSE 500)]
  /\ UNCHANGED <<loops, failed, events, pause>>

\* Mutant: a lost chain.decision.resumed-task-id goes unnoticed.
Lenient_RetryRecord(q) ==
  /\ req[q].pc = "record"
  /\ LET r == req[q].run
     IN \E ok \in BOOLEAN :
          Append1(r, [chain[r] EXCEPT !.resumed = @ \cup {req[q].task}], ok)
  /\ req' = [req EXCEPT ![q] = End(q, 200)]
  /\ UNCHANGED <<loops, failed, events, pause>>

RetryRecord(q) ==
  /\ req[q].pc = "record"
  /\ LET r == req[q].run
     IN Close(q, [chain[r] EXCEPT !.resumed = @ \cup {req[q].task}])

kill(q) ==
  /\ req[q].pc = "act" /\ req[q].verb = "kill"
  /\ Close(q, [chain[req[q].run] EXCEPT !.killed = TRUE])

deferChain(q) ==
  /\ req[q].pc = "act" /\ req[q].verb = "defer"
  /\ Close(q, [chain[req[q].run] EXCEPT !.deferred = TRUE])

\* The process dies: the Pauser's activation, undelivered events and the
\* requests in progress are gone; the graph and the task stream are not.
Crash ==
  /\ pause # Idle \/ \E q \in Requests : req[q].pc \notin {"idle", "done"}
  /\ pause' = Idle /\ events' = {}
  /\ req' = [q \in Requests |-> IF req[q].pc \in {"idle", "done"} THEN req[q] ELSE End(q, 0)]
  /\ UNCHANGED <<loops, failed, chain>>

Next ==
  \/ \E l \in DOMAIN loops : LoopFails(l) \/ HandleFailed(l)
  \/ WritePauseTriple
  \/ \E q \in Requests :
       \/ \E verb \in Verbs \cup {BadVerb}, l \in DOMAIN loops \cup {Malformed} :
            HandleDecision(q, verb, l)
       \/ writeDecisionTriples(q) \/ RetryRead(q) \/ RetryPublish(q)
       \/ RetryRecord(q) \/ kill(q) \/ deferChain(q)
  \/ Crash

Spec == Init /\ [][Next]_vars

(***************************************************************************)
(* Properties                                                              *)
(***************************************************************************)

\* Types of the variables.
TypeOK ==
  /\ failed \subseteq DOMAIN loops /\ events \subseteq failed
  /\ pause # Idle => pause.loop \in failed /\ pause.step \in 1..Cardinality(Stamped)
  /\ \A q \in Requests :
       /\ req[q].pc \in {"idle", "audit", "act", "publish", "record", "done"}
       /\ req[q].status \in {0, 200, 400, 500} /\ req[q].run \in Runs \cup {NoRun}
  /\ \A r \in Runs : chain[r].verbs \subseteq Verbs

\* A decision answered 200 took effect and left its mark on the run, whatever
\* other decisions, pauses and crashes happened around it (http.go 98-104).
AcceptedTookEffect ==
  /\ TypeOK
  /\ \A q \in Requests : req[q].status = 200 =>
       LET c == chain[req[q].run] IN
       CASE req[q].verb = "retry" -> req[q].task \in Tasks \cap c.resumed
         [] req[q].verb = "kill" -> c.killed
         [] req[q].verb = "defer" -> c.deferred

\* A retry stays within its run: chain.decision.resumed-task-id names a task that
\* was really published, for a loop of that run (publish before record), and the
\* retried loop takes its role and its model from failures of that very run, or
\* from the fallbacks; never from another run.
RetryOfThisRun ==
  /\ \A r \in Runs : \A t \in chain[r].resumed :
       t \in Tasks /\ loops[loops[t].prior].run = r
  /\ \A t \in Tasks :
       LET sibling == {l \in failed : loops[l].run = loops[loops[t].prior].run}
       IN /\ loops[t].role \in {FallbackRole} \cup {loops[l].role : l \in sibling}
          /\ loops[t].model \in {FallbackModel} \cup {loops[l].model : l \in sibling}

\* No decision acts behind the audit trail's back: unless its audit write was
\* reported as failed, the verb is on the run before the task or the mark.
AuditedBeforeAction ==
  \A q \in Requests :
    (req[q].pc \in {"act", "publish", "record"} \/ req[q].status = 200) /\ ~req[q].warned
      => req[q].verb \in chain[req[q].run].verbs

\* decision_handler.go 198-199: "If the retried loop still fails, ... the
\* operator decides again", so a retried loop that failed can be decided on.
RetriedLoopDecidable == \A t \in Tasks \cap failed : loops[t].run # NoRun
=============================================================================
