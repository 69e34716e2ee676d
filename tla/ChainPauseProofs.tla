-------------------------- MODULE ChainPauseProofs --------------------------
(***************************************************************************)
(* TLAPS proofs about ChainPause, for any loops, runs, concurrent          *)
(* decisions and retry tasks.                                              *)
(***************************************************************************)
EXTENDS ChainPause, FiniteSetTheorems, TLAPS

AllTasks == {TaskIds[i] : i \in 1..Len(TaskIds)}

\* Roles and models that can occur.
Texts ==
  {Seeds[l].role : l \in DOMAIN Seeds} \cup {Seeds[l].model : l \in DOMAIN Seeds}
    \cup {"", FallbackRole, FallbackModel}

LoopRecord ==
  [role : Texts, model : Texts, run : Runs \cup {NoRun}, prior : DOMAIN Seeds \cup {NoRun}]
ChainRecord ==
  [paused : [Stamped -> Seq(Texts)], verbs : SUBSET Verbs, resumed : SUBSET AllTasks,
   killed : BOOLEAN, deferred : BOOLEAN]
Pcs == {"idle", "audit", "act", "publish", "record", "done"}
VerbNames == Verbs \cup {"none"}
LoopNames == DOMAIN Seeds \cup AllTasks \cup {NoRun, Malformed}
RunNames == Runs \cup {NoRun}
TaskNames == AllTasks \cup {NoRun}
Statuses == {0, 200, 400, 500}
ReqRecord ==
  [pc : Pcs, verb : VerbNames, loop : LoopNames, run : RunNames, role : Texts, model : Texts,
   warned : BOOLEAN, task : TaskNames, status : Statuses]

\* Loops are the seeds and the published tasks; only seeds belong to runs.
LoopsOK ==
  /\ loops \in [DOMAIN loops -> LoopRecord]
  /\ DOMAIN Seeds \subseteq DOMAIN loops /\ DOMAIN loops \subseteq DOMAIN Seeds \cup AllTasks
  /\ \A t \in Tasks : loops[t].run = NoRun /\ loops[t].prior \in DOMAIN Seeds

PauseOK ==
  /\ failed \subseteq DOMAIN loops /\ events \subseteq failed
  /\ pause # Idle => /\ pause = [loop |-> pause.loop, step |-> pause.step]
                     /\ pause.loop \in failed /\ pause.step \in 1..2
                     /\ loops[pause.loop].run \in Runs

TypesOK ==
  /\ LoopsOK /\ PauseOK
  /\ chain \in [Runs -> ChainRecord]
  /\ req \in [Requests -> ReqRecord]

\* A shape that run r may retry with.
Siblings(r) == {l \in failed : loops[l].run = r}
RoleOf(r, role) == role \in {FallbackRole} \cup {loops[l].role : l \in Siblings(r)}
ModelOf(r, model) == model \in {FallbackModel} \cup {loops[l].model : l \in Siblings(r)}

\* What the Pauser stamped on a run comes from a failure of that run.
StampsOK ==
  \A r \in Runs :
    /\ \A i \in DOMAIN chain[r].paused["role"] :
         \E l \in Siblings(r) : chain[r].paused["role"][i] = loops[l].role
    /\ \A i \in DOMAIN chain[r].paused["model"] :
         \E l \in Siblings(r) : chain[r].paused["model"][i] = loops[l].model

TasksOK ==
  /\ \A t \in Tasks : LET r == loops[loops[t].prior].run
                      IN r \in Runs /\ RoleOf(r, loops[t].role) /\ ModelOf(r, loops[t].model)
  /\ \A r \in Runs : \A t \in chain[r].resumed : t \in Tasks /\ loops[loops[t].prior].run = r

\* What a request relies on between its steps, and what its answer promises.
ReqOK(q) ==
  LET a == req[q] IN
  /\ a.pc = "idle" => a.status = 0
  /\ a.pc \in {"audit", "act", "publish", "record"} =>
       /\ a.verb \in Verbs /\ a.run \in Runs /\ a.loop \in DOMAIN Seeds
       /\ loops[a.loop].run = a.run /\ a.status = 0
  /\ a.pc \in {"publish", "record"} =>
       a.verb = "retry" /\ RoleOf(a.run, a.role) /\ ModelOf(a.run, a.model)
  /\ a.pc = "record" => a.task \in Tasks /\ loops[a.task].prior = a.loop
  /\ a.pc \in {"act", "publish", "record"} /\ ~a.warned => a.verb \in chain[a.run].verbs
  /\ a.status = 200 =>
       /\ a.pc = "done" /\ a.run \in Runs /\ a.verb \in Verbs
       /\ ~a.warned => a.verb \in chain[a.run].verbs
       /\ a.verb = "retry" => a.task \in Tasks \cap chain[a.run].resumed
       /\ a.verb = "kill" => chain[a.run].killed
       /\ a.verb = "defer" => chain[a.run].deferred

\* The inductive invariant.
CInv == TypesOK /\ StampsOK /\ TasksOK /\ \A q \in Requests : ReqOK(q)

-----------------------------------------------------------------------------
\* A decision is audited by two triples.
LEMMA TwoStamped == Cardinality(Stamped) = 2
<1>1. IsFiniteSet({"role"}) /\ Cardinality({"role"}) = 1  BY FS_Singleton
<1>2. "model" \notin {"role"}  OBVIOUS
<1>3. Cardinality({"role"} \cup {"model"}) = 1 + 1
  BY <1>1, <1>2, FS_AddElement
<1>4. Stamped = {"role"} \cup {"model"}  BY DEF Stamped
<1> QED BY <1>3, <1>4

\* The Pauser writes the role, then the model.
LEMMA PauseTripleIs == PauseTriple(1) = "role" /\ PauseTriple(2) = "model"
  BY DEF PauseTriple

\* A reader of the run after any append finds what was there before.
Grows ==
  /\ DOMAIN loops \subseteq DOMAIN loops' /\ \A l \in DOMAIN loops : loops'[l] = loops[l]
  /\ failed \subseteq failed'
  /\ \A r \in Runs :
       /\ chain[r].verbs \subseteq chain'[r].verbs /\ chain[r].resumed \subseteq chain'[r].resumed
       /\ chain[r].killed => chain'[r].killed
       /\ chain[r].deferred => chain'[r].deferred

\* A shape a run may retry with stays one.
LEMMA ShapesStay ==
  ASSUME TypesOK, Grows, NEW r, NEW v
  PROVE  (RoleOf(r, v) => RoleOf(r, v)') /\ (ModelOf(r, v) => ModelOf(r, v)')
<1>1. Siblings(r) \subseteq Siblings(r)'  BY DEF Siblings, TypesOK, PauseOK, Grows
<1>2. \A l \in Siblings(r) : loops'[l] = loops[l]
  BY DEF Siblings, TypesOK, PauseOK, Grows
<1> QED BY <1>1, <1>2 DEF RoleOf, ModelOf

\* Nothing a request relies on is taken away by somebody else's step.
LEMMA RequestStays ==
  ASSUME CInv, Grows, NEW q \in Requests, req'[q] = req[q]
  PROVE  ReqOK(q)'
<1> DEFINE a == req[q]
<1>1. ReqOK(q) /\ a \in ReqRecord  BY DEF CInv, TypesOK
<1>2. Tasks \subseteq Tasks'  BY DEF Grows, Tasks
<1>3. \A t \in Tasks : loops'[t] = loops[t]  BY DEF Grows, Tasks
<1>4. \A l \in DOMAIN Seeds : l \in DOMAIN loops /\ loops'[l] = loops[l]
  BY DEF CInv, TypesOK, LoopsOK, Grows
<1>5. (RoleOf(a.run, a.role) => RoleOf(a.run, a.role)')
      /\ (ModelOf(a.run, a.model) => ModelOf(a.run, a.model)')
  <2>1. TypesOK  BY DEF CInv
  <2>2. \A r, v : (RoleOf(r, v) => RoleOf(r, v)') /\ (ModelOf(r, v) => ModelOf(r, v)')
    BY <2>1, ShapesStay
  <2>3. a' = a  OBVIOUS
  <2> QED BY <2>2, <2>3
<1> QED
  BY <1>1, <1>2, <1>3, <1>4, <1>5 DEF ReqOK, Grows

\* Requests that a step leaves alone, and the ones it moves.
LEMMA RequestsStay ==
  ASSUME CInv, Grows, UNCHANGED req
  PROVE  \A q \in Requests : ReqOK(q)'
  BY RequestStays

\* A step of one request keeps what is known of all of them.
LEMMA OneRequestMoves ==
  ASSUME CInv, Grows, NEW q \in Requests, NEW a, req' = [req EXCEPT ![q] = a], ReqOK(q)'
  PROVE  \A p \in Requests : ReqOK(p)'
<1> SUFFICES ASSUME NEW p \in Requests PROVE ReqOK(p)'  OBVIOUS
<1>1. CASE p = q  BY <1>1
<1>2. CASE p # q
  <2>1. req'[p] = req[p]  BY <1>2 DEF CInv, TypesOK
  <2> QED BY <2>1, RequestStays
<1> QED BY <1>1, <1>2

\* Stamps and tasks only depend on loops, failures and triples.
LEMMA StampsStay ==
  ASSUME CInv, Grows, chain' \in [Runs -> ChainRecord],
         \A r \in Runs : chain'[r].paused = chain[r].paused
  PROVE  StampsOK'
<1>1. \A r \in Runs : \A l \in Siblings(r) : l \in Siblings(r)' /\ loops'[l] = loops[l]
  BY DEF Siblings, CInv, TypesOK, PauseOK, Grows
<1> QED BY <1>1 DEF StampsOK, CInv

\* Steps that start no loop keep what is known of retried tasks.
LEMMA TasksStay ==
  ASSUME CInv, Grows, UNCHANGED loops,
         \A r \in Runs : \A t \in chain'[r].resumed :
           t \in Tasks /\ loops[loops[t].prior].run = r
  PROVE  TasksOK'
<1>1. UNCHANGED Tasks  BY DEF Tasks
<1>2. \A r, v : (RoleOf(r, v) => RoleOf(r, v)') /\ (ModelOf(r, v) => ModelOf(r, v)')
  BY ShapesStay DEF CInv
<1> QED BY <1>1, <1>2 DEF TasksOK, CInv

-----------------------------------------------------------------------------
\* An idle request, and a refused one.
LEMMA NewReqIs == NewReq \in ReqRecord /\ NewReq.pc = "idle" /\ NewReq.status = 0
<1>1. NewReq \in ReqRecord
  BY DEF NewReq, ReqRecord, Texts, Pcs, VerbNames, LoopNames, RunNames, TaskNames, Statuses
<1>2. NewReq.pc = "idle" /\ NewReq.status = 0  BY DEF NewReq
<1> QED BY <1>1, <1>2

\* A request answered at once has the status it was answered with.
LEMMA AnsweredIs ==
  ASSUME NEW l \in LoopNames, NEW status \in Statuses
  PROVE  /\ Answered(l, status) \in ReqRecord /\ Answered(l, status).pc = "done"
         /\ Answered(l, status).status = status
<1>1. "done" \in Pcs  BY DEF Pcs
<1> QED BY <1>1, NewReqIs DEF Answered, ReqRecord

\* Nothing has failed and nobody has asked.
LEMMA InvInit == Init => CInv
<1> SUFFICES ASSUME Init PROVE CInv  OBVIOUS
<1> USE ChainConstantsOK
<1>0. DOMAIN loops = DOMAIN Seeds  BY DEF Init
<1>1. Tasks = {}  BY <1>0 DEF Tasks
<1>2. loops \in [DOMAIN loops -> LoopRecord]
  BY DEF Init, LoopRecord, Texts
<1>3. EmptyChain \in ChainRecord /\ EmptyChain.resumed = {}
      /\ EmptyChain.paused["role"] = << >> /\ EmptyChain.paused["model"] = << >>
  BY DEF EmptyChain, ChainRecord, Stamped
<1>4. chain \in [Runs -> ChainRecord] /\ \A r \in Runs : chain[r] = EmptyChain
  BY <1>3 DEF Init
<1>5. NewReq \in ReqRecord  BY NewReqIs
<1>6. req \in [Requests -> ReqRecord] /\ \A q \in Requests : req[q] = NewReq
  BY <1>5 DEF Init
<1>7. TypesOK
  BY <1>0, <1>1, <1>2, <1>4, <1>6 DEF Init, TypesOK, LoopsOK, PauseOK
<1>8. StampsOK /\ TasksOK  BY <1>1, <1>3, <1>4 DEF StampsOK, TasksOK
<1>9. \A q \in Requests : ReqOK(q)
  <2>1. NewReq.pc = "idle" /\ NewReq.status = 0  BY DEF NewReq
  <2> QED BY <1>6, <2>1 DEF ReqOK
<1> QED BY <1>7, <1>8, <1>9 DEF CInv

\* A loop fails.
LEMMA InvLoopFails ==
  ASSUME CInv, NEW l \in DOMAIN loops, LoopFails(l)
  PROVE  CInv'
<1>1. Grows  BY DEF LoopFails, Grows
<1>2. UNCHANGED <<loops, chain, req, Tasks>>  BY DEF LoopFails, Tasks
<1>3. TypesOK'
  BY <1>2 DEF CInv, TypesOK, LoopsOK, PauseOK, LoopFails, Tasks
<1>4. StampsOK'  BY <1>1, <1>2, StampsStay DEF CInv, TypesOK
<1>5. TasksOK'  BY <1>1, <1>2, TasksStay DEF CInv, TasksOK
<1>6. \A q \in Requests : ReqOK(q)'  BY <1>1, <1>2, RequestsStay
<1> QED BY <1>3, <1>4, <1>5, <1>6 DEF CInv

\* handleLoopFailed begins a pause.
LEMMA InvHandleFailed ==
  ASSUME CInv, NEW l \in DOMAIN loops, HandleFailed(l)
  PROVE  CInv'
<1>1. Grows  BY DEF HandleFailed, Grows
<1>2. UNCHANGED <<loops, chain, req, Tasks>>  BY DEF HandleFailed, Tasks
<1>a. loops[l] \in LoopRecord  BY DEF CInv, TypesOK, LoopsOK
<1>3. PauseOK'
  BY <1>2, <1>a DEF CInv, TypesOK, LoopsOK, PauseOK, HandleFailed, LoopRecord
<1>4. TypesOK'  BY <1>2, <1>3 DEF CInv, TypesOK, LoopsOK, Tasks
<1>5. StampsOK'  BY <1>1, <1>2, StampsStay DEF CInv, TypesOK
<1>6. TasksOK'  BY <1>1, <1>2, TasksStay DEF CInv, TasksOK
<1>7. \A q \in Requests : ReqOK(q)'  BY <1>1, <1>2, RequestsStay
<1> QED BY <1>4, <1>5, <1>6, <1>7 DEF CInv

\* An append lands on the run or does not, whatever is acknowledged.
LEMMA AppendChoice ==
  ASSUME NEW r \in Runs, NEW written, NEW ok \in BOOLEAN, Append1(r, written, ok)
  PROVE  \/ chain' = [chain EXCEPT ![r] = written]
         \/ ~ok /\ UNCHANGED chain
  BY DEF Append1

\* A longer list holds the new value and the old ones.
LEMMA AppendedValues ==
  ASSUME NEW S, NEW s \in Seq(S), NEW e \in S, NEW w, w = Append(s, e)
  PROVE  \A i \in DOMAIN w : w[i] = e \/ (i \in DOMAIN s /\ w[i] = s[i])
  OBVIOUS

\* One pause triple is written, or its write fails.
LEMMA InvWritePauseTriple ==
  ASSUME CInv, WritePauseTriple
  PROVE  CInv'
<1> DEFINE l == pause.loop
           r == loops[l].run
           p == PauseTriple(pause.step)
           stamps == [chain[r].paused EXCEPT ![p] = Append(@, loops[l][p])]
           written == [chain[r] EXCEPT !.paused = stamps]
<1>1. l \in failed /\ l \in DOMAIN loops /\ r \in Runs /\ pause.step \in 1..2 /\ l \in Siblings(r)
  BY DEF WritePauseTriple, CInv, TypesOK, PauseOK, Siblings
<1>2. p \in Stamped /\ (p = "role" \/ p = "model")
  BY <1>1, PauseTripleIs DEF Stamped
<1>3. loops[l] \in LoopRecord /\ chain[r] \in ChainRecord
  BY <1>1 DEF CInv, TypesOK, LoopsOK
<1>4. loops[l][p] \in Texts  BY <1>2, <1>3 DEF LoopRecord
<1>5. chain[r].paused[p] \in Seq(Texts)  BY <1>2, <1>3 DEF ChainRecord
<1>6. stamps \in [Stamped -> Seq(Texts)]
  BY <1>2, <1>3, <1>4, <1>5 DEF ChainRecord
<1>6a. chain[r].paused \in [Stamped -> Seq(Texts)]  BY <1>3 DEF ChainRecord
<1>6b. written = [chain[r] EXCEPT !.paused[p] = Append(@, loops[l][p])]  OBVIOUS
<1>6c. /\ written \in ChainRecord /\ written.paused = stamps
       /\ written.verbs = chain[r].verbs /\ written.resumed = chain[r].resumed
       /\ written.killed = chain[r].killed /\ written.deferred = chain[r].deferred
  <2> HIDE DEF stamps, r
  <2> QED BY <1>3, <1>6 DEF ChainRecord
<1>7. \/ chain' = [chain EXCEPT ![r] = written]
      \/ UNCHANGED chain
  BY <1>1, <1>6b, AppendChoice DEF WritePauseTriple
<1>8. UNCHANGED <<loops, failed, events, req, Tasks>>  BY DEF WritePauseTriple, Tasks
<1> HIDE DEF written
<1>9. chain' \in [Runs -> ChainRecord]  BY <1>1, <1>6c, <1>7 DEF CInv, TypesOK
<1>10. \A s \in Runs : /\ chain'[s].verbs = chain[s].verbs /\ chain'[s].resumed = chain[s].resumed
                       /\ chain'[s].killed = chain[s].killed
                       /\ chain'[s].deferred = chain[s].deferred
  BY <1>1, <1>6c, <1>7 DEF CInv, TypesOK
<1>11. Grows  BY <1>8, <1>10 DEF Grows
<1>12. PauseOK'
  <2>1. pause' = IF pause.step < 2 THEN [pause EXCEPT !.step = @ + 1] ELSE Idle
    BY TwoStamped DEF WritePauseTriple
  <2>2. pause = [loop |-> pause.loop, step |-> pause.step]
    BY DEF WritePauseTriple, CInv, TypesOK, PauseOK
  <2> QED BY <1>1, <1>8, <2>1, <2>2 DEF PauseOK, CInv, TypesOK
<1>13. TypesOK'
  BY <1>8, <1>9, <1>12 DEF TypesOK, CInv, LoopsOK, Tasks
<1>14. StampsOK'
  <2>1. \A s \in Runs : Siblings(s)' = Siblings(s)
    BY <1>8 DEF Siblings
  <2>2. CASE UNCHANGED chain  BY <2>1, <2>2, <1>8 DEF StampsOK, CInv
  <2>3. CASE chain' = [chain EXCEPT ![r] = written]
    <3> SUFFICES ASSUME NEW s \in Runs
                 PROVE  /\ \A i \in DOMAIN chain'[s].paused["role"] :
                             \E k \in Siblings(s) : chain'[s].paused["role"][i] = loops[k].role
                        /\ \A i \in DOMAIN chain'[s].paused["model"] :
                             \E k \in Siblings(s) : chain'[s].paused["model"][i] = loops[k].model
      BY <1>8, <2>1 DEF StampsOK
    <3>1. CASE s # r
      BY <2>3, <3>1, <1>1 DEF StampsOK, CInv, TypesOK
    <3>2. CASE s = r
      <4>1. chain'[r] = written  BY <2>3, <1>1 DEF CInv, TypesOK
      <4>4. CASE p = "role"
        <5>1. chain'[r].paused["model"] = chain[r].paused["model"]
          BY <4>1, <1>6a, <1>6c, <4>4 DEF Stamped
        <5>2. chain'[r].paused["role"] = Append(chain[r].paused["role"], loops[l].role)
          BY <4>1, <1>6a, <1>6c, <4>4 DEF Stamped
        <5>3. chain[r].paused["role"] \in Seq(Texts) /\ loops[l].role \in Texts
          BY <1>3, <1>6a DEF Stamped, LoopRecord
        <5> HIDE DEF r, l
        <5>4. \A i \in DOMAIN chain'[r].paused["role"] :
                \/ chain'[r].paused["role"][i] = loops[l].role
                \/ /\ i \in DOMAIN chain[r].paused["role"]
                   /\ chain'[r].paused["role"][i] = chain[r].paused["role"][i]
          BY <5>2, <5>3, AppendedValues
        <5> QED BY <1>1, <3>2, <5>1, <5>4 DEF StampsOK, CInv
      <4>5. CASE p = "model"
        <5>1. chain'[r].paused["role"] = chain[r].paused["role"]
          BY <4>1, <1>6a, <1>6c, <4>5 DEF Stamped
        <5>2. chain'[r].paused["model"] = Append(chain[r].paused["model"], loops[l].model)
          BY <4>1, <1>6a, <1>6c, <4>5 DEF Stamped
        <5>3. chain[r].paused["model"] \in Seq(Texts) /\ loops[l].model \in Texts
          BY <1>3, <1>6a DEF Stamped, LoopRecord
        <5> HIDE DEF r, l
        <5>4. \A i \in DOMAIN chain'[r].paused["model"] :
                \/ chain'[r].paused["model"][i] = loops[l].model
                \/ /\ i \in DOMAIN chain[r].paused["model"]
                   /\ chain'[r].paused["model"][i] = chain[r].paused["model"][i]
          BY <5>2, <5>3, AppendedValues
        <5> QED BY <1>1, <3>2, <5>1, <5>4 DEF StampsOK, CInv
      <4> QED BY <1>2, <4>4, <4>5
    <3> QED BY <3>1, <3>2
  <2> QED BY <1>7, <2>2, <2>3
<1>15. TasksOK'  BY <1>8, <1>10, <1>11, TasksStay DEF CInv, TasksOK
<1>16. \A q \in Requests : ReqOK(q)'  BY <1>8, <1>11, RequestsStay
<1> QED BY <1>13, <1>14, <1>15, <1>16 DEF CInv

-----------------------------------------------------------------------------
\* A triple that adds to a run and drops nothing disturbs neither shapes nor tasks.
LEMMA AppendKeeps ==
  ASSUME CInv, NEW r \in Runs, NEW written \in ChainRecord,
         written.paused = chain[r].paused,
         chain[r].verbs \subseteq written.verbs, chain[r].resumed \subseteq written.resumed,
         chain[r].killed => written.killed, chain[r].deferred => written.deferred,
         \A t \in written.resumed : t \in Tasks /\ loops[loops[t].prior].run = r,
         chain' = [chain EXCEPT ![r] = written] \/ UNCHANGED chain,
         UNCHANGED <<loops, failed, events, pause>>,
         req' \in [Requests -> ReqRecord]
  PROVE  Grows /\ TypesOK' /\ StampsOK' /\ TasksOK'
<1>1. chain \in [Runs -> ChainRecord]  BY DEF CInv, TypesOK
<1>2. chain' \in [Runs -> ChainRecord]  BY <1>1
<1>3. \A s \in Runs : chain'[s] = chain[s] \/ (s = r /\ chain'[s] = written)
  BY <1>1
<1>4. \A s \in Runs : chain'[s].paused = chain[s].paused  BY <1>3
<1>5. Grows  BY <1>3 DEF Grows
<1>6. TypesOK'  BY <1>2 DEF CInv, TypesOK, LoopsOK, PauseOK, Tasks
<1>7. StampsOK'  BY <1>2, <1>4, <1>5, StampsStay
<1>8. \A s \in Runs : \A t \in chain'[s].resumed : t \in Tasks /\ loops[loops[t].prior].run = s
  BY <1>3 DEF CInv, TasksOK
<1>9. TasksOK'  BY <1>5, <1>8, TasksStay
<1> QED BY <1>5, <1>6, <1>7, <1>9

\* A step of one request that leaves loops, failures and runs alone.
LEMMA RequestOnly ==
  ASSUME CInv, NEW q \in Requests, NEW a \in ReqRecord, req' = [req EXCEPT ![q] = a],
         UNCHANGED <<loops, failed, events, pause, chain>>, ReqOK(q)'
  PROVE  CInv'
<1>1. req' \in [Requests -> ReqRecord]  BY DEF CInv, TypesOK
<1>2. Grows  BY DEF Grows
<1>3. TypesOK'  BY <1>1 DEF CInv, TypesOK, LoopsOK, PauseOK, Tasks
<1>4. StampsOK'  BY <1>2, StampsStay DEF CInv, TypesOK
<1>5. TasksOK'  BY <1>2, TasksStay DEF CInv, TasksOK
<1>6. \A p \in Requests : ReqOK(p)'  BY <1>2, OneRequestMoves
<1> QED BY <1>3, <1>4, <1>5, <1>6 DEF CInv

\* An answer that is not 200 promises nothing.
LEMMA RefusalOK ==
  ASSUME NEW q \in Requests, NEW a, a.pc = "done", a.status \in {0, 400, 500}, req'[q] = a
  PROVE  ReqOK(q)'
  BY DEF ReqOK

DoneReq(status, verb) == [NewReq EXCEPT !.pc = "done", !.status = status, !.verb = verb]

\* A finished request keeps its verb.
LEMMA DoneIs ==
  ASSUME NEW status \in Statuses, NEW verb \in VerbNames
  PROVE  /\ DoneReq(status, verb) \in ReqRecord /\ DoneReq(status, verb).pc = "done"
         /\ DoneReq(status, verb).status = status /\ DoneReq(status, verb).verb = verb
<1>1. "done" \in Pcs  BY DEF Pcs
<1> QED BY <1>1, NewReqIs DEF ReqRecord, DoneReq

\* The answer a request ends with.
LEMMA EndIs ==
  ASSUME CInv, NEW q \in Requests, NEW status \in {0, 200, 500},
         status = 200 => req[q].verb \in Verbs
  PROVE  /\ End(q, status) \in ReqRecord /\ End(q, status).pc = "done"
         /\ End(q, status).status = status
         /\ status = 200 => /\ End(q, status).verb = req[q].verb
                            /\ End(q, status).run = req[q].run
                            /\ End(q, status).task = req[q].task
                            /\ End(q, status).warned = req[q].warned
<1> DEFINE b == DoneReq(status, req[q].verb)
           c == [b EXCEPT !.run = req[q].run, !.task = req[q].task]
           d == [c EXCEPT !.warned = req[q].warned]
<1>1. req[q] \in ReqRecord  BY DEF CInv, TypesOK
<1>2. CASE status # 200
  <2>1. NoRun \in LoopNames /\ status \in Statuses  BY DEF LoopNames, Statuses
  <2>2. End(q, status) = Answered(NoRun, status)  BY <1>2 DEF End
  <2> QED BY <1>2, <2>1, <2>2, AnsweredIs
<1>3. CASE status = 200
  <2>1. b \in ReqRecord /\ b.pc = "done" /\ b.status = 200 /\ b.verb = req[q].verb
    <3>1. "done" \in Pcs /\ status \in Statuses /\ req[q].verb \in VerbNames
      BY <1>3 DEF Pcs, Statuses, VerbNames
    <3> QED BY <1>3, <3>1, DoneIs
  <2>2. End(q, status) = d  BY <1>3 DEF End, Accepted, DoneReq
  <2> HIDE DEF b
  <2>3. /\ c \in ReqRecord /\ c.pc = "done" /\ c.status = 200 /\ c.verb = req[q].verb
        /\ c.run = req[q].run /\ c.task = req[q].task
    BY <1>1, <2>1 DEF ReqRecord
  <2> HIDE DEF c
  <2> QED BY <1>1, <1>3, <2>2, <2>3 DEF ReqRecord
<1> QED BY <1>2, <1>3

\* A decision arrives: it is refused, or its audit begins.
LEMMA InvHandleDecision ==
  ASSUME CInv, NEW q \in Requests, NEW verb \in Verbs \cup {BadVerb},
         NEW l \in DOMAIN loops \cup {Malformed}, HandleDecision(q, verb, l)
  PROVE  CInv'
<1>1. req \in [Requests -> ReqRecord] /\ req[q] \in ReqRecord  BY DEF CInv, TypesOK
<1>2. l \in DOMAIN Seeds \cup AllTasks \cup {Malformed} /\ l \in LoopNames
  BY DEF CInv, TypesOK, LoopsOK, LoopNames
<1>3. UNCHANGED <<loops, failed, events, pause, chain>>  BY DEF HandleDecision
<1>4. CASE \E status \in {400, 500} : req' = [req EXCEPT ![q] = Answered(l, status)]
  <2>1. PICK status \in {400, 500} : req' = [req EXCEPT ![q] = Answered(l, status)]  BY <1>4
  <2> DEFINE a == Answered(l, status)
  <2>2. a \in ReqRecord /\ a.pc = "done" /\ a.status = status
    BY <1>2, AnsweredIs DEF Statuses
  <2> HIDE DEF a
  <2>3. req' = [req EXCEPT ![q] = a]  BY <2>1 DEF a
  <2>4. req'[q] = a  BY <1>1, <2>3
  <2>5. ReqOK(q)'  BY <2>2, <2>4, RefusalOK
  <2> QED BY <1>3, <2>2, <2>3, <2>5, RequestOnly
<1>5. CASE /\ verb \in Verbs /\ l # Malformed /\ loops[l].run # NoRun
           /\ req' = [req EXCEPT ![q] = [@ EXCEPT !.pc = "audit", !.verb = verb,
                                           !.loop = l, !.run = loops[l].run]]
  <2> DEFINE b == [req[q] EXCEPT !.pc = "audit", !.verb = verb]
             a == [b EXCEPT !.loop = l, !.run = loops[l].run]
  <2>1. l \in DOMAIN loops /\ loops[l] \in LoopRecord  BY <1>5 DEF CInv, TypesOK, LoopsOK
  <2>2. loops[l].run \in Runs  BY <1>5, <2>1 DEF LoopRecord
  <2>3. l \in DOMAIN Seeds
    <3>1. l \notin Tasks  BY <1>5 DEF CInv, TypesOK, LoopsOK
    <3> QED BY <1>2, <1>5, <2>1, <3>1 DEF Tasks, AllTasks
  <2>4. b \in ReqRecord /\ b.pc = "audit" /\ b.verb = verb /\ b.status = req[q].status
    <3>1. "audit" \in Pcs /\ verb \in VerbNames  BY <1>5 DEF Pcs, VerbNames
    <3> QED BY <1>1, <3>1 DEF ReqRecord
  <2>6. req' = [req EXCEPT ![q] = a]  BY <1>5
  <2> HIDE DEF b
  <2>5. /\ a \in ReqRecord /\ a.pc = "audit" /\ a.verb = verb /\ a.status = req[q].status
        /\ a.loop = l /\ a.run = loops[l].run
    <3>1. loops[l].run \in RunNames  BY <2>2 DEF RunNames
    <3> QED BY <1>2, <2>4, <3>1 DEF ReqRecord
  <2> HIDE DEF a
  <2>7. req'[q] = a  BY <1>1, <2>6
  <2>8. req[q].status = 0
    <3>1. req[q].pc = "idle"  BY DEF HandleDecision
    <3> QED BY <3>1 DEF CInv, ReqOK
  <2>9. ReqOK(q)'  BY <1>3, <1>5, <2>2, <2>3, <2>5, <2>7, <2>8 DEF ReqOK
  <2> QED BY <1>3, <2>5, <2>6, <2>9, RequestOnly
<1> QED BY <1>4, <1>5 DEF HandleDecision

\* The audit triples of a decision, before any action.
LEMMA InvWriteDecisionTriples ==
  ASSUME CInv, NEW q \in Requests, writeDecisionTriples(q)
  PROVE  CInv'
<1> DEFINE r == req[q].run
           v == req[q].verb
           w == chain[r].verbs \cup {v}
           written == [chain[r] EXCEPT !.verbs = w]
<1>1. PICK ok \in BOOLEAN : /\ Append1(r, written, ok)
                            /\ req' = [req EXCEPT ![q].pc = "act", ![q].warned = ~ok]
  BY DEF writeDecisionTriples
<1>2. req \in [Requests -> ReqRecord] /\ req[q] \in ReqRecord /\ ReqOK(q)  BY DEF CInv, TypesOK
<1>3. req[q].pc = "audit" /\ UNCHANGED <<loops, failed, events, pause>>  BY DEF writeDecisionTriples
<1>4. r \in Runs /\ v \in Verbs /\ req[q].loop \in DOMAIN Seeds /\ loops[req[q].loop].run = r
      /\ req[q].status = 0
  BY <1>2, <1>3 DEF ReqOK
<1>5. chain[r] \in ChainRecord  BY <1>4 DEF CInv, TypesOK
<1>6. w \in SUBSET Verbs  BY <1>4, <1>5 DEF ChainRecord
<1>7. chain' = [chain EXCEPT ![r] = written] \/ (~ok /\ UNCHANGED chain)
  BY <1>1, <1>4, AppendChoice
<1> DEFINE a == [req[q] EXCEPT !.pc = "act", !.warned = ~ok]
<1>8. req' = [req EXCEPT ![q] = a]  BY <1>1, <1>2
<1>9. /\ a \in ReqRecord /\ a.pc = "act" /\ a.warned = ~ok /\ a.verb = v /\ a.run = r
      /\ a.loop = req[q].loop /\ a.status = req[q].status
  <2>1. "act" \in Pcs  BY DEF Pcs
  <2> QED BY <1>2, <2>1 DEF ReqRecord
<1> HIDE DEF a, v, r
<1>10. /\ written \in ChainRecord /\ written.paused = chain[r].paused /\ written.verbs = w
       /\ written.resumed = chain[r].resumed
       /\ written.killed = chain[r].killed /\ written.deferred = chain[r].deferred
  <2> HIDE DEF w
  <2> QED BY <1>5, <1>6 DEF ChainRecord
<1> HIDE DEF written
<1>11. req' \in [Requests -> ReqRecord] /\ req'[q] = a  BY <1>2, <1>8, <1>9
<1>12. \A t \in written.resumed : t \in Tasks /\ loops[loops[t].prior].run = r
  BY <1>4, <1>10 DEF CInv, TasksOK
<1>13. Grows /\ TypesOK' /\ StampsOK' /\ TasksOK'
  <2>1. chain' = [chain EXCEPT ![r] = written] \/ UNCHANGED chain  BY <1>7
  <2> QED BY <1>3, <1>4, <1>10, <1>11, <1>12, <2>1, AppendKeeps
<1>14. ~a.warned => v \in chain'[r].verbs
  <2>1. ok => v \in chain'[r].verbs  BY <1>4, <1>7, <1>10 DEF CInv, TypesOK
  <2>2. ~a.warned => ok  BY <1>9
  <2> QED BY <2>1, <2>2
<1>15. ReqOK(q)'
  <2>1. loops'[a.loop].run = a.run /\ a.loop \in DOMAIN Seeds /\ a.run \in Runs /\ a.verb \in Verbs
    BY <1>3, <1>4, <1>9 DEF r
  <2>2. a.pc = "act" /\ a.status = 0 /\ (~a.warned => a.verb \in chain'[a.run].verbs)
    BY <1>4, <1>9, <1>14
  <2> QED BY <1>11, <2>1, <2>2 DEF ReqOK
<1>16. \A p \in Requests : ReqOK(p)'  BY <1>8, <1>13, <1>15, OneRequestMoves
<1> QED BY <1>13, <1>16 DEF CInv

\* A fallback is taken for an absent value only.
LEMMA FallbackOrLast ==
  ASSUME NEW s, NEW d
  PROVE  OrElse(LastOf(s), d) = d \/ (s # <<>> /\ OrElse(LastOf(s), d) = s[Len(s)])
  BY Zenon DEF OrElse, LastOf

\* Of an unresolved loop both fallbacks are taken.
LEMMA FallbackOfNothing == \A d : OrElse(Unresolved.role, d) = d /\ OrElse(Unresolved.model, d) = d
<1>1. Unresolved.role = "" /\ Unresolved.model = ""  BY Zenon DEF Unresolved
<1> QED BY <1>1, Zenon DEF OrElse

\* The fallbacks, and the roles and models loops start with, are texts.
LEMMA TextsHold ==
  /\ FallbackRole \in Texts /\ FallbackModel \in Texts
  /\ \A l \in DOMAIN Seeds : Seeds[l].role \in Texts /\ Seeds[l].model \in Texts
  BY Zenon DEF Texts

\* The last value of a list of stamps is one of them.
LEMMA LastIsAMember ==
  ASSUME NEW S, NEW s \in Seq(S), s # <<>>
  PROVE  Len(s) \in DOMAIN s
  OBVIOUS

\* Roles and models that were read off a chain are texts.
LEMMA ShapesAreTexts ==
  ASSUME TypesOK, NEW r, NEW v, RoleOf(r, v) \/ ModelOf(r, v)
  PROVE  v \in Texts
<1>1. \A l \in Siblings(r) : loops[l].role \in Texts /\ loops[l].model \in Texts
  BY DEF Siblings, TypesOK, LoopsOK, PauseOK, LoopRecord
<1> QED BY <1>1, TextsHold DEF RoleOf, ModelOf

\* What RetryRead settles on comes from the run's own failures, or is a fallback.
LEMMA ReadIsOfThisRun ==
  ASSUME CInv, NEW r \in Runs, NEW data \in {ReadPauseData(r), Unresolved}
  PROVE  RoleOf(r, OrElse(data.role, FallbackRole)) /\ ModelOf(r, OrElse(data.model, FallbackModel))
<1> DEFINE roles == chain[r].paused["role"]
           models == chain[r].paused["model"]
<1>1. roles \in Seq(Texts) /\ models \in Seq(Texts)
  BY DEF CInv, TypesOK, ChainRecord, Stamped
<1>2. CASE data = Unresolved
  BY <1>2, FallbackOfNothing DEF RoleOf, ModelOf
<1>3. CASE data = ReadPauseData(r)
  <2>1. data.role = LastOf(roles) /\ data.model = LastOf(models)  BY <1>3 DEF ReadPauseData
  <2>2. RoleOf(r, OrElse(LastOf(roles), FallbackRole))
    <3>1. CASE OrElse(LastOf(roles), FallbackRole) = FallbackRole  BY <3>1 DEF RoleOf
    <3>2. CASE roles # <<>> /\ OrElse(LastOf(roles), FallbackRole) = roles[Len(roles)]
      <4>1. Len(roles) \in DOMAIN roles  BY <1>1, <3>2, LastIsAMember
      <4>2. PICK l \in Siblings(r) : roles[Len(roles)] = loops[l].role  BY <4>1 DEF CInv, StampsOK
      <4> QED BY <3>2, <4>2 DEF RoleOf
    <3> QED BY <3>1, <3>2, FallbackOrLast
  <2>3. ModelOf(r, OrElse(LastOf(models), FallbackModel))
    <3>1. CASE OrElse(LastOf(models), FallbackModel) = FallbackModel  BY <3>1 DEF ModelOf
    <3>2. CASE models # <<>> /\ OrElse(LastOf(models), FallbackModel) = models[Len(models)]
      <4>1. Len(models) \in DOMAIN models  BY <1>1, <3>2, LastIsAMember
      <4>2. PICK l \in Siblings(r) : models[Len(models)] = loops[l].model
        BY <4>1 DEF CInv, StampsOK
      <4> QED BY <3>2, <4>2 DEF ModelOf
    <3> QED BY <3>1, <3>2, FallbackOrLast
  <2> QED BY <2>1, <2>2, <2>3
<1> QED BY <1>2, <1>3

\* A request that has read the run is about to publish.
PublishReq(a, role, model) == [a EXCEPT !.pc = "publish", !.role = role, !.model = model]

\* A request that goes on to publish keeps what it is about.
LEMMA PublishIs ==
  ASSUME NEW a \in ReqRecord, NEW role \in Texts, NEW model \in Texts
  PROVE  LET b == PublishReq(a, role, model) IN
         /\ b \in ReqRecord /\ b.pc = "publish" /\ b.role = role /\ b.model = model
         /\ b.verb = a.verb /\ b.loop = a.loop /\ b.run = a.run /\ b.warned = a.warned
         /\ b.status = a.status
<1>1. "publish" \in Pcs  BY DEF Pcs
<1> QED BY <1>1 DEF ReqRecord, PublishReq

\* A retry reads the failed loop.
LEMMA InvRetryRead ==
  ASSUME CInv, NEW q \in Requests, RetryRead(q)
  PROVE  CInv'
<1>1. req \in [Requests -> ReqRecord] /\ req[q] \in ReqRecord /\ ReqOK(q) /\ TypesOK
  BY DEF CInv, TypesOK
<1>2. req[q].pc = "act" /\ req[q].verb = "retry" /\ UNCHANGED <<loops, failed, events, pause, chain>>
  BY DEF RetryRead
<1>3. req[q].run \in Runs /\ req[q].status = 0  BY <1>1, <1>2 DEF ReqOK
<1>4. PICK data \in {ReadPauseData(req[q].run), Unresolved} :
        req' = [req EXCEPT ![q] = PublishReq(req[q], OrElse(data.role, FallbackRole),
                                             OrElse(data.model, FallbackModel))]
  BY Zenon DEF RetryRead, PublishReq
<1> DEFINE role == OrElse(data.role, FallbackRole)
           model == OrElse(data.model, FallbackModel)
           a == PublishReq(req[q], role, model)
<1>5. RoleOf(req[q].run, role) /\ ModelOf(req[q].run, model)
  BY <1>3, ReadIsOfThisRun
<1> HIDE DEF role, model
<1>6. role \in Texts /\ model \in Texts  BY <1>1, <1>5, ShapesAreTexts
<1>7. /\ a \in ReqRecord /\ a.pc = "publish" /\ a.role = role /\ a.model = model
      /\ a.verb = req[q].verb /\ a.loop = req[q].loop /\ a.run = req[q].run
      /\ a.warned = req[q].warned /\ a.status = req[q].status
  BY <1>1, <1>6, PublishIs
<1>8. req' = [req EXCEPT ![q] = a]  BY <1>4 DEF role, model
<1> HIDE DEF a
<1>9. req'[q] = a  BY <1>1, <1>8
<1>10. ReqOK(q)'
  <2>1. RoleOf(a.run, a.role) /\ ModelOf(a.run, a.model)  BY <1>5, <1>7
  <2>2. RoleOf(req[q].run, req[q].role)' /\ ModelOf(req[q].run, req[q].model)'
    <3>1. Grows  BY <1>2 DEF Grows
    <3>2. \A r, v : (RoleOf(r, v) => RoleOf(r, v)') /\ (ModelOf(r, v) => ModelOf(r, v)')
      BY <1>1, <3>1, ShapesStay
    <3> QED BY <2>1, <3>2, <1>9
  <2>3. /\ req'[q].pc = "publish" /\ req'[q].verb = "retry" /\ req'[q].status = 0
        /\ req'[q].run = req[q].run /\ req'[q].loop = req[q].loop
        /\ (~req'[q].warned => ~req[q].warned)
    BY <1>2, <1>3, <1>7, <1>9
  <2> QED BY <1>1, <1>2, <1>3, <2>2, <2>3 DEF ReqOK, Verbs
<1> QED BY <1>2, <1>7, <1>8, <1>10, RequestOnly

\* A published task's loop joins the others: it belongs to no run, and takes
\* its shape from the run of the loop that is retried.
LEMMA SpawnKeeps ==
  ASSUME CInv, NEW q \in Requests, req[q].pc = "publish", NEW t \in NextTask, Spawn(q, t),
         UNCHANGED <<failed, events, pause, chain>>, req' \in [Requests -> ReqRecord]
  PROVE  /\ Grows /\ TypesOK' /\ StampsOK' /\ TasksOK'
         /\ t \in Tasks' /\ t \in AllTasks /\ loops'[t].prior = req[q].loop
<1>1. t \in AllTasks /\ t \notin DOMAIN loops  BY DEF NextTask, AllTasks
<1>2. /\ DOMAIN loops' = DOMAIN loops \cup {t} /\ loops'[t] = Spawned(q)
      /\ \A l \in DOMAIN loops : loops'[l] = loops[l]
      /\ loops' = [l \in DOMAIN loops' |-> loops'[l]]
  BY <1>1 DEF Spawn
<1>3. /\ req[q].loop \in DOMAIN Seeds /\ req[q].run \in Runs
      /\ loops[req[q].loop].run = req[q].run
      /\ RoleOf(req[q].run, req[q].role) /\ ModelOf(req[q].run, req[q].model)
      /\ req[q] \in ReqRecord
  BY DEF CInv, ReqOK, TypesOK
<1>4. /\ Spawned(q).role = req[q].role /\ Spawned(q).model = req[q].model
      /\ Spawned(q).run = NoRun /\ Spawned(q).prior = req[q].loop
      /\ Spawned(q) \in LoopRecord
  BY <1>3 DEF Spawned, LoopRecord, ReqRecord
<1>5. DOMAIN Seeds \subseteq DOMAIN loops /\ DOMAIN loops \subseteq DOMAIN Seeds \cup AllTasks
      /\ loops \in [DOMAIN loops -> LoopRecord]
  BY DEF CInv, TypesOK, LoopsOK
<1>6. Tasks' = Tasks \cup {t}  BY <1>1, <1>2 DEF Tasks, AllTasks
<1>7. Grows  BY <1>2 DEF Grows
<1>8. LoopsOK'
  <2>1. \A l \in DOMAIN loops' : loops'[l] \in LoopRecord  BY <1>2, <1>4, <1>5
  <2>2. loops' \in [DOMAIN loops' -> LoopRecord]  BY <1>2, <2>1
  <2>3. \A s \in Tasks' : loops'[s].run = NoRun /\ loops'[s].prior \in DOMAIN Seeds
    <3> SUFFICES ASSUME NEW s \in Tasks' PROVE loops'[s].run = NoRun /\ loops'[s].prior \in DOMAIN Seeds
      OBVIOUS
    <3>1. CASE s = t  BY <1>2, <1>3, <1>4, <3>1
    <3>2. CASE s \in Tasks  BY <1>2, <3>2 DEF Tasks, CInv, TypesOK, LoopsOK
    <3> QED BY <1>6, <3>1, <3>2
  <2> QED BY <1>1, <1>2, <1>5, <2>2, <2>3 DEF LoopsOK, AllTasks
<1>9. PauseOK'
  <2>1. failed' \subseteq DOMAIN loops' /\ events' \subseteq failed'
    BY <1>2 DEF CInv, TypesOK, PauseOK
  <2>2. pause' # Idle => /\ pause' = [loop |-> pause'.loop, step |-> pause'.step]
                        /\ pause'.loop \in failed' /\ pause'.step \in 1..2
                        /\ loops'[pause'.loop].run \in Runs
    BY <1>2 DEF CInv, TypesOK, PauseOK
  <2> QED BY <2>1, <2>2 DEF PauseOK, Idle
<1>10. TypesOK'  BY <1>8, <1>9 DEF TypesOK, CInv
<1>11. StampsOK'  BY <1>7, StampsStay DEF CInv, TypesOK
<1>12. \A r, v : (RoleOf(r, v) => RoleOf(r, v)') /\ (ModelOf(r, v) => ModelOf(r, v)')
  BY <1>7, ShapesStay DEF CInv
<1>13. TasksOK'
  <2>1. ASSUME NEW s \in Tasks'
        PROVE  /\ loops'[loops'[s].prior].run \in Runs
               /\ RoleOf(loops[loops[s].prior].run, loops[s].role)'
               /\ ModelOf(loops[loops[s].prior].run, loops[s].model)'
    <3>1. CASE s = t
      <4>1. /\ loops'[s].prior = req[q].loop /\ loops'[s].role = req[q].role
            /\ loops'[s].model = req[q].model /\ loops'[req[q].loop].run = req[q].run
        BY <1>2, <1>3, <1>4, <1>5, <3>1
      <4>2. \A r, v : r = req[q].run /\ v = req[q].role => RoleOf(r, v)'  BY <1>3, <1>12
      <4>3. \A r, v : r = req[q].run /\ v = req[q].model => ModelOf(r, v)'  BY <1>3, <1>12
      <4> QED BY <1>3, <4>1, <4>2, <4>3
    <3>2. CASE s \in Tasks
      <4>1. s \in DOMAIN loops /\ loops[s].prior \in DOMAIN loops
        BY <1>5, <3>2 DEF Tasks, CInv, TypesOK, LoopsOK
      <4>2. loops'[s] = loops[s] /\ loops'[loops[s].prior] = loops[loops[s].prior]
        BY <1>2, <4>1
      <4>3. LET r == loops[loops[s].prior].run
            IN r \in Runs /\ RoleOf(r, loops[s].role) /\ ModelOf(r, loops[s].model)
        BY <3>2 DEF CInv, TasksOK
      <4>4. \A r, v : r = loops[loops[s].prior].run /\ v = loops[s].role => RoleOf(r, v)'
        BY <1>12, <4>3
      <4>5. \A r, v : r = loops[loops[s].prior].run /\ v = loops[s].model => ModelOf(r, v)'
        BY <1>12, <4>3
      <4> QED BY <4>2, <4>3, <4>4, <4>5
    <3> QED BY <1>6, <3>1, <3>2
  <2>2. \A r \in Runs : \A s \in chain'[r].resumed : s \in Tasks' /\ loops'[loops'[s].prior].run = r
    <3> SUFFICES ASSUME NEW r \in Runs, NEW s \in chain[r].resumed
                 PROVE  s \in Tasks' /\ loops'[loops'[s].prior].run = r
      OBVIOUS
    <3>1. s \in Tasks /\ loops[loops[s].prior].run = r  BY DEF CInv, TasksOK
    <3>2. s \in DOMAIN loops /\ loops[s].prior \in DOMAIN loops
      BY <1>5, <3>1 DEF Tasks, CInv, TypesOK, LoopsOK
    <3> QED BY <1>2, <1>6, <3>1, <3>2
  <2> QED BY <2>1, <2>2 DEF TasksOK
<1> QED BY <1>1, <1>2, <1>4, <1>6, <1>7, <1>10, <1>11, <1>13

\* A request whose task was published is about to record it.
RecordReq(a, t) == [a EXCEPT !.pc = "record", !.task = t]

\* A request that goes on to record keeps what it is about.
LEMMA RecordIs ==
  ASSUME NEW a \in ReqRecord, NEW t \in TaskNames
  PROVE  LET b == RecordReq(a, t) IN
         /\ b \in ReqRecord /\ b.pc = "record" /\ b.task = t
         /\ b.verb = a.verb /\ b.loop = a.loop /\ b.run = a.run /\ b.warned = a.warned
         /\ b.role = a.role /\ b.model = a.model /\ b.status = a.status
<1>1. "record" \in Pcs  BY DEF Pcs
<1> QED BY <1>1 DEF ReqRecord, RecordReq

\* A retry publishes its task.
LEMMA InvRetryPublish ==
  ASSUME CInv, NEW q \in Requests, RetryPublish(q)
  PROVE  CInv'
<1>1. req \in [Requests -> ReqRecord] /\ req[q] \in ReqRecord /\ ReqOK(q) /\ TypesOK
  BY DEF CInv, TypesOK
<1>2. req[q].pc = "publish" /\ UNCHANGED <<failed, events, pause, chain>>  BY DEF RetryPublish
<1>3. /\ req[q].verb = "retry" /\ req[q].run \in Runs /\ req[q].status = 0
      /\ req[q].loop \in DOMAIN Seeds /\ loops[req[q].loop].run = req[q].run
      /\ RoleOf(req[q].run, req[q].role) /\ ModelOf(req[q].run, req[q].model)
      /\ (~req[q].warned => "retry" \in chain[req[q].run].verbs)
  BY <1>1, <1>2 DEF ReqOK
<1>4. PICK t \in NextTask :
        \/ Spawn(q, t) /\ req' = [req EXCEPT ![q].pc = "record", ![q].task = t]
        \/ (Spawn(q, t) \/ UNCHANGED loops) /\ req' = [req EXCEPT ![q] = End(q, 500)]
  BY DEF RetryPublish
<1>5. CASE Spawn(q, t) /\ req' = [req EXCEPT ![q].pc = "record", ![q].task = t]
  <2> DEFINE a == RecordReq(req[q], t)
  <2>1. t \in TaskNames  BY DEF NextTask, TaskNames, AllTasks
  <2>2. req' = [req EXCEPT ![q] = a]  BY <1>1, <1>5 DEF RecordReq
  <2>3. /\ a \in ReqRecord /\ a.pc = "record" /\ a.task = t
        /\ a.verb = req[q].verb /\ a.loop = req[q].loop /\ a.run = req[q].run
        /\ a.warned = req[q].warned /\ a.role = req[q].role /\ a.model = req[q].model
        /\ a.status = req[q].status
    BY <1>1, <2>1, RecordIs
  <2> HIDE DEF a
  <2>4. req' \in [Requests -> ReqRecord] /\ req'[q] = a  BY <1>1, <2>2, <2>3
  <2>5. /\ Grows /\ TypesOK' /\ StampsOK' /\ TasksOK'
        /\ t \in Tasks' /\ loops'[t].prior = req[q].loop
    BY <1>2, <1>5, <2>4, SpawnKeeps
  <2>6. RoleOf(req[q].run, req[q].role)' /\ ModelOf(req[q].run, req[q].model)'
    <3>1. \A r, v : (RoleOf(r, v) => RoleOf(r, v)') /\ (ModelOf(r, v) => ModelOf(r, v)')
      BY <1>1, <2>5, ShapesStay
    <3>2. req'[q].run = req[q].run /\ req'[q].role = req[q].role /\ req'[q].model = req[q].model
      BY <2>3, <2>4
    <3> QED BY <1>3, <3>1, <3>2
  <2>7. loops'[req[q].loop] = loops[req[q].loop]
    BY <1>3, <2>5 DEF Grows, CInv, TypesOK, LoopsOK
  <2>8. /\ req'[q].pc = "record" /\ req'[q].verb = "retry" /\ req'[q].status = 0
        /\ req'[q].run = req[q].run /\ req'[q].loop = req[q].loop /\ req'[q].task = t
        /\ (~req'[q].warned => "retry" \in chain'[req[q].run].verbs)
    BY <1>2, <1>3, <2>3, <2>4
  <2>9. ReqOK(q)'  BY <1>3, <2>5, <2>6, <2>7, <2>8 DEF ReqOK, Verbs
  <2>10. \A p \in Requests : ReqOK(p)'  BY <2>2, <2>5, <2>9, OneRequestMoves
  <2> QED BY <2>5, <2>10 DEF CInv
<1>6. CASE (Spawn(q, t) \/ UNCHANGED loops) /\ req' = [req EXCEPT ![q] = End(q, 500)]
  <2> DEFINE a == End(q, 500)
  <2>1. a \in ReqRecord /\ a.pc = "done" /\ a.status = 500  BY EndIs
  <2>2. req' = [req EXCEPT ![q] = a]  BY <1>6
  <2> HIDE DEF a
  <2>3. req' \in [Requests -> ReqRecord] /\ req'[q] = a  BY <1>1, <2>1, <2>2
  <2>4. ReqOK(q)'  BY <2>1, <2>3, RefusalOK
  <2>5. CASE UNCHANGED loops  BY <1>2, <2>1, <2>2, <2>4, <2>5, RequestOnly
  <2>6. CASE Spawn(q, t)
    <3>1. Grows /\ TypesOK' /\ StampsOK' /\ TasksOK'  BY <1>2, <2>3, <2>6, SpawnKeeps
    <3>2. \A p \in Requests : ReqOK(p)'  BY <2>2, <2>4, <3>1, OneRequestMoves
    <3> QED BY <3>1, <3>2 DEF CInv
  <2> QED BY <1>6, <2>5, <2>6
<1> QED BY <1>4, <1>5, <1>6

\* The closing triple: the answer is 200 only if it is on the run.
LEMMA InvClose ==
  ASSUME CInv, NEW q \in Requests, NEW written \in ChainRecord, Close(q, written),
         req[q].run \in Runs, req[q].verb \in Verbs,
         ~req[q].warned => req[q].verb \in chain[req[q].run].verbs,
         written.paused = chain[req[q].run].paused, written.verbs = chain[req[q].run].verbs,
         chain[req[q].run].resumed \subseteq written.resumed,
         chain[req[q].run].killed => written.killed,
         chain[req[q].run].deferred => written.deferred,
         \A t \in written.resumed : t \in Tasks /\ loops[loops[t].prior].run = req[q].run,
         req[q].verb = "retry" => req[q].task \in Tasks \cap written.resumed,
         req[q].verb = "kill" => written.killed,
         req[q].verb = "defer" => written.deferred
  PROVE  CInv'
<1> DEFINE r == req[q].run
<1>1. req \in [Requests -> ReqRecord] /\ chain \in [Runs -> ChainRecord]  BY DEF CInv, TypesOK
<1>2. PICK ok \in BOOLEAN : /\ Append1(r, written, ok)
                            /\ req' = [req EXCEPT ![q] = End(q, IF ok THEN 200 ELSE 500)]
  BY DEF Close
<1>3. UNCHANGED <<loops, failed, events, pause, Tasks>>  BY DEF Close, Tasks
<1>4. chain' = [chain EXCEPT ![r] = written] \/ (~ok /\ UNCHANGED chain)  BY <1>2, AppendChoice
<1> DEFINE status == IF ok THEN 200 ELSE 500
           a == End(q, status)
<1>5. status \in {0, 200, 500} /\ (status = 200 => ok)  OBVIOUS
<1>6. req' = [req EXCEPT ![q] = a]  BY <1>2
<1> HIDE DEF status
<1>7. /\ a \in ReqRecord /\ a.pc = "done" /\ a.status = status
      /\ status = 200 => /\ a.verb = req[q].verb /\ a.run = r
                         /\ a.task = req[q].task /\ a.warned = req[q].warned
  BY <1>5, EndIs
<1> HIDE DEF a
<1>8. req' \in [Requests -> ReqRecord] /\ req'[q] = a  BY <1>1, <1>6, <1>7
<1>9. Grows /\ TypesOK' /\ StampsOK' /\ TasksOK'
  <2>1. chain' = [chain EXCEPT ![r] = written] \/ UNCHANGED chain  BY <1>4
  <2> QED BY <1>3, <1>8, <2>1, AppendKeeps
<1>10. ReqOK(q)'
  <2>1. CASE status # 200
    <3>1. a.status \in {0, 400, 500}  BY <1>5, <1>7, <2>1
    <3> QED BY <1>7, <1>8, <3>1, RefusalOK
  <2>2. CASE status = 200
    <3>1. chain'[r] = written  BY <1>1, <1>4, <1>5, <2>2
    <3>2. /\ req'[q].verb = req[q].verb /\ req'[q].run = r /\ req'[q].task = req[q].task
          /\ req'[q].pc = "done" /\ req'[q].status = 200 /\ (~req'[q].warned => ~req[q].warned)
      BY <1>7, <1>8, <2>2
    <3> QED BY <1>3, <3>1, <3>2 DEF ReqOK
  <2> QED BY <2>1, <2>2
<1>11. \A p \in Requests : ReqOK(p)'  BY <1>6, <1>9, <1>10, OneRequestMoves
<1> QED BY <1>9, <1>11 DEF CInv

\* A retry records its task on the chain.
LEMMA InvRetryRecord ==
  ASSUME CInv, NEW q \in Requests, RetryRecord(q)
  PROVE  CInv'
<1> DEFINE r == req[q].run
           resumed == chain[r].resumed \cup {req[q].task}
           written == [chain[r] EXCEPT !.resumed = resumed]
<1>1. req[q].pc = "record" /\ ReqOK(q)  BY DEF RetryRecord, CInv
<1>2. /\ req[q].verb = "retry" /\ r \in Runs /\ req[q].task \in Tasks
      /\ loops[loops[req[q].task].prior].run = r
      /\ (~req[q].warned => req[q].verb \in chain[r].verbs)
  BY <1>1 DEF ReqOK
<1>3. Close(q, written)  BY DEF RetryRecord
<1>4. chain[r] \in ChainRecord  BY <1>2 DEF CInv, TypesOK
<1>5. \A t \in resumed : t \in Tasks /\ loops[loops[t].prior].run = r
  BY <1>2 DEF CInv, TasksOK
<1>6. resumed \subseteq AllTasks  BY <1>5 DEF Tasks, AllTasks
<1>7. req[q].task \in resumed /\ chain[r].resumed \subseteq resumed  OBVIOUS
<1>8. /\ written \in ChainRecord /\ written.paused = chain[r].paused
      /\ written.verbs = chain[r].verbs /\ written.resumed = resumed
      /\ written.killed = chain[r].killed /\ written.deferred = chain[r].deferred
  <2> HIDE DEF resumed, r
  <2> QED BY <1>4, <1>6 DEF ChainRecord
<1> HIDE DEF written, resumed
<1> QED BY <1>2, <1>3, <1>5, <1>7, <1>8, InvClose DEF Verbs

\* A kill is recorded on the chain.
LEMMA InvKill ==
  ASSUME CInv, NEW q \in Requests, kill(q)
  PROVE  CInv'
<1> DEFINE r == req[q].run
           written == [chain[r] EXCEPT !.killed = TRUE]
<1>1. req[q].pc = "act" /\ req[q].verb = "kill" /\ Close(q, written) /\ ReqOK(q)
  BY DEF kill, CInv
<1>2. r \in Runs /\ (~req[q].warned => req[q].verb \in chain[r].verbs)  BY <1>1 DEF ReqOK
<1>3. chain[r] \in ChainRecord  BY <1>2 DEF CInv, TypesOK
<1>4. /\ written \in ChainRecord /\ written.paused = chain[r].paused
      /\ written.verbs = chain[r].verbs /\ written.resumed = chain[r].resumed
      /\ written.killed /\ written.deferred = chain[r].deferred
  <2> HIDE DEF r
  <2> QED BY <1>3 DEF ChainRecord
<1> HIDE DEF written
<1>5. \A t \in written.resumed : t \in Tasks /\ loops[loops[t].prior].run = r
  BY <1>2, <1>4 DEF CInv, TasksOK
<1> QED BY <1>1, <1>2, <1>4, <1>5, InvClose DEF Verbs

\* A deferral is recorded on the chain.
LEMMA InvDefer ==
  ASSUME CInv, NEW q \in Requests, deferChain(q)
  PROVE  CInv'
<1> DEFINE r == req[q].run
           written == [chain[r] EXCEPT !.deferred = TRUE]
<1>1. req[q].pc = "act" /\ req[q].verb = "defer" /\ Close(q, written) /\ ReqOK(q)
  BY DEF deferChain, CInv
<1>2. r \in Runs /\ (~req[q].warned => req[q].verb \in chain[r].verbs)  BY <1>1 DEF ReqOK
<1>3. chain[r] \in ChainRecord  BY <1>2 DEF CInv, TypesOK
<1>4. /\ written \in ChainRecord /\ written.paused = chain[r].paused
      /\ written.verbs = chain[r].verbs /\ written.resumed = chain[r].resumed
      /\ written.killed = chain[r].killed /\ written.deferred
  <2> HIDE DEF r
  <2> QED BY <1>3 DEF ChainRecord
<1> HIDE DEF written
<1>5. \A t \in written.resumed : t \in Tasks /\ loops[loops[t].prior].run = r
  BY <1>2, <1>4 DEF CInv, TasksOK
<1> QED BY <1>1, <1>2, <1>4, <1>5, InvClose DEF Verbs

\* A restart forgets the requests in progress.
LEMMA InvCrash ==
  ASSUME CInv, Crash
  PROVE  CInv'
<1>1. UNCHANGED <<loops, failed, chain, Tasks>> /\ pause' = Idle /\ events' = {}
  BY DEF Crash, Tasks
<1>2. Grows  BY <1>1 DEF Grows
<1>3. \A q \in Requests : req'[q] = req[q] \/ req'[q] = End(q, 0)
  BY DEF Crash
<1>4. \A q \in Requests : /\ End(q, 0) \in ReqRecord /\ End(q, 0).pc = "done"
                           /\ End(q, 0).status = 0
  BY EndIs
<1>5. req' \in [Requests -> ReqRecord]
  <2>1. req' = [q \in Requests |-> req'[q]]  BY DEF Crash
  <2>2. \A q \in Requests : req'[q] \in ReqRecord  BY <1>3, <1>4 DEF CInv, TypesOK
  <2> QED BY <2>1, <2>2
<1>6. TypesOK'  BY <1>1, <1>5 DEF CInv, TypesOK, LoopsOK, PauseOK
<1>7. StampsOK'  BY <1>1, <1>2, StampsStay DEF CInv, TypesOK
<1>8. TasksOK'  BY <1>1, <1>2, TasksStay DEF CInv, TasksOK
<1>9. ASSUME NEW q \in Requests PROVE ReqOK(q)'
  <2>1. CASE req'[q] = req[q]  BY <1>2, <2>1, RequestStays
  <2>2. CASE req'[q] = End(q, 0)
    <3>1. \A a : a = End(q, 0) => a.pc = "done" /\ a.status = 0  BY <1>4
    <3> QED BY <2>2, <3>1, RefusalOK
  <2> QED BY <1>3, <2>1, <2>2
<1> QED BY <1>6, <1>7, <1>8, <1>9 DEF CInv

\* Every step keeps the invariant.
LEMMA InvNext == CInv /\ [Next]_vars => CInv'
<1> SUFFICES ASSUME CInv, [Next]_vars PROVE CInv'  OBVIOUS
<1>1. CASE \E l \in DOMAIN loops : LoopFails(l) \/ HandleFailed(l)
  BY <1>1, InvLoopFails, InvHandleFailed
<1>2. CASE WritePauseTriple  BY <1>2, InvWritePauseTriple
<1>3. ASSUME NEW q \in Requests,
             \/ \E verb \in Verbs \cup {BadVerb}, l \in DOMAIN loops \cup {Malformed} :
                  HandleDecision(q, verb, l)
             \/ writeDecisionTriples(q) \/ RetryRead(q) \/ RetryPublish(q)
             \/ RetryRecord(q) \/ kill(q) \/ deferChain(q)
      PROVE  CInv'
  BY <1>3, InvHandleDecision, InvWriteDecisionTriples, InvRetryRead, InvRetryPublish,
     InvRetryRecord, InvKill, InvDefer
<1>4. CASE Crash  BY <1>4, InvCrash
<1>5. CASE UNCHANGED vars
  BY <1>5 DEF vars, CInv, TypesOK, LoopsOK, PauseOK, StampsOK, TasksOK, ReqOK, Tasks,
              RoleOf, ModelOf, Siblings
<1> QED BY <1>1, <1>2, <1>3, <1>4, <1>5 DEF Next

-----------------------------------------------------------------------------
\* Whatever fails, pauses, decides and crashes, the inductive invariant holds.
THEOREM CInvAlways == Spec => []CInv
  BY InvInit, InvNext, PTL DEF Spec

\* A decision answered 200 took effect and left its mark on the run
\* (decision_handler.go's retry, kill and defer; http.go's 200).
THEOREM AcceptedTookEffectAlways == Spec => []AcceptedTookEffect
<1>1. CInv => AcceptedTookEffect
  <2> SUFFICES ASSUME CInv PROVE AcceptedTookEffect  OBVIOUS
  <2>1. TypeOK
    <3>1. \A q \in Requests : /\ req[q].pc \in Pcs /\ req[q].status \in Statuses
                               /\ req[q].run \in RunNames
      BY DEF CInv, TypesOK, ReqRecord
    <3>2. \A r \in Runs : chain[r].verbs \subseteq Verbs  BY DEF CInv, TypesOK, ChainRecord
    <3> QED BY <3>1, <3>2, TwoStamped DEF TypeOK, CInv, TypesOK, PauseOK, Pcs, Statuses, RunNames
  <2>2. ASSUME NEW q \in Requests, req[q].status = 200
        PROVE  LET c == chain[req[q].run] IN
               CASE req[q].verb = "retry" -> req[q].task \in Tasks \cap c.resumed
                 [] req[q].verb = "kill" -> c.killed
                 [] req[q].verb = "defer" -> c.deferred
    BY <2>2 DEF CInv, ReqOK, Verbs
  <2> QED BY <2>1, <2>2 DEF AcceptedTookEffect
<1> QED BY <1>1, CInvAlways, PTL

\* A retry stays within its run: the recorded task was published for a loop of
\* that run, and its role and model come from that run's failures.
THEOREM RetryOfThisRunAlways == Spec => []RetryOfThisRun
<1>1. CInv => RetryOfThisRun
  BY DEF CInv, TasksOK, RetryOfThisRun, RoleOf, ModelOf, Siblings
<1> QED BY <1>1, CInvAlways, PTL

\* Unless the audit write was reported as failed, the verb is on the run before
\* the decision's task or mark.
THEOREM AuditedBeforeActionAlways == Spec => []AuditedBeforeAction
<1>1. CInv => AuditedBeforeAction
  BY DEF CInv, ReqOK, AuditedBeforeAction
<1> QED BY <1>1, CInvAlways, PTL
=============================================================================
