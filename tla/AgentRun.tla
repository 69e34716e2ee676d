------------------------------ MODULE AgentRun ------------------------------
(***************************************************************************)
(* configs/rules/agent-run: the rule pack that moves one run entity        *)
(* (AgentRun) through its phases.  Rules that fire on loops stamp markers  *)
(* on the run; rules that fire on the run read the markers and transition. *)
(* A run-entity rule is selected when its conditions turn true from one KV *)
(* revision of the run to the next, and its actions execute later, one     *)
(* revision each, on whatever the run has become.  Selected rules execute  *)
(* in the order in which they were selected; everybody else's writes fall  *)
(* anywhere in between.  Tool-approval facts arrive as GateLedger steps,   *)
(* which is what ApprovalProjection implements.                            *)
(***************************************************************************)
EXTENDS Integers, Sequences, FiniteSets

CONSTANTS
  Run,               \* the run entity
  Loops,             \* coordinator loops of the run
  LineageLoops,      \* those anchored by agent.lineage.run-loop-entity-id
  Gates,             \* tool-approval gates of the run's loops
  MaxOpenQuestions,  \* questions that may be unanswered at the same time
  MaxOutcomes        \* bound on agent.run.outcome stamps

ASSUME RunConstantsOK ==
  /\ LineageLoops \subseteq Loops
  /\ MaxOpenQuestions \in Nat /\ MaxOutcomes \in Nat
  /\ IsFiniteSet(Gates)

VARIABLES
  phase,      \* agent.run.phase
  note,       \* agent.run.last-transition-note
  from,       \* agent.run.last-transition-from
  handoff,    \* agent.run.handoff is present
  outcome,    \* agent.run.outcome values, in the order they were appended
  clarPending,  \* agent.run.clarification-pending values
  clarResumed,  \* agent.run.clarification-resumed values
  observed, settled, open,  \* approval-pending, -answered, -outstanding
  queue,      \* selected rules with the index of their next action
  asked,      \* loops that decided ask_user
  replied,    \* loops whose question was answered
  clarPauses  \* number of pauses rule 09 has made

runVars == <<phase, note, from>>
markers == <<handoff, outcome, clarPending, clarResumed>>
gateVars == <<observed, settled, open>>
humanVars == <<asked, replied>>
vars == <<runVars, markers, gateVars, queue, humanVars, clarPauses>>

Ledger == INSTANCE GateLedger WITH Runs <- {Run}

Phases == {"dispatched", "executing", "awaiting_approval", "completed", "failed"}
Terminal == {"completed", "failed"}

\* The lifecycle manager's transition table, as far as the pack uses it.
Edges ==
  { <<"dispatched", "executing">>, <<"dispatched", "failed">>,
    <<"executing", "awaiting_approval">>, <<"executing", "completed">>,
    <<"executing", "failed">>, <<"awaiting_approval", "executing">> }

ToolNote == "tool approval pending"
ClarNote == "clarification asked"
ResumeNote == "clarification answered"

\* eq on a multi-valued predicate reads the value written first.
Outcome == IF outcome = <<>> THEN "none" ELSE Head(outcome)

Outstanding == open[Run]

(***************************************************************************)
(* Conditions of the rules that fire on the run entity                     *)
(***************************************************************************)

Cond02 == handoff /\ phase = "dispatched"

\* Mutant: any outcome completes the run.
AnyOutcome_Cond03 == Outcome # "none" /\ phase = "executing"

Cond03 == Outcome = "success" /\ phase = "executing"

Cond04 == Outcome = "failed" /\ phase = "executing"
Cond04b == Outcome = "failed" /\ phase = "dispatched"

Cond09 == clarPending # {} /\ phase = "executing" /\ clarResumed = {}
Cond11 == clarResumed # {} /\ phase = "awaiting_approval"

\* Mutant: rule 12 matches one outstanding gate, not one or more.
One_Cond12 == Outstanding = 1 /\ phase = "executing"

Cond12 == Outstanding > 0 /\ phase = "executing"

\* Mutant: rule 13 looks at the count and the phase only.
AnyCause_Cond13 == Outstanding = 0 /\ phase = "awaiting_approval"

\* Mutant: rule 13 waits for a count that was never derived to disappear.
NoCount_Cond13 ==
  /\ Outstanding = Ledger!NoCount /\ phase = "awaiting_approval"
  /\ note = ToolNote /\ from = "executing" /\ clarPending = {}

\* Every transition here is a rule's, so last-transition-source = rule holds.
Cond13 ==
  /\ Outstanding = 0
  /\ phase = "awaiting_approval"
  /\ note = ToolNote
  /\ from = "executing"
  /\ clarPending = {}

Rules == {"02", "03", "04", "04b", "09", "11", "12", "13"}

Matches ==
  [r \in Rules |->
     CASE r = "02" -> Cond02 [] r = "03" -> Cond03 [] r = "04" -> Cond04
       [] r = "04b" -> Cond04b [] r = "09" -> Cond09 [] r = "11" -> Cond11
       [] r = "12" -> Cond12 [] r = "13" -> Cond13]

\* Phase and audit note a rule's lifecycle_transition asks for.
Target ==
  [r \in Rules |->
     CASE r \in {"02", "11", "13"} -> "executing"
       [] r = "03" -> "completed"
       [] r \in {"04", "04b"} -> "failed"
       [] r \in {"09", "12"} -> "awaiting_approval"]

Reason(r) ==
  CASE r = "09" -> ClarNote [] r = "11" -> ResumeNote [] r = "12" -> ToolNote
    [] OTHER -> "other"

(***************************************************************************)
(* The rule engine, as the pack relies on it                               *)
(***************************************************************************)

\* The rules a new revision of the run turns on, in any order.
Select(rest) ==
  LET entered == {r \in Rules : ~Matches[r] /\ Matches'[r]}
  IN queue' \in {rest \o [i \in 1..Cardinality(entered) |-> [rule |-> s[i], step |-> 1]] :
                   s \in {f \in [1..Cardinality(entered) -> entered] :
                            \A i, j \in 1..Cardinality(entered) : i # j => f[i] # f[j]}}

\* lifecycle_transition of the rule at the head of the queue.
LegalTransition(r) ==
  /\ <<phase, Target[r]>> \in Edges
  /\ phase' = Target[r] /\ from' = phase /\ note' = Reason(r)
  /\ clarPauses' = IF r = "09" THEN clarPauses + 1 ELSE clarPauses

\* A one-action rule.  An edge that is no longer legal is refused.
Execute(r) ==
  /\ queue # <<>> /\ Head(queue).rule = r /\ r # "11"
  /\ \/ LegalTransition(r)
     \/ <<phase, Target[r]>> \notin Edges /\ UNCHANGED <<runVars, clarPauses>>
  /\ UNCHANGED <<markers, gateVars, humanVars>>
  /\ Select(Tail(queue))

\* Rule 11's three actions, one revision each: transition, remove the pending
\* marker, remove the resumed marker.  A refused transition may or may not
\* stop the rest of the list.
Advance == <<[Head(queue) EXCEPT !.step = @ + 1]>> \o Tail(queue)

Resume1 ==
  /\ queue # <<>> /\ Head(queue) = [rule |-> "11", step |-> 1]
  /\ UNCHANGED <<markers, gateVars, humanVars>>
  /\ \/ LegalTransition("11") /\ Select(Advance)
     \/ /\ <<phase, "executing">> \notin Edges
        /\ UNCHANGED <<runVars, clarPauses>>
        /\ Select(Advance) \/ Select(Tail(queue))

\* Mutant: the resumed marker is removed before the pending one.
Swapped_Resume2 ==
  /\ queue # <<>> /\ Head(queue) = [rule |-> "11", step |-> 2]
  /\ clarResumed' = {}
  /\ UNCHANGED <<runVars, handoff, outcome, clarPending, gateVars, humanVars, clarPauses>>
  /\ Select(Advance)

Resume2 ==
  /\ queue # <<>> /\ Head(queue) = [rule |-> "11", step |-> 2]
  /\ clarPending' = {}
  /\ UNCHANGED <<runVars, handoff, outcome, clarResumed, gateVars, humanVars, clarPauses>>
  /\ Select(Advance)

Resume3 ==
  /\ queue # <<>> /\ Head(queue) = [rule |-> "11", step |-> 3]
  /\ clarResumed' = {}
  /\ UNCHANGED <<runVars, handoff, outcome, clarPending, gateVars, humanVars, clarPauses>>
  /\ Select(Tail(queue))

(***************************************************************************)
(* Markers stamped by rules that fire on loops                             *)
(***************************************************************************)

Init ==
  /\ phase = "dispatched" /\ note = "other" /\ from = "none"
  /\ handoff = FALSE /\ outcome = <<>>
  /\ clarPending = {} /\ clarResumed = {}
  /\ observed = [r \in {Run} |-> {}] /\ settled = [r \in {Run} |-> {}]
  /\ open = [r \in {Run} |-> Ledger!NoCount]
  /\ queue = <<>> /\ asked = {} /\ replied = {} /\ clarPauses = 0

OpenQuestions == asked \ replied

\* Rules 01 and 01b: the dispatch coordinator's child task was published.
StampHandoff ==
  /\ ~handoff /\ handoff' = TRUE
  /\ UNCHANGED <<runVars, outcome, clarPending, clarResumed, gateVars, humanVars, clarPauses>>
  /\ Select(queue)

StampOutcome(o) ==
  /\ Len(outcome) < MaxOutcomes
  /\ outcome' = Append(outcome, o)
  /\ UNCHANGED <<runVars, handoff, clarPending, clarResumed, gateVars, humanVars, clarPauses>>
  /\ Select(queue)

\* The chain's reviewer approved: only a chain that was handed off has one.
StampSuccess == handoff /\ StampOutcome("success")

\* Rules 05 and 06: a coordinator of the run failed or was truncated.
StampFailed == StampOutcome("failed")

\* Rules 07 and 08: a coordinator inside the chain decided ask_user.
StampPending(l) ==
  /\ l \notin asked
  /\ handoff
  /\ Cardinality(OpenQuestions) < MaxOpenQuestions
  /\ clarPending' = clarPending \cup {l}
  /\ asked' = asked \cup {l}
  /\ UNCHANGED <<runVars, handoff, outcome, clarResumed, gateVars, replied, clarPauses>>
  /\ Select(queue)

AskUserRunAnchor(l) == l \notin LineageLoops /\ StampPending(l)
AskUserLineageAnchor(l) == l \in LineageLoops /\ StampPending(l)

\* Rule 10: the human's reply to l re-enters as a coordinator of the run.
StampResumed(l) ==
  /\ l \in OpenQuestions
  /\ clarResumed' = clarResumed \cup {l}
  /\ replied' = replied \cup {l}
  /\ UNCHANGED <<runVars, handoff, outcome, clarPending, gateVars, asked, clarPauses>>
  /\ Select(queue)

\* The approval projection records a gate, or the answer to one.
GateObserved(g) ==
  /\ g \notin observed[Run] /\ Ledger!Observe(Run, g)
  /\ UNCHANGED <<runVars, markers, humanVars, clarPauses>>
  /\ Select(queue)

GateAnswered(g) ==
  /\ g \notin settled[Run] /\ Ledger!Settle(Run, g)
  /\ UNCHANGED <<runVars, markers, humanVars, clarPauses>>
  /\ Select(queue)

(***************************************************************************)
(* Specification                                                           *)
(***************************************************************************)

Engine == (\E r \in Rules : Execute(r)) \/ Resume1 \/ Resume2 \/ Resume3

Stamps ==
  \/ StampHandoff \/ StampSuccess \/ StampFailed
  \/ \E l \in Loops : AskUserRunAnchor(l) \/ AskUserLineageAnchor(l) \/ StampResumed(l)
  \/ \E g \in Gates : GateObserved(g) \/ GateAnswered(g)

Next == Engine \/ Stamps

\* The engine keeps executing what it selected.  Nothing is assumed of
\* coordinators, of humans or of the approval events.
Spec == Init /\ [][Next]_vars /\ WF_vars(Engine)

(***************************************************************************)
(* Properties                                                              *)
(***************************************************************************)

\* Types of the variables.
TypeOK ==
  /\ phase \in Phases /\ from \in Phases \cup {"none"}
  /\ note \in {ToolNote, ClarNote, ResumeNote, "other"}
  /\ handoff \in BOOLEAN /\ outcome \in Seq({"success", "failed"})
  /\ clarPending \subseteq Loops /\ clarResumed \subseteq Loops
  /\ queue \in Seq([rule : Rules, step : 1..3])
  /\ replied \subseteq asked /\ asked \subseteq Loops
  /\ clarPauses \in Nat

\* Bounce-proof: rule 09 pauses the run at most once per question, although
\* rule 11 clears the two markers in two separate revisions.  A well-typed state:
\* a reply is only ever counted for a question that was asked.
OnePausePerQuestion == TypeOK /\ clarPauses <= Cardinality(asked)

\* Rule 13 never ends a clarification pause: a run parked by rule 09 goes back
\* to executing only through rule 11, even when 13 was selected long before.
ClarificationPauseKept ==
  [][phase = "awaiting_approval" /\ note = ClarNote /\ phase' = "executing"
       => note' = ResumeNote]_vars

\* A terminal run never moves again and agrees with the first outcome stamped,
\* whatever was stamped, asked or gated after it.
TerminalIsFinal ==
  [][/\ phase \in Terminal => phase' = phase
     /\ phase' = "completed" => Outcome = "success"
     /\ phase' = "failed" => Outcome = "failed"]_vars

WaitingOnHuman ==
  phase = "awaiting_approval" /\ (Outstanding > 0 \/ OpenQuestions # {})

\* Rule 11 was still finishing an earlier reply when this question was asked and
\* answered: its third action removed the new reply with the old one.
ReplyErased == clarResumed = {} /\ clarPending \cap replied # {}

\* The run moves on: once an outcome is stamped and the chain was handed off, it
\* keeps coming to a terminal phase or to a pause a human has yet to answer (no
\* zombie), and a pause nobody has to answer any more ends (no stranded run),
\* unless rule 11 erased the answer.
RunMovesOn ==
  /\ [](outcome # <<>> /\ handoff => <>(phase \in Terminal \/ WaitingOnHuman \/ ReplyErased))
  /\ phase = "awaiting_approval" ~> phase # "awaiting_approval" \/ WaitingOnHuman \/ ReplyErased

\* Honest phase: an executing run with an unanswered gate pauses (or ends, or the
\* gate is answered), even if rule 12 was refused earlier.  So does one with a
\* marked question and no reply waiting, until its marker is removed or a reply
\* is stamped.
CausesPause ==
  /\ Outstanding > 0 /\ phase = "executing" ~> phase # "executing" \/ Outstanding = 0
  /\ clarPending # {} /\ clarResumed = {} /\ phase = "executing"
       ~> phase # "executing" \/ clarPending = {} \/ clarResumed # {}

\* The pack's README and rule 11 ("this rule does not touch it"): a pause made
\* for a tool gate is not ended by a clarification reply.
NeverCrossResume ==
  [][phase = "awaiting_approval" /\ note = ToolNote /\ phase' = "executing"
       => note' # ResumeNote]_vars
=============================================================================
