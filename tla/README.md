# SemTeams: verification project

TLA+ models, TLC runs and TLAPS proofs for the product code of SemTeams: the Go
services and tools under `cmd/semteams` and the rule packs under `configs/rules`
that move work from loop to loop. Every definition that models code is listed
with its source lines in `PROJECT.json` ("map").

## 1. Inventory

SemTeams is a product shell over the semstreams framework, which is not in this
repository. The framework runs language-model loops, keeps every entity as
triples in a graph behind NATS KV, and evaluates rules: a rule's conditions are
matched against each revision of an entity, and when they turn true its actions
(stamp a triple, spawn a loop, move a lifecycle phase) are executed later.
SemTeams supplies the rules, the tools the loops call, and a few services that
listen to the framework's events.

| Component | State it keeps | Operations | Hard behaviour | What makes it correct |
|---|---|---|---|---|
| approvalpause | three facts on a run entity: gates pending, answered, outstanding | HandlePending, HandleResponse, RecordApproval | lost, repeated, reordered events; concurrent read-modify-write; commits whose reply is lost | the count is the number of open gates at every revision; nothing acknowledged is lost; a reported failure is true |
| agent-run pack | phase and markers of a run entity | 15 rules | rules selected on one revision, executed on another; two causes of one pause; multi-step marker clean-up | no bounce, no stranded pause, terminal phases final |
| research pack, researchdecide | loops, their decisions, the run's outcome | rules 01-09, decide | parallel gatherers, a join, partial failure, replans | exact join, one outcome, no forgotten run |
| autoresearch pack and tools | iteration counter, best value and its experiment, budget | rules 01-19, three emit tools | rules of one loop in either order; repeated tool calls; read, compare, append | experiments within the cap, one editor of the tree, the best value is its experiment's, the user is told |
| create-change, proof-readiness, dev-from-task packs; emitchange, analyzeproof, implementspec, projectspectasks | draft, analyses, requests and plan on a run entity, all appended | rules, three tools, one command | three actors in any order; calls that land late; a first and a last value of one predicate | code is changed only for what was proven, approved and asked for |
| chainpause | pause and decision triples on a run, HTTP requests | HandleFailed, HandleDecision (retry, kill, defer) | non-atomic writes, crashes between them, decisions racing the Pauser | what was accepted took effect, what is recorded happened |
| sandbox server | one workspace per task on disk, read_only_paths and mutexes in memory | create, delete, write, read, archive, exec | concurrent requests, commands that outlive their shell, failing steps, restarts | sealed content never changes, promises are enforced, every request ends |
| sandboxmanager, its tools, bash routing | attestation triples, staged profiles, containers | Request, up, probes, stamp, query, route | admission order, commands that fail half-way, lost replies, two requests of one run | nothing beyond policy on the host, commands only into proven workspaces |
| githubread | committed and staged cursors, a JSON file | read, stage, commit, flush, restart | failing repositories and flushes, restarts, concurrent runs on one stream | activity counts as seen only when a run published it |
| emitartifact, research types | markers, files, payloads | resolve, check, render, append, publish, commit | citations across loops, rounds and runs; any prefix of the steps | only evidence the run retrieved is published; refusals have a cause |
| coordinator, ops packs | none of their own | one message per loop | - | - |
| dev-via-test pack and its emitters, openspec text, teamhint | none | validate, render, append once | parsing | - |
| startup, tool registry, rule hot reload | registries | start, reload | ordering at start | nothing is served before it is ready |
| UI stores and work board | polled and streamed copies of server state | fetch, merge, overlay | late responses overwrite newer ones | the newest state wins |

`PROJECT.json` lists every component with its files and the hazards with the
line where each bites.

Interactions: a loop that waits for a tool approval publishes an event;
approvalpause mirrors it onto the run; agent-run rules 12 and 13 pause and resume
the run on that count. The research and autoresearch packs stamp a run's outcome,
which agent-run 03 and 04 turn into a terminal phase. A failed loop is stamped by
chainpause, whose operator decisions spawn it again. A research loop reads
GitHub, and its emission commits the cursors its run staged. Bash commands and
autoresearch artifacts go where the sandbox manager's attestation says, and are
executed by the sandbox server.

## 2. Modules

| Module | Models | State | Actions |
|---|---|---|---|
| `GateLedger` | abstract promise of approvalpause | observed, settled, open per run | `Observe`, `Settle` |
| `ApprovalProjection` | `approvalpause` | run facts with revisions, events, handler activations, requests in flight | `Handle`, `Attempt`, `Receipt`, `Retry`, `Refuse`, `Unknown`, `Abandon`, `RejectFacts`; the graph owner's `Commit`, `Unchanged`, `Mismatch`; `OtherWrite` |
| `AgentRun` | `configs/rules/agent-run` | phase, note, markers, queue of selected rules, gates (as `GateLedger`) | `Execute` per rule, rule 11's three steps, one stamp per loop-side rule |
| `ResearchArc` | `configs/rules/research`, `tools/researchdecide` | loops with role, run, lineage, decision, outcome; fired rules | one per rule, and `Decide`, `Complete`, `Fail` of a session |
| `Autoresearch` | `configs/rules/autoresearch`, the three `emitautoresearch*` tools | loops, the run entity, selected driver firings, fired rules, coordinators woken | one per rule, rule 04c's two writes apart; a session's tool calls, decision and end |
| `SpecHandoff` | `emitchange`, `analyzeproof`, `implementspec`, `projectspectasks`, `openspec` keys, packs create-change, proof-readiness, dev-from-task | the run entity with every value of each predicate in order of arrival, proof facts by version, clock, loops, selected rules, calls under way | one per rule; a tool call begins (reads) and lands (appends) in two steps; facts change; time passes |
| `ChainPause` | `chainpause` | loops, failures, pause triples, decision triples, requests | `HandleFailed`, `WritePauseTriple`, `HandleDecision`, `writeDecisionTriples`, `RetryRead`, `RetryPublish`, `RetryRecord`, `kill`, `deferChain`, `Crash` |
| `SandboxServer` | `sandbox` | tree, contents, permissions, metadata, errors of the last sweep, mutex, handlers | one per step of each handler, a sweep or a removal may fail, a command writes, removes and renames; `Restart` |
| `SandboxPolicy` | pure half of `sandboxmanager` | - | `Validate`, `Normalize`, `MatchProfile`, `AdmissionCheck`, attestation triples and lookup |
| `SandboxManager` | `sandboxmanager`, `requestsandbox`, `querysandboxattestation`, `chainbash`, the runners, the artifact writer of `emitautoresearchartifact` | attestation triples per entity, staged profiles, containers, handlers, clock, artifacts | `Request`, `StageProfile`, `DevcontainerUp`, `Probe` by `Probe`, `AttestProbes`, `Stamp` (applied, refused, applied with the reply lost), `EmitArtifact`, `WriteFile`, `StampPath`, `ContainerStops`, `Tick` |
| `GithubRead` | `githubread`, `portfolio` | GitHub's items with versions, cursors in memory and on disk, staged cursors, calls, replies | `Call`; `Fetch`, `FetchFails`, `FetchInvalid` and `Stage` (flushed or not) per stream; `Return`, `Restart` |
| `EvidenceCheck` | `research` types, citation half of `derivation.go` | - | origin normalisation, defaults, citation checks |
| `EmitArtifact` | `emitartifact`, `slug`; composes the two above | emissions, markers, files, payloads, answers | `Emit` (resolve and check), `renderMarkdown`, `AppendTriple` one by one, `Publish`, `commitRunCursors` key by key, restart |
| `ApprovalProjectionProofs`, `AgentRunProofs`, `RulePackProofs` (`ResearchArc` and `SpecHandoff`), `AutoresearchProofs`, `ChainPauseProofs`, `SandboxServerProofs`, `SandboxManagerProofs`, `EmitArtifactProofs` (with `GithubRead` and `EvidenceCheck`) | TLAPS proofs about the module of that name | | |
| `MC*` | finite instances; `MCRulePacks` holds `ResearchArc` and `SpecHandoff` side by side | | |

Composition. `AgentRun` takes the gates' facts as steps of `GateLedger`, and
`ApprovalProjection` is shown (by TLC and by proof) to implement `GateLedger`, so
what `AgentRun` assumes of approvals is what the package delivers. `AgentRun`
takes outcomes as free stamps; `ResearchArc` and `Autoresearch` say which stamps
the packs can make. `EmitArtifact` extends `GithubRead`: replies of its reads are the
facts that citations are checked against, and a publication commits the cursors.
`SandboxManager` composes requests, the router and the artifact writer, which find
their entity by different ids. `MCRulePacks` composes nothing: a behaviour is a
research request or a change, because the two packs never meet on one run.

Abstractions.

* *Rule engine.* `AgentRun` and `SpecHandoff` need the gap between selection and
  execution, because later writes may falsify what was selected; they keep the
  selected rules in a queue in selection order. In `ResearchArc` and `Autoresearch`
  nothing a rule reads is retracted (but for the driver's marker, which has a
  queue of its own), so "selected once, executed later" is "executed once, at any
  time after the conditions hold".
* *Triples.* Where writers append, a predicate keeps its values in order of
  arrival; rule conditions read the first and `chain.ReadEntity` the last.
* *Lifecycle manager.* `Edges` is the transition table the pack's rules and tests
  rely on; a refused transition changes nothing.
* *Graph writes* in `ChainPause` and `SandboxManager` are acknowledged, applied
  without acknowledgement, or lost.
* *File system* in `SandboxServer`: a file has a content and a write bit; a
  directory without write permission fixes its entries, not their content, and the
  directory itself may be renamed, as its parent stays writable; one directory (and,
  in `sandbox_timeout`, a file beside it) is enough because the sweep treats every
  path alike. Tasks share nothing but the maps that hold their mutexes, so one task
  is modelled.
* *Names* in `SandboxPolicy` are a name and a letter case, so lowering is visible; a
  hash is the value it is taken of.
* *Texts* in `EvidenceCheck` are the locators and the quotes they contain; a locator
  is a scheme, a document and whether it is dressed up (letter case, fragment,
  tracking parameters); a shell command is its pipelines and whether one of them
  reads a local file.  A gap is the repository its text names, and `Within` says
  which repository's name is part of another's.  A title is its words; a loop's id
  is known to a file name by its first characters (`IdPrefix`).
* *GitHub items* have a version per activity, which stands for the digest; a read
  returns at most `Limit` of them per stream.
* *Proof facts* are records with optional fields, ids are positions, dates are
  clock values, missing or unreadable.

## 3. Runs

Passing runs:

| Run | Instance | Shows |
|---|---|---|
| `approval_safety` | one run, two gates of two loops (one per kind of anchor), a loop of another platform, two concurrent handlers, two attempts each, two deliveries of an event, three requests in flight, two foreign revisions | `OutstandingMatches`, `AckedRecorded`, `AnswersTrue`, `NotCommittedIsDefinite`, refinement of `GateLedger`, `HandlersEnd` |
| `agent_run` | two coordinators that may ask at the same time, two gates, two outcomes | `OnePausePerQuestion`, `ClarificationPauseKept`, `TerminalIsFinal`, `RunMovesOn`, `CausesPause` |
| `research` | research: two plans of up to two subtopics. Change hand-off: eight scenarios of at most four calls, two in flight, two emissions, a clock of one or two ticks and a change of the proof facts; and some 300 sets of proof facts analysed at both instants | `JoinExact`, `OneVerdict`, `PriorIsRejected`, `NoRunForgotten`; `ReadyIsProven`, `PlanIsReviewed`, `RequestHonoured` |
| `autoresearch` | a cap of two with everything once; a cap of one with two measurements and two reviewers; a cap of one with a repeated baseline, better or worse than the first; three values | `BudgetKept`, `OneEditor`, `BestNamesExperiment`, `UserTold` |
| `chain_decisions` | two runs, two concurrent decisions, a retry task each | `AcceptedTookEffect`, `RetryOfThisRun`, `AuditedBeforeAction` |
| `sandbox` | two requests at a time for ever, a directory of one file, two contents, one restart | `SealedUnchanged`, `EnforcedUntilRestart`, `UsableWorktree`, `RequestsEnd` |
| `sandbox_manager` | five configurations (catalogue, policy, host, runner), eight requests (equal meaning in two writings, one per way of being refused, with and without probes), three kinds of caller, two requests; two instants a second apart, a TTL of a second and a half and one left to the default | `HostWithinPolicy`, `TightestProfile`, `RoutedIntoProven`, `ArtifactWhereBashLooks`, `LookupTrue` |
| `research_evidence` | a run of two rounds and a loop of another run, two repositories, two kinds; nine scenarios of citing, reading, publishing, failing and restarting | `PublishedIsDerived`, `OkMeansWhole`, `SeenWasPublished`, `LostOnlyWithCall`, `BlamedForCause` |

Each property is stated in words above its definition. The type invariant of a
module is a conjunct of one of its invariants (`OnePausePerQuestion`, `BudgetKept`,
`JoinExact`, `ReadyIsProven`, ...) and not a property of its own. All of them are
proved.

The bounds reach the interesting cases: two handlers are the least that race, a
second delivery repeats an event; with two attempts per handler (the code has
`MaxAttempts` 3), one revision of another writer and the other handler's commit are
enough to exhaust them and answer a conflict; two gatherers make a join partial; a second round is a
replan or a second run; two handlers and one restart give every pair of requests
and a crash between any two steps. In `SpecHandoff` two calls in flight let a late
analysis or emission land behind another, and the second emission mixes with the
first. The 300 fact sets vary one part at a time (claims against waivers,
dependencies against waivers, profiles against readiness records, conflicts), each
branch of the analyzer on both sides of its condition. The scenarios of
`research_evidence` separate what does not interact (which citation is judged, which
stream is read, which step fails), so that each can vary fully; in one of them a
synthesis cites what an earlier one retrieved before or after that one has emitted
an artifact of its own. Symmetry is over
concurrent requests, and only in runs without liveness.

Deadlock is checked where the system serves requests for ever (the `sandbox` runs); the
others really may stop: a finite set of events, loops or decisions is used up.

Violation runs, each a disagreement between the code and what it says of itself
(`PROJECT.json`, "findings"):

* `agent_run_cross`: rule 11 resumes a run that is parked for a tool gate.
* `research_emit`: a plan may decide `emit`, and no rule consumes it: the run
  stays executing for ever.
* `chain_retried`: a retried loop carries no run, so if it fails again nobody
  can decide about it.
* `sandbox_timeout`: at the timeout only the shell is killed; `cmd.Run` waits for
  the children that hold its output, with the task's mutex held, and kills the
  group afterwards.

Other disagreements are stated in section 6, with the lines that differ.

## 4. Fairness

* `approval_safety` (`HandlersEnd`): a handler with something to do is scheduled and a
  wait ends at its five-second deadline. Nothing is assumed of the graph owner or
  of NATS.
* `agent_run`: the engine goes on executing what it selected (`WF(Engine)`).
  Coordinators, humans and approval events owe nothing, and questions, replies,
  outcomes and gates fall anywhere, between two actions of one rule too.
* `research`: for the research pack, every session ends (iteration ceilings and
  timeouts) and matching rules are executed. For the hand-off only the rule engine
  is fair: authors, reviewers, commands and tool calls may stop at any point.
* `autoresearch`: sessions end and matching rules are executed.
* `sandbox`: strong fairness of the mutex (Go's starvation mode hands it to a
  waiter) and weak fairness of a handler's own steps; git init and shells have
  timeouts. `RequestsEnd` also assumes that the children of a command end, which
  `sandbox_timeout` shows is needed.
* `sandbox_manager`, `chain_decisions` and `research_evidence` check safety only.

## 5. Proofs

Theorems are of the form `Spec => []P` or `Spec => [][A]_vars`, and one is a refinement
(`LedgerImplemented`). They hold for all values of the constants that satisfy the
named assumption of the module, which TLC evaluates on every run; two,
`ArtifactWhereBashLooksAlways` and `BlamedForCauseAlways`, have a further hypothesis
(below). No safety property was inductive by itself: each
module has an invariant made of named parts, one lemma per action that shows the
action keeps it, and the theorems follow from it.

| Module, assumption | Theorems (beside the invariant itself) | What the inductive invariant adds, and why |
|---|---|---|
| `ApprovalProjectionProofs`, `ConstantsOK`, `GatesFinite` | `TypeCorrect`, `OutstandingCorrect`, `NoLostReceipt`, `DefiniteFailure`, `ReceiptsAppendOnly`, `LedgerImplemented`, `AnswersTrueAlways` | `IInv`: a request whose revision is still current desires exactly the facts that reading that revision leads to, so the fence makes every commit a step of the ledger; a handler has at most one request outstanding, which makes a definite failure report true. `JInv`: only answers that were given are stored, in flight or handled, and one handler alone reports an answer as new |
| `AgentRunProofs`, `RunConstantsOK` | `OnePausePerQuestionAlways`, `ClarificationPauseKeptAlways`, `TerminalIsFinalAlways` | `RInv`: what a selected rule may still rely on when it is executed, by its place in the queue: the first outcome (`OutcomeOK`), the hand-off (`HandoffOK`), the two clarification markers (`MarkersOK`), pausing and resuming rules never in the wrong order (`OrderOK`), a pause still owed is counted with the question (`PausesOK`) |
| `RulePackProofs` on `ResearchArc`, `ArcConstantsOK` | `JoinExactAlways`, `OneVerdictAlways`, `PriorIsRejectedAlways` | `AInv`: what the rule that spawned a loop had read (`BirthOK`), one gatherer per subtopic and only delivered ones counted (`FanOK`), one synthesis per plan, one review per synthesis, a new plan only after a rejection (`UniqueOK`), outcomes only from loops of the run (`VerdictOK`) |
| `RulePackProofs` on `SpecHandoff`, `HandoffConstantsOK` | `ReadyIsProvenAlways`, `PlanIsReviewedAlways` | `HandoffInv`: the first analysis on the run is what the analyzer makes of the facts it read (`FirstOK`), a selected rule may still rely on the release or the request it was selected on (`Entries`), no loop runs before its cause and a success is the reviewer's approval (`ArcOK`), references of stored and of late emissions lead where they should (`ChangeOK`), a plan on the run or still on its way is made of emitted tasks (`PlanOK`, `CallOK`) |
| `AutoresearchProofs`, `AutoresearchConstantsOK` | `BudgetKeptAlways`, `OneEditorAlways`, `BestNamesExperimentAlways` | `XInv`: the counter bounds the proposals (`CountOK`), an execute loop per hand-over (`HandedOK`), one baseline gives out one token, which is in the driver's queue or with one live loop (`TokenOK`), the best value is that of the experiment it names unless rule 04c is half executed (`BestOK`) |
| `ChainPauseProofs`, `ChainConstantsOK` | `AcceptedTookEffectAlways`, `RetryOfThisRunAlways`, `AuditedBeforeActionAlways` | `CInv`: role and model stamped by the Pauser come from a failure of that run (`StampsOK`), so do those of a task (`TasksOK`), and what a request has done by each of its steps, whatever crashes between them (`ReqOK`) |
| `SandboxServerProofs`, `SandboxConstantsOK` | `SandboxTypeCorrect`, `SealedForever`, `EnforcedWhileRunning`, `CreationAtomic` | `SInv`: a handler past the wait holds the mutex (`Exclusive`), what it relies on between steps (`Stages`), a sealed directory is frozen with all its files while it is at its path, so no command can add or remove one (`Sealing`), promises are kept in memory, and frozen unless a sweep is owed or the last one had errors (`Enforcement`), a bare directory belongs to a git init in progress (`Creation`) |
| `SandboxManagerProofs`, `SandboxConstantsOK` | `HostWithinPolicyAlways`, `TightestProfileAlways`, `RoutedIntoProvenAlways`, `LookupTrueAlways`, `ArtifactWhereBashLooksAlways` | `MInv`: a handler that acts on the host was granted its request, and its attestation is about its own signature (`ActsOK`), the host holds only what was granted (`HostOK`), what an entity says is what one applied attestation said (`GraphsOK`). `PlacesOK`: only entities a caller can name are ever stamped, and an emission on its way agrees with bash until the next batch |
| `EmitArtifactProofs`, `GithubConstantsOK`, `EmitConstantsOK`, `EvidenceConstantsOK`, `RefusalConstantsOK` | `TypeCorrect`, `LostOnlyWithCallAlways`, `SeenWasPublishedAlways`, `OkMeansWholeAlways`, `PublishedIsDerivedAlways`, `BlamedForCauseAlways` | cursors record only versions that some call got or a crash cut off, and that some run fetched (`CursorsIn`, `PublishedInv`); a key that is committed is that of a published payload (`KeysInv`); what an emission has not written yet it still has to write, and the file of an emission is there, its own or that of another loop with the same file name (`WholeInv`); an emission in progress is as sound as a payload, and a marker names a round (`SoundInv`) |

`TightestProfileAlways` rests on a lemma that compares `MatchProfile` with its
reference for every catalogue: the score prefers the covering profile with the
fewest capabilities, and the first of equals.

`ReadyIsProvenAlways` rests on `AnalyzerExact`: `AnalyzeFacts` passes exactly the facts that
the reference `Proven` accepts, claim by claim and dependency by dependency, whatever
claims, profiles, readiness records and waivers there are and at whatever instant.
Its proof found a fault of the model (a waiver whose status is the word "none" was
taken for no waiver), since corrected. `HandoffConstantsOK` only says that lists are
lists and that dates are times, missing or unreadable.

`PublishedIsDerivedAlways` rests on `VerdictSound`: what `verifyDerivation` lets through is
derived, for every shape of a result (`VerifiedHolds`), every reference (`PickMeans`) and
every round (`RoundChecked`); stability follows because the graph and the trajectory
only grow. The property says what the check really ensures: bash on local files and gaps about
a repository with a longer name are left in it (section 6). `EvidenceConstantsOK` asks of the world: a tool on a channel's list retrieves
from that channel, unless it is a shell command that reads local files; only web_search answers in blocks, a result that is
neither a list nor an envelope is one text; a call's run anchor is the run its entity
names; a loop that belongs to a plan carries no plan revision but the plan's. The
replies of `github_read` satisfy it by proof (`FactsOK`). The attempt showed that the
round is not always the plan's: `resolveProducerLoopRevision` prefers the artifact
revision a loop has emitted itself, so the property speaks of the plan's round for
loops that have not (`HasEmitted`), and TLC confirms that without the exception it
fails.

`BlamedForCauseAlways` is the converse, an action property: `VerdictBlames` shows that a
draft without a cause of refusal is not refused, since its one meaning is found
(`FoundAlone`), passes in every shape of result (`HoldsVerified`) and stays valid when it
is stamped (`StampedValid`). `RefusalConstantsOK` asks of the world what the check takes
for granted: the lists of tools are complete for what was retrieved, web_search
answers in blocks, the records of an envelope carry canonical locators, and the
document of a citation is named in the results as in the citation, up to
normalisation; again the replies of `github_read` satisfy it by proof (`FactsJudged`).
The hypothesis, `RoundsReached`, is about the graph the packs write: from a loop that
writes, the edges `discoverRunLoopIDs` follows lead to every loop of the run in a round
it cites. A graph without those edges makes the tool refuse a true citation that
names no loop. `MCEmitArtifact` evaluates it on its graph of two rounds.

`ArtifactWhereBashLooksAlways` has a hypothesis, `AnchorsAgree`: the run id and the run
entity stamped on a call name the same run, which is what `runanchor.go:24-28` says of
dispatch; or the call has no run, and then nobody attests under the chain entity
that bash makes of its loop id. The hypothesis is about the caller's metadata,
which the framework writes, and `MCSandboxManager` evaluates it on its callers.
`LookupTrueAlways` assumes of the catalogue that no profile is called `unmatched@v0`, the
id of the attestation of a request that no profile serves. The proof of
`ArtifactWhereBashLooksAlways` needed a counter of batches (`batches`): a set of applied attestations cannot
tell that the same attestation was applied twice at one instant, with another in
between.

`GithubConstantsOK` asks that a loop's anchor, itself a loop, is its own anchor or has
none: runs do not nest, so the cursors staged under a run's key are committed by
it.

Only model-checked is everything under fairness (`HandlersEnd`, `RunMovesOn`, `CausesPause`,
`NoRunForgotten`, `RequestHonoured`, `UserTold`, `RequestsEnd`): the prover has no liveness
rules. Every safety property of a passing run is proved.

## 6. Limits, and what the properties leave out

Each of these is visible in a property's premise, and each is a behaviour the code
really has.

Runs and rule packs:

* Rule 11 clears the markers in two revisions after its transition. A question asked
  in between, or while another is open, loses its marker and the run goes on
  executing, against the description of rule 07
  (07-ask-user-pause-run-anchor.json:5, "the run should PAUSE [...] instead of
  misleadingly staying `executing` while blocked on a human"). So `CausesPause` speaks
  of a question until its marker is removed; a question asked and answered in between loses its reply as
  well and the run stays parked, which `RunMovesOn` leaves out (`ReplyErased`).
* `Cond13` leaves out rule 13's condition on the last transition's source: it holds
  whenever the others do.
* Replans of a research run are bounded by nothing in the pack (`max_iterations`
  counts per reviewer loop); several gatherers that ask for clarification wake a
  coordinator each; a cancelled loop matches no rule (documented in rule 09).
* `UserTold` leaves out two kinds of wedged autoresearch run: an execute loop that is
  truncated instead of failed matches no rule, and two failures before the phase
  changes give `reply.failed` two values, so rule 18's `length_eq 1` never holds.
* Rules 04a and 04c of autoresearch may be executed in either order, and the order
  matters, although 04c's metadata calls it irrelevant: with 04a first, the next
  experiment is compared with the old best value.
* `OneEditor` is stated for one baseline call: a repeated one starts a second pipeline.
  It may also carry another value, cap or command: rule 05 reads the first cap, a
  measurement compares with the last best value, and the best experiment beats one
  of the baselines but not necessarily the first (`BestNamesExperiment`).
* The proof gate of a change is one-shot: rules read the first analysis, so after a
  first one that did not pass, a later pass never releases the run, although
  `/implement-spec` answers "handoff requested". A failed verdict whose routes are
  all the coordinator's matches none of proof-readiness 02 to 04, although rule 03's
  description claims it.
* A released run is not looked at again: readiness records and waivers may expire
  between the analysis and the start. An inactive waiver blocks a dependency that
  is ready; evidence of any outcome covers a claim.
* A second or late `emit_change` mixes the task sets of two drafts, and a task keeps
  an older `expected_outcome`; nothing removes them. dev-from-task 02 reads the first
  outcome and `project_spec_tasks` the last. `PlanIsReviewed` asks for the whole change
  only when it was emitted once.
* A rejected or clarified change gets no run outcome from the pack.
* create-change, proof-readiness and dev-from-task are disabled in the shipped
  configuration and spell `agent.run.entity_id` and `next_action` where the live
  engine writes hyphens; they are modelled with the predicates spelled alike.
  Each run has one author, one reviewer and one coordinator there, and a loop's
  decision and its completion are one step.
* In `ResearchArc` a loop that has decided does not fail afterwards.

Decisions and sandboxes:

* `RetryOfThisRun` allows the fallback role and model, and a role paired with the model
  of another failure of the same run: both are reachable. A retry is accepted for a
  run that was killed and for a loop that never failed.
* `EnforcedUntilRestart` and `UsableWorktree` end at the first restart: metadata is in
  memory, and a directory whose git init was cut short counts as a workspace. A
  deletion ends the read-only promise when it begins.
* A sweep that fails is only logged and the request is answered with success
  (server.go 242-245, 386-389, 526-529): `EnforcedUntilRestart` leaves out the time
  until a sweep without errors. `SealedUnchanged` begins with such a sweep and ends
  when a command renames the directory, or replaces it when it is empty, which the
  sweep does not prevent: it fixes what is in the directory, not its name.
  docs/adr/032-r36-sandbox-design.md:665-675 says that chmod "catches every category
  structurally" and that later iterations "see frozen baseline". A directory renamed
  back is not modelled.
* The rollback of a failed git init ignores the error of its removal (workspace.go
  133), and a deletion may fail half-way: both leave a directory without a usable
  repository ("partial" in the model), which counts as a workspace. `UsableWorktree`
  says that nothing else does before a restart.
* Secret names are lower-cased by `Normalize` before the case-sensitive comparison
  with the policy. So an upper-case policy entry admits nobody, although
  `admission_test.go` (which does not normalise) expects it to, and a lower-case entry
  admits the upper-case secret, where admission.go 174-180 says it "deliberately does
  NOT match a canonical requirement" and admission_test.go 180-192 tests that of
  `AdmissionCheck` alone: `Manager.Request` normalises first (manager.go 209, 217).
  `HostWithinPolicy` speaks of the normalised names. A privileged request stays pending for ever: no operation grants the review.
* A TTL is stored in whole seconds, and a missing, zero or sub-second one becomes the
  default. At the instant the TTL ends the verdict is stale in the code, while the
  comment at attestation.go 182 ("Stale = AttestedAt+TTL < now") calls it fresh;
  `LookupTrue` states what the code does.
* The router looks neither at the TTL nor at whether the container still runs.
  Optional predicates of an earlier attestation survive beside a later one.
* `ArtifactWhereBashLooks` leaves out a failed look-up, after which the artifact is
  silently written locally, and an attestation stamped in between.

Evidence:

* A flush that fails, or a crash, after a stream was staged loses the activity when
  the run publishes (`LostOnlyWithCall` names exactly this), although
  `cursor.go:20-22` says that failed runs do not lose deltas. Activity beyond one
  page between two reads is never reported. Two runs on one stream replace each
  other's cursor.
* `BlamedForCause` exempts references that mean two results, and revisions left out:
  the default is filled in before the derivation is checked, so a citation of an
  earlier round is refused. It also exempts results of a loop whose own artifact
  names another round than its plan; `PublishedIsDerived` lets those count to either.
* A read takes its cursor before it asks GitHub (githubread/executor.go:388), and its
  run's baseline for retries is the committed entry at staging (cursor.go:200). If
  another run commits the stream in between, the baseline holds what the read
  reports and a retry reports none of it, although cursor.go:57-59 says that "retries
  within the same run replay the identical delta idempotently". No property claims
  that.
* `PublishedIsDerived` lets a shell command on local files pass for a retrieval:
  `isBashFetchCommand` looks at command names (derivation.go:530), so `curl` of a `file:`
  address, or a filter with a file operand, passes, though derivation.go:503-507 says
  that what passes "never invokes local-file or self-echo commands".
* It also lets a gap about a repository disclose every one whose name is part of that
  name: the match is by substring, letter case ignored (derivation.go:271-282, as line
  47 of the archived design 2026-10-18-program-pulse-scheduled-incremental says), though
  openspec/specs/program-pulse-github-read/spec.md:64-65 wants each failed repository
  "explicitly named". Both cases occur in `research_evidence`.
* A file is named by the day, the words of the title, and without one by the first
  eight characters of the loop's id (`slug.go:117-121`). So equal titles, titles
  without an ASCII letter (`slug.go:96-98` says they fall back to the loop's suffix)
  and loops with a common prefix share a file on the same day, and the last one
  written stays: `OkMeansWhole` leaves that case of the file out. A test-harness marker of an earlier emission
  survives an artifact that has none.
* `recordCitation` takes the kind of any record that quotes the citation, the code that
  of the first one; records of one origin have one kind, so they agree.
* The alternative run key `pulse_run_id` (githubread/executor.go 248-252,
  emitartifact/executor.go 491-495) is left out: nothing in the repository sets it.
* One unreadable trajectory fact without a correlation blocks every citation that
  scans its loop.

## 7. Not modelled

* Text: sanitising, truncation, prompts, markdown, JSON, shell quoting, OpenSpec
  parsing and rendering. None of it keeps state; the conversions a property depends
  on (letter case, origin normalisation, requirement keys, dated slugs) are modelled.
* dev-via-test: its loop over tasks rests on a plan whose removal rule matches no
  predicate that any tool writes. Its emitters validate one payload and append it.
* The coordinator and ops packs, teamhint, add_source, the payload and vocabulary
  tables: one message per input and no state.
* Start-up, registries and hot reload: one sequence of constructors before anything
  runs; the reload itself happens in the external engine.
* In the sandbox server: path confinement, size limits, output capping, zip
  contents, chmod by a command, and background children that survive a normal exit
  and write outside the mutex.
* In githubread: the state filter, rate-limit classification, the store without runs.
* The UI: browser-side copies, whose races (overlapping polls, late snapshots,
  several reconnect timers) are their own and touch nothing the server keeps.

## 8. Possible extensions

1. A refinement from `SandboxManager` to an abstract registry (an entity has the last
   stamped verdict), and from the outcome stamps of `ResearchArc` and `Autoresearch` to
   those `AgentRun` allows.
2. The UI's run-status store beside `AgentRun`: a poll of several queries against a
   run that moves, overlapping polls after a stop and a start.
3. Background children in `SandboxServer`, which needs a notion of a process outside a
   request.
