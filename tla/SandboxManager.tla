--------------------------- MODULE SandboxManager ---------------------------
(***************************************************************************)
(* cmd/semteams/sandboxmanager.Manager with the tools in front of it       *)
(* (request_sandbox, query_sandbox_attestation) and what is behind it: the *)
(* runners that bring containers up, the router that sends bash commands   *)
(* into them, and emit_autoresearch_artifact, which writes its file there. *)
(* Requests run concurrently; each is a chain of commands on the host, of  *)
(* which any may fail or time out, and ends with one batch of triples on   *)
(* the caller's entity, whose reply may be lost.                           *)
(***************************************************************************)
EXTENDS SandboxPolicy

CONSTANTS
  Handlers,      \* tool calls in progress at the same time
  Callers,       \* tool calls by what dispatch stamped on them
  Raw,           \* requirements as agents write them
  Boots,         \* configurations [catalog, policy, env, runner, url]: profiles,
                 \* operator policy [public, privileged, secrets], exported names,
                 \* SEMTEAMS_SANDBOX_RUNNER, whether SANDBOX_URL is set
  ProbeOutputs,  \* what a probe command prints: "" or some text
  Malformed,     \* ids no entity id can be made of
  Pace,          \* instants by which the clock advances
  MaxTime, MaxRequests

\* Callers are records [related, runId, runEntity, runKeys, loop] (None if absent).
ChainOf(id) == <<"chain", id>>
LoopOf(id) == <<"loop", id>>

\* Profiles have finitely many capabilities and a duration, and none is called
\* unmatched@v0; no entity id and no signature is absent.
ASSUME SandboxConstantsOK ==
  /\ MaxTime \in Nat \ {0} /\ MaxRequests \in Nat
  /\ Pace \in Nat \ {0} /\ Second \in Nat \ {0} /\ DefaultTTL \in Nat \ {0}
  /\ \A b \in Boots :
       /\ {"catalog", "policy", "env", "runner", "url"} \subseteq DOMAIN b
       /\ DOMAIN b.catalog \subseteq Nat
       /\ \A p \in Range(b.catalog) : IsFiniteSet(p.adv) /\ p.ttl \in Nat /\ p.id # Unmatched.id
       /\ \A p \in Range(b.catalog) \cup {Unmatched}, r \in Raw \ {None} : SignatureFor(p, r) # None
  /\ \A c \in Callers : LoopOf(c.loop) # None

VARIABLES
  setup,         \* the configuration, fixed at boot
  graph,         \* per entity, the attestation predicates (last value wins)
  staged, up,    \* signatures with a staged profile, with a running container
  act,           \* what each handler is doing
  now, issued,   \* clock; requests issued so far
  artifacts,     \* recorded artifacts [caller, folder, known, found]
  written,       \* workspaces into which an artifact was written
  applied,       \* history: per entity, attestations whose batch was applied
  batches,       \* history: per entity, how many batches were applied
  proven         \* history: <<signature, time>> at which every probe had passed

host == <<staged, up>>
history == <<applied, batches, proven>>
emitted == <<artifacts, written>>
vars == <<setup, graph, host, emitted, act, now, issued, history>>

-----------------------------------------------------------------------------
Anchor(c) ==
  IF c.runEntity # None THEN c.runEntity
  ELSE IF c.runId # None /\ c.runId \notin Malformed THEN ChainOf(c.runId) ELSE None

ChainEntityID(c) ==
  IF c.related # None THEN c.related
  ELSE IF Anchor(c) # None THEN Anchor(c)
  ELSE IF c.runId # None \/ c.runKeys THEN None
  ELSE IF c.loop # None /\ c.loop \notin Malformed THEN LoopOf(c.loop) ELSE None

\* chainbash rewrites task_id to the run; the runner makes the entity of it.
TaskID(c) == IF c.runId = None THEN c.loop ELSE c.runId
BashEntity(c) == IF TaskID(c) = None THEN None ELSE ChainOf(TaskID(c))

Entities == {ChainEntityID(c) : c \in Callers} \cup {BashEntity(c) : c \in Callers}
            \cup {Anchor(c) : c \in Callers}
Stored(e) == IF e = None THEN Unstamped ELSE graph[e]

\* Entities that request_sandbox can stamp.
Targets == {ChainEntityID(c) : c \in Callers} \ {None}

\* A caller's run id and run entity name the same run, as dispatch stamps them; or
\* it has no run, and then nobody attests on the entity that bash makes of its loop.
AnchorsAgree ==
  \A c \in Callers : c.loop # None /\ c.loop \notin Malformed =>
    \/ Anchor(c) = BashEntity(c)
    \/ Anchor(c) \notin Targets /\ BashEntity(c) \notin Targets

\* Without SANDBOX_URL bash and artifacts stay with the process.
attestationAware == setup.url

\* Where a bash command of c runs, and where an artifact of c is written: the
\* workspace of a ready container, or None.
ReadyFolder(e) == IF attestationAware /\ Stored(e).ready THEN Stored(e).folder ELSE None
resolveWorkspaceFolder(c) == ReadyFolder(BashEntity(c))
Unready_HostWorkspaceFolder(c) == IF attestationAware THEN Stored(Anchor(c)).folder ELSE None
HostWorkspaceFolder(c) == ReadyFolder(Anchor(c))

selectSandboxRunner(e) ==
  IF e.runner = "api" /\ ~e.url THEN "noop"
  ELSE IF e.runner \in {"api", "cli", "mock"} THEN e.runner ELSE "noop"

-----------------------------------------------------------------------------
Idle == [step |-> "idle", entity |-> None, profile |-> Unmatched, req |-> None,
         results |-> << >>, att |-> None, reply |-> None, emit |-> None]

Init ==
  /\ setup \in {[b EXCEPT !.runner = selectSandboxRunner(b)] :
                   b \in {b \in Boots : NewCatalogAccepts(b.catalog)}}
  /\ graph = [e \in Entities \ {None} |-> Unstamped]
  /\ staged = {} /\ up = {} /\ artifacts = {} /\ written = {}
  /\ act = [h \in Handlers |-> Idle]
  /\ now = 1 /\ issued = 0
  /\ applied = [e \in Entities \ {None} |-> {}] /\ proven = {}
  /\ batches = [e \in Entities \ {None} |-> 0]

Signature(h) == <<act[h].profile.id, act[h].req>>
Ends(h, att) == act' = [act EXCEPT ![h].step = "stamp", ![h].att = att]

Busy(h) == act[h].step \notin {"idle", "done"}

\* request_sandbox with arguments that do not parse, or with no entity to stamp.
RequestRefused(h, c, r) ==
  /\ ~Busy(h)
  /\ ~ParseRequirements(r) \/ ChainEntityID(c) = None
  /\ issued < MaxRequests /\ issued' = issued + 1
  /\ act' = [act EXCEPT ![h] = [Idle EXCEPT !.step = "done", !.reply = "error"]]
  /\ UNCHANGED <<setup, graph, host, emitted, now, history>>

\* request_sandbox: the decisions that need no container are made at once.
Request(h, c, r) ==
  LET n == Normalize(r)
      profile == IF Validate(r) THEN MatchProfile(r, setup.catalog) ELSE Unmatched
      admission == AdmissionCheck(n, profile, setup.policy)
      begun == [Idle EXCEPT !.entity = ChainEntityID(c), !.profile = profile, !.req = n]
      stamps(att) == [begun EXCEPT !.step = "stamp", !.att = att]
  IN /\ ~Busy(h) /\ ParseRequirements(r) /\ ChainEntityID(c) # None
     /\ issued < MaxRequests /\ issued' = issued + 1
     /\ act' = [act EXCEPT ![h] =
          CASE profile = Unmatched ->
                 stamps(AttestTerminalError(profile, n, "unmatched", now))
            [] profile # Unmatched /\ admission.outcome # "admitted" ->
                 stamps(AttestAdmissionFailure(profile, n, admission, now))
            [] OTHER -> [begun EXCEPT !.step = "stage"]]
     /\ UNCHANGED <<setup, graph, host, emitted, now, history>>

UpFails(h) == Ends(h, AttestTerminalError(act[h].profile, act[h].req, "up", now))

\* Up, first half: a secret the host does not have is refused before anything is
\* written; then the profile is copied into the workspace (mkdir && cp).
StageProfile(h) ==
  /\ act[h].step = "stage"
  /\ \/ /\ setup.runner = "mock"
        /\ act' = [act EXCEPT ![h].step = "probe"]
        /\ UNCHANGED host
     \/ /\ setup.runner = "noop" \/ ~(act[h].req.secrets \subseteq setup.env)
        /\ setup.runner # "mock"
        /\ UpFails(h) /\ UNCHANGED host
     \/ /\ setup.runner \in {"api", "cli"} /\ act[h].req.secrets \subseteq setup.env
        /\ \/ /\ staged' = staged \cup {Signature(h)}
              /\ act' = [act EXCEPT ![h].step = "up"]
           \/ /\ staged' \in {staged, staged \cup {Signature(h)}}
              /\ UpFails(h)
        /\ UNCHANGED up
  /\ UNCHANGED <<setup, graph, emitted, now, issued, history>>

\* Up, second half: `devcontainer up` on the staged profile.  It reuses a running
\* container.  A failure, a timeout or unreadable output may leave one running.
DevcontainerUp(h) ==
  /\ act[h].step = "up"
  /\ \/ /\ up' = up \cup {Signature(h)}
        /\ act' = [act EXCEPT ![h].step = "probe"]
     \/ /\ up' \in {up, up \cup {Signature(h)}}
        /\ UpFails(h)
  /\ UNCHANGED <<setup, graph, staged, emitted, now, issued, history>>

\* Exec: what a probe command can come back with.
ProbeResults(h) ==
  IF setup.runner = "mock" THEN {[exit |-> 0, out |-> "text"]}
  ELSE IF Signature(h) \notin up THEN {Err}
  ELSE {Err} \cup [exit : {0, 1}, out : ProbeOutputs]

\* runProbes: one command per probe in the normalised order, each under its own
\* timeout.
Probe(h) ==
  LET left == act[h].req.probes \ DOMAIN act[h].results
      p == CHOOSE p \in left : TRUE
  IN
  /\ act[h].step = "probe" /\ left # {}
  /\ \E res \in ProbeResults(h) :
       act' = [act EXCEPT ![h].results =
                 [q \in DOMAIN @ \cup {p} |-> IF q = p THEN res ELSE @[q]]]
  /\ UNCHANGED <<setup, graph, host, emitted, now, issued, history>>

AttestProbes(h) ==
  LET n == act[h].req IN
  /\ act[h].step = "probe" /\ n.probes = DOMAIN act[h].results
  /\ Ends(h, Attest(act[h].profile, n, Signature(h), act[h].results, now))
  /\ proven' = IF \A p \in n.probes : act[h].results[p].exit = p.expect
               THEN proven \cup {<<Signature(h), now>>} ELSE proven
  /\ UNCHANGED <<setup, graph, host, emitted, now, issued, applied, batches>>

\* stamp: the batch is applied and acknowledged, applied without the caller
\* hearing of it, or not applied.
Stamp(h) ==
  LET a == act[h] IN
  /\ a.step = "stamp"
  /\ \/ /\ graph' = [graph EXCEPT ![a.entity] = Triples(@, a.att)]
        /\ applied' = [applied EXCEPT ![a.entity] = @ \cup {a.att}]
        /\ batches' = [batches EXCEPT ![a.entity] = @ + 1]
        /\ \E reply \in {"attestation", "error"} :
             act' = [act EXCEPT ![h].step = "done", ![h].reply = reply]
     \/ /\ act' = [act EXCEPT ![h].step = "done", ![h].reply = "error"]
        /\ UNCHANGED <<graph, applied, batches>>
  /\ UNCHANGED <<setup, host, emitted, now, issued, proven>>

\* emit_autoresearch_artifact: where the file goes is looked up first.  A failed
\* lookup is logged, and the file goes to the local disk, as without a container.
EmitArtifact(h, c, found) ==
  /\ ~Busy(h) /\ c.loop # None /\ c.loop \notin Malformed
  /\ issued < MaxRequests /\ issued' = issued + 1
  /\ act' = [act EXCEPT ![h] =
       [Idle EXCEPT !.step = "write", !.entity = LoopOf(c.loop),
          !.emit = [caller |-> c, found |-> found,
                    folder |-> IF found THEN HostWorkspaceFolder(c) ELSE None,
                    known |-> IF BashEntity(c) = None THEN 0 ELSE batches[BashEntity(c)]]]]
  /\ UNCHANGED <<setup, graph, host, emitted, now, history>>

\* The workspace the file goes into; none for the local disk.
renderMarkdown(e) == {e.folder} \ {None}

\* sandboxArtifactWriter, or the local disk.  A command that fails or times out
\* may have written; there is no way back to the local disk.
WriteFile(h) ==
  /\ act[h].step = "write"
  /\ \/ /\ written' = written \cup renderMarkdown(act[h].emit)
        /\ act' = [act EXCEPT ![h].step = "path"]
     \/ /\ written' \in {written, written \cup renderMarkdown(act[h].emit)}
        /\ act' = [act EXCEPT ![h] = [Idle EXCEPT !.step = "done", !.reply = "error"]]
  /\ UNCHANGED <<setup, graph, host, artifacts, now, issued, history>>

\* One batch of triples, the path among them, on the loop of the caller.
StampPath(h) ==
  /\ act[h].step = "path"
  /\ \E applies \in BOOLEAN, reply \in {"artifact", "error"} :
       /\ reply = "artifact" => applies
       /\ artifacts' = IF applies THEN artifacts \cup {act[h].emit} ELSE artifacts
       /\ act' = [act EXCEPT ![h] = [Idle EXCEPT !.step = "done", !.reply = reply]]
  /\ UNCHANGED <<setup, graph, host, written, now, issued, history>>

\* Containers stop behind the manager's back (reboot, prune).
ContainerStops ==
  /\ \E s \in up : up' = up \ {s}
  /\ UNCHANGED <<setup, graph, staged, emitted, act, now, issued, history>>

Tick ==
  /\ now + Pace <= MaxTime /\ now' = now + Pace
  /\ UNCHANGED <<setup, graph, host, emitted, act, issued, history>>

Advance(h) == StageProfile(h) \/ DevcontainerUp(h) \/ Probe(h) \/ AttestProbes(h) \/ Stamp(h)
              \/ WriteFile(h) \/ StampPath(h)

Next ==
  \/ \E h \in Handlers, c \in Callers, r \in Raw : Request(h, c, r) \/ RequestRefused(h, c, r)
  \/ \E h \in Handlers, c \in Callers, found \in BOOLEAN : EmitArtifact(h, c, found)
  \/ \E h \in Handlers : Advance(h)
  \/ ContainerStops
  \/ Tick

\* Every command has a timeout (30 s to 5 min) and the graph request ends, so a
\* handler goes on.
Spec == Init /\ [][Next]_vars /\ \A h \in Handlers : WF_vars(Advance(h))
-----------------------------------------------------------------------------
Steps == {"idle", "stage", "up", "probe", "stamp", "write", "path", "done"}

\* Types; a handler that has an attestation to stamp has an entity to stamp it on,
\* and the attestation is about the request it is serving.
TypeOK ==
  /\ now \in 1..MaxTime /\ issued \in 0..MaxRequests
  /\ \A h \in Handlers :
       /\ act[h].step \in Steps /\ act[h].reply \in {None, "attestation", "artifact", "error"}
       /\ Busy(h) => act[h].entity # None
       /\ (act[h].step = "stamp") => act[h].att.signature = Signature(h)
  /\ \A e \in DOMAIN graph : graph[e] = Unstamped \/ graph[e].signature # None

ProfileOf(s) == CHOOSE p \in Range(setup.catalog) : p.id = s[1]

\* Nothing is written to the host for a request beyond what profile and operator
\* allow, whatever the manager's route to that decision: no privilege (each needs
\* a review that no code path grants), only the profile's networks, the public one
\* only by policy, and only secrets that are provisioned and exported.  Secrets are
\* compared by the lower-case names that Normalize has made of them before
\* AdmissionCheck runs (manager.go 209, 217), so a policy that writes an upper-case
\* name as the agent does denies it and a lower-case entry admits it, where
\* admission.go 174-180 says that case matters the other way round.
HostWithinPolicy ==
  /\ TypeOK
  /\ \A s \in staged \cup up :
       /\ s[2].privileges = {}
       /\ s[2].network \in ProfileOf(s).networks
       /\ s[2].network = "public" => setup.policy.public
       /\ s[2].secrets \subseteq (setup.policy.secrets \cap setup.env)

\* MatchProfile against its reference: a container offers every capability asked
\* for, and no profile that also does offers fewer in total.
TightestProfile ==
  \A s \in staged : LET offers == ProfileOf(s).adv IN
    /\ s[2].caps \subseteq offers
    /\ \A p \in Range(setup.catalog) :
         s[2].caps \subseteq p.adv => Cardinality(offers) <= Cardinality(p.adv)

\* Commands and artifacts are sent into a workspace only if every probe of the
\* request that made it had passed there: ready and folder on an entity come from
\* one attestation, in any order of concurrent requests, stamps and lost replies.
RoutedIntoProven ==
  setup.runner # "mock" =>
    \A f \in written \cup ({resolveWorkspaceFolder(c) : c \in Callers} \ {None}) :
      f \in staged /\ \E t \in 1..now : <<f, t>> \in proven

\* A recorded artifact is where the reviewer's commands look: the writer and the
\* router, which find their workspaces by different ids, choose the same one,
\* unless the lookup failed or the run was attested again since.
ArtifactWhereBashLooks ==
  \A a \in artifacts :
    \/ a.folder = resolveWorkspaceFolder(a.caller)
    \/ ~a.found
    \/ batches[BashEntity(a.caller)] # a.known

\* The verdict a query finds is one that a request with the same meaning stamped
\* on this entity, and it is called fresh only within the profile's TTL of it, or
\* the default if it has none: the conversion to whole seconds shortens a TTL and
\* never lengthens one, but for a TTL below a second, which becomes the default.
Verdict(a) == <<a.signature, a.admission, a.ready, a.degraded, a.terminal, a.at>>
LookupTrue ==
  \A e \in DOMAIN graph, r \in Raw \ {None} :
    LET l == Lookup(graph[e], r, setup.catalog, now) IN
      l.found => \E a \in applied[e] :
        /\ Verdict(a) = Verdict(l.attestation)
        /\ a.signature[2] = Normalize(r)
        /\ LET p == ProfileOf(a.signature) IN
           l.fresh /\ (p.ttl = 0 \/ p.ttl >= Second) => now - a.at < ResolvedTTL(p)
=============================================================================
