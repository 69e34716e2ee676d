---------------------------- MODULE EmitArtifact ----------------------------
(***************************************************************************)
(* cmd/semteams/tools/emitartifact: emit_research_artifact.  The tool      *)
(* checks every citation of a draft against the tool results of the same   *)
(* research run, renders the file, appends the marker triples to the loop  *)
(* entity one by one, publishes the payload and commits the github_read    *)
(* cursors of the run (module GithubRead).                                 *)
(*                                                                         *)
(* The check reads the graph and the trajectory, which only grow, so it is *)
(* one step.  A loop runs one emission at a time.                          *)
(***************************************************************************)
EXTENDS GithubRead, EvidenceCheck

CONSTANTS
  Graph,      \* loop -> the triples of its entity
  IdPrefix,   \* loop -> the first 8 characters of its id
  Within,     \* <<r, g>>: the name of repository r is part of the name g
  Scenarios   \* name -> what the loops of a behaviour read, know and write

ASSUME EmitConstantsOK ==
  \A n \in DOMAIN Scenarios :
    /\ \A f \in Scenarios[n].facts : f.loop \in Loops
    /\ \A q \in Scenarios[n].requests : q.kinds \subseteq Kinds /\ q.all \in BOOLEAN
    /\ Scenarios[n].readers \subseteq Loops

VARIABLES
  scenario,
  emits,      \* loop -> its emission in progress
  markers,    \* loop -> predicate -> the artifact its last triple describes
  files,      \* slug -> [loop, artifact] in the output directory
  payloads,   \* published [loop, artifact, facts]
  answers,    \* loop -> the last answer of the tool
  passes

emitVars == <<scenario, emits, markers, files, payloads, answers, passes>>
vars == <<githubVars, emitVars>>

NoTitle == <<None>>   \* a title is the words of its slug
NoArtifact == [revision |-> 0, claims |-> {}, harness |-> FALSE, needsHarness |-> FALSE,
               gaps |-> {}, title |-> NoTitle]
NoEmission == [step |-> "none", artifact |-> NoArtifact, facts |-> {}, marks |-> <<>>, keys |-> {}]
NoAnswer == [kind |-> "none", artifact |-> NoArtifact]

Scripts == [n \in DOMAIN Scenarios |-> Scenarios[n]]
Script == Scripts[scenario]

Citations(a) == UNION a.claims
Refs(a) == {ev.ref : ev \in Citations(a)}

\* What a world may hold.  A tool on the list of a channel retrieves from that
\* channel, unless it is a shell command on local files; only web_search answers in
\* blocks, and what is neither a list nor an envelope is one text.
ReadsLocally(res) == res.tool = "bash" /\ res.command.local
LocatorOK(t) == DOMAIN t = {"scheme", "doc", "dressed"}
ResultOK(res) ==
  /\ \A c \in {"github", "web", "semsource"} :
       checkAllowedRetrievalTool([channel |-> c], res) => c \in res.retrieves \/ ReadsLocally(res)
  /\ res.shape \in {"records", "items", "blocks", "plain"}
  /\ res.shape = "blocks" => res.tool = "web_search"
  /\ res.shape = "plain" => \A i, j \in res.items : i = j
  /\ \A text \in res.items \cup {res.args} : \A t \in text.locs : LocatorOK(t)
DraftOK(a) ==
  /\ DOMAIN a = DOMAIN NoArtifact /\ a.revision \in Int
  /\ \A ev \in Citations(a) :
       /\ DOMAIN ev = {"channel", "loc", "origin", "class", "quote", "ref", "revision",
                       "retrieved", "kind"}
       /\ LocatorOK(ev.loc)

\* A call that carries a run anchor carries the run its entity names; a loop that
\* belongs to a plan has no other plan revision than the plan's.
LoopOK(l) ==
  /\ Anchor[l] # None => Graph[l].run = Anchor[l]
  /\ Graph[l].revision \in Nat
  /\ Graph[l].plan # None =>
       /\ Graph[l].plan \in Loops
       /\ Graph[l].revision \in {0, Graph[Graph[l].plan].revision}

ASSUME EvidenceConstantsOK ==
  /\ \A l \in Loops : LoopOK(l)
  /\ \A n \in DOMAIN Scenarios :
       /\ \A f \in Scenarios[n].facts : ResultOK(f.result)
       /\ \A l \in Loops : \A a \in Scenarios[n].drafts[l] : DraftOK(a)

(***************************************************************************)
(* Which tool result a reference means                                     *)
(***************************************************************************)

\* A completed github_read call leaves its reply in the trajectory.
ReplyFact(r) ==
  [loop |-> r.loop, id |-> r.id, correlated |-> TRUE, intact |-> TRUE,
   result |-> [tool |-> "github_read", failed |-> FALSE, retrieves |-> {"github"},
               args |-> [locs |-> {}, quotes |-> {}],
               shape |-> IF r.records = {} THEN "plain" ELSE "records",
               items |-> {[locs |-> {recordLocator(x[1], x[2])}, quotes |-> recordBody(x[3]),
                           kind |-> recordKind[x[1][2]]] : x \in r.records},
               failures |-> r.failures]]
Facts == Script.facts \cup {ReplyFact(r) : r \in replies}

resolveCallerRun(l) == IF Anchor[l] # None THEN Anchor[l] ELSE Graph[l].run

\* Mutant: the run is that of the call metadata alone.
MetaOnly_belongsToCallerRun(l, p) == p = l \/ (Anchor[l] # None /\ Graph[p].run = Anchor[l])

belongsToCallerRun(l, p) ==
  p = l \/ (resolveCallerRun(l) # None /\ Graph[p].run = resolveCallerRun(l))

\* Synthesis loops lead to their plan and to the synthesis before them, plans
\* to their gather loops and to the synthesis they replan.
discoverRunLoopIDs(l) ==
  LET seed == [plans |-> {x[2] : x \in {y \in Graph[l].related : y[1]}},
               synths |-> {l} \cup {x[2] : x \in {y \in Graph[l].related : ~y[1]}}]
      reach[n \in Nat] ==
        IF n = 0 THEN seed
        ELSE LET r == reach[n - 1]
             IN [plans |-> r.plans \cup ({Graph[x].plan : x \in r.synths} \ {None}),
                 synths |-> r.synths \cup
                            ({Graph[x].prior : x \in r.synths \cup r.plans} \ {None})]
      all == reach[2 * Cardinality(Loops)]
  IN ({l, resolveCallerRun(l)} \cap Loops) \cup all.synths \cup all.plans
       \cup UNION {Graph[p].gathers : p \in all.plans}

\* A loop named in the reference is checked before it is read.
foreignHint(l, ref) == ref.hint # None /\ ~belongsToCallerRun(l, ref.hint)

scanned(l, ref) == IF ref.hint # None THEN {ref.hint} ELSE discoverRunLoopIDs(l)

\* A fact is fetched when its correlation matches, or when it has none ...
fetchedFacts(l, ref) ==
  {f \in Facts : f.loop \in scanned(l, ref) /\ (f.correlated => f.id = ref.id)}

\* ... and one that cannot be read, or fails its digest, ends the search.
corruptFact(l, ref) == \E f \in fetchedFacts(l, ref) : ~f.intact

\* The calling loop is scanned first.
candidates(l, ref) ==
  LET found == {f \in fetchedFacts(l, ref) : f.id = ref.id /\ belongsToCallerRun(l, f.loop)}
      own == {f \in found : f.loop = l}
  IN IF own # {} THEN own ELSE found

\* The round a loop belongs to, 0 if its entity does not say.
resolveProducerLoopRevision(p) ==
  IF Graph[p].revision > 0 THEN Graph[p].revision
  ELSE IF markers[p]["revision"].revision > 0 THEN markers[p]["revision"].revision
  ELSE IF Graph[p].plan # None THEN Graph[Graph[p].plan].revision
  ELSE 0

(***************************************************************************)
(* The check of a draft                                                    *)
(***************************************************************************)

NoFact == [loop |-> None, id |-> 0]
Resolved(f) ==
  [tool |-> f.result.tool, failed |-> f.result.failed, args |-> f.result.args,
   command |-> IF f.result.tool = "bash" THEN f.result.command ELSE <<>>,
   shape |-> f.result.shape, items |-> f.result.items,
   revision |-> resolveProducerLoopRevision(f.loop)]

\* One resolution per reference: the first one is cached.
resolutions(l, a) ==
  LET options(ref) == IF candidates(l, ref) = {} THEN {NoFact} ELSE candidates(l, ref)
  IN {p \in [Refs(a) -> UNION {options(ref) : ref \in Refs(a)}] :
        \A ref \in Refs(a) : p[ref] \in options(ref)}

citationError(l, ev, pick) ==
  IF foreignHint(l, ev.ref) THEN "invalid_args"
  ELSE IF corruptFact(l, ev.ref) THEN "internal"
  ELSE IF pick[ev.ref] = NoFact \/ ~verifyCitation(ev, Resolved(pick[ev.ref])) THEN "invalid_args"
  ELSE "none"

\* A gap is the repository its text names.  Its text contains the name of another
\* one when that name is part of it: "acme/app" is part of "acme/app-server".
openGapsDiscloseRepository(gaps, r) == \E g \in gaps : g = r \/ <<r, g>> \in Within

\* Whatever tool reported the failures.
openGapsDisclose(a, f) ==
  \A r \in f.result.failures : openGapsDiscloseRepository(a.gaps, r)

stamped(a, pick) ==
  [a EXCEPT !.claims = {{stampCitation(ev, Resolved(pick[ev.ref])) : ev \in c} : c \in @}]

\* The answers the check may give; the citations are checked in some order.
verifyDerivation(l, a) ==
  {[kind |-> "network", artifact |-> a, facts |-> {}] : ref \in Refs(a)} \cup
  UNION {
    LET errors == {citationError(l, ev, pick) : ev \in Citations(a)} \ {"none"}
        facts == {pick[ref] : ref \in Refs(a)}
    IN IF errors # {} THEN {[kind |-> e, artifact |-> a, facts |-> {}] : e \in errors}
       ELSE IF /\ \A f \in facts : openGapsDisclose(a, f)
               /\ Validate(stamped(a, pick))
            THEN {[kind |-> "ok", artifact |-> stamped(a, pick), facts |-> facts]}
            ELSE {[kind |-> "invalid_args", artifact |-> a, facts |-> {}]}
    : pick \in resolutions(l, a)}

(***************************************************************************)
(* Execute                                                                 *)
(***************************************************************************)

answer(l, kind) ==
  /\ answers' = [answers EXCEPT ![l] = [kind |-> kind, artifact |-> emits[l].artifact]]
  /\ emits' = [emits EXCEPT ![l] = NoEmission]

\* "counts" stands for the five counts, the mutation count and produced-at.
buildTriples(a) ==
  IF a.harness THEN <<"revision", "counts", "test-harness">> ELSE <<"revision", "counts">>

Emit(l, draft) ==
  LET a == PopulateCitationDefaults(draft)
  IN /\ emits[l] = NoEmission /\ passes' = passes + 1
     /\ \E v \in IF Validate(a) THEN verifyDerivation(l, a)
                 ELSE {[kind |-> "invalid_args", artifact |-> a, facts |-> {}]} :
          IF v.kind = "ok"
          THEN /\ emits' = [emits EXCEPT ![l] =
                    [step |-> "render", artifact |-> v.artifact, facts |-> v.facts,
                     marks |-> Append(buildTriples(v.artifact), "path"), keys |-> {}]]
               /\ answers' = [answers EXCEPT ![l] = NoAnswer]
          ELSE /\ answers' = [answers EXCEPT ![l] = [kind |-> v.kind, artifact |-> draft]]
               /\ UNCHANGED emits
     /\ UNCHANGED <<githubVars, scenario, markers, files, payloads>>

\* The start of the loop's id is added to an absent title, not to one without a
\* letter or digit of ASCII.  All loops of a kind may have it in common.
DeriveDated(title, l) ==
  CASE title = NoTitle -> <<"research", IdPrefix[l]>>
    [] title = <<>> -> <<"research">>
    [] OTHER -> title

renderMarkdown(l, ok) ==
  LET a == emits[l].artifact
      slug == DeriveDated(a.title, l)
  IN /\ emits[l].step = "render"
     /\ IF ok
        THEN /\ files' = [s \in DOMAIN files \cup {slug} |->
                            IF s = slug THEN [loop |-> l, artifact |-> a] ELSE files[s]]
             /\ emits' = [emits EXCEPT ![l].step = "mark"]
             /\ UNCHANGED answers
        ELSE answer(l, "internal") /\ UNCHANGED files
     /\ UNCHANGED <<githubVars, scenario, markers, payloads, passes>>

\* Mutant: a failed append is skipped.
Skip_AppendTriple(l, ok) ==
  LET e == emits[l]
  IN /\ e.step = "mark"
     /\ markers' = IF ok THEN [markers EXCEPT ![l][Head(e.marks)] = e.artifact] ELSE markers
     /\ emits' = [emits EXCEPT ![l].marks = Tail(@),
                               ![l].step = IF Len(e.marks) = 1 THEN "publish" ELSE "mark"]
     /\ UNCHANGED <<githubVars, scenario, files, payloads, answers, passes>>

\* One triple at a time; the first failure ends the emission.
AppendTriple(l, ok) ==
  LET e == emits[l]
  IN /\ e.step = "mark"
     /\ IF ok
        THEN /\ markers' = [markers EXCEPT ![l][Head(e.marks)] = e.artifact]
             /\ emits' = [emits EXCEPT ![l].marks = Tail(@),
                            ![l].step = IF Len(e.marks) = 1 THEN "publish" ELSE "mark"]
             /\ UNCHANGED answers
        ELSE answer(l, "network") /\ UNCHANGED markers
     /\ UNCHANGED <<githubVars, scenario, files, payloads, passes>>

\* The run anchor, the calling loop and the loops that were cited.
commitKeys(l, facts) == ({Anchor[l]} \ {None}) \cup {l} \cup {f.loop : f \in facts}

Publish(l, ok) ==
  LET e == emits[l]
  IN /\ e.step = "publish"
     /\ IF ok
        THEN /\ payloads' = payloads \cup {[loop |-> l, artifact |-> e.artifact,
                                            facts |-> e.facts]}
             /\ emits' = [emits EXCEPT ![l].step = "commit", ![l].keys = commitKeys(l, e.facts)]
             /\ UNCHANGED answers
        ELSE answer(l, "network") /\ UNCHANGED payloads
     /\ UNCHANGED <<githubVars, scenario, markers, files, passes>>

\* One key at a time, each under the lock of the store.
commitRunCursors(l, k, flushed) ==
  LET e == emits[l]
  IN /\ e.step = "commit" /\ k \in e.keys
     /\ Anchor[l] \in e.keys => k = Anchor[l]
     /\ flushed \/ StagedFor(k) # {}
     /\ commitRun(k)
     /\ IF StagedFor(k) # {} THEN flush(flushed) ELSE UNCHANGED disk
     /\ IF ~flushed THEN answer(l, "internal")
        ELSE IF e.keys = {k} THEN answer(l, "ok")
        ELSE emits' = [emits EXCEPT ![l].keys = @ \ {k}] /\ UNCHANGED answers
     /\ UNCHANGED <<world, calls, replies, fetched, cut, crashes>>
     /\ UNCHANGED <<scenario, markers, files, payloads, passes>>

\* An artifact that quotes an item of a github_read reply.
Quoting(r, hint, gaps, loc, quote) ==
  [NoArtifact EXCEPT
     !.revision = 1, !.needsHarness = TRUE, !.gaps = gaps,
     !.claims = {{EvidenceRecord("github", loc, quote, [hint |-> hint, id |-> r.id])}}]
\* The gaps it discloses: none, those of the reply, or the other repositories.
GapsTold(r) == {{}, r.failures, {s[1] : s \in Streams} \ r.failures}
QuotingDrafts(r) ==
  {Quoting(r, hint, gaps, loc, quote) :
     hint \in {None, r.loop}, gaps \in GapsTold(r),
     loc \in UNION {i.locs : i \in ReplyFact(r).result.items},
     quote \in UNION {i.quotes : i \in ReplyFact(r).result.items}}

\* What a loop may write: its drafts, or an item of a reply.
Drafts(l) ==
  Script.drafts[l] \cup UNION {QuotingDrafts(r) : r \in {r \in replies : l \in Script.citers}}

Init ==
  /\ GithubInit
  /\ scenario \in DOMAIN Scenarios
  /\ emits = [l \in Loops |-> NoEmission]
  /\ markers = [l \in Loops |-> [p \in {"revision", "counts", "test-harness", "path"} |->
                                   NoArtifact]]
  /\ files = [s \in {} |-> NoEmission]
  /\ payloads = {} /\ passes = 0
  /\ answers = [l \in Loops |-> NoAnswer]

Next ==
  \/ /\ \/ GithubStep
        \/ \E x \in Script.active : Newest(x[1][1]) < Script.versions /\ Activity(x[1], x[2])
     /\ UNCHANGED emitVars
  \/ /\ Cardinality(replies) < Script.replies
     /\ \E l \in Script.readers, q \in Script.requests : Call(l, q.filter, q.kinds, q.all)
     /\ UNCHANGED emitVars
  \/ passes < Script.passes /\ \E l \in Loops : \E draft \in Drafts(l) : Emit(l, draft)
  \/ \E l \in Loops, ok \in BOOLEAN : renderMarkdown(l, ok) \/ AppendTriple(l, ok) \/ Publish(l, ok)
  \/ \E l \in Loops : \E k \in emits[l].keys, ok \in BOOLEAN : commitRunCursors(l, k, ok)
  \/ /\ crashes < Script.crashes
     /\ Restart /\ emits' = [l \in Loops |-> NoEmission]
     /\ UNCHANGED <<scenario, markers, files, payloads, answers, passes>>

Spec == Init /\ [][Next]_vars

(***************************************************************************)
(* Properties                                                              *)
(***************************************************************************)

TypeOK ==
  /\ entries \in [Streams -> CursorEntry] /\ disk \in [Streams -> CursorEntry]
  /\ DOMAIN staged \subseteq Loops \X Streams
  /\ \A x \in DOMAIN staged : {staged[x].baseline, staged[x].next} \subseteq CursorEntry
  /\ loopToRun \in [Loops -> Loops \cup {None}]
  /\ \A l \in Loops :
       /\ calls[l].todo \subseteq Streams /\ calls[l].at \in Streams \cup {None}
       /\ emits[l].step \in {"none", "render", "mark", "publish", "commit"}
       /\ emits[l].keys \subseteq Loops
       /\ answers[l].kind \in {"none", "ok", "invalid_args", "network", "internal"}

\* What the run really retrieved: a result of the same run that the reference
\* can mean, in which one item holds the document and the quote, obtained from the
\* outside, and the round it was retrieved in.
Round(p) == IF Graph[p].plan # None THEN Graph[Graph[p].plan].revision ELSE Graph[p].revision
SameRun(l, p) == p = l \/ (Graph[l].run # None /\ Graph[p].run = Graph[l].run)
Means(l, ref) ==
  {f \in Facts : f.id = ref.id /\ ref.hint \in {None, f.loop} /\ SameRun(l, f.loop)}
Holds(f, ev) ==
  /\ ~f.result.failed
  /\ ev.quote \notin f.result.args.quotes
  /\ \E i \in f.result.items :
       /\ ev.quote \in i.quotes
       /\ \E loc \in i.locs \cup (IF f.result.shape = "plain" THEN f.result.args.locs ELSE {}) :
            loc.doc = ev.loc.doc
Retrieved(f, ev) == ev.channel \in f.result.retrieves
InRound(f, ev) == Round(f.loop) \in {0, ev.revision}

\* A loop that has emitted itself counts to the round its own artifact names.
HasEmitted(p) == markers[p]["revision"].revision > 0
Derived(l, ev) ==
  \E f \in Means(l, ev.ref) :
    /\ Holds(f, ev)
    /\ Retrieved(f, ev) \/ ReadsLocally(f.result)
    /\ InRound(f, ev) \/ HasEmitted(f.loop)

\* Everything that is published is backed by the run: each citation quotes a
\* document in one item of a result of the same research run and of the round it
\* names, as far as the producing loop has not named a round itself.  A tool
\* retrieved that result, unless it is a shell command that read local files.  Each
\* repository that a cited result could not reach is named in the open gaps, unless
\* they name one whose name contains its name.
PublishedIsDerived ==
  /\ TypeOK
  /\ \A p \in payloads :
       /\ \A ev \in Citations(p.artifact) : Derived(p.loop, ev)
       /\ \A f \in p.facts : \A r \in f.result.failures :
            (\A g \in p.artifact.gaps : <<r, g>> \notin Within) => r \in p.artifact.gaps

\* What a world must be for every refusal to have a cause.  The lists of tools are
\* complete for what was retrieved, web_search answers in blocks, an envelope has
\* its records under their canonical locators, and a document that is cited is
\* named in the results as in the citation, up to normalisation.
Judgeable(res) ==
  /\ \A c \in res.retrieves : checkAllowedRetrievalTool([channel |-> c], res)
  /\ res.tool = "web_search" => res.shape = "blocks"
  /\ res.shape = "records" =>
       \A i \in res.items : \A t \in i.locs, c \in res.retrieves : NormalizeOriginID(c, t) = t
NamedAlike(res, ev) ==
  \A text \in res.items \cup {res.args} : \A t \in text.locs :
    LET canonical == NormalizeOriginID(ev.channel, ev.loc)
    IN ev.channel \in res.retrieves /\ t.doc = ev.loc.doc /\ canonical # NoLocator =>
         NormalizeOriginID(ev.channel, t) = canonical

ASSUME RefusalConstantsOK ==
  \A n \in DOMAIN Scenarios : \A f \in Scenarios[n].facts :
    /\ Judgeable(f.result)
    /\ \A l \in Loops : \A a \in Scenarios[n].drafts[l] : \A ev \in Citations(a) :
         NamedAlike(f.result, ev)

\* From every loop that writes, the graph leads to the loops of the rounds it cites.
RoundsReached ==
  \A n \in DOMAIN Scenarios, l \in Loops :
    \A a \in Scenarios[n].drafts[l] : \A ev \in Citations(a), p \in Loops :
      SameRun(l, p) /\ Round(p) \in {0, ev.revision} => p \in discoverRunLoopIDs(l)

\* A draft that was refused as invalid is malformed, or has a citation that is
\* missing, misquoted or of another round, or a gap it does not disclose.  Left
\* out are references that mean two results, revisions left to the default, and
\* results of a loop whose own artifact names another round than its plan.
HasCause(l, draft) ==
  LET a == PopulateCitationDefaults(draft)
  IN \/ ~Validate(a)
     \/ \E ev \in Citations(draft) :
          \/ ev.revision = 0 \/ ev.kind # NoKind
          \/ \E f, g \in Means(l, ev.ref) : f # g
          \/ ~\E f \in Means(l, ev.ref) : Holds(f, ev) /\ Retrieved(f, ev) /\ InRound(f, ev)
          \/ \E f \in Means(l, ev.ref) :
               HasEmitted(f.loop) /\ markers[f.loop]["revision"].revision # Round(f.loop)
          \/ \E f \in Means(l, ev.ref) : ~(f.result.failures \subseteq a.gaps)

\* The tool never blames the model for what it did not do: an artifact refused
\* as invalid has a cause for it.
BlamedForCause ==
  [][\A l \in Loops :
       answers'[l] # answers[l] /\ answers'[l].kind = "invalid_args" =>
         HasCause(l, answers'[l].artifact)]_vars

\* A success is whole: the markers and the payload are those of the artifact,
\* whatever failed in earlier attempts, and so is the file the path marker leads
\* to, unless another loop with a file of that name has written it over.
OkMeansWhole ==
  \A l \in Loops :
    LET a == answers[l].artifact
        slug == DeriveDated(a.title, l)
    IN answers[l].kind = "ok" =>
         /\ \A p \in {"revision", "counts", "path"} : markers[l][p] = a
         /\ a.harness => markers[l]["test-harness"] = a
         /\ \E p \in payloads : p.loop = l /\ p.artifact = a
         /\ slug \in DOMAIN files
         /\ files[slug].loop = l => files[slug].artifact = a

\* A version is marked as seen, in memory or on disk, only when a run that
\* read it has published.  Crashes and runs that never publish leave their
\* deltas to the next run.
SeenWasPublished ==
  \A s \in Streams, i \in Items : \A v \in {entries[s].seen[i], disk[s].seen[i]} \ {0} :
    \E p \in payloads, l \in Loops :
      /\ l \in {p.loop} \cup {f.loop : f \in p.facts} \cup ({Anchor[p.loop]} \ {None})
      /\ <<resolveRunScopeKey(l), s, i, v>> \in fetched

\* Activity is lost only with a call: a version marked as seen was reported to
\* a loop, or is about to be, or belongs to a call that a failed flush, an invalid
\* record or a crash ended after it had staged the version.
LostOnlyWithCall ==
  \A s \in Streams, i \in Items :
    LET record == <<s, i, entries[s].seen[i]>>
    IN record[3] > 0 => \/ \E r \in replies : record \in r.records
                        \/ \E l \in Loops : record \in calls[l].got
                        \/ record \in cut
=============================================================================
