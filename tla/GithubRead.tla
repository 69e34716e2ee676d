----------------------------- MODULE GithubRead -----------------------------
(***************************************************************************)
(* cmd/semteams/tools/githubread: the github_read tool and its cursors.    *)
(* A stream is a repository and a kind of activity.  A read reports the    *)
(* items whose version the stream's cursor has not seen and stages the     *)
(* advanced cursor under the caller's run; emit_research_artifact commits  *)
(* the staged cursors of a run (module EmitArtifact).  The store is a map  *)
(* in memory with a JSON file behind it.                                   *)
(*                                                                         *)
(* An item's version is the time of its last activity: it stands for       *)
(* VersionDigest.  The watermark is the largest version in seen; the times *)
(* of the last check and the last commit are not modelled.                 *)
(***************************************************************************)
EXTENDS Integers, Sequences, FiniteSetsExt, Functions

CONSTANTS
  Portfolio,  \* the configured [program, project, repo, board] entries
  Kinds,      \* the activity kinds of the instance
  Items,      \* issues, pull requests, ... of a stream
  Loops,      \* agent loops
  Anchor,     \* loop -> the run in its call metadata, or None
  None,
  Limit,      \* items returned per stream
  MaxVersion  \* bound on the activity of a stream

AllKinds == {"issues", "pull_requests", "releases", "commits", "ci_status"}

\* Portfolio.Validate: a project belongs to one program and lists a repository
\* once; wherever a repository is listed, its board is the same.
ValidPortfolio ==
  \A e, f \in Portfolio :
    /\ e.project = f.project => e.program = f.program
    /\ e.repo = f.repo => e.board = f.board

\* A run anchor is the loop id of the root of the run.
ASSUME GithubConstantsOK ==
  /\ ValidPortfolio /\ Kinds \subseteq AllKinds
  /\ Limit \in Nat \ {0} /\ MaxVersion \in Nat
  /\ None \notin Loops /\ Anchor \in [Loops -> Loops \cup {None}]
  /\ \A l \in Loops : Anchor[l] # None => Anchor[Anchor[l]] \in {None, Anchor[l]}

VARIABLES
  world,      \* GitHub: stream -> item -> version, 0 before it exists
  entries,    \* committed cursors in memory: stream -> entry
  disk,       \* committed cursors in the file
  staged,     \* <<run key, stream>> -> staged cursor
  loopToRun,  \* loop -> run key under which it staged
  calls,      \* loop -> its github_read call in progress
  replies,    \* replies of github_read that reached their loops
  fetched,    \* <<run key, stream, item, version>> that a read staged
  cut,        \* records of calls that ended before they could reply
  crashes

githubVars == <<world, entries, disk, staged, loopToRun, calls, replies, fetched, cut, crashes>>

Streams == {e.repo : e \in Portfolio} \X Kinds
Fresh == [seen |-> [i \in Items |-> 0], baseline |-> FALSE]
Idle == [todo |-> {}, at |-> None, prev |-> Fresh, items |-> [i \in {} |-> 0],
         got |-> {}, failed |-> {}, ok |-> FALSE, all |-> FALSE]

\* VersionDigests per origin, and whether the stream is onboarded.
CursorEntry == [seen : [Items -> 0..MaxVersion], baseline : BOOLEAN]

GithubInit ==
  /\ world = [s \in Streams |-> [i \in Items |-> 0]]
  /\ entries = [s \in Streams |-> Fresh]
  /\ disk = entries
  /\ staged = [x \in {} |-> Fresh]
  /\ loopToRun = [l \in Loops |-> None]
  /\ calls = [l \in Loops |-> Idle]
  /\ replies = {} /\ fetched = {} /\ cut = {} /\ crashes = 0

(***************************************************************************)
(* GitHub and the client                                                   *)
(***************************************************************************)

\* The time of the last activity of a repository.
Newest(r) == Max({world[<<r, k>>][j] : k \in Kinds, j \in Items})

\* An item is created or changes.
Activity(s, i) ==
  LET now == 1 + Newest(s[1])
  IN /\ now \in 1..MaxVersion
     /\ world' = [world EXCEPT ![s][i] = now]
     /\ UNCHANGED <<entries, disk, staged, loopToRun, calls, replies, fetched, cut, crashes>>

\* GET .../issues answers issues and pull requests alike, the newest first: the
\* pull requests of a page of 2 * Limit are dropped, whatever is left of it.
ListIssues(r) ==
  LET here == {<<r, k>> : k \in Kinds \cap {"issues", "pull_requests"}}
      newer(i) == {x \in here \X Items : world[x[1]][x[2]] > world[<<r, "issues">>][i]}
      page == {i \in Items : /\ world[<<r, "issues">>][i] > 0
                             /\ Cardinality(newer(i)) < 2 * Limit}
  IN {i \in page : Cardinality({j \in page : <<<<r, "issues">>, j>> \in newer(i)}) < Limit}

\* The other lists are of one kind.  The since parameter is never set.
ListRecent(s) ==
  {i \in Items : /\ world[s][i] > 0
                 /\ Cardinality({j \in Items : world[s][j] > world[s][i]}) < Limit}

fetchKind(s) ==
  [i \in IF s[2] = "issues" THEN ListIssues(s[1]) ELSE ListRecent(s) |-> world[s][i]]

\* The locator of a record, and its body: the item as it was at that version.
recordLocator(s, i) == [scheme |-> "github", doc |-> <<s[1], s[2], i>>, dressed |-> FALSE]
recordBody(v) == {<<"v", v>>}
recordKind ==
  [issues |-> "issue", pull_requests |-> "pull_request", releases |-> "release",
   commits |-> "commit", ci_status |-> "ci_status"]

(***************************************************************************)
(* The request                                                             *)
(***************************************************************************)

\* Filters are conjunctive; a filter that matches nothing is an error.
ResolveRepositories(filter) ==
  {e.repo : e \in {e \in Portfolio : \A f \in DOMAIN filter : e[f] = filter[f]}}

\* The run anchor of the call, or its loop.  (Nothing in the repository sets the
\* pulse_run_id that would come between them.)
resolveRunScopeKey(l) == IF Anchor[l] # None THEN Anchor[l] ELSE l

\* No kinds, or an empty list of them, means all.
parseKinds(kinds) == IF kinds = {} THEN Kinds ELSE kinds

\* The streams to read.  A request refused for its arguments changes nothing.
parseExecuteRequest(filter, kinds) ==
  IF kinds \subseteq AllKinds THEN ResolveRepositories(filter) \X parseKinds(kinds) ELSE {}

Call(l, filter, kinds, all) ==
  LET targets == parseExecuteRequest(filter, kinds)
  IN /\ calls[l] = Idle
     /\ targets # {}
     /\ calls' = [calls EXCEPT ![l] = [Idle EXCEPT !.todo = targets, !.all = all]]
     /\ UNCHANGED <<world, entries, disk, staged, loopToRun, replies, fetched, cut, crashes>>

(***************************************************************************)
(* The cursor store                                                        *)
(***************************************************************************)

\* Within a run, a stream keeps the committed cursor its first staging met.
GetForRun(k, s) ==
  IF <<k, s>> \in DOMAIN staged THEN staged[<<k, s>>].baseline ELSE entries[s]

applyCursorUpdate(prev, next, hasNew) ==
  IF ~prev.baseline \/ hasNew THEN [next EXCEPT !.baseline = TRUE] ELSE prev

\* Mutant: the advanced cursor is stored at once.
Eager_stageForRun(k, l, s, next, hasNew) ==
  /\ entries' = [entries EXCEPT ![s] = applyCursorUpdate(entries[s], next, hasNew)]
  /\ UNCHANGED <<staged, loopToRun>>

\* The committed entry of an onboarded stream only gets a new time of check.
stageForRun(k, l, s, next, hasNew) ==
  /\ staged' = [x \in DOMAIN staged \cup {<<k, s>>} |->
                  IF x # <<k, s>> THEN staged[x]
                  ELSE [baseline |-> IF x \in DOMAIN staged THEN staged[x].baseline
                                     ELSE entries[s],
                        next |-> next, hasNew |-> hasNew]]
  /\ loopToRun' = [loopToRun EXCEPT ![l] = k]
  /\ UNCHANGED entries

Target(k) == IF k \in Loops /\ loopToRun[k] # None THEN loopToRun[k] ELSE k
StagedFor(k) == {x \in DOMAIN staged : x[1] = Target(k)}

\* The staged cursor replaces the committed one; nothing is merged.
commitRun(k) ==
  /\ entries' = [s \in Streams |->
       IF <<Target(k), s>> \in DOMAIN staged
       THEN applyCursorUpdate(entries[s], staged[<<Target(k), s>>].next,
                              staged[<<Target(k), s>>].hasNew)
       ELSE entries[s]]
  /\ staged' = Restrict(staged, DOMAIN staged \ StagedFor(k))
  /\ loopToRun' = [l \in Loops |->
       IF StagedFor(k) # {} /\ loopToRun[l] = Target(k) THEN None ELSE loopToRun[l]]

\* A temporary file renamed over the old one: all or nothing.
flush(ok) == disk' = IF ok THEN entries' ELSE disk

(***************************************************************************)
(* The loop over the streams of a call                                     *)
(***************************************************************************)

\* executeRepoKind: the cursor and the page are read ...
Fetch(l, s) ==
  /\ calls[l].at = None /\ s \in calls[l].todo
  /\ calls' = [calls EXCEPT ![l].at = s, ![l].items = fetchKind(s),
                            ![l].prev = GetForRun(resolveRunScopeKey(l), s)]
  /\ UNCHANGED <<world, entries, disk, staged, loopToRun, replies, fetched, cut, crashes>>

\* ... or the request fails, which is reported next to the other streams.
FetchFails(l, s) ==
  /\ calls[l].at = None /\ s \in calls[l].todo
  /\ calls' = [calls EXCEPT ![l].todo = @ \ {s}, ![l].failed = @ \cup {s}]
  /\ UNCHANGED <<world, entries, disk, staged, loopToRun, replies, fetched, cut, crashes>>

\* A record that fails ValidateToolResult ends the call: what it staged stays.
FetchInvalid(l) ==
  /\ calls[l].at # None /\ DOMAIN calls[l].items # {}
  /\ calls' = [calls EXCEPT ![l] = Idle]
  /\ cut' = cut \cup calls[l].got
  /\ UNCHANGED <<world, entries, disk, staged, loopToRun, replies, fetched, crashes>>

\* ... and later, under the lock, the cursor advanced past the new records is
\* staged.  An onboarded stream is flushed, and a flush that fails ends the call.
Stage(l, flushed) ==
  LET c == calls[l]
      s == c.at
      new == {i \in DOMAIN c.items : c.all \/ c.prev.seen[i] # c.items[i]}
      next == [c.prev EXCEPT !.seen = [i \in Items |-> IF i \in new THEN c.items[i] ELSE @[i]]]
      records == {<<s, i, c.items[i]>> : i \in new}
  IN /\ s # None
     /\ flushed \/ entries[s].baseline
     /\ stageForRun(resolveRunScopeKey(l), l, s, next, new # {})
     /\ IF entries[s].baseline THEN flush(flushed) ELSE UNCHANGED disk
     /\ fetched' = fetched \cup {<<resolveRunScopeKey(l), s, i, c.items[i]>> : i \in new}
     /\ calls' = [calls EXCEPT ![l] =
          IF flushed THEN [c EXCEPT !.at = None, !.items = Idle.items, !.prev = Fresh,
                             !.todo = @ \ {s}, !.got = @ \cup records, !.ok = TRUE]
          ELSE Idle]
     /\ cut' = IF flushed THEN cut ELSE cut \cup c.got \cup records
     /\ UNCHANGED <<world, replies, crashes>>

\* Mutant: one failed stream fails the call.
Strict_Return(l) ==
  LET c == calls[l]
  IN /\ c # Idle /\ c.at = None /\ c.todo = {}
     /\ replies' = IF c.ok /\ c.failed = {}
                   THEN replies \cup {[id |-> 1 + Cardinality(replies), loop |-> l,
                                       records |-> c.got, failures |-> {}]}
                   ELSE replies
     /\ calls' = [calls EXCEPT ![l] = Idle]
     /\ UNCHANGED <<world, entries, disk, staged, loopToRun, fetched, cut, crashes>>

\* The reply, unless every stream failed.
Return(l) ==
  LET c == calls[l]
  IN /\ c # Idle /\ c.at = None /\ c.todo = {}
     /\ replies' = IF c.ok THEN replies \cup {[id |-> 1 + Cardinality(replies), loop |-> l,
                                    records |-> c.got, failures |-> {s[1] : s \in c.failed}]}
                   ELSE replies
     /\ calls' = [calls EXCEPT ![l] = Idle]
     /\ UNCHANGED <<world, entries, disk, staged, loopToRun, fetched, cut, crashes>>

\* NewFileCursorStore: only the file survives a restart.
Restart ==
  /\ crashes' = crashes + 1
  /\ entries' = disk
  /\ staged' = [x \in {} |-> Fresh]
  /\ loopToRun' = [l \in Loops |-> None]
  /\ calls' = [l \in Loops |-> Idle]
  /\ cut' = cut \cup UNION {calls[l].got : l \in Loops}
  /\ UNCHANGED <<world, disk, replies, fetched>>

GithubStep ==
  \/ \E l \in Loops, s \in Streams : Fetch(l, s) \/ FetchFails(l, s)
  \/ \E l \in Loops, flushed \in BOOLEAN : Stage(l, flushed)
  \/ \E l \in Loops : Return(l) \/ FetchInvalid(l)
=============================================================================
