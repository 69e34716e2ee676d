------------------------- MODULE EmitArtifactProofs -------------------------
(***************************************************************************)
(* TLAPS proofs about EmitArtifact and GithubRead, for every portfolio,    *)
(* every set of loops, items and scenarios and every bound.                *)
(***************************************************************************)
EXTENDS EmitArtifact, TLAPS

Versions == 0..MaxVersion

\* A call of github_read in progress.
CallStates ==
  [todo : SUBSET Streams, at : Streams \cup {None}, prev : CursorEntry,
   items : UNION {[S -> Versions] : S \in SUBSET Items},
   got : SUBSET (Streams \X Items \X Versions), failed : SUBSET Streams,
   ok : BOOLEAN, all : BOOLEAN]

\* Types of the store and of the calls.  A reply that was lost had no records.
GithubTypes ==
  /\ world \in [Streams -> [Items -> Versions]]
  /\ entries \in [Streams -> CursorEntry] /\ disk \in [Streams -> CursorEntry]
  /\ DOMAIN staged \subseteq Loops \X Streams
  /\ \A x \in DOMAIN staged : staged[x].baseline \in CursorEntry /\ staged[x].next \in CursorEntry
  /\ loopToRun \in [Loops -> Loops \cup {None}]
  /\ calls \in [Loops -> CallStates]
  /\ \A l \in Loops : calls[l].got # {} => calls[l].ok
  /\ \A r \in replies : r.loop \in Loops

\* An emission has its five fields, the facts it cites are of loops.
EmissionShape(e) ==
  /\ DOMAIN e = {"step", "artifact", "facts", "marks", "keys"}
  /\ e.step \in {"none", "render", "mark", "publish", "commit"}
  /\ e.keys \subseteq Loops
  /\ \A f \in e.facts : f.loop \in Loops

AnswerKinds == {"none", "ok", "invalid_args", "network", "internal"}

EmitTypes ==
  /\ scenario \in DOMAIN Scenarios
  /\ DOMAIN emits = Loops /\ DOMAIN answers = Loops
  /\ \A l \in Loops : EmissionShape(emits[l]) /\ answers[l].kind \in AnswerKinds

Types == GithubTypes /\ EmitTypes

(***************************************************************************)
(* Types of the operators                                                  *)
(***************************************************************************)

\* The keys of runs are loops, and a run's own key is itself.
LEMMA ScopeKey ==
  ASSUME NEW l \in Loops
  PROVE  /\ resolveRunScopeKey(l) \in Loops
         /\ resolveRunScopeKey(resolveRunScopeKey(l)) = resolveRunScopeKey(l)
  BY GithubConstantsOK DEF resolveRunScopeKey

\* A fresh cursor is a cursor, and no call a call.
LEMMA FreshType == Fresh \in CursorEntry /\ Idle \in CallStates /\ Idle.got = {}
<1>1. [i \in Items |-> 0] \in [Items -> Versions]
  BY GithubConstantsOK DEF Versions
<1>2. Fresh \in CursorEntry  BY <1>1 DEF Fresh, CursorEntry, Versions
<1>3. PICK e : e = [i \in {} |-> 0]  OBVIOUS
<1>4. e \in [{} -> Versions]  BY <1>3
<1>5. e \in UNION {[S -> Versions] : S \in SUBSET Items}  BY <1>4
<1>6. Idle = [todo |-> {}, at |-> None, prev |-> Fresh, items |-> e,
              got |-> {}, failed |-> {}, ok |-> FALSE, all |-> FALSE]
  BY <1>3 DEF Idle
<1> QED BY <1>2, <1>5, <1>6 DEF CallStates

\* What a stream answers is a version for some of its items.
LEMMA FetchType ==
  ASSUME GithubTypes, NEW s \in Streams
  PROVE  fetchKind(s) \in UNION {[S -> Versions] : S \in SUBSET Items}
<1>1. PICK S : S = IF s[2] = "issues" THEN ListIssues(s[1]) ELSE ListRecent(s)  OBVIOUS
<1>2. S \subseteq Items  BY <1>1 DEF ListIssues, ListRecent
<1>3. fetchKind(s) = [i \in S |-> world[s][i]]  BY <1>1 DEF fetchKind
<1>4. \A i \in S : world[s][i] \in Versions  BY <1>2 DEF GithubTypes
<1>5. fetchKind(s) \in [S -> Versions]  BY <1>3, <1>4
<1> QED BY <1>2, <1>5

\* The cursor a run reads from.
LEMMA GetType ==
  ASSUME GithubTypes, NEW k, NEW s \in Streams
  PROVE  GetForRun(k, s) \in CursorEntry
  BY DEF GithubTypes, GetForRun

\* What an update stores is one of the two cursors, as far as items go.
LEMMA UpdateType ==
  ASSUME NEW prev \in CursorEntry, NEW next \in CursorEntry, NEW hasNew
  PROVE  /\ applyCursorUpdate(prev, next, hasNew) \in CursorEntry
         /\ applyCursorUpdate(prev, next, hasNew).seen \in {prev.seen, next.seen}
<1>1. [next EXCEPT !.baseline = TRUE] \in CursorEntry
      /\ [next EXCEPT !.baseline = TRUE].seen = next.seen
  BY DEF CursorEntry
<1> QED BY <1>1 DEF applyCursorUpdate

(***************************************************************************)
(* What the steps of the store do                                          *)
(***************************************************************************)

\* Staging: stream s of key k gets the cursor next, which differs from the one
\* read only at the new items, and the records of these go into the call or,
\* when the flush fails, are cut.
Staging(l, k, s, new, next) ==
  LET c == calls[l]
      records == {<<s, i, c.items[i]>> : i \in new}
  IN /\ c.at = s /\ s # None
     /\ \A i \in Items : next.seen[i] = IF i \in new THEN c.items[i] ELSE c.prev.seen[i]
     /\ records \subseteq Streams \X Items \X Versions
     /\ DOMAIN staged' = DOMAIN staged \cup {<<k, s>>}
     /\ \A x \in DOMAIN staged : x # <<k, s>> => staged'[x] = staged[x]
     /\ staged'[<<k, s>>].next = next
     /\ staged'[<<k, s>>].baseline = IF <<k, s>> \in DOMAIN staged
                                     THEN staged[<<k, s>>].baseline ELSE entries[s]
     /\ loopToRun' = [loopToRun EXCEPT ![l] = k]
     /\ UNCHANGED <<world, entries, replies>>
     /\ disk' \in {disk, entries}
     /\ fetched' = fetched \cup {<<k, s, i, c.items[i]>> : i \in new}
     /\ calls' \in [Loops -> CallStates]
     /\ \A m \in Loops \ {l} : calls'[m] = calls[m]
     /\ calls'[l].at = None
     /\ calls'[l].got # {} => calls'[l].ok
     /\ \/ cut' = cut /\ calls'[l].got = c.got \cup records
        \/ cut' = cut \cup c.got \cup records

\* Stage does just that.
LEMMA StageShape ==
  ASSUME GithubTypes, NEW l \in Loops, NEW flushed \in BOOLEAN, Stage(l, flushed)
  PROVE  \E s \in Streams, new \in SUBSET Items, next \in CursorEntry :
            Staging(l, resolveRunScopeKey(l), s, new, next)
<1>0. PICK c \in CallStates : c = calls[l]  BY DEF GithubTypes
<1>1. PICK s \in Streams : s = c.at /\ s # None
  BY <1>0 DEF Stage, CallStates
<1>2. PICK new : new = {i \in DOMAIN c.items : c.all \/ c.prev.seen[i] # c.items[i]}  OBVIOUS
<1>3. new \subseteq Items /\ new \subseteq DOMAIN c.items
      /\ \A i \in DOMAIN c.items : c.items[i] \in Versions
  BY <1>2 DEF CallStates
<1>4. PICK seen : seen = [i \in Items |-> IF i \in new THEN c.items[i] ELSE c.prev.seen[i]]
  OBVIOUS
<1>5. seen \in [Items -> Versions]
  BY <1>3, <1>4 DEF CallStates, CursorEntry, Versions
<1>6. PICK next : next = [c.prev EXCEPT !.seen = seen]  OBVIOUS
<1>7. next \in CursorEntry /\ next.seen = seen
  BY <1>5, <1>6 DEF CallStates, CursorEntry, Versions
<1>8. PICK records : records = {<<s, i, c.items[i]>> : i \in new}  OBVIOUS
<1>9. records \subseteq Streams \X Items \X Versions  BY <1>3, <1>8
<1>10. PICK k \in Loops : k = resolveRunScopeKey(l)  BY ScopeKey
<1>11. /\ stageForRun(k, l, s, next, new # {})
       /\ IF entries[s].baseline THEN flush(flushed) ELSE UNCHANGED disk
       /\ fetched' = fetched \cup {<<k, s, i, c.items[i]>> : i \in new}
       /\ calls' = [calls EXCEPT ![l] =
            IF flushed THEN [c EXCEPT !.at = None, !.items = Idle.items, !.prev = Fresh,
                               !.todo = @ \ {s}, !.got = @ \cup records, !.ok = TRUE]
            ELSE Idle]
       /\ cut' = IF flushed THEN cut ELSE cut \cup c.got \cup records
       /\ UNCHANGED <<world, replies>>
  <2>1. stageForRun(k, l, s, next, new # {})
    <3>1. next = [c.prev EXCEPT !.seen = [i \in Items |-> IF i \in new THEN c.items[i] ELSE @[i]]]
      BY <1>4, <1>6
    <3> QED BY <1>0, <1>1, <1>2, <1>10, <3>1 DEF Stage
  <2>2. IF entries[s].baseline THEN flush(flushed) ELSE UNCHANGED disk
    BY <1>0, <1>1 DEF Stage
  <2>3. fetched' = fetched \cup {<<k, s, i, c.items[i]>> : i \in new}
    BY <1>0, <1>1, <1>2, <1>10 DEF Stage
  <2>4. calls' = [calls EXCEPT ![l] =
          IF flushed THEN [c EXCEPT !.at = None, !.items = Idle.items, !.prev = Fresh,
                             !.todo = @ \ {s}, !.got = @ \cup records, !.ok = TRUE]
          ELSE Idle]
    BY <1>0, <1>1, <1>2, <1>8 DEF Stage
  <2>5. cut' = IF flushed THEN cut ELSE cut \cup c.got \cup records
    BY <1>0, <1>1, <1>2, <1>8 DEF Stage
  <2>6. UNCHANGED <<world, replies>>  BY DEF Stage
  <2> QED BY <2>1, <2>2, <2>3, <2>4, <2>5, <2>6
<1>12. /\ DOMAIN staged' = DOMAIN staged \cup {<<k, s>>}
       /\ \A x \in DOMAIN staged : x # <<k, s>> => staged'[x] = staged[x]
       /\ staged'[<<k, s>>].next = next
       /\ staged'[<<k, s>>].baseline = IF <<k, s>> \in DOMAIN staged
                                       THEN staged[<<k, s>>].baseline ELSE entries[s]
       /\ loopToRun' = [loopToRun EXCEPT ![l] = k]
       /\ UNCHANGED entries
  BY <1>11 DEF stageForRun
<1>13. disk' \in {disk, entries}  BY <1>11, <1>12 DEF flush
<1>14. /\ calls' \in [Loops -> CallStates] /\ calls'[l].at = None
       /\ \A m \in Loops \ {l} : calls'[m] = calls[m]
       /\ calls'[l].got # {} => calls'[l].ok
       /\ \/ cut' = cut /\ calls'[l].got = c.got \cup records
          \/ cut' = cut \cup c.got \cup records
  <2>1. CASE flushed
    <3>1. PICK todo \in SUBSET Streams : todo = c.todo \ {s}  BY DEF CallStates
    <3>2. PICK got \in SUBSET (Streams \X Items \X Versions) : got = c.got \cup records
      BY <1>9 DEF CallStates
    <3>3. PICK d : d = [c EXCEPT !.at = None, !.items = Idle.items, !.prev = Fresh,
                                 !.todo = todo, !.got = got, !.ok = TRUE]
      OBVIOUS
    <3>4. Idle.items \in UNION {[S -> Versions] : S \in SUBSET Items} /\ Fresh \in CursorEntry
      BY FreshType DEF CallStates
    <3>5. d \in CallStates /\ d.at = None /\ d.ok /\ d.got = got  BY <3>3, <3>4 DEF CallStates
    <3>6. calls' = [calls EXCEPT ![l] = d]  BY <1>11, <2>1, <3>1, <3>2, <3>3
    <3>7. calls' \in [Loops -> CallStates] /\ calls'[l] = d
          /\ \A m \in Loops \ {l} : calls'[m] = calls[m]
      BY <3>5, <3>6 DEF GithubTypes
    <3> QED BY <1>11, <2>1, <3>2, <3>5, <3>7
  <2>2. CASE ~flushed
    <3>1. calls' = [calls EXCEPT ![l] = Idle] /\ Idle.at = None  BY <1>11, <2>2 DEF Idle
    <3>2. calls' \in [Loops -> CallStates] /\ calls'[l] = Idle
          /\ \A m \in Loops \ {l} : calls'[m] = calls[m]
      BY <3>1, FreshType DEF GithubTypes
    <3> QED BY <1>11, <2>2, <3>1, <3>2, FreshType
  <2> QED BY <2>1, <2>2
<1>15. Staging(l, k, s, new, next)
  BY <1>0, <1>1, <1>4, <1>7, <1>8, <1>9, <1>11, <1>12, <1>13, <1>14 DEF Staging
<1> QED BY <1>3, <1>7, <1>10, <1>15

\* Committing key k promotes what is staged under its target and forgets it.
LEMMA CommitShape ==
  ASSUME GithubTypes, NEW k \in Loops, commitRun(k)
  PROVE  /\ entries' \in [Streams -> CursorEntry]
         /\ \A s \in Streams :
              \/ entries'[s].seen = entries[s].seen
              \/ /\ <<Target(k), s>> \in DOMAIN staged
                 /\ entries'[s].seen = staged[<<Target(k), s>>].next.seen
         /\ DOMAIN staged' \subseteq DOMAIN staged
         /\ \A x \in DOMAIN staged' : staged'[x] = staged[x]
         /\ loopToRun' \in [Loops -> Loops \cup {None}]
         /\ \A l \in Loops : loopToRun'[l] \in {None, loopToRun[l]}
<1>1. PICK t : t = Target(k)  OBVIOUS
<1>2. ASSUME NEW s \in Streams
      PROVE  /\ entries'[s] \in CursorEntry
             /\ \/ entries'[s].seen = entries[s].seen
                \/ <<t, s>> \in DOMAIN staged /\ entries'[s].seen = staged[<<t, s>>].next.seen
  <2>1. entries[s] \in CursorEntry  BY DEF GithubTypes
  <2>2. CASE <<t, s>> \in DOMAIN staged
    <3>1. PICK next \in CursorEntry : next = staged[<<t, s>>].next  BY <2>2 DEF GithubTypes
    <3>2. entries'[s] = applyCursorUpdate(entries[s], next, staged[<<t, s>>].hasNew)
      BY <1>1, <2>2, <3>1 DEF commitRun
    <3> QED BY <2>1, <2>2, <3>1, <3>2, UpdateType
  <2>3. CASE <<t, s>> \notin DOMAIN staged
    <3>1. entries'[s] = entries[s]  BY <1>1, <2>3 DEF commitRun
    <3> QED BY <2>1, <3>1
  <2> QED BY <2>2, <2>3
<1>3. entries' \in [Streams -> CursorEntry]
  <2>1. DOMAIN entries' = Streams /\ entries' = [s \in Streams |-> entries'[s]]
    BY DEF commitRun
  <2> QED BY <1>2, <2>1
<1>4. DOMAIN staged' \subseteq DOMAIN staged /\ \A x \in DOMAIN staged' : staged'[x] = staged[x]
  BY DEF commitRun, Restrict
<1>5. /\ loopToRun' \in [Loops -> Loops \cup {None}]
      /\ \A l \in Loops : loopToRun'[l] \in {None, loopToRun[l]}
  BY DEF commitRun, GithubTypes
<1> QED BY <1>1, <1>2, <1>3, <1>4, <1>5

(***************************************************************************)
(* Type correctness                                                        *)
(***************************************************************************)

\* A call whose state is replaced by another well-typed one, its records kept.
LEMMA CallTypes ==
  ASSUME GithubTypes, NEW l \in Loops, NEW d \in CallStates, d.got # {} => d.ok,
         calls' = [calls EXCEPT ![l] = d],
         \A r \in replies' : r \in replies \/ r.loop = l,
         UNCHANGED <<world, entries, disk, staged, loopToRun>>
  PROVE  /\ GithubTypes' /\ calls'[l] = d
         /\ \A m \in Loops \ {l} : calls'[m] = calls[m]
<1>1. /\ calls' \in [Loops -> CallStates] /\ calls'[l] = d
      /\ \A m \in Loops \ {l} : calls'[m] = calls[m]
  BY DEF GithubTypes
<1>2. \A m \in Loops : calls'[m].got # {} => calls'[m].ok
  BY <1>1 DEF GithubTypes
<1>3. \A r \in replies' : r.loop \in Loops  BY DEF GithubTypes
<1> QED BY <1>1, <1>2, <1>3 DEF GithubTypes

\* The steps of a call that stage nothing.
CallStep(l) ==
  \/ \E s \in Streams : Fetch(l, s) \/ FetchFails(l, s)
  \/ Return(l) \/ FetchInvalid(l)
  \/ \E q \in Script.requests : Call(l, q.filter, q.kinds, q.all)

\* They lose no record, and read the cursor of the caller's run.
LEMMA CallShape ==
  ASSUME Types, NEW l \in Loops,
         CallStep(l)
  PROVE  /\ GithubTypes'
         /\ UNCHANGED <<world, entries, disk, staged, loopToRun, fetched>>
         /\ \A m \in Loops \ {l} : calls'[m] = calls[m]
         /\ \/ calls'[l].at = None
            \/ \E s \in Streams : /\ calls'[l].at = s
                                  /\ calls'[l].prev = GetForRun(resolveRunScopeKey(l), s)
         /\ replies \subseteq replies' /\ cut \subseteq cut'
         /\ \/ calls'[l].got = calls[l].got \/ calls[l].got \subseteq cut'
            \/ \E r \in replies' : r.records = calls[l].got
<1> USE DEF Types
<1>0. PICK c \in CallStates : c = calls[l]  BY DEF GithubTypes
<1>1. ASSUME NEW s \in Streams, Fetch(l, s)
      PROVE  /\ GithubTypes' /\ calls'[l].at = s /\ calls'[l].got = calls[l].got
             /\ calls'[l].prev = GetForRun(resolveRunScopeKey(l), s)
             /\ \A m \in Loops \ {l} : calls'[m] = calls[m]
             /\ UNCHANGED <<world, entries, disk, staged, loopToRun, fetched, cut, replies>>
  <2>1. PICK prev \in CursorEntry : prev = GetForRun(resolveRunScopeKey(l), s)  BY GetType
  <2>2. PICK items \in UNION {[S -> Versions] : S \in SUBSET Items} : items = fetchKind(s)
    BY FetchType
  <2>3. PICK d : d = [c EXCEPT !.at = s, !.items = items, !.prev = prev]  OBVIOUS
  <2>4. d \in CallStates /\ d.at = s /\ d.prev = prev /\ d.got = c.got /\ d.ok = c.ok
    BY <2>3 DEF CallStates
  <2>5. calls' = [calls EXCEPT ![l] = d]
    BY <1>0, <1>1, <2>1, <2>2, <2>3 DEF Fetch
  <2>6. UNCHANGED <<world, entries, disk, staged, loopToRun, fetched, cut, replies>>
    BY <1>1 DEF Fetch
  <2>7. d.got # {} => d.ok  BY <1>0, <2>4 DEF GithubTypes
  <2>8. /\ GithubTypes' /\ calls'[l] = d /\ \A m \in Loops \ {l} : calls'[m] = calls[m]
    BY <2>4, <2>5, <2>6, <2>7, CallTypes
  <2> QED BY <1>0, <2>1, <2>4, <2>6, <2>8
<1>2. ASSUME NEW s \in Streams, FetchFails(l, s)
      PROVE  /\ GithubTypes' /\ calls'[l].at = None /\ calls'[l].got = calls[l].got
             /\ \A m \in Loops \ {l} : calls'[m] = calls[m]
             /\ UNCHANGED <<world, entries, disk, staged, loopToRun, fetched, cut, replies>>
  <2>1. PICK todo \in SUBSET Streams : todo = c.todo \ {s}  BY DEF CallStates
  <2>2. PICK failed \in SUBSET Streams : failed = c.failed \cup {s}  BY DEF CallStates
  <2>3. PICK d : d = [c EXCEPT !.todo = todo, !.failed = failed]  OBVIOUS
  <2>4. d \in CallStates /\ d.at = c.at /\ d.got = c.got /\ d.ok = c.ok
    BY <2>3 DEF CallStates
  <2>5. calls' = [calls EXCEPT ![l] = d] /\ c.at = None
    BY <1>0, <1>2, <2>1, <2>2, <2>3 DEF FetchFails
  <2>6. UNCHANGED <<world, entries, disk, staged, loopToRun, fetched, cut, replies>>
    BY <1>2 DEF FetchFails
  <2>7. d.got # {} => d.ok  BY <1>0, <2>4 DEF GithubTypes
  <2>8. /\ GithubTypes' /\ calls'[l] = d /\ \A m \in Loops \ {l} : calls'[m] = calls[m]
    BY <2>4, <2>5, <2>6, <2>7, CallTypes
  <2> QED BY <1>0, <2>4, <2>5, <2>6, <2>8
<1>3. ASSUME Return(l)
      PROVE  /\ GithubTypes' /\ calls'[l].at = None /\ replies \subseteq replies'
             /\ calls'[l].got = calls[l].got \/ \E r \in replies' : r.records = calls[l].got
             /\ \A m \in Loops \ {l} : calls'[m] = calls[m]
             /\ UNCHANGED <<world, entries, disk, staged, loopToRun, fetched, cut>>
  <2>1. PICK n : n = [id |-> 1 + Cardinality(replies), loop |-> l, records |-> c.got,
                      failures |-> {s[1] : s \in c.failed}]
    OBVIOUS
  <2>2. replies' = IF c.ok THEN replies \cup {n} ELSE replies
    BY <1>0, <1>3, <2>1 DEF Return
  <2>3. n.loop = l /\ n.records = c.got  BY <2>1
  <2>4. UNCHANGED <<world, entries, disk, staged, loopToRun, fetched, cut>>
    BY <1>3 DEF Return
  <2>5. calls' = [calls EXCEPT ![l] = Idle] /\ Idle.at = None  BY <1>3 DEF Return, Idle
  <2>6. \A r \in replies' : r \in replies \/ r.loop = l  BY <2>2, <2>3
  <2>7. /\ GithubTypes' /\ calls'[l] = Idle /\ \A m \in Loops \ {l} : calls'[m] = calls[m]
    BY <2>4, <2>5, <2>6, FreshType, CallTypes
  <2>8. c.got = {} \/ n \in replies'  BY <1>0, <2>2 DEF GithubTypes
  <2> QED BY <1>0, <2>2, <2>3, <2>4, <2>5, <2>7, <2>8, FreshType
<1>4. ASSUME NEW q \in Script.requests, Call(l, q.filter, q.kinds, q.all)
      PROVE  /\ GithubTypes' /\ calls'[l].at = None /\ calls'[l].got = calls[l].got
             /\ \A m \in Loops \ {l} : calls'[m] = calls[m]
             /\ UNCHANGED <<world, entries, disk, staged, loopToRun, fetched, cut, replies>>
  <2>1. q.kinds \subseteq Kinds /\ q.all \in BOOLEAN
    BY EmitConstantsOK DEF EmitTypes, Script, Scripts
  <2>2. parseKinds(q.kinds) \subseteq Kinds  BY <2>1 DEF parseKinds
  <2>3. ResolveRepositories(q.filter) \subseteq {e.repo : e \in Portfolio}
    BY DEF ResolveRepositories
  <2>4. PICK targets : targets = parseExecuteRequest(q.filter, q.kinds)  OBVIOUS
  <2>5. targets \subseteq Streams
    BY <2>2, <2>3, <2>4 DEF parseExecuteRequest, Streams
  <2>6. PICK d : d = [Idle EXCEPT !.todo = targets, !.all = q.all]  OBVIOUS
  <2>7. d \in CallStates /\ d.at = Idle.at /\ d.got = Idle.got
    BY <2>1, <2>5, <2>6, FreshType DEF CallStates
  <2>8. calls[l] = Idle /\ calls' = [calls EXCEPT ![l] = d]
    BY <1>4, <2>4, <2>6 DEF Call
  <2>9. UNCHANGED <<world, entries, disk, staged, loopToRun, fetched, cut, replies>>
    BY <1>4 DEF Call
  <2>10. Idle.at = None /\ d.got = {}  BY <2>7, FreshType DEF Idle
  <2>11. /\ GithubTypes' /\ calls'[l] = d /\ \A m \in Loops \ {l} : calls'[m] = calls[m]
    BY <2>7, <2>8, <2>9, <2>10, CallTypes
  <2> QED BY <2>7, <2>8, <2>9, <2>10, <2>11
<1>5. ASSUME FetchInvalid(l)
      PROVE  /\ GithubTypes' /\ calls'[l].at = None
             /\ calls[l].got \subseteq cut' /\ cut \subseteq cut'
             /\ \A m \in Loops \ {l} : calls'[m] = calls[m]
             /\ UNCHANGED <<world, entries, disk, staged, loopToRun, fetched, replies>>
  <2>1. /\ calls' = [calls EXCEPT ![l] = Idle] /\ cut' = cut \cup calls[l].got
        /\ UNCHANGED <<world, entries, disk, staged, loopToRun, fetched, replies>>
    BY <1>5 DEF FetchInvalid
  <2>2. Idle \in CallStates /\ Idle.got = {} /\ Idle.at = None  BY FreshType DEF Idle
  <2>3. GithubTypes' /\ calls'[l] = Idle /\ \A m \in Loops \ {l} : calls'[m] = calls[m]
    BY <2>1, <2>2, CallTypes
  <2> QED BY <2>1, <2>2, <2>3
<1> QED BY <1>1, <1>2, <1>3, <1>4, <1>5 DEF CallStep

\* A verdict is one of the answers, and a good one cites results of loops.
LEMMA VerdictType ==
  ASSUME Types, NEW l \in Loops, NEW a, NEW v \in verifyDerivation(l, a)
  PROVE  /\ v.kind \in AnswerKinds
         /\ v.kind = "ok" => \A f \in v.facts : f.loop \in Loops
<1>1. CASE v \in {[kind |-> "network", artifact |-> a, facts |-> {}] : ref \in Refs(a)}
  BY <1>1 DEF AnswerKinds
<1>2. ASSUME NEW pick \in resolutions(l, a),
             v \in LET errors == {citationError(l, ev, pick) : ev \in Citations(a)} \ {"none"}
                       facts == {pick[ref] : ref \in Refs(a)}
                   IN IF errors # {} THEN {[kind |-> e, artifact |-> a, facts |-> {}] : e \in errors}
                      ELSE IF /\ \A f \in facts : openGapsDisclose(a, f)
                              /\ Validate(stamped(a, pick))
                           THEN {[kind |-> "ok", artifact |-> stamped(a, pick), facts |-> facts]}
                           ELSE {[kind |-> "invalid_args", artifact |-> a, facts |-> {}]}
      PROVE  /\ v.kind \in AnswerKinds
             /\ v.kind = "ok" => \A f \in v.facts : f.loop \in Loops
  <2>1. PICK errors : errors = {citationError(l, ev, pick) : ev \in Citations(a)} \ {"none"}
    OBVIOUS
  <2>2. PICK facts : facts = {pick[ref] : ref \in Refs(a)}  OBVIOUS
  <2>3. \A e \in errors : e \in {"invalid_args", "internal"}  BY <2>1 DEF citationError
  <2>4. CASE errors # {}
    <3>1. PICK e \in errors : v = [kind |-> e, artifact |-> a, facts |-> {}]
      BY <1>2, <2>1, <2>4
    <3> QED BY <2>3, <3>1 DEF AnswerKinds
  <2>5. CASE errors = {}
    <3>1. ASSUME NEW ref \in Refs(a) PROVE pick[ref].loop \in Loops
      <4>1. PICK ev \in Citations(a) : ref = ev.ref  BY DEF Refs
      <4>2. citationError(l, ev, pick) = "none"  BY <2>1, <2>5
      <4>3. pick[ref] # NoFact  BY <4>1, <4>2 DEF citationError
      <4>4. pick[ref] \in IF candidates(l, ref) = {} THEN {NoFact} ELSE candidates(l, ref)
        BY <1>2 DEF resolutions
      <4>5. pick[ref] \in candidates(l, ref)  BY <4>3, <4>4
      <4>6. candidates(l, ref) \subseteq Facts  BY DEF candidates, fetchedFacts
      <4>7. \A f \in Facts : f.loop \in Loops
        BY EmitConstantsOK DEF Facts, Types, GithubTypes, EmitTypes, Script, Scripts, ReplyFact
      <4> QED BY <4>5, <4>6, <4>7
    <3>2. v.kind = "ok" => v.facts = facts
      BY <1>2, <2>1, <2>2, <2>5
    <3>3. v.kind \in {"ok", "invalid_args"}  BY <1>2, <2>1, <2>5
    <3> QED BY <2>2, <3>1, <3>2, <3>3 DEF AnswerKinds
  <2> QED BY <2>4, <2>5
<1> QED BY <1>1, <1>2 DEF verifyDerivation

\* No emission in progress.
LEMMA NoEmissionShape == EmissionShape(NoEmission) /\ NoEmission.step = "none"
  BY DEF EmissionShape, NoEmission

\* A step of Execute leaves loop l with emission e and answer a.
Executes(l, e, a) ==
  /\ DOMAIN emits' = Loops /\ DOMAIN answers' = Loops
  /\ emits'[l] = e /\ answers'[l] = a
  /\ \A m \in Loops \ {l} : emits'[m] = emits[m] /\ answers'[m] = answers[m]
  /\ UNCHANGED scenario
  /\ EmissionShape(e) /\ a.kind \in AnswerKinds

\* Such a step keeps the types.
LEMMA ExecuteTypes ==
  ASSUME EmitTypes, NEW l \in Loops, NEW e, NEW a, Executes(l, e, a)
  PROVE  EmitTypes'
<1>2. ASSUME NEW m \in Loops PROVE EmissionShape(emits[m])' /\ answers'[m].kind \in AnswerKinds
  <2>1. CASE m = l  BY <2>1 DEF EmissionShape, Executes
  <2>2. CASE m # l  BY <2>2 DEF EmissionShape, EmitTypes, Executes
  <2> QED BY <2>1, <2>2
<1> QED BY <1>2 DEF EmitTypes, Executes

\* The early end of an emission.
LEMMA AnswerShape ==
  ASSUME EmitTypes, NEW l \in Loops, NEW kind \in AnswerKinds, answer(l, kind),
         UNCHANGED scenario
  PROVE  \E a : /\ a = [kind |-> kind, artifact |-> emits[l].artifact]
                /\ Executes(l, NoEmission, a)
<1>1. PICK a : a = [kind |-> kind, artifact |-> emits[l].artifact]  OBVIOUS
<1>2. answers' = [answers EXCEPT ![l] = a] /\ emits' = [emits EXCEPT ![l] = NoEmission]
  BY <1>1 DEF answer
<1>3. a.kind = kind  BY <1>1
<1> QED BY <1>1, <1>2, <1>3, NoEmissionShape DEF Executes, EmitTypes

\* One field of an emission changes.
LEMMA GoOnShape ==
  ASSUME EmitTypes, NEW l \in Loops, NEW e, EmissionShape(e),
         emits' = [emits EXCEPT ![l] = e], UNCHANGED <<answers, scenario>>
  PROVE  \E a : a = answers[l] /\ Executes(l, e, a)
  BY DEF Executes, EmitTypes

\* Emit answers at once, or starts an emission with all its markers to write.
LEMMA EmitShape ==
  ASSUME Types, NEW l \in Loops, NEW draft, Emit(l, draft)
  PROVE  /\ emits[l] = NoEmission
         /\ UNCHANGED <<githubVars, markers, files, payloads>>
         /\ \E e, a : /\ Executes(l, e, a) /\ a.kind # "ok"
                      /\ \/ e = NoEmission
                         \/ e.step = "render" /\ e.marks = Append(buildTriples(e.artifact), "path")
<1>0. emits[l] = NoEmission /\ UNCHANGED <<githubVars, markers, files, payloads, scenario>>
  BY DEF Emit
<1>1. PICK d : d = PopulateCitationDefaults(draft)  OBVIOUS
<1>2. PICK v : /\ v \in IF Validate(d) THEN verifyDerivation(l, d)
                        ELSE {[kind |-> "invalid_args", artifact |-> d, facts |-> {}]}
               /\ IF v.kind = "ok"
                  THEN /\ emits' = [emits EXCEPT ![l] =
                            [step |-> "render", artifact |-> v.artifact, facts |-> v.facts,
                             marks |-> Append(buildTriples(v.artifact), "path"), keys |-> {}]]
                       /\ answers' = [answers EXCEPT ![l] = NoAnswer]
                  ELSE /\ answers' = [answers EXCEPT ![l] = [kind |-> v.kind, artifact |-> draft]]
                       /\ UNCHANGED emits
  BY <1>1 DEF Emit
<1>3. v.kind \in AnswerKinds /\ (v.kind = "ok" => \A f \in v.facts : f.loop \in Loops)
  BY <1>2, VerdictType DEF AnswerKinds
<1>4. CASE v.kind = "ok"
  <2>1. PICK marks : marks = Append(buildTriples(v.artifact), "path")  OBVIOUS
  <2>2. PICK e : e = [step |-> "render", artifact |-> v.artifact, facts |-> v.facts,
                      marks |-> marks, keys |-> {}]
    OBVIOUS
  <2>3. emits' = [emits EXCEPT ![l] = e] /\ answers' = [answers EXCEPT ![l] = NoAnswer]
    BY <1>2, <1>4, <2>1, <2>2
  <2>4. /\ e.step = "render" /\ e.artifact = v.artifact /\ e.facts = v.facts
        /\ e.marks = marks /\ e.keys = {}
    BY <2>2
  <2>5. EmissionShape(e)  BY <1>3, <1>4, <2>2, <2>4 DEF EmissionShape
  <2>6. NoAnswer.kind = "none"  BY DEF NoAnswer
  <2>7. Executes(l, e, NoAnswer)
    BY <1>0, <2>3, <2>5, <2>6 DEF Executes, Types, EmitTypes, AnswerKinds
  <2> QED BY <1>0, <2>1, <2>4, <2>6, <2>7
<1>5. CASE v.kind # "ok"
  <2>1. PICK a : a = [kind |-> v.kind, artifact |-> draft]  OBVIOUS
  <2>2. answers' = [answers EXCEPT ![l] = a] /\ UNCHANGED emits /\ a.kind = v.kind
    BY <1>2, <1>5, <2>1
  <2>3. Executes(l, NoEmission, a)
    BY <1>0, <1>3, <2>2, NoEmissionShape DEF Executes, Types, EmitTypes
  <2> QED BY <1>0, <1>5, <2>2, <2>3
<1> QED BY <1>4, <1>5

\* The file is written, or the emission ends.
LEMMA RenderShape ==
  ASSUME EmitTypes, NEW l \in Loops, NEW ok \in BOOLEAN, renderMarkdown(l, ok)
  PROVE  /\ emits[l].step = "render"
         /\ UNCHANGED <<githubVars, markers, payloads>>
         /\ \E e, a : /\ Executes(l, e, a)
                      /\ \/ e = NoEmission /\ a.kind # "ok" /\ UNCHANGED files
                         \/ /\ e.step = "mark" /\ a = answers[l]
                            /\ e.artifact = emits[l].artifact /\ e.marks = emits[l].marks
                            /\ \E slug : /\ slug = DeriveDated(e.artifact.title, l)
                                         /\ files' = [s \in DOMAIN files \cup {slug} |->
                                              IF s = slug THEN [loop |-> l, artifact |-> e.artifact]
                                              ELSE files[s]]
<1>0. emits[l].step = "render" /\ UNCHANGED <<githubVars, markers, payloads, scenario>>
  BY DEF renderMarkdown
<1>1. CASE ~ok
  <2>1. answer(l, "internal") /\ UNCHANGED files /\ "internal" \in AnswerKinds
    BY <1>1 DEF renderMarkdown, AnswerKinds
  <2>2. PICK a : /\ a = [kind |-> "internal", artifact |-> emits[l].artifact]
                 /\ Executes(l, NoEmission, a)
    BY <1>0, <2>1, AnswerShape
  <2>3. a.kind # "ok"  BY <2>2
  <2> QED BY <1>0, <2>1, <2>2, <2>3
<1>2. CASE ok
  <2>1. PICK o : o = emits[l]  OBVIOUS
  <2>2. EmissionShape(o)  BY <2>1 DEF EmitTypes
  <2>3. PICK e : e = [o EXCEPT !.step = "mark"]  OBVIOUS
  <2>4. /\ EmissionShape(e) /\ e.artifact = o.artifact /\ e.step = "mark" /\ e.marks = o.marks
    BY <2>2, <2>3 DEF EmissionShape
  <2>5. emits' = [emits EXCEPT ![l] = e] /\ UNCHANGED answers
    BY <1>2, <2>1, <2>3 DEF renderMarkdown
  <2>6. PICK a : a = answers[l] /\ Executes(l, e, a)  BY <1>0, <2>4, <2>5, GoOnShape
  <2>7. PICK slug : slug = DeriveDated(e.artifact.title, l)  OBVIOUS
  <2>8. files' = [s \in DOMAIN files \cup {slug} |->
                    IF s = slug THEN [loop |-> l, artifact |-> e.artifact] ELSE files[s]]
    BY <1>2, <2>1, <2>4, <2>7 DEF renderMarkdown
  <2> QED BY <1>0, <2>1, <2>4, <2>6, <2>7, <2>8
<1> QED BY <1>1, <1>2

\* The next marker is written, or the emission ends.
LEMMA AppendShape ==
  ASSUME EmitTypes, NEW l \in Loops, NEW ok \in BOOLEAN, AppendTriple(l, ok)
  PROVE  /\ emits[l].step = "mark"
         /\ UNCHANGED <<githubVars, files, payloads>>
         /\ \E e, a : /\ Executes(l, e, a)
                      /\ \/ e = NoEmission /\ a.kind # "ok" /\ UNCHANGED markers
                         \/ /\ e.step = IF Len(emits[l].marks) = 1 THEN "publish" ELSE "mark"
                            /\ a = answers[l] /\ e.artifact = emits[l].artifact
                            /\ e.marks = Tail(emits[l].marks)
                            /\ \E p : /\ p = Head(emits[l].marks)
                                      /\ markers' = [markers EXCEPT ![l][p] = e.artifact]
<1>0. emits[l].step = "mark" /\ UNCHANGED <<githubVars, files, payloads, scenario>>
  BY DEF AppendTriple
<1>1. CASE ~ok
  <2>1. answer(l, "network") /\ UNCHANGED markers /\ "network" \in AnswerKinds
    BY <1>1 DEF AppendTriple, AnswerKinds
  <2>2. PICK a : /\ a = [kind |-> "network", artifact |-> emits[l].artifact]
                 /\ Executes(l, NoEmission, a)
    BY <1>0, <2>1, AnswerShape
  <2>3. a.kind # "ok"  BY <2>2
  <2> QED BY <1>0, <2>1, <2>2, <2>3
<1>2. CASE ok
  <2>1. PICK o : o = emits[l]  OBVIOUS
  <2>2. EmissionShape(o)  BY <2>1 DEF EmitTypes
  <2>3. PICK p : p = Head(o.marks)  OBVIOUS
  <2>4. PICK marks : marks = Tail(o.marks)  OBVIOUS
  <2>5. PICK step : step = IF Len(o.marks) = 1 THEN "publish" ELSE "mark"  OBVIOUS
  <2>6. step \in {"none", "render", "mark", "publish", "commit"}  BY <2>5
  <2>7. PICK e : e = [o EXCEPT !.marks = marks, !.step = step]  OBVIOUS
  <2>8. /\ EmissionShape(e) /\ e.artifact = o.artifact /\ e.step = step /\ e.marks = marks
    BY <2>2, <2>6, <2>7 DEF EmissionShape
  <2>9. /\ emits' = [emits EXCEPT ![l].marks = Tail(@),
                         ![l].step = IF Len(o.marks) = 1 THEN "publish" ELSE "mark"]
        /\ UNCHANGED answers
    BY <1>2, <2>1 DEF AppendTriple
  <2>10. emits' = [emits EXCEPT ![l] = e]
    BY <2>1, <2>4, <2>5, <2>7, <2>9 DEF EmitTypes
  <2>11. PICK a : a = answers[l] /\ Executes(l, e, a)  BY <1>0, <2>8, <2>9, <2>10, GoOnShape
  <2>12. markers' = [markers EXCEPT ![l][p] = e.artifact]
    BY <1>2, <2>1, <2>3, <2>8 DEF AppendTriple
  <2> QED BY <1>0, <2>1, <2>3, <2>4, <2>5, <2>8, <2>11, <2>12
<1> QED BY <1>1, <1>2

\* The payload is published and the keys to commit are known, or the emission ends.
LEMMA PublishShape ==
  ASSUME EmitTypes, NEW l \in Loops, NEW ok \in BOOLEAN, Publish(l, ok)
  PROVE  /\ emits[l].step = "publish"
         /\ UNCHANGED <<githubVars, markers, files>>
         /\ \E e, a : /\ Executes(l, e, a)
                      /\ \/ e = NoEmission /\ a.kind # "ok" /\ UNCHANGED payloads
                         \/ /\ e.step = "commit" /\ a = answers[l]
                            /\ e.artifact = emits[l].artifact
                            /\ \E p : /\ payloads' = payloads \cup {p}
                                      /\ p.loop = l /\ p.artifact = e.artifact
                                      /\ e.keys = commitKeys(l, p.facts)
<1>0. emits[l].step = "publish" /\ UNCHANGED <<githubVars, markers, files, scenario>>
  BY DEF Publish
<1>1. CASE ~ok
  <2>1. answer(l, "network") /\ UNCHANGED payloads /\ "network" \in AnswerKinds
    BY <1>1 DEF Publish, AnswerKinds
  <2>2. PICK a : /\ a = [kind |-> "network", artifact |-> emits[l].artifact]
                 /\ Executes(l, NoEmission, a)
    BY <1>0, <2>1, AnswerShape
  <2>3. a.kind # "ok"  BY <2>2
  <2> QED BY <1>0, <2>1, <2>2, <2>3
<1>2. CASE ok
  <2>1. PICK o : o = emits[l]  OBVIOUS
  <2>2. EmissionShape(o)  BY <2>1 DEF EmitTypes
  <2>3. PICK p : p = [loop |-> l, artifact |-> o.artifact, facts |-> o.facts]  OBVIOUS
  <2>4. p.loop = l /\ p.artifact = o.artifact /\ p.facts = o.facts  BY <2>3
  <2>5. PICK keys : keys = commitKeys(l, o.facts)  OBVIOUS
  <2>6. keys \subseteq Loops
    BY <2>2, <2>5, GithubConstantsOK DEF commitKeys, EmissionShape
  <2>7. PICK e : e = [o EXCEPT !.step = "commit", !.keys = keys]  OBVIOUS
  <2>8. /\ EmissionShape(e) /\ e.artifact = o.artifact /\ e.step = "commit" /\ e.keys = keys
    BY <2>2, <2>6, <2>7 DEF EmissionShape
  <2>9. /\ payloads' = payloads \cup {p} /\ UNCHANGED answers
        /\ emits' = [emits EXCEPT ![l].step = "commit", ![l].keys = keys]
    BY <1>2, <2>1, <2>3, <2>5 DEF Publish
  <2>10. emits' = [emits EXCEPT ![l] = e]  BY <2>1, <2>7, <2>9 DEF EmitTypes
  <2>11. PICK a : a = answers[l] /\ Executes(l, e, a)  BY <1>0, <2>8, <2>9, <2>10, GoOnShape
  <2>12. e.keys = commitKeys(l, p.facts)  BY <2>4, <2>5, <2>8
  <2> QED BY <1>0, <2>1, <2>4, <2>8, <2>9, <2>11, <2>12
<1> QED BY <1>1, <1>2

\* One key is committed; the last one ends the emission, and so does a failed flush.
LEMMA CommitCursorsShape ==
  ASSUME EmitTypes, NEW l \in Loops, NEW k \in emits[l].keys, NEW ok \in BOOLEAN,
         commitRunCursors(l, k, ok)
  PROVE  /\ emits[l].step = "commit" /\ k \in Loops /\ commitRun(k)
         /\ disk' \in {disk, entries'}
         /\ UNCHANGED <<world, calls, replies, fetched, cut, markers, files, payloads>>
         /\ \E e, a : /\ Executes(l, e, a)
                      /\ \/ /\ e = NoEmission
                            /\ a.kind = "ok" => a.artifact = emits[l].artifact
                         \/ /\ e.step = "commit" /\ a = answers[l]
                            /\ e.artifact = emits[l].artifact /\ e.keys \subseteq emits[l].keys
<1>0. /\ emits[l].step = "commit" /\ commitRun(k) /\ UNCHANGED scenario
      /\ UNCHANGED <<world, calls, replies, fetched, cut, markers, files, payloads>>
  BY DEF commitRunCursors
<1>1. disk' \in {disk, entries'}  BY DEF commitRunCursors, flush
<1>2. PICK o : o = emits[l]  OBVIOUS
<1>3. EmissionShape(o)  BY <1>2 DEF EmitTypes
<1>4. k \in Loops  BY <1>2, <1>3 DEF EmissionShape
<1>5. CASE \E kind \in AnswerKinds : answer(l, kind)
  <2>1. PICK kind \in AnswerKinds : answer(l, kind)  BY <1>5
  <2>2. PICK a : /\ a = [kind |-> kind, artifact |-> o.artifact]
                 /\ Executes(l, NoEmission, a)
    BY <1>0, <1>2, <2>1, AnswerShape
  <2>3. a.artifact = o.artifact  BY <2>2
  <2> QED BY <1>0, <1>1, <1>2, <1>4, <2>2, <2>3
<1>6. CASE emits' = [emits EXCEPT ![l].keys = @ \ {k}] /\ UNCHANGED answers
  <2>1. PICK keys : keys = o.keys \ {k}  OBVIOUS
  <2>2. keys \subseteq o.keys /\ keys \subseteq Loops  BY <1>3, <2>1 DEF EmissionShape
  <2>3. PICK e : e = [o EXCEPT !.keys = keys]  OBVIOUS
  <2>4. EmissionShape(e) /\ e.artifact = o.artifact /\ e.step = o.step /\ e.keys = keys
    BY <1>3, <2>2, <2>3 DEF EmissionShape
  <2>5. emits' = [emits EXCEPT ![l] = e]  BY <1>2, <1>6, <2>1, <2>3 DEF EmitTypes
  <2>6. PICK a : a = answers[l] /\ Executes(l, e, a)  BY <1>0, <1>6, <2>4, <2>5, GoOnShape
  <2> QED BY <1>0, <1>1, <1>2, <1>4, <2>2, <2>4, <2>6
<1> QED BY <1>5, <1>6 DEF commitRunCursors, AnswerKinds

\* Every initial state is well-typed.
LEMMA TypesInit == Init => Types
<1> SUFFICES ASSUME Init PROVE Types  OBVIOUS
<1>1. GithubTypes
  <2>1. [i \in Items |-> 0] \in [Items -> Versions]  BY GithubConstantsOK DEF Versions
  <2>2. world \in [Streams -> [Items -> Versions]]  BY <2>1 DEF Init, GithubInit
  <2>3. calls \in [Loops -> CallStates] /\ \A l \in Loops : calls[l].got = {}
    BY FreshType DEF Init, GithubInit
  <2>4. entries \in [Streams -> CursorEntry] /\ disk \in [Streams -> CursorEntry]
    BY FreshType DEF Init, GithubInit
  <2> QED BY <2>2, <2>3, <2>4 DEF GithubTypes, Init, GithubInit
<1>2. EmitTypes
  <2>1. NoAnswer.kind = "none"  BY DEF NoAnswer
  <2> QED BY <2>1, NoEmissionShape DEF EmitTypes, Init, AnswerKinds
<1> QED BY <1>1, <1>2 DEF Types

\* GitHub moves on, within the bound.
LEMMA ActivityTypes ==
  ASSUME GithubTypes, NEW s, NEW i, Activity(s, i)
  PROVE  GithubTypes' /\ UNCHANGED <<entries, disk, staged, loopToRun, calls, replies, fetched, cut>>
<1>1. PICK now \in 1..MaxVersion : world' = [world EXCEPT ![s][i] = now]
  BY DEF Activity
<1>2. now \in Versions  BY GithubConstantsOK DEF Versions
<1>3. world' \in [Streams -> [Items -> Versions]]  BY <1>1, <1>2 DEF GithubTypes
<1>4. UNCHANGED <<entries, disk, staged, loopToRun, calls, replies, fetched, cut>>
  BY DEF Activity
<1> QED BY <1>3, <1>4 DEF GithubTypes

\* A restart keeps the file and the replies, and cuts the calls.
LEMMA RestartTypes ==
  ASSUME GithubTypes, Restart
  PROVE  /\ GithubTypes' /\ entries' = disk /\ DOMAIN staged' = {}
         /\ \A l \in Loops : loopToRun'[l] = None /\ calls'[l].at = None /\ calls'[l].got = {}
         /\ cut' = cut \cup UNION {calls[l].got : l \in Loops}
         /\ UNCHANGED <<disk, replies, fetched>>
<1>1. calls' \in [Loops -> CallStates] /\ \A l \in Loops : calls'[l] = Idle
  BY FreshType DEF Restart
<1>2. Idle.at = None /\ Idle.got = {}  BY FreshType DEF Idle
<1>3. /\ entries' = disk /\ DOMAIN staged' = {} /\ UNCHANGED <<world, disk, replies, fetched>>
      /\ loopToRun' = [l \in Loops |-> None]
      /\ cut' = cut \cup UNION {calls[l].got : l \in Loops}
  BY DEF Restart
<1> QED BY <1>1, <1>2, <1>3 DEF GithubTypes

ExecuteStep(l, ok) == renderMarkdown(l, ok) \/ AppendTriple(l, ok) \/ Publish(l, ok)

CrashStep ==
  /\ Restart /\ emits' = [l \in Loops |-> NoEmission]
  /\ UNCHANGED <<scenario, markers, files, payloads, answers, passes>>

\* The kinds of steps there are.
LEMMA NextCases ==
  ASSUME Types, [Next]_vars
  PROVE  \/ UNCHANGED vars
         \/ UNCHANGED emitVars /\ \E s, i : Activity(s, i)
         \/ UNCHANGED emitVars /\ \E l \in Loops : CallStep(l)
         \/ UNCHANGED emitVars /\ \E l \in Loops, flushed \in BOOLEAN : Stage(l, flushed)
         \/ \E l \in Loops : \E draft \in Drafts(l) : Emit(l, draft)
         \/ \E l \in Loops, ok \in BOOLEAN : ExecuteStep(l, ok)
         \/ \E l \in Loops : \E k \in emits[l].keys, ok \in BOOLEAN : commitRunCursors(l, k, ok)
         \/ CrashStep
<1>1. Script.readers \subseteq Loops
  BY EmitConstantsOK DEF Types, EmitTypes, Script, Scripts
<1>2. CASE GithubStep /\ UNCHANGED emitVars
  BY <1>2 DEF GithubStep, CallStep
<1>3. ASSUME NEW x, Activity(x[1], x[2]) PROVE \E s, i : Activity(s, i)
  BY <1>3
<1>4. ASSUME NEW l \in Script.readers, NEW q \in Script.requests, Call(l, q.filter, q.kinds, q.all)
      PROVE  \E m \in Loops : CallStep(m)
  BY <1>1, <1>4 DEF CallStep
<1> QED BY <1>2, <1>3, <1>4 DEF Next, ExecuteStep, CrashStep

\* Every step keeps the types.
LEMMA TypesStep == Types /\ [Next]_vars => Types'
<1> SUFFICES ASSUME Types, [Next]_vars PROVE Types'  OBVIOUS
<1>0. GithubTypes /\ EmitTypes  BY DEF Types
<1>a. UNCHANGED githubVars => GithubTypes'  BY <1>0 DEF githubVars, GithubTypes
<1>b. UNCHANGED emitVars => EmitTypes'  BY <1>0 DEF emitVars, EmitTypes, EmissionShape
<1>1. CASE UNCHANGED vars  BY <1>1, <1>a, <1>b DEF vars, Types
<1>2. ASSUME UNCHANGED emitVars, NEW s, NEW i, Activity(s, i) PROVE Types'
  BY <1>0, <1>b, <1>2, ActivityTypes DEF Types
<1>3. ASSUME UNCHANGED emitVars, NEW l \in Loops, CallStep(l) PROVE Types'
  BY <1>b, <1>3, CallShape DEF Types
<1>4. ASSUME UNCHANGED emitVars, NEW l \in Loops, NEW flushed \in BOOLEAN, Stage(l, flushed)
      PROVE  Types'
  <2>1. PICK k \in Loops : k = resolveRunScopeKey(l)  BY ScopeKey
  <2>2. PICK s \in Streams, new \in SUBSET Items, next \in CursorEntry : Staging(l, k, s, new, next)
    BY <1>0, <1>4, <2>1, StageShape
  <2>3. DOMAIN staged' \subseteq Loops \X Streams  BY <1>0, <2>2 DEF Staging, GithubTypes
  <2>4. ASSUME NEW x \in DOMAIN staged'
        PROVE  staged'[x].baseline \in CursorEntry /\ staged'[x].next \in CursorEntry
    <3>1. CASE x = <<k, s>>  BY <1>0, <2>2, <3>1 DEF Staging, GithubTypes
    <3>2. CASE x # <<k, s>>  BY <1>0, <2>2, <2>4, <3>2 DEF Staging, GithubTypes
    <3> QED BY <3>1, <3>2
  <2>5. loopToRun' \in [Loops -> Loops \cup {None}]  BY <1>0, <2>2 DEF Staging, GithubTypes
  <2>6. /\ calls' \in [Loops -> CallStates]
        /\ \A m \in Loops : calls'[m].got # {} => calls'[m].ok
    BY <1>0, <2>2 DEF Staging, GithubTypes
  <2>7. disk' \in [Streams -> CursorEntry] /\ UNCHANGED <<world, entries, replies>>
    BY <1>0, <2>2 DEF Staging, GithubTypes
  <2>8. GithubTypes'  BY <1>0, <2>3, <2>4, <2>5, <2>6, <2>7 DEF GithubTypes
  <2> QED BY <1>b, <1>4, <2>8 DEF Types
<1>5. ASSUME NEW l \in Loops, NEW draft, Emit(l, draft) PROVE Types'
  <2>1. UNCHANGED githubVars /\ \E e, a : Executes(l, e, a)  BY <1>5, EmitShape DEF githubVars
  <2> QED BY <1>0, <1>a, <2>1, ExecuteTypes DEF Types
<1>6. ASSUME NEW l \in Loops, NEW ok \in BOOLEAN, ExecuteStep(l, ok) PROVE Types'
  <2>1. UNCHANGED githubVars /\ \E e, a : Executes(l, e, a)
    <3>1. CASE renderMarkdown(l, ok)  BY <1>0, <3>1, RenderShape DEF githubVars
    <3>2. CASE AppendTriple(l, ok)  BY <1>0, <3>2, AppendShape DEF githubVars
    <3>3. CASE Publish(l, ok)  BY <1>0, <3>3, PublishShape DEF githubVars
    <3> QED BY <1>6, <3>1, <3>2, <3>3 DEF ExecuteStep
  <2> QED BY <1>0, <1>a, <2>1, ExecuteTypes DEF Types
<1>7. ASSUME NEW l \in Loops, NEW k \in emits[l].keys, NEW ok \in BOOLEAN, commitRunCursors(l, k, ok)
      PROVE  Types'
  <2>1. /\ k \in Loops /\ commitRun(k) /\ disk' \in {disk, entries'}
        /\ UNCHANGED <<world, calls, replies>>
        /\ \E e, a : Executes(l, e, a)
    BY <1>0, <1>7, CommitCursorsShape
  <2>2. /\ entries' \in [Streams -> CursorEntry]
        /\ DOMAIN staged' \subseteq DOMAIN staged /\ \A x \in DOMAIN staged' : staged'[x] = staged[x]
        /\ loopToRun' \in [Loops -> Loops \cup {None}]
    BY <1>0, <2>1, CommitShape
  <2>3. GithubTypes'  BY <1>0, <2>1, <2>2 DEF GithubTypes
  <2>4. EmitTypes'  BY <1>0, <2>1, ExecuteTypes
  <2> QED BY <2>3, <2>4 DEF Types
<1>8. CASE CrashStep
  <2>1. GithubTypes'  BY <1>0, <1>8, RestartTypes DEF CrashStep
  <2>2. /\ \A l \in Loops : emits'[l] = NoEmission
        /\ DOMAIN emits' = Loops /\ UNCHANGED <<scenario, answers>>
    BY <1>8 DEF CrashStep
  <2>3. \A l \in Loops : EmissionShape(emits[l])'
    BY <2>2, NoEmissionShape DEF EmissionShape
  <2>4. EmitTypes'  BY <1>0, <2>2, <2>3 DEF EmitTypes
  <2> QED BY <2>1, <2>4 DEF Types
<1> QED BY <1>1, <1>2, <1>3, <1>4, <1>5, <1>6, <1>7, <1>8, NextCases

\* The types hold in every reachable state.
LEMMA TypesAlways == Spec => []Types
  BY TypesInit, TypesStep, PTL DEF Spec

\* The cursors in memory and in the file, the staged ones, the calls and the
\* emissions keep their types whatever fails, and keys to commit are loops.
THEOREM TypeCorrect == Spec => []TypeOK
<1>1. Types => TypeOK
  <2> SUFFICES ASSUME Types PROVE TypeOK  OBVIOUS
  <2>1. ASSUME NEW l \in Loops
        PROVE  /\ calls[l].todo \subseteq Streams /\ calls[l].at \in Streams \cup {None}
               /\ emits[l].step \in {"none", "render", "mark", "publish", "commit"}
               /\ emits[l].keys \subseteq Loops
               /\ answers[l].kind \in {"none", "ok", "invalid_args", "network", "internal"}
    <3>1. calls[l] \in CallStates  BY DEF Types, GithubTypes
    <3>2. EmissionShape(emits[l]) /\ answers[l].kind \in AnswerKinds  BY DEF Types, EmitTypes
    <3> QED BY <3>1, <3>2 DEF CallStates, EmissionShape, AnswerKinds
  <2>2. \A x \in DOMAIN staged : {staged[x].baseline, staged[x].next} \subseteq CursorEntry
    BY DEF Types, GithubTypes
  <2> QED BY <2>1, <2>2 DEF Types, GithubTypes, TypeOK
<1> QED BY <1>1, TypesAlways, PTL

(***************************************************************************)
(* The cursors                                                             *)
(***************************************************************************)

\* Every version in a cursor is in T, except that what run k staged and did not
\* commit may be in F under k instead.
CursorsIn(T, F) ==
  /\ \A s \in Streams, i \in Items :
       <<s, i, entries[s].seen[i]>> \in T /\ <<s, i, disk[s].seen[i]>> \in T
  /\ \A l \in Loops, s \in Streams, i \in Items :
       calls[l].at = s /\ s # None => <<s, i, calls[l].prev.seen[i]>> \in T
  /\ \A k \in Loops, s \in Streams, i \in Items : <<k, s>> \in DOMAIN staged =>
       /\ <<s, i, staged[<<k, s>>].baseline.seen[i]>> \in T
       /\ \/ <<s, i, staged[<<k, s>>].next.seen[i]>> \in T
          \/ <<k, s, i, staged[<<k, s>>].next.seen[i]>> \in F

\* The store and what the calls have read from it stay.
LEMMA CursorsStay ==
  ASSUME NEW T, NEW F, NEW T2, NEW F2, CursorsIn(T, F), T \subseteq T2, F \subseteq F2,
         UNCHANGED <<entries, disk, staged>>,
         \A l \in Loops : calls'[l] = calls[l] \/ calls'[l].at = None
  PROVE  CursorsIn(T2, F2)'
<1>1. \A l \in Loops, s \in Streams, i \in Items :
        calls'[l].at = s /\ s # None => <<s, i, calls'[l].prev.seen[i]>> \in T2
  BY DEF CursorsIn
<1> QED BY <1>1 DEF CursorsIn

\* A call reads the baseline of its run, or the committed cursor.
LEMMA CursorsRead ==
  ASSUME Types, NEW T, NEW F, NEW T2, NEW F2, CursorsIn(T, F), T \subseteq T2, F \subseteq F2,
         NEW l \in Loops, CallStep(l)
  PROVE  CursorsIn(T2, F2)'
<1>1. PICK k \in Loops : k = resolveRunScopeKey(l)  BY ScopeKey
<1>2. /\ UNCHANGED <<entries, disk, staged>>
      /\ \A m \in Loops \ {l} : calls'[m] = calls[m]
      /\ \/ calls'[l].at = None
         \/ \E s \in Streams : calls'[l].at = s /\ calls'[l].prev = GetForRun(k, s)
  BY <1>1, CallShape
<1>3. ASSUME NEW s \in Streams, NEW i \in Items PROVE <<s, i, GetForRun(k, s).seen[i]>> \in T
  BY DEF CursorsIn, GetForRun
<1>4. ASSUME NEW m \in Loops, NEW s \in Streams, NEW i \in Items, calls'[m].at = s, s # None
      PROVE  <<s, i, calls'[m].prev.seen[i]>> \in T2
  <2>1. CASE m = l  BY <1>2, <1>3, <1>4, <2>1
  <2>2. CASE m # l  BY <1>2, <1>4, <2>2 DEF CursorsIn
  <2> QED BY <2>1, <2>2
<1> QED BY <1>2, <1>4 DEF CursorsIn

\* What is staged was read, or is a new record.
LEMMA CursorsStaged ==
  ASSUME Types, NEW T, NEW F, NEW T2, NEW F2, CursorsIn(T, F), T \subseteq T2, F \subseteq F2,
         NEW l \in Loops, NEW k \in Loops, NEW s \in Streams, NEW new \in SUBSET Items,
         NEW next \in CursorEntry, Staging(l, k, s, new, next),
         \A i \in new : \/ <<s, i, calls[l].items[i]>> \in T2
                        \/ <<k, s, i, calls[l].items[i]>> \in F2
  PROVE  CursorsIn(T2, F2)'
<1>1. /\ UNCHANGED entries /\ disk' \in {disk, entries} /\ calls[l].at = s /\ s # None
      /\ calls'[l].at = None /\ \A m \in Loops \ {l} : calls'[m] = calls[m]
  BY DEF Staging
<1>2. ASSUME NEW i \in Items
      PROVE  <<s, i, next.seen[i]>> \in T2 \/ <<k, s, i, next.seen[i]>> \in F2
  <2>1. next.seen[i] = IF i \in new THEN calls[l].items[i] ELSE calls[l].prev.seen[i]
    BY DEF Staging
  <2>2. <<s, i, calls[l].prev.seen[i]>> \in T  BY <1>1 DEF CursorsIn
  <2> QED BY <2>1, <2>2
<1>3. ASSUME NEW j \in Loops, NEW t \in Streams, NEW i \in Items, <<j, t>> \in DOMAIN staged'
      PROVE  /\ <<t, i, staged'[<<j, t>>].baseline.seen[i]>> \in T2
             /\ \/ <<t, i, staged'[<<j, t>>].next.seen[i]>> \in T2
                \/ <<j, t, i, staged'[<<j, t>>].next.seen[i]>> \in F2
  <2>1. CASE j = k /\ t = s
    <3>1. /\ staged'[<<k, s>>].next = next
          /\ staged'[<<k, s>>].baseline = IF <<k, s>> \in DOMAIN staged
                                          THEN staged[<<k, s>>].baseline ELSE entries[s]
      BY DEF Staging
    <3>2. <<s, i, staged'[<<k, s>>].baseline.seen[i]>> \in T  BY <3>1 DEF CursorsIn
    <3> QED BY <1>2, <2>1, <3>1, <3>2
  <2>2. CASE ~(j = k /\ t = s)
    <3>1. <<j, t>> # <<k, s>>  BY <2>2
    <3>2. <<j, t>> \in DOMAIN staged /\ staged'[<<j, t>>] = staged[<<j, t>>]
      BY <1>3, <3>1 DEF Staging
    <3> QED BY <3>2 DEF CursorsIn
  <2> QED BY <2>1, <2>2
<1>4. ASSUME NEW m \in Loops, NEW t \in Streams, NEW i \in Items, calls'[m].at = t, t # None
      PROVE  <<t, i, calls'[m].prev.seen[i]>> \in T2
  BY <1>1, <1>4 DEF CursorsIn
<1>5. \A t \in Streams, i \in Items :
        <<t, i, entries'[t].seen[i]>> \in T2 /\ <<t, i, disk'[t].seen[i]>> \in T2
  BY <1>1 DEF CursorsIn
<1> QED BY <1>3, <1>4, <1>5 DEF CursorsIn

\* What is committed was committed before or is staged under the key.
LEMMA CursorsCommitted ==
  ASSUME Types, NEW T, NEW F, NEW T2, NEW F2, CursorsIn(T, F), T \subseteq T2, F \subseteq F2,
         NEW k \in Loops, commitRun(k), disk' \in {disk, entries'}, UNCHANGED calls,
         NEW t \in Loops, t = Target(k),
         \A s \in Streams, i \in Items, v \in Versions : <<t, s, i, v>> \in F => <<s, i, v>> \in T2
  PROVE  CursorsIn(T2, F2)'
<1>1. /\ \A s \in Streams :
           \/ entries'[s].seen = entries[s].seen
           \/ <<t, s>> \in DOMAIN staged /\ entries'[s].seen = staged[<<t, s>>].next.seen
      /\ DOMAIN staged' \subseteq DOMAIN staged
      /\ \A x \in DOMAIN staged' : staged'[x] = staged[x]
  BY CommitShape DEF Types
<1>2. ASSUME NEW s \in Streams, NEW i \in Items
      PROVE  <<s, i, entries'[s].seen[i]>> \in T2 /\ <<s, i, disk'[s].seen[i]>> \in T2
  <2>1. CASE entries'[s].seen = entries[s].seen  BY <2>1 DEF CursorsIn
  <2>2. CASE <<t, s>> \in DOMAIN staged /\ entries'[s].seen = staged[<<t, s>>].next.seen
    <3>1. PICK v : v = staged[<<t, s>>].next.seen[i]  OBVIOUS
    <3>2. v \in Versions  BY <2>2, <3>1 DEF Types, GithubTypes, CursorEntry, Versions
    <3>3. <<s, i, v>> \in T \/ <<t, s, i, v>> \in F  BY <2>2, <3>1 DEF CursorsIn
    <3>4. <<s, i, v>> \in T2  BY <3>2, <3>3
    <3> QED BY <2>2, <3>1, <3>4 DEF CursorsIn
  <2> QED BY <1>1, <2>1, <2>2
<1> QED BY <1>1, <1>2 DEF CursorsIn

\* Only the file is left, and no call.
LEMMA CursorsRestarted ==
  ASSUME Types, NEW T, NEW F, NEW T2, NEW F2, CursorsIn(T, F), T \subseteq T2, F \subseteq F2,
         Restart
  PROVE  CursorsIn(T2, F2)'
<1>1. /\ entries' = disk /\ UNCHANGED disk /\ DOMAIN staged' = {}
      /\ \A l \in Loops : calls'[l].at = None
  BY RestartTypes DEF Types
<1> QED BY <1>1 DEF CursorsIn

(***************************************************************************)
(* Lost activity                                                           *)
(***************************************************************************)

Zeros == {<<s, i, 0>> : s \in Streams, i \in Items}

\* The records that reached a loop, are about to, or were cut off.
Told ==
  {x \in Streams \X Items \X Versions :
     \/ x \in Zeros
     \/ \E r \in replies : x \in r.records
     \/ \E l \in Loops : x \in calls[l].got
     \/ x \in cut}

ToldInv == \E T : T = Told /\ CursorsIn(T, {})

\* At the start all cursors are fresh.
LEMMA CursorsInit == Init => CursorsIn(Zeros, {})
<1> SUFFICES ASSUME Init PROVE CursorsIn(Zeros, {})  OBVIOUS
<1>1. \A i \in Items : Fresh.seen[i] = 0  BY DEF Fresh
<1>2. /\ \A s \in Streams : entries[s] = Fresh /\ disk[s] = Fresh
      /\ \A l \in Loops : calls[l] = Idle
      /\ DOMAIN staged = {}
  BY DEF Init, GithubInit
<1>3. Idle.at = None  BY DEF Idle
<1> QED BY <1>1, <1>2, <1>3 DEF CursorsIn, Zeros

\* Records pass from calls to replies or are cut; they do not disappear.
LEMMA ToldGrows ==
  ASSUME Types, [Next]_vars
  PROVE  Told \subseteq Told'
<1>0. GithubTypes /\ EmitTypes  BY DEF Types
<1>1. SUFFICES /\ replies \subseteq replies' /\ cut \subseteq cut'
               /\ \A l \in Loops : \/ calls[l].got \subseteq calls'[l].got
                                   \/ calls[l].got \subseteq cut'
                                   \/ \E r \in replies' : r.records = calls[l].got
  <2> SUFFICES ASSUME NEW x \in Told PROVE x \in Told'  OBVIOUS
  <2>1. CASE x \in Zeros  BY <2>1 DEF Told, Zeros
  <2>2. CASE \E r \in replies : x \in r.records  BY <1>1, <2>2 DEF Told
  <2>3. CASE \E l \in Loops : x \in calls[l].got  BY <1>1, <2>3 DEF Told
  <2>4. CASE x \in cut  BY <1>1, <2>4 DEF Told
  <2> QED BY <2>1, <2>2, <2>3, <2>4 DEF Told
<1>2. CASE UNCHANGED <<replies, cut, calls>>  BY <1>2
<1>3. ASSUME NEW l \in Loops, CallStep(l)
      PROVE  /\ replies \subseteq replies' /\ cut \subseteq cut'
             /\ \A m \in Loops : \/ calls[m].got \subseteq calls'[m].got
                                 \/ calls[m].got \subseteq cut'
                                 \/ \E r \in replies' : r.records = calls[m].got
  BY <1>3, CallShape
<1>4. ASSUME NEW l \in Loops, NEW flushed \in BOOLEAN, Stage(l, flushed)
      PROVE  /\ replies \subseteq replies' /\ cut \subseteq cut'
             /\ \A m \in Loops : calls[m].got \subseteq calls'[m].got \/ calls[m].got \subseteq cut'
  <2>1. PICK k : k = resolveRunScopeKey(l)  OBVIOUS
  <2>2. PICK s \in Streams, new \in SUBSET Items, next \in CursorEntry : Staging(l, k, s, new, next)
    BY <1>0, <1>4, <2>1, StageShape
  <2> QED BY <2>2 DEF Staging
<1>5. CASE CrashStep
  BY <1>0, <1>5, RestartTypes DEF CrashStep
<1>6. ASSUME NEW s, NEW i, Activity(s, i) PROVE UNCHANGED <<replies, cut, calls>>
  BY <1>6 DEF Activity
<1>7. ASSUME NEW l \in Loops, NEW draft, Emit(l, draft) PROVE UNCHANGED <<replies, cut, calls>>
  BY <1>7 DEF Emit, githubVars
<1>8. ASSUME NEW l \in Loops, NEW ok \in BOOLEAN, ExecuteStep(l, ok)
      PROVE  UNCHANGED <<replies, cut, calls>>
  BY <1>8 DEF ExecuteStep, renderMarkdown, AppendTriple, Publish, githubVars
<1>9. ASSUME NEW l \in Loops, NEW k \in emits[l].keys, NEW ok \in BOOLEAN, commitRunCursors(l, k, ok)
      PROVE  UNCHANGED <<replies, cut, calls>>
  BY <1>9 DEF commitRunCursors
<1>10. CASE UNCHANGED vars  BY <1>2, <1>10 DEF vars, githubVars
<1> QED BY <1>2, <1>3, <1>4, <1>5, <1>6, <1>7, <1>8, <1>9, <1>10, NextCases

\* The cursors as a whole, step by step: new records and committed keys must be
\* covered by the caller.
LEMMA CursorsStep ==
  ASSUME Types, [Next]_vars,
         NEW T, NEW F, NEW T2, NEW F2, CursorsIn(T, F), T \subseteq T2, F \subseteq F2,
         \A l \in Loops, k \in Loops, s \in Streams, new \in SUBSET Items, next \in CursorEntry :
            k = resolveRunScopeKey(l) /\ Staging(l, k, s, new, next) =>
              \A i \in new : \/ <<s, i, calls[l].items[i]>> \in T2
                             \/ <<k, s, i, calls[l].items[i]>> \in F2,
         \A l \in Loops, k \in Loops, t \in Loops :
            emits[l].step = "commit" /\ k \in emits[l].keys /\ t = Target(k) =>
              \A s \in Streams, i \in Items, v \in Versions :
                 <<t, s, i, v>> \in F => <<s, i, v>> \in T2
  PROVE  CursorsIn(T2, F2)'
<1>0. GithubTypes /\ EmitTypes  BY DEF Types
<1>1. CASE UNCHANGED <<entries, disk, staged, calls>>  BY <1>1, CursorsStay
<1>2. ASSUME NEW l \in Loops, CallStep(l) PROVE CursorsIn(T2, F2)'  BY <1>2, CursorsRead
<1>3. ASSUME NEW l \in Loops, NEW flushed \in BOOLEAN, Stage(l, flushed)
      PROVE  CursorsIn(T2, F2)'
  <2>1. PICK k \in Loops : k = resolveRunScopeKey(l)  BY ScopeKey
  <2>2. PICK s \in Streams, new \in SUBSET Items, next \in CursorEntry : Staging(l, k, s, new, next)
    BY <1>0, <1>3, <2>1, StageShape
  <2>3. \A i \in new : \/ <<s, i, calls[l].items[i]>> \in T2
                       \/ <<k, s, i, calls[l].items[i]>> \in F2
    BY <2>1, <2>2
  <2> QED BY <2>2, <2>3, CursorsStaged
<1>4. ASSUME NEW l \in Loops, NEW k \in emits[l].keys, NEW ok \in BOOLEAN, commitRunCursors(l, k, ok)
      PROVE  CursorsIn(T2, F2)'
  <2>1. /\ k \in Loops /\ commitRun(k) /\ disk' \in {disk, entries'} /\ UNCHANGED calls
        /\ emits[l].step = "commit"
    BY <1>0, <1>4, CommitCursorsShape
  <2>2. PICK t \in Loops : t = Target(k)  BY <1>0, <2>1 DEF Target, GithubTypes
  <2>3. \A s \in Streams, i \in Items, v \in Versions : <<t, s, i, v>> \in F => <<s, i, v>> \in T2
    BY <1>4, <2>1, <2>2
  <2> QED BY <2>1, <2>2, <2>3, CursorsCommitted
<1>5. CASE CrashStep  BY <1>5, CursorsRestarted DEF CrashStep
<1>6. ASSUME NEW s, NEW i, Activity(s, i) PROVE UNCHANGED <<entries, disk, staged, calls>>
  BY <1>6 DEF Activity
<1>7. ASSUME NEW l \in Loops, NEW draft, Emit(l, draft)
      PROVE  UNCHANGED <<entries, disk, staged, calls>>
  BY <1>7 DEF Emit, githubVars
<1>8. ASSUME NEW l \in Loops, NEW ok \in BOOLEAN, ExecuteStep(l, ok)
      PROVE  UNCHANGED <<entries, disk, staged, calls>>
  BY <1>8 DEF ExecuteStep, renderMarkdown, AppendTriple, Publish, githubVars
<1>9. CASE UNCHANGED vars  BY <1>1, <1>9 DEF vars, githubVars
<1> QED BY <1>1, <1>2, <1>3, <1>4, <1>5, <1>6, <1>7, <1>8, <1>9, NextCases

\* Activity is lost only with a call: whatever is marked as seen reached a loop,
\* is on its way to one, or belongs to a call that a failed flush or a crash cut.
THEOREM LostOnlyWithCallAlways == Spec => []LostOnlyWithCall
<1>1. Init => ToldInv
  <2> SUFFICES ASSUME Init PROVE ToldInv  OBVIOUS
  <2>1. PICK T : T = Told  OBVIOUS
  <2>2. PICK Z : Z = Zeros  OBVIOUS
  <2>3. Z \subseteq T  BY <2>1, <2>2, GithubConstantsOK DEF Told, Zeros, Versions
  <2>4. CursorsIn(Z, {})  BY <2>2, CursorsInit
  <2>5. CursorsIn(T, {})  BY <2>3, <2>4 DEF CursorsIn
  <2> QED BY <2>1, <2>5 DEF ToldInv
<1>2. Types /\ ToldInv /\ [Next]_vars => ToldInv'
  <2> SUFFICES ASSUME Types, ToldInv, [Next]_vars PROVE ToldInv'  OBVIOUS
  <2>1. PICK T : T = Told /\ CursorsIn(T, {})  BY DEF ToldInv
  <2>2. PICK T2 : T2 = Told'  OBVIOUS
  <2>3. T \subseteq T2  BY <2>1, <2>2, ToldGrows
  <2>4. ASSUME NEW l \in Loops, NEW k \in Loops, NEW s \in Streams, NEW new \in SUBSET Items,
               NEW next \in CursorEntry, Staging(l, k, s, new, next), NEW i \in new
        PROVE  <<s, i, calls[l].items[i]>> \in T2
    <3>1. PICK x : x = <<s, i, calls[l].items[i]>>  OBVIOUS
    <3>2. /\ x \in calls'[l].got \/ x \in cut'
          /\ x \in Streams \X Items \X Versions
      BY <2>4, <3>1 DEF Staging
    <3>3. x \in Told'  BY <3>2 DEF Told
    <3> QED BY <2>2, <3>1, <3>3
  <2>5. CursorsIn(T2, {})'  BY <2>1, <2>3, <2>4, CursorsStep
  <2> QED BY <2>2, <2>5 DEF ToldInv
<1>3. ToldInv => LostOnlyWithCall
  <2> SUFFICES ASSUME ToldInv, NEW s \in Streams, NEW i \in Items, entries[s].seen[i] > 0
               PROVE  \/ \E r \in replies : <<s, i, entries[s].seen[i]>> \in r.records
                      \/ \E l \in Loops : <<s, i, entries[s].seen[i]>> \in calls[l].got
                      \/ <<s, i, entries[s].seen[i]>> \in cut
    BY DEF LostOnlyWithCall
  <2>1. PICK v : v = entries[s].seen[i]  OBVIOUS
  <2>2. <<s, i, v>> \in Told  BY <2>1 DEF ToldInv, CursorsIn
  <2>3. <<s, i, v>> \notin Zeros  BY <2>1 DEF Zeros
  <2> QED BY <2>1, <2>2, <2>3 DEF Told
<1> QED BY <1>1, <1>2, <1>3, TypesAlways, PTL DEF Spec

(***************************************************************************)
(* Seen and published                                                      *)
(***************************************************************************)

\* Records read by a loop that a published payload concerns.
Published ==
  {x \in Streams \X Items \X Versions :
     \/ x \in Zeros
     \/ \E p \in payloads, l \in Loops :
          l \in commitKeys(p.loop, p.facts) /\ <<resolveRunScopeKey(l), x[1], x[2], x[3]>> \in fetched}

\* Loops stage under the key of their run, and the keys of an emission that
\* commits are those of its payload.
KeysInv ==
  /\ \A l \in Loops : loopToRun[l] \in {None, resolveRunScopeKey(l)}
  /\ \A k \in Loops, s \in Streams, i \in Items, v \in Versions :
       <<k, s, i, v>> \in fetched => resolveRunScopeKey(k) = k
  /\ \A l \in Loops : emits[l].step = "commit" =>
       \E p \in payloads : /\ p.loop = l /\ p.artifact = emits[l].artifact
                           /\ emits[l].keys \subseteq commitKeys(l, p.facts)

PublishedInv == \E T, F : T = Published /\ F = fetched /\ CursorsIn(T, F)

\* What a step does to emissions and payloads: one that commits was publishing
\* its payload, or was committing already.
Commits(l) ==
  emits'[l].step = "commit" =>
    \/ \E p \in payloads' : /\ p.loop = l /\ p.artifact = emits'[l].artifact
                            /\ emits'[l].keys = commitKeys(l, p.facts)
    \/ /\ emits[l].step = "commit" /\ emits'[l].artifact = emits[l].artifact
       /\ emits'[l].keys \subseteq emits[l].keys

\* Payloads and reads are never forgotten, and commits come from payloads.
LEMMA PayloadsGrow ==
  ASSUME Types, [Next]_vars
  PROVE  /\ payloads \subseteq payloads' /\ fetched \subseteq fetched'
         /\ \A l \in Loops : Commits(l)
<1>0. GithubTypes /\ EmitTypes  BY DEF Types
<1>a. ASSUME NEW l \in Loops, NEW e, NEW a, Executes(l, e, a),
             \/ e.step # "commit"
             \/ \E p \in payloads' : /\ p.loop = l /\ p.artifact = e.artifact
                                     /\ e.keys = commitKeys(l, p.facts)
             \/ /\ emits[l].step = "commit" /\ e.artifact = emits[l].artifact
                /\ e.keys \subseteq emits[l].keys
      PROVE  \A m \in Loops : Commits(m)
  BY <1>a DEF Executes, Commits
<1>b. ASSUME UNCHANGED emits PROVE \A m \in Loops : Commits(m)
  BY <1>b DEF Commits
<1>1. CASE UNCHANGED <<payloads, fetched, emits>>  BY <1>1, <1>b
<1>2. ASSUME UNCHANGED emitVars, NEW s, NEW i, Activity(s, i)
      PROVE  UNCHANGED <<payloads, fetched, emits>>
  BY <1>2 DEF Activity, emitVars
<1>3. ASSUME UNCHANGED emitVars, NEW l \in Loops, CallStep(l)
      PROVE  UNCHANGED <<payloads, fetched, emits>>
  BY <1>3, CallShape DEF emitVars
<1>4. ASSUME UNCHANGED emitVars, NEW l \in Loops, NEW flushed \in BOOLEAN, Stage(l, flushed)
      PROVE  UNCHANGED <<payloads, emits>> /\ fetched \subseteq fetched'
  BY <1>4 DEF Stage, emitVars
<1>5. ASSUME NEW l \in Loops, NEW draft, Emit(l, draft)
      PROVE  UNCHANGED <<payloads, fetched>> /\ \A m \in Loops : Commits(m)
  <2>1. UNCHANGED <<payloads, fetched>>  BY <1>5, EmitShape DEF githubVars
  <2>2. PICK e, a : /\ Executes(l, e, a) /\ (e = NoEmission \/ e.step = "render")
    BY <1>5, EmitShape
  <2>3. e.step # "commit"  BY <2>2, NoEmissionShape
  <2> QED BY <1>a, <2>1, <2>2, <2>3
<1>6. ASSUME NEW l \in Loops, NEW ok \in BOOLEAN, renderMarkdown(l, ok)
      PROVE  UNCHANGED <<payloads, fetched>> /\ \A m \in Loops : Commits(m)
  <2>1. UNCHANGED <<payloads, fetched>>  BY <1>0, <1>6, RenderShape DEF githubVars
  <2>2. PICK e, a : Executes(l, e, a) /\ (e = NoEmission \/ e.step = "mark")
    BY <1>0, <1>6, RenderShape
  <2>3. e.step # "commit"  BY <2>2, NoEmissionShape
  <2> QED BY <1>a, <2>1, <2>2, <2>3
<1>7. ASSUME NEW l \in Loops, NEW ok \in BOOLEAN, AppendTriple(l, ok)
      PROVE  UNCHANGED <<payloads, fetched>> /\ \A m \in Loops : Commits(m)
  <2>1. UNCHANGED <<payloads, fetched>>  BY <1>0, <1>7, AppendShape DEF githubVars
  <2>2. PICK e, a : Executes(l, e, a) /\ (e = NoEmission \/ e.step \in {"mark", "publish"})
    BY <1>0, <1>7, AppendShape
  <2>3. e.step # "commit"  BY <2>2, NoEmissionShape
  <2> QED BY <1>a, <2>1, <2>2, <2>3
<1>8. ASSUME NEW l \in Loops, NEW ok \in BOOLEAN, Publish(l, ok)
      PROVE  /\ payloads \subseteq payloads' /\ UNCHANGED fetched
             /\ \A m \in Loops : Commits(m)
  <2>1. UNCHANGED fetched  BY <1>0, <1>8, PublishShape DEF githubVars
  <2>2. PICK e, a : /\ Executes(l, e, a)
                    /\ \/ e = NoEmission /\ UNCHANGED payloads
                       \/ \E p : /\ payloads' = payloads \cup {p}
                                 /\ p.loop = l /\ p.artifact = e.artifact
                                 /\ e.keys = commitKeys(l, p.facts)
    BY <1>0, <1>8, PublishShape
  <2>3. payloads \subseteq payloads'  BY <2>2
  <2>4. \/ e.step # "commit"
        \/ \E p \in payloads' : /\ p.loop = l /\ p.artifact = e.artifact
                                /\ e.keys = commitKeys(l, p.facts)
    BY <2>2, NoEmissionShape
  <2> QED BY <1>a, <2>1, <2>2, <2>3, <2>4
<1>9. ASSUME NEW l \in Loops, NEW k \in emits[l].keys, NEW ok \in BOOLEAN, commitRunCursors(l, k, ok)
      PROVE  UNCHANGED <<payloads, fetched>> /\ \A m \in Loops : Commits(m)
  <2>1. UNCHANGED <<payloads, fetched>> /\ emits[l].step = "commit"
    BY <1>0, <1>9, CommitCursorsShape
  <2>2. PICK e, a : /\ Executes(l, e, a)
                    /\ \/ e = NoEmission
                       \/ e.artifact = emits[l].artifact /\ e.keys \subseteq emits[l].keys
    BY <1>0, <1>9, CommitCursorsShape
  <2> QED BY <1>a, <2>1, <2>2, NoEmissionShape
<1>10. CASE CrashStep
  <2>1. UNCHANGED <<payloads, fetched>>  BY <1>0, <1>10, RestartTypes DEF CrashStep
  <2>2. \A m \in Loops : emits'[m].step # "commit"  BY <1>10, NoEmissionShape DEF CrashStep
  <2> QED BY <2>1, <2>2 DEF Commits
<1>11. CASE UNCHANGED vars  BY <1>1, <1>11 DEF vars, githubVars, emitVars
<1> QED BY <1>1, <1>2, <1>3, <1>4, <1>5, <1>6, <1>7, <1>8, <1>9, <1>10, <1>11, <1>b, NextCases
  DEF ExecuteStep

\* Only staging makes a loop stand for a run, and only it fetches.
LEMMA KeysCases ==
  ASSUME Types, [Next]_vars
  PROVE  \/ UNCHANGED <<loopToRun, fetched>>
         \/ \E l \in Loops, k \in Loops, s \in Streams, new \in SUBSET Items, next \in CursorEntry :
              k = resolveRunScopeKey(l) /\ Staging(l, k, s, new, next)
         \/ UNCHANGED fetched /\ \A l \in Loops : loopToRun'[l] \in {None, loopToRun[l]}
<1>0. GithubTypes /\ EmitTypes  BY DEF Types
<1>1. CASE UNCHANGED vars  BY <1>1 DEF vars, githubVars
<1>2. ASSUME NEW s, NEW i, Activity(s, i) PROVE UNCHANGED <<loopToRun, fetched>>
  BY <1>2 DEF Activity
<1>3. ASSUME NEW l \in Loops, CallStep(l) PROVE UNCHANGED <<loopToRun, fetched>>
  BY <1>3, CallShape
<1>4. ASSUME NEW l \in Loops, NEW flushed \in BOOLEAN, Stage(l, flushed)
      PROVE  \E k \in Loops, s \in Streams, new \in SUBSET Items, next \in CursorEntry :
               k = resolveRunScopeKey(l) /\ Staging(l, k, s, new, next)
  <2>1. PICK k \in Loops : k = resolveRunScopeKey(l)  BY ScopeKey
  <2> QED BY <1>0, <1>4, <2>1, StageShape
<1>5. ASSUME NEW l \in Loops, NEW draft, Emit(l, draft) PROVE UNCHANGED <<loopToRun, fetched>>
  BY <1>5 DEF Emit, githubVars
<1>6. ASSUME NEW l \in Loops, NEW ok \in BOOLEAN, ExecuteStep(l, ok)
      PROVE  UNCHANGED <<loopToRun, fetched>>
  BY <1>6 DEF ExecuteStep, renderMarkdown, AppendTriple, Publish, githubVars
<1>7. ASSUME NEW l \in Loops, NEW k \in emits[l].keys, NEW ok \in BOOLEAN, commitRunCursors(l, k, ok)
      PROVE  UNCHANGED fetched /\ \A m \in Loops : loopToRun'[m] \in {None, loopToRun[m]}
  <2>1. k \in Loops /\ commitRun(k) /\ UNCHANGED fetched  BY <1>0, <1>7, CommitCursorsShape
  <2> QED BY <1>0, <2>1, CommitShape
<1>8. CASE CrashStep  BY <1>0, <1>8, RestartTypes DEF CrashStep
<1> QED BY <1>1, <1>2, <1>3, <1>4, <1>5, <1>6, <1>7, <1>8, NextCases

\* Keys stay those of runs.
LEMMA KeysStep ==
  ASSUME Types, KeysInv, [Next]_vars
  PROVE  KeysInv'
<1>1. /\ \A l \in Loops : loopToRun'[l] \in {None, resolveRunScopeKey(l)}
      /\ \A k \in Loops, s \in Streams, i \in Items, v \in Versions :
           <<k, s, i, v>> \in fetched' => resolveRunScopeKey(k) = k
  <2>1. CASE UNCHANGED <<loopToRun, fetched>>  BY <2>1 DEF KeysInv
  <2>2. CASE UNCHANGED fetched /\ \A l \in Loops : loopToRun'[l] \in {None, loopToRun[l]}
    BY <2>2 DEF KeysInv
  <2>3. ASSUME NEW l \in Loops, NEW k \in Loops, NEW s \in Streams, NEW new \in SUBSET Items,
               NEW next \in CursorEntry, k = resolveRunScopeKey(l), Staging(l, k, s, new, next)
        PROVE  <1>1!1 /\ <1>1!2
    <3>1. resolveRunScopeKey(k) = k  BY <2>3, ScopeKey
    <3>2. /\ loopToRun' = [loopToRun EXCEPT ![l] = k]
          /\ fetched' = fetched \cup {<<k, s, i, calls[l].items[i]>> : i \in new}
      BY <2>3 DEF Staging
    <3>3. <1>1!1  BY <2>3, <3>2 DEF KeysInv, Types, GithubTypes
    <3>4. ASSUME NEW j \in Loops, NEW t \in Streams, NEW i \in Items, NEW v \in Versions,
                 <<j, t, i, v>> \in fetched'
          PROVE  resolveRunScopeKey(j) = j
      <4>1. CASE <<j, t, i, v>> \in fetched  BY <4>1 DEF KeysInv
      <4>2. CASE <<j, t, i, v>> \notin fetched
        <5>1. j = k  BY <3>2, <3>4, <4>2
        <5> QED BY <3>1, <5>1
      <4> QED BY <4>1, <4>2
    <3> QED BY <3>3, <3>4
  <2> QED BY <2>1, <2>2, <2>3, KeysCases
<1>2. ASSUME NEW l \in Loops, emits'[l].step = "commit"
      PROVE  \E p \in payloads' : /\ p.loop = l /\ p.artifact = emits'[l].artifact
                                  /\ emits'[l].keys \subseteq commitKeys(l, p.facts)
  BY <1>2, PayloadsGrow DEF Commits, KeysInv
<1> QED BY <1>1, <1>2 DEF KeysInv

\* The keys and the cursors hold initially.
LEMMA PublishedInit == Init => KeysInv /\ PublishedInv
<1> SUFFICES ASSUME Init PROVE KeysInv /\ PublishedInv  OBVIOUS
<1>1. KeysInv  BY NoEmissionShape DEF Init, GithubInit, KeysInv
<1>2. PICK T : T = Published  OBVIOUS
<1>3. PICK F : F = fetched  OBVIOUS
<1>4. PICK Z : Z = Zeros  OBVIOUS
<1>5. Z \subseteq T  BY <1>2, <1>4, GithubConstantsOK DEF Published, Zeros, Versions
<1>6. CursorsIn(Z, {})  BY <1>4, CursorsInit
<1>7. CursorsIn(T, F)  BY <1>5, <1>6 DEF CursorsIn
<1> QED BY <1>1, <1>2, <1>3, <1>7 DEF PublishedInv

\* What an emission commits was read by a loop its payload concerns.
LEMMA PublishedStep ==
  ASSUME Types, KeysInv, PublishedInv, [Next]_vars
  PROVE  PublishedInv'
<1>1. PICK T, F : T = Published /\ F = fetched /\ CursorsIn(T, F)  BY DEF PublishedInv
<1>2. PICK T2 : T2 = Published'  OBVIOUS
<1>3. PICK F2 : F2 = fetched'  OBVIOUS
<1>4. payloads \subseteq payloads' /\ fetched \subseteq fetched'  BY PayloadsGrow
<1>5. T \subseteq T2 /\ F \subseteq F2  BY <1>1, <1>2, <1>3, <1>4 DEF Published
<1>6. ASSUME NEW l \in Loops, NEW k \in Loops, NEW s \in Streams, NEW new \in SUBSET Items,
             NEW next \in CursorEntry, Staging(l, k, s, new, next), NEW i \in new
      PROVE  <<k, s, i, calls[l].items[i]>> \in F2
  BY <1>3, <1>6 DEF Staging
<1>7. ASSUME NEW l \in Loops, NEW k \in Loops, NEW t \in Loops,
             emits[l].step = "commit", k \in emits[l].keys, t = Target(k),
             NEW s \in Streams, NEW i \in Items, NEW v \in Versions, <<t, s, i, v>> \in F
      PROVE  <<s, i, v>> \in T2
  <2>1. PICK p \in payloads : p.loop = l /\ emits[l].keys \subseteq commitKeys(l, p.facts)
    BY <1>7 DEF KeysInv
  <2>2. k \in commitKeys(p.loop, p.facts) /\ p \in payloads'  BY <1>4, <1>7, <2>1
  <2>3. <<t, s, i, v>> \in fetched /\ <<t, s, i, v>> \in fetched'  BY <1>1, <1>4, <1>7
  <2>4. resolveRunScopeKey(t) = t  BY <2>3 DEF KeysInv
  <2>5. resolveRunScopeKey(k) = t  BY <1>7, <2>4 DEF KeysInv, Target
  <2>6. PICK x \in Streams \X Items \X Versions : x = <<s, i, v>>  OBVIOUS
  <2>7. <<resolveRunScopeKey(k), x[1], x[2], x[3]>> \in fetched'  BY <2>3, <2>5, <2>6
  <2>8. x \in Published'  BY <2>2, <2>7 DEF Published
  <2> QED BY <1>2, <2>6, <2>8
<1>8. CursorsIn(T2, F2)'  BY <1>1, <1>5, <1>6, <1>7, CursorsStep
<1> QED BY <1>2, <1>3, <1>8 DEF PublishedInv

\* A version is marked as seen, in memory or in the file, only when a run that
\* read it has published, whatever failed or crashed on the way.
THEOREM SeenWasPublishedAlways == Spec => []SeenWasPublished
<1>1. PublishedInv => SeenWasPublished
  <2> SUFFICES ASSUME PublishedInv, NEW s \in Streams, NEW i \in Items,
                      NEW v \in {entries[s].seen[i], disk[s].seen[i]} \ {0}
               PROVE  \E p \in payloads, l \in Loops :
                        /\ l \in {p.loop} \cup {f.loop : f \in p.facts} \cup ({Anchor[p.loop]} \ {None})
                        /\ <<resolveRunScopeKey(l), s, i, v>> \in fetched
    BY DEF SeenWasPublished
  <2>1. PICK x : x = <<s, i, v>>  OBVIOUS
  <2>2. x \in Published /\ x \notin Zeros
    <3>1. PICK T : T = Published /\ \E F : CursorsIn(T, F)  BY DEF PublishedInv
    <3>2. <<s, i, v>> \in T  BY <3>1 DEF CursorsIn
    <3>3. <<s, i, v>> \notin Zeros  BY DEF Zeros
    <3> QED BY <2>1, <3>1, <3>2, <3>3
  <2>3. PICK p \in payloads, l \in Loops :
          /\ l \in commitKeys(p.loop, p.facts)
          /\ <<resolveRunScopeKey(l), x[1], x[2], x[3]>> \in fetched
    BY <2>2 DEF Published
  <2>4. l \in {p.loop} \cup {f.loop : f \in p.facts} \cup ({Anchor[p.loop]} \ {None})
    BY <2>3 DEF commitKeys
  <2>5. <<resolveRunScopeKey(l), s, i, v>> \in fetched  BY <2>1, <2>3
  <2> QED BY <2>4, <2>5
<1>2. Types /\ KeysInv /\ PublishedInv /\ [Next]_vars => KeysInv' /\ PublishedInv'
  BY KeysStep, PublishedStep
<1> QED BY <1>1, <1>2, PublishedInit, TypesAlways, PTL DEF Spec

(***************************************************************************)
(* A success is whole                                                      *)
(***************************************************************************)

Predicates == {"revision", "counts", "test-harness", "path"}
PredicatesOf(a) ==
  {"revision", "counts", "path"} \cup (IF a.harness THEN {"test-harness"} ELSE {})

\* Predicate p is still to be written.
Left(m, p) == \E i \in 1..Len(m) : m[i] = p

\* The file of the artifact is there, or another loop's in its place.
Filed(l, a) ==
  \E slug : /\ slug = DeriveDated(a.title, l) /\ slug \in DOMAIN files
            /\ files[slug].loop = l => files[slug].artifact = a

Marked(l, a) == \A p \in PredicatesOf(a) : markers[l][p] = a

\* How far emission e of a loop is: what it has not written yet, it will.
Progress(l, e, a) ==
  /\ e.step # "none" => a.kind # "ok"
  /\ e.step = "render" => e.marks = Append(buildTriples(e.artifact), "path")
  /\ e.step \in {"mark", "publish", "commit"} => Filed(l, e.artifact)
  /\ e.step = "mark" => /\ e.marks \in Seq(Predicates) /\ e.marks # << >>
                        /\ \A p \in PredicatesOf(e.artifact) :
                             Left(e.marks, p) \/ markers[l][p] = e.artifact
  /\ e.step \in {"publish", "commit"} => Marked(l, e.artifact)

\* What answer a promises.
Whole(l, a) ==
  a.kind = "ok" => /\ Marked(l, a.artifact) /\ Filed(l, a.artifact)
                   /\ \E p \in payloads : p.loop = l /\ p.artifact = a.artifact

Marking == DOMAIN markers = Loops /\ \A l \in Loops : DOMAIN markers[l] = Predicates

WholeInv ==
  /\ Marking
  /\ \A l \in Loops : \E e, a : /\ e = emits[l] /\ a = answers[l]
                                /\ Progress(l, e, a) /\ Whole(l, a)

\* The list of triples names every predicate of the artifact.
LEMMA MarksWhole ==
  ASSUME NEW a, NEW m, m = Append(buildTriples(a), "path")
  PROVE  m \in Seq(Predicates) /\ m # << >> /\ \A p \in PredicatesOf(a) : Left(m, p)
<1>a. ASSUME NEW S, NEW q \in Seq(S), NEW p \in S PROVE Append(q, p) \in Seq(S)  OBVIOUS
<1>1. CASE a.harness
  <2>1. PICK b : b = <<"revision", "counts", "test-harness">>  OBVIOUS
  <2>2. m = Append(b, "path")  BY <1>1, <2>1 DEF buildTriples
  <2>b. b \in Seq(Predicates) /\ "path" \in Predicates  BY <2>1 DEF Predicates
  <2>c. Len(b) = 3 /\ b[1] = "revision" /\ b[2] = "counts" /\ b[3] = "test-harness"  BY <2>1
  <2>3. Len(m) = 4 /\ m[1] = "revision" /\ m[2] = "counts" /\ m[3] = "test-harness" /\ m[4] = "path"
    BY <2>2, <2>b, <2>c
  <2>d. m \in Seq(Predicates)  BY <2>2, <2>b, <1>a
  <2>4. m \in Seq(Predicates) /\ m # << >>  BY <2>3, <2>d
  <2>5. Left(m, "revision") /\ Left(m, "counts") /\ Left(m, "test-harness") /\ Left(m, "path")
    BY <2>3 DEF Left
  <2> QED BY <1>1, <2>4, <2>5 DEF PredicatesOf
<1>2. CASE ~a.harness
  <2>1. PICK b : b = <<"revision", "counts">>  OBVIOUS
  <2>2. m = Append(b, "path")  BY <1>2, <2>1 DEF buildTriples
  <2>3. Len(m) = 3 /\ m[1] = "revision" /\ m[2] = "counts" /\ m[3] = "path"  BY <2>1, <2>2
  <2>b. b \in Seq(Predicates) /\ "path" \in Predicates  BY <2>1 DEF Predicates
  <2>d. m \in Seq(Predicates)  BY <2>2, <2>b, <1>a
  <2>4. m \in Seq(Predicates) /\ m # << >>  BY <2>3, <2>d
  <2>5. Left(m, "revision") /\ Left(m, "counts") /\ Left(m, "path")  BY <2>3 DEF Left
  <2> QED BY <1>2, <2>4, <2>5 DEF PredicatesOf
<1> QED BY <1>1, <1>2

\* One triple fewer.
LEMMA MarksTail ==
  ASSUME NEW m \in Seq(Predicates), m # << >>
  PROVE  /\ Head(m) \in Predicates /\ Tail(m) \in Seq(Predicates)
         /\ Len(m) = 1 => \A p : Left(m, p) => p = Head(m)
         /\ Len(m) # 1 => Tail(m) # << >>
         /\ \A p : Left(m, p) => p = Head(m) \/ Left(Tail(m), p)
<1>1. Len(m) \in Nat /\ Len(m) > 0 /\ Head(m) = m[1] /\ Len(Tail(m)) = Len(m) - 1
  OBVIOUS
<1>2. \A i \in 2..Len(m) : Tail(m)[i - 1] = m[i] /\ i - 1 \in 1..Len(Tail(m))  BY <1>1
<1>3. ASSUME NEW p, Left(m, p) PROVE p = Head(m) \/ Left(Tail(m), p)
  <2>1. PICK i \in 1..Len(m) : m[i] = p  BY <1>3 DEF Left
  <2>2. CASE i = 1  BY <1>1, <2>1, <2>2
  <2>3. CASE i # 1
    <3>1. i \in 2..Len(m)  BY <1>1, <2>3
    <3>2. Tail(m)[i - 1] = p /\ i - 1 \in 1..Len(Tail(m))  BY <1>2, <2>1, <3>1
    <3> QED BY <3>2 DEF Left
  <2> QED BY <2>2, <2>3
<1>4. Len(m) = 1 => \A p : Left(m, p) => p = Head(m)
  BY <1>1 DEF Left
<1>5. Len(m) # 1 => Tail(m) # << >>  BY <1>1
<1>6. Head(m) \in Predicates /\ Tail(m) \in Seq(Predicates)  OBVIOUS
<1> QED BY <1>3, <1>4, <1>5, <1>6

\* A step that leaves the markers, the files and the payloads of loop l.
Keeps(l) ==
  /\ markers'[l] = markers[l] /\ payloads \subseteq payloads'
  /\ \A s \in DOMAIN files :
       s \in DOMAIN files' /\ (files'[s] = files[s] \/ files'[s].loop # l)

\* Such a step takes nothing from the loop.
LEMMA KeepsWhole ==
  ASSUME NEW l \in Loops, Keeps(l)
  PROVE  /\ \A e, a : Progress(l, e, a) => Progress(l, e, a)'
         /\ \A a : Whole(l, a) => Whole(l, a)'
<1>1. ASSUME NEW a, Filed(l, a) PROVE Filed(l, a)'
  BY <1>1 DEF Filed, Keeps
<1>2. ASSUME NEW a, Marked(l, a) PROVE Marked(l, a)'
  BY <1>2 DEF Marked, Keeps
<1>3. ASSUME NEW e, NEW a, Progress(l, e, a) PROVE Progress(l, e, a)'
  <2>1. PICK art : art = e.artifact  OBVIOUS
  <2>2. e.step \in {"mark", "publish", "commit"} => Filed(l, art)'
    BY <1>1, <1>3, <2>1 DEF Progress
  <2>3. e.step \in {"publish", "commit"} => Marked(l, art)'
    BY <1>2, <1>3, <2>1 DEF Progress
  <2>4. e.step = "mark" => /\ e.marks \in Seq(Predicates) /\ e.marks # << >>
                           /\ \A p \in PredicatesOf(art) :
                                Left(e.marks, p) \/ markers'[l][p] = art
    BY <1>3, <2>1 DEF Progress, Keeps
  <2> QED BY <1>3, <2>1, <2>2, <2>3, <2>4 DEF Progress
<1>4. ASSUME NEW a, Whole(l, a) PROVE Whole(l, a)'
  <2>1. PICK art : art = a.artifact  OBVIOUS
  <2>2. CASE a.kind = "ok"
    <3>1. Marked(l, art)' /\ Filed(l, art)'  BY <1>1, <1>2, <1>4, <2>1, <2>2 DEF Whole
    <3>2. \E p \in payloads' : p.loop = l /\ p.artifact = art
      BY <1>4, <2>1, <2>2 DEF Whole, Keeps
    <3> QED BY <2>1, <3>1, <3>2 DEF Whole
  <2>3. CASE a.kind # "ok"  BY <2>3 DEF Whole
  <2> QED BY <2>2, <2>3
<1> QED BY <1>3, <1>4

\* A step of one loop's Execute, when that loop is left as it should be.
LEMMA WholeExecutes ==
  ASSUME WholeInv, NEW l \in Loops, NEW e, NEW a, Executes(l, e, a), Marking',
         Progress(l, e, a)', Whole(l, a)', \A m \in Loops \ {l} : Keeps(m)
  PROVE  WholeInv'
<1>1. ASSUME NEW m \in Loops
      PROVE  \E f, b : /\ f = emits'[m] /\ b = answers'[m]
                       /\ Progress(m, f, b)' /\ Whole(m, b)'
  <2>1. CASE m = l  BY <2>1 DEF Executes
  <2>2. CASE m # l
    <3>1. PICK f, b : f = emits[m] /\ b = answers[m] /\ Progress(m, f, b) /\ Whole(m, b)
      BY DEF WholeInv
    <3>2. f = emits'[m] /\ b = answers'[m]  BY <2>2, <3>1 DEF Executes
    <3>3. Progress(m, f, b)' /\ Whole(m, b)'  BY <2>2, <3>1, KeepsWhole
    <3> QED BY <3>2, <3>3
  <2> QED BY <2>1, <2>2
<1> QED BY <1>1 DEF WholeInv

\* A step that leaves all emissions and answers.
LEMMA WholeStays ==
  ASSUME WholeInv, UNCHANGED <<emits, answers, markers, files, payloads>>
  PROVE  WholeInv'
<1>1. Marking'  BY DEF WholeInv, Marking
<1>2. ASSUME NEW m \in Loops
      PROVE  \E f, b : /\ f = emits'[m] /\ b = answers'[m]
                       /\ Progress(m, f, b)' /\ Whole(m, b)'
  <2>1. PICK f, b : f = emits[m] /\ b = answers[m] /\ Progress(m, f, b) /\ Whole(m, b)
    BY DEF WholeInv
  <2>2. Keeps(m)  BY DEF Keeps
  <2> QED BY <2>1, <2>2, KeepsWhole
<1> QED BY <1>1, <1>2 DEF WholeInv

\* The emission that ends without success owes nothing.
LEMMA NothingOwed ==
  ASSUME NEW l, NEW a, a.kind # "ok"
  PROVE  Progress(l, NoEmission, a)' /\ Whole(l, a)'
<1>1. PICK e : e = NoEmission  OBVIOUS
<1>2. e.step = "none"  BY <1>1, NoEmissionShape
<1>3. Progress(l, e, a)'  BY <1>2 DEF Progress
<1>4. Whole(l, a)'  BY DEF Whole
<1> QED BY <1>1, <1>3, <1>4

\* Emit starts with every marker to write.
LEMMA WholeEmit ==
  ASSUME Types, WholeInv, NEW l \in Loops, NEW draft, Emit(l, draft)
  PROVE  WholeInv'
<1>1. UNCHANGED <<markers, files, payloads>>  BY EmitShape
<1>2. PICK e, a : /\ Executes(l, e, a) /\ a.kind # "ok"
                  /\ \/ e = NoEmission
                     \/ e.step = "render" /\ e.marks = Append(buildTriples(e.artifact), "path")
  BY EmitShape
<1>3. Marking' /\ \A m \in Loops : Keeps(m)  BY <1>1 DEF WholeInv, Marking, Keeps
<1>4. Whole(l, a)'  BY <1>2, NothingOwed
<1>5. Progress(l, e, a)'
  <2>1. CASE e = NoEmission  BY <1>2, <2>1, NothingOwed
  <2>2. CASE e.step = "render" /\ e.marks = Append(buildTriples(e.artifact), "path")
    BY <1>2, <2>2 DEF Progress
  <2> QED BY <1>2, <2>1, <2>2
<1> QED BY <1>2, <1>3, <1>4, <1>5, WholeExecutes

\* The file is written before the first marker.
LEMMA WholeRender ==
  ASSUME Types, WholeInv, NEW l \in Loops, NEW ok \in BOOLEAN, renderMarkdown(l, ok)
  PROVE  WholeInv'
<1>0. EmitTypes  BY DEF Types
<1>1. emits[l].step = "render" /\ UNCHANGED <<markers, payloads>>  BY <1>0, RenderShape
<1>2. PICK e, a : /\ Executes(l, e, a)
                  /\ \/ e = NoEmission /\ a.kind # "ok" /\ UNCHANGED files
                     \/ /\ e.step = "mark" /\ a = answers[l]
                        /\ e.artifact = emits[l].artifact /\ e.marks = emits[l].marks
                        /\ \E slug : /\ slug = DeriveDated(e.artifact.title, l)
                                     /\ files' = [s \in DOMAIN files \cup {slug} |->
                                          IF s = slug THEN [loop |-> l, artifact |-> e.artifact]
                                          ELSE files[s]]
  BY <1>0, RenderShape
<1>3. Marking'  BY <1>1 DEF WholeInv, Marking
<1>4. CASE e = NoEmission /\ a.kind # "ok" /\ UNCHANGED files
  <2>1. \A m \in Loops : Keeps(m)  BY <1>1, <1>4 DEF Keeps
  <2>2. Progress(l, e, a)' /\ Whole(l, a)'  BY <1>4, NothingOwed
  <2> QED BY <1>2, <1>3, <2>1, <2>2, WholeExecutes
<1>5. CASE e.step = "mark"
  <2>1. e # NoEmission  BY <1>5, NoEmissionShape
  <2>2. PICK slug : /\ slug = DeriveDated(e.artifact.title, l)
                    /\ files' = [s \in DOMAIN files \cup {slug} |->
                         IF s = slug THEN [loop |-> l, artifact |-> e.artifact] ELSE files[s]]
    BY <1>2, <2>1
  <2>3. PICK o, b : o = emits[l] /\ b = answers[l] /\ Progress(l, o, b)  BY DEF WholeInv
  <2>4. a = b /\ o.step = "render" /\ e.artifact = o.artifact /\ e.marks = o.marks
    BY <1>1, <1>2, <2>1, <2>3
  <2>5. a.kind # "ok" /\ e.marks = Append(buildTriples(e.artifact), "path")
    BY <2>3, <2>4 DEF Progress
  <2>6. PICK art : art = e.artifact  OBVIOUS
  <2>7. PICK file : file = [loop |-> l, artifact |-> art]  OBVIOUS
  <2>f. file.loop = l /\ file.artifact = art  BY <2>7
  <2>8. /\ DOMAIN files' = DOMAIN files \cup {slug} /\ files'[slug] = file
        /\ \A s \in DOMAIN files : s # slug => files'[s] = files[s]
    BY <2>2, <2>6, <2>7
  <2>k. ASSUME NEW m \in Loops \ {l} PROVE Keeps(m)
    <3>1. ASSUME NEW s \in DOMAIN files
          PROVE  s \in DOMAIN files' /\ (files'[s] = files[s] \/ files'[s].loop # m)
      <4>1. CASE s = slug  BY <2>8, <2>f, <4>1
      <4>2. CASE s # slug  BY <2>8, <4>2
      <4> QED BY <4>1, <4>2
    <3> QED BY <1>1, <3>1 DEF Keeps
  <2>9. Filed(l, art)'
    <3>1. slug = DeriveDated(art.title, l)  BY <2>2, <2>6
    <3> QED BY <2>8, <2>f, <3>1 DEF Filed
  <2>10. PICK marks : marks = e.marks  OBVIOUS
  <2>11. marks \in Seq(Predicates) /\ marks # << >> /\ \A p \in PredicatesOf(art) : Left(marks, p)
    BY <2>5, <2>6, <2>10, MarksWhole
  <2>12. Progress(l, e, a)'
    BY <1>5, <2>5, <2>6, <2>9, <2>10, <2>11 DEF Progress
  <2>13. Whole(l, a)'  BY <2>5, NothingOwed
  <2> QED BY <1>2, <1>3, <2>k, <2>12, <2>13, WholeExecutes
<1> QED BY <1>2, <1>4, <1>5

\* A marker is written and no longer left; when none is left all are written.
LEMMA WholeAppend ==
  ASSUME Types, WholeInv, NEW l \in Loops, NEW ok \in BOOLEAN, AppendTriple(l, ok)
  PROVE  WholeInv'
<1>0. EmitTypes  BY DEF Types
<1>1. emits[l].step = "mark" /\ UNCHANGED <<files, payloads>>  BY <1>0, AppendShape
<1>2. PICK e, a : /\ Executes(l, e, a)
                  /\ \/ e = NoEmission /\ a.kind # "ok" /\ UNCHANGED markers
                     \/ /\ e.step = IF Len(emits[l].marks) = 1 THEN "publish" ELSE "mark"
                        /\ a = answers[l] /\ e.artifact = emits[l].artifact
                        /\ e.marks = Tail(emits[l].marks)
                        /\ \E p : /\ p = Head(emits[l].marks)
                                  /\ markers' = [markers EXCEPT ![l][p] = e.artifact]
  BY <1>0, AppendShape
<1>3. CASE e = NoEmission /\ a.kind # "ok" /\ UNCHANGED markers
  <2>1. Marking' /\ \A m \in Loops : Keeps(m)  BY <1>1, <1>3 DEF WholeInv, Marking, Keeps
  <2>2. Progress(l, e, a)' /\ Whole(l, a)'  BY <1>3, NothingOwed
  <2> QED BY <1>2, <2>1, <2>2, WholeExecutes
<1>4. CASE e # NoEmission
  <2>1. PICK o, b : o = emits[l] /\ b = answers[l] /\ Progress(l, o, b)  BY DEF WholeInv
  <2>2. PICK p : p = Head(o.marks) /\ markers' = [markers EXCEPT ![l][p] = e.artifact]
    BY <1>2, <1>4, <2>1
  <2>3. PICK art, marks : art = e.artifact /\ marks = e.marks  OBVIOUS
  <2>4. PICK om : om = o.marks  OBVIOUS
  <2>5. /\ o.step = "mark" /\ art = o.artifact /\ a = b /\ marks = Tail(om) /\ p = Head(om)
        /\ e.step = IF Len(om) = 1 THEN "publish" ELSE "mark"
    BY <1>1, <1>2, <1>4, <2>1, <2>2, <2>3, <2>4
  <2>6. /\ a.kind # "ok" /\ Filed(l, art) /\ om \in Seq(Predicates) /\ om # << >>
        /\ \A q \in PredicatesOf(art) : Left(om, q) \/ markers[l][q] = art
    BY <2>1, <2>4, <2>5 DEF Progress
  <2>7. /\ p \in Predicates /\ marks \in Seq(Predicates)
        /\ Len(om) = 1 => \A q : Left(om, q) => q = p
        /\ Len(om) # 1 => marks # << >>
        /\ \A q : Left(om, q) => q = p \/ Left(marks, q)
    BY <2>5, <2>6, MarksTail
  <2>8. /\ Marking' /\ markers'[l][p] = art
        /\ \A m \in Loops, q \in Predicates : m # l \/ q # p => markers'[m][q] = markers[m][q]
        /\ \A m \in Loops \ {l} : markers'[m] = markers[m]
    BY <2>2, <2>3, <2>7 DEF WholeInv, Marking
  <2>9. \A m \in Loops \ {l} : Keeps(m)  BY <1>1, <2>8 DEF Keeps
  <2>10. Filed(l, art)'  BY <1>1, <2>6 DEF Filed
  <2>11. ASSUME NEW q \in PredicatesOf(art), ~Left(om, q) \/ q = p PROVE markers'[l][q] = art
    <3>1. q \in Predicates  BY DEF PredicatesOf, Predicates
    <3> QED BY <2>6, <2>8, <2>11, <3>1
  <2>12. Progress(l, e, a)'
    <3>1. CASE Len(om) = 1
      <4>1. Marked(l, art)'  BY <2>7, <2>11, <3>1 DEF Marked
      <4>2. e.step = "publish"  BY <2>5, <3>1
      <4> QED BY <2>3, <2>6, <2>10, <4>1, <4>2 DEF Progress
    <3>2. CASE Len(om) # 1
      <4>1. e.step = "mark" /\ marks # << >>  BY <2>5, <2>7, <3>2
      <4>2. \A q \in PredicatesOf(art) : Left(marks, q) \/ markers'[l][q] = art
        BY <2>7, <2>11
      <4> QED BY <2>3, <2>6, <2>7, <2>10, <4>1, <4>2 DEF Progress
    <3> QED BY <3>1, <3>2
  <2>13. Whole(l, a)'  BY <2>6, NothingOwed
  <2> QED BY <1>2, <2>8, <2>9, <2>12, <2>13, WholeExecutes
<1>5. e = NoEmission => a.kind # "ok" /\ UNCHANGED markers
  BY <1>2, NoEmissionShape
<1> QED BY <1>3, <1>4, <1>5

\* Publishing writes no marker and no file, and keeps the payloads there are.
LEMMA WholePublish ==
  ASSUME Types, WholeInv, NEW l \in Loops, NEW ok \in BOOLEAN, Publish(l, ok)
  PROVE  WholeInv'
<1>0. EmitTypes  BY DEF Types
<1>1. emits[l].step = "publish" /\ UNCHANGED <<markers, files>>  BY <1>0, PublishShape
<1>2. PICK e, a : /\ Executes(l, e, a)
                  /\ \/ e = NoEmission /\ a.kind # "ok" /\ UNCHANGED payloads
                     \/ /\ e.step = "commit" /\ a = answers[l]
                        /\ e.artifact = emits[l].artifact
                        /\ \E p : /\ payloads' = payloads \cup {p}
                                  /\ p.loop = l /\ p.artifact = e.artifact
                                  /\ e.keys = commitKeys(l, p.facts)
  BY <1>0, PublishShape
<1>3. Marking' /\ \A m \in Loops : Keeps(m)  BY <1>1, <1>2 DEF WholeInv, Marking, Keeps
<1>4. CASE e = NoEmission /\ a.kind # "ok"
  <2>1. Progress(l, e, a)' /\ Whole(l, a)'  BY <1>4, NothingOwed
  <2> QED BY <1>2, <1>3, <2>1, WholeExecutes
<1>5. CASE e.step = "commit" /\ a = answers[l] /\ e.artifact = emits[l].artifact
  <2>1. PICK o : o = emits[l] /\ Progress(l, o, a)  BY <1>5 DEF WholeInv
  <2>2. PICK art : art = e.artifact  OBVIOUS
  <2>3. Progress(l, o, a)'  BY <1>3, <2>1, KeepsWhole
  <2>4. Filed(l, art)' /\ Marked(l, art)' /\ a.kind # "ok"
    BY <1>1, <1>5, <2>1, <2>2, <2>3 DEF Progress
  <2>5. Progress(l, e, a)'  BY <1>5, <2>2, <2>4 DEF Progress
  <2>6. Whole(l, a)'  BY <2>4, NothingOwed
  <2> QED BY <1>2, <1>3, <2>5, <2>6, WholeExecutes
<1> QED BY <1>2, <1>4, <1>5

\* The emission that answers ok has written its markers, its file and its payload.
LEMMA WholeCommit ==
  ASSUME Types, KeysInv, WholeInv, NEW l \in Loops, NEW k \in emits[l].keys, NEW ok \in BOOLEAN,
         commitRunCursors(l, k, ok)
  PROVE  WholeInv'
<1>0. EmitTypes  BY DEF Types
<1>1. emits[l].step = "commit" /\ UNCHANGED <<markers, files, payloads>>
  BY <1>0, CommitCursorsShape
<1>2. PICK e, a : /\ Executes(l, e, a)
                  /\ \/ e = NoEmission /\ (a.kind = "ok" => a.artifact = emits[l].artifact)
                     \/ e.step = "commit" /\ a = answers[l] /\ e.artifact = emits[l].artifact
  BY <1>0, CommitCursorsShape
<1>3. Marking' /\ \A m \in Loops : Keeps(m)  BY <1>1 DEF WholeInv, Marking, Keeps
<1>4. PICK o, b : o = emits[l] /\ b = answers[l] /\ Progress(l, o, b)  BY DEF WholeInv
<1>5. PICK art : art = o.artifact  OBVIOUS
<1>6. Progress(l, o, b)'  BY <1>3, <1>4, KeepsWhole
<1>7. Filed(l, art)' /\ Marked(l, art)' /\ b.kind # "ok"
  BY <1>1, <1>4, <1>5, <1>6 DEF Progress
<1>8. CASE a.kind # "ok" /\ e = NoEmission
  <2>1. Progress(l, e, a)' /\ Whole(l, a)'  BY <1>8, NothingOwed
  <2> QED BY <1>2, <1>3, <2>1, WholeExecutes
<1>9. CASE a.kind = "ok" /\ e = NoEmission
  <2>1. a.artifact = art  BY <1>2, <1>4, <1>5, <1>9, NoEmissionShape
  <2>2. \E p \in payloads' : p.loop = l /\ p.artifact = art
    BY <1>1, <1>4, <1>5 DEF KeysInv
  <2>3. Whole(l, a)'  BY <1>7, <2>1, <2>2 DEF Whole
  <2>4. e.step = "none"  BY <1>9, NoEmissionShape
  <2>5. Progress(l, e, a)'  BY <2>4 DEF Progress
  <2> QED BY <1>2, <1>3, <2>3, <2>5, WholeExecutes
<1>10. CASE e.step = "commit" /\ a = answers[l] /\ e.artifact = emits[l].artifact
  <2>1. a = b /\ e.artifact = art  BY <1>4, <1>5, <1>10
  <2>2. Progress(l, e, a)'  BY <1>7, <1>10, <2>1 DEF Progress
  <2>3. Whole(l, a)'  BY <1>7, <2>1, NothingOwed
  <2> QED BY <1>2, <1>3, <2>2, <2>3, WholeExecutes
<1> QED BY <1>2, <1>8, <1>9, <1>10

\* A crash forgets the emissions; the answers were given before it.
LEMMA WholeCrash ==
  ASSUME Types, WholeInv, CrashStep
  PROVE  WholeInv'
<1>1. /\ \A m \in Loops : emits'[m] = NoEmission
      /\ UNCHANGED <<answers, markers, files, payloads>>
  BY DEF CrashStep
<1>2. Marking' /\ \A m \in Loops : Keeps(m)  BY <1>1 DEF WholeInv, Marking, Keeps
<1>3. ASSUME NEW m \in Loops
      PROVE  \E f, b : /\ f = emits'[m] /\ b = answers'[m]
                       /\ Progress(m, f, b)' /\ Whole(m, b)'
  <2>1. PICK b : b = answers[m] /\ Whole(m, b)  BY DEF WholeInv
  <2>2. PICK f : f = NoEmission  OBVIOUS
  <2>3. f.step = "none"  BY <2>2, NoEmissionShape
  <2>4. Progress(m, f, b)'  BY <2>3 DEF Progress
  <2>5. Whole(m, b)'  BY <1>2, <2>1, KeepsWhole
  <2> QED BY <1>1, <2>1, <2>2, <2>4, <2>5
<1> QED BY <1>2, <1>3 DEF WholeInv

\* Every step leaves each emission on its way and each success whole.
LEMMA WholeStep ==
  ASSUME Types, KeysInv, WholeInv, [Next]_vars
  PROVE  WholeInv'
<1>1. CASE UNCHANGED emitVars  BY <1>1, WholeStays DEF emitVars
<1>2. CASE UNCHANGED vars  BY <1>1, <1>2 DEF vars, emitVars
<1>3. ASSUME NEW l \in Loops, NEW draft, Emit(l, draft) PROVE WholeInv'
  BY <1>3, WholeEmit
<1>4. ASSUME NEW l \in Loops, NEW ok \in BOOLEAN, ExecuteStep(l, ok) PROVE WholeInv'
  BY <1>4, WholeRender, WholeAppend, WholePublish DEF ExecuteStep
<1>5. ASSUME NEW l \in Loops, NEW k \in emits[l].keys, NEW ok \in BOOLEAN, commitRunCursors(l, k, ok)
      PROVE  WholeInv'
  BY <1>5, WholeCommit
<1>6. CASE CrashStep  BY <1>6, WholeCrash
<1> QED BY <1>1, <1>2, <1>3, <1>4, <1>5, <1>6, NextCases

\* Initially nothing is emitted and nothing was answered.
LEMMA WholeInit == Init => WholeInv
<1> SUFFICES ASSUME Init PROVE WholeInv  OBVIOUS
<1>1. Marking  BY DEF Init, Marking, Predicates
<1>2. ASSUME NEW l \in Loops
      PROVE  \E e, a : /\ e = emits[l] /\ a = answers[l]
                       /\ Progress(l, e, a) /\ Whole(l, a)
  <2>1. PICK e : e = NoEmission  OBVIOUS
  <2>2. PICK a : a = NoAnswer  OBVIOUS
  <2>3. e.step = "none" /\ e = emits[l]  BY <2>1, NoEmissionShape DEF Init
  <2>4. a.kind = "none" /\ a = answers[l]  BY <2>2 DEF Init, NoAnswer
  <2>5. Progress(l, e, a)  BY <2>3 DEF Progress
  <2>6. Whole(l, a)  BY <2>4 DEF Whole
  <2> QED BY <2>3, <2>4, <2>5, <2>6
<1> QED BY <1>1, <1>2 DEF WholeInv

\* An emission that answers ok has left, whatever failed in earlier attempts and
\* whatever other loops do since, every marker of the artifact, its payload and its
\* file, which only a loop with a file of the same name can have written over.
THEOREM OkMeansWholeAlways == Spec => []OkMeansWhole
<1>1. WholeInv => OkMeansWhole
  <2> SUFFICES ASSUME WholeInv, NEW l \in Loops, answers[l].kind = "ok"
               PROVE  /\ \A p \in {"revision", "counts", "path"} : markers[l][p] = answers[l].artifact
                      /\ answers[l].artifact.harness =>
                           markers[l]["test-harness"] = answers[l].artifact
                      /\ \E p \in payloads : p.loop = l /\ p.artifact = answers[l].artifact
                      /\ DeriveDated(answers[l].artifact.title, l) \in DOMAIN files
                      /\ files[DeriveDated(answers[l].artifact.title, l)].loop = l =>
                           files[DeriveDated(answers[l].artifact.title, l)].artifact
                             = answers[l].artifact
    BY DEF OkMeansWhole
  <2>1. PICK a : a = answers[l] /\ Whole(l, a)  BY DEF WholeInv
  <2>2. PICK art : art = a.artifact  OBVIOUS
  <2>3. /\ Marked(l, art) /\ Filed(l, art)
        /\ \E p \in payloads : p.loop = l /\ p.artifact = art
    BY <2>1, <2>2 DEF Whole
  <2>4. \A p \in {"revision", "counts", "path"} : markers[l][p] = art
    BY <2>3 DEF Marked, PredicatesOf
  <2>5. art.harness => markers[l]["test-harness"] = art
    BY <2>3 DEF Marked, PredicatesOf
  <2>6. PICK slug : /\ slug = DeriveDated(art.title, l) /\ slug \in DOMAIN files
                    /\ files[slug].loop = l => files[slug].artifact = art
    BY <2>3 DEF Filed
  <2> QED BY <2>1, <2>2, <2>3, <2>4, <2>5, <2>6
<1>2. Types /\ KeysInv /\ WholeInv /\ [Next]_vars => KeysInv' /\ WholeInv'
  BY KeysStep, WholeStep
<1>3. Init => KeysInv /\ WholeInv  BY PublishedInit, WholeInit
<1> QED BY <1>1, <1>2, <1>3, TypesAlways, PTL DEF Spec

(***************************************************************************)
(* The check of a draft                                                    *)
(***************************************************************************)

\* Every tool result of a run is of a loop and is well-formed: those of the
\* script by assumption, the replies of github_read by what they are made of.
LEMMA FactsOK ==
  ASSUME Types, NEW f \in Facts
  PROVE  f.loop \in Loops /\ ResultOK(f.result)
<1>1. CASE f \in Script.facts
  BY <1>1, EmitConstantsOK, EvidenceConstantsOK DEF Types, EmitTypes, Script, Scripts
<1>2. ASSUME NEW r \in replies, f = ReplyFact(r)
      PROVE  f.loop \in Loops /\ ResultOK(f.result)
  <2>1. f.loop = r.loop /\ r.loop \in Loops  BY <1>2 DEF ReplyFact, Types, GithubTypes
  <2>2. PICK items : items = {[locs |-> {recordLocator(x[1], x[2])}, quotes |-> recordBody(x[3]),
                               kind |-> recordKind[x[1][2]]] : x \in r.records}
    OBVIOUS
  <2>3. PICK res : res = f.result  OBVIOUS
  <2>4. /\ res.tool = "github_read" /\ res.retrieves = {"github"}
        /\ res.args = [locs |-> {}, quotes |-> {}]
        /\ res.shape = IF r.records = {} THEN "plain" ELSE "records"
        /\ res.items = items
    BY <1>2, <2>2, <2>3 DEF ReplyFact
  <2>5. \A c \in {"github", "web", "semsource"} :
          checkAllowedRetrievalTool([channel |-> c], res) =>
            c \in res.retrieves \/ ReadsLocally(res)
    BY <2>4 DEF checkAllowedRetrievalTool
  <2>6. res.shape = "plain" => res.items = {}  BY <2>2, <2>4
  <2>7. ASSUME NEW i \in items, NEW t \in i.locs PROVE LocatorOK(t)
    <3>1. PICK x \in r.records : i = [locs |-> {recordLocator(x[1], x[2])},
                                      quotes |-> recordBody(x[3]), kind |-> recordKind[x[1][2]]]
      BY <2>2
    <3>2. t = recordLocator(x[1], x[2])  BY <2>7, <3>1
    <3> QED BY <3>2 DEF recordLocator, LocatorOK
  <2>8. \A text \in res.items \cup {res.args} : \A t \in text.locs : LocatorOK(t)
    BY <2>4, <2>7
  <2>9. res.shape \in {"records", "items", "blocks", "plain"} /\ res.shape # "blocks"  BY <2>4
  <2>10. ResultOK(res)  BY <2>5, <2>6, <2>8, <2>9 DEF ResultOK
  <2> QED BY <2>1, <2>3, <2>10
<1> QED BY <1>1, <1>2 DEF Facts

\* An artifact with the fields and the citations a draft has.
LEMMA DraftsOK ==
  ASSUME Types, NEW l \in Loops, NEW draft \in Drafts(l)
  PROVE  DraftOK(draft)
<1>1. CASE draft \in Script.drafts[l]
  BY <1>1, EvidenceConstantsOK DEF Types, EmitTypes, Script, Scripts
<1>2. ASSUME NEW r \in replies, draft \in QuotingDrafts(r)
      PROVE  DraftOK(draft)
  <2>1. PICK locs, quotes : /\ locs = UNION {i.locs : i \in ReplyFact(r).result.items}
                            /\ quotes = UNION {i.quotes : i \in ReplyFact(r).result.items}
    OBVIOUS
  <2>2. draft \in {Quoting(r, hint, gaps, loc, quote) :
                     hint \in {None, r.loop}, gaps \in GapsTold(r), loc \in locs, quote \in quotes}
    BY <1>2, <2>1 DEF QuotingDrafts
  <2>3. PICK hint \in {None, r.loop}, gaps \in GapsTold(r), loc \in locs, quote \in quotes :
          draft = Quoting(r, hint, gaps, loc, quote)
    BY <2>2
  <2>4. ReplyFact(r) \in Facts  BY DEF Facts
  <2>5. ResultOK(ReplyFact(r).result)  BY <2>4, FactsOK
  <2>6. LocatorOK(loc)  BY <2>1, <2>5 DEF ResultOK
  <2>7. PICK ref : ref = [hint |-> hint, id |-> r.id]  OBVIOUS
  <2>8. PICK ev : ev = EvidenceRecord("github", loc, quote, ref)  OBVIOUS
  <2>9. /\ DOMAIN ev = {"channel", "loc", "origin", "class", "quote", "ref", "revision",
                        "retrieved", "kind"}
        /\ ev.loc = loc
    BY <2>8 DEF EvidenceRecord
  <2>10. PICK claims : claims = {{ev}}  OBVIOUS
  <2>11. draft = [NoArtifact EXCEPT !.revision = 1, !.needsHarness = TRUE, !.gaps = gaps,
                                    !.claims = claims]
    BY <2>3, <2>7, <2>8, <2>10 DEF Quoting
  <2>12. DOMAIN draft = DOMAIN NoArtifact /\ draft.revision = 1 /\ draft.claims = claims
    BY <2>11 DEF NoArtifact
  <2>13. Citations(draft) = {ev}  BY <2>10, <2>12 DEF Citations
  <2> QED BY <2>6, <2>9, <2>12, <2>13 DEF DraftOK
<1> QED BY <1>1, <1>2 DEF Drafts

\* The defaults leave the shape of a draft alone.
LEMMA DefaultsOK ==
  ASSUME NEW draft, DraftOK(draft)
  PROVE  DraftOK(PopulateCitationDefaults(draft))
<1> DEFINE canonical(ev) == NormalizeOriginID(ev.channel, ev.loc)
           fill(ev) == [ev EXCEPT
             !.origin = IF canonical(ev) # NoLocator
                           /\ (@ = NoLocator \/ NormalizeOriginID(ev.channel, @) = canonical(ev))
                        THEN canonical(ev) ELSE @,
             !.retrieved = TRUE,
             !.revision = IF @ = 0 THEN draft.revision ELSE @]
<1>1. PICK claims : claims = {{fill(ev) : ev \in c} : c \in draft.claims}  OBVIOUS
<1>2. PICK a : a = [draft EXCEPT !.claims = claims]  OBVIOUS
<1>3. a = PopulateCitationDefaults(draft)  BY <1>1, <1>2 DEF PopulateCitationDefaults
<1>4. DOMAIN a = DOMAIN draft /\ a.revision = draft.revision /\ a.claims = claims
  BY <1>2 DEF DraftOK, NoArtifact
<1>5. ASSUME NEW ev \in Citations(draft)
      PROVE  DOMAIN fill(ev) = DOMAIN ev /\ fill(ev).loc = ev.loc
  OBVIOUS
<1> HIDE DEF fill
<1>6. ASSUME NEW x \in Citations(a) PROVE \E ev \in Citations(draft) : x = fill(ev)
  BY <1>1, <1>4 DEF Citations
<1>7. ASSUME NEW x \in Citations(a)
      PROVE  /\ DOMAIN x = {"channel", "loc", "origin", "class", "quote", "ref", "revision",
                            "retrieved", "kind"}
             /\ LocatorOK(x.loc)
  <2>1. PICK ev \in Citations(draft) : x = fill(ev)  BY <1>6
  <2> QED BY <1>5, <2>1 DEF DraftOK
<1> QED BY <1>3, <1>4, <1>7 DEF DraftOK

\* Normalising a locator keeps the document it leads to.
LEMMA OriginDoc ==
  ASSUME NEW c, NEW t, LocatorOK(t), NormalizeOriginID(c, t) # NoLocator
  PROVE  NormalizeOriginID(c, t).doc = t.doc
<1>1. /\ [t EXCEPT !.scheme = "github", !.dressed = FALSE].doc = t.doc
      /\ [t EXCEPT !.dressed = FALSE].doc = t.doc
  BY DEF LocatorOK
<1> QED BY <1>1 DEF NormalizeOriginID

\* What the checks of a citation's own fields establish.
Canonical(ev) ==
  /\ ev.channel \in {"github", "web", "semsource"} /\ LocatorOK(ev.loc)
  /\ ev.origin # NoLocator /\ ev.origin = NormalizeOriginID(ev.channel, ev.loc)

\* A text that contains the locator or the origin names the document.
LEMMA TextDoc ==
  ASSUME NEW ev, Canonical(ev), NEW text, \A t \in text.locs : LocatorOK(t),
         textContainsLocatorOrOrigin(ev, text)
  PROVE  \E t \in text.locs : t.doc = ev.loc.doc
<1>1. PICK t \in text.locs : t \in {ev.loc, ev.origin} \/ NormalizeOriginID(ev.channel, t) = ev.origin
  BY DEF textContainsLocatorOrOrigin
<1>2. PICK c, loc, origin : c = ev.channel /\ loc = ev.loc /\ origin = ev.origin  OBVIOUS
<1>3. /\ LocatorOK(loc) /\ LocatorOK(t) /\ origin # NoLocator
      /\ origin = NormalizeOriginID(c, loc)
  BY <1>2 DEF Canonical
<1>4. origin.doc = loc.doc  BY <1>3, OriginDoc
<1>5. CASE t \in {loc, origin}  BY <1>2, <1>4, <1>5
<1>6. CASE NormalizeOriginID(c, t) = origin
  <2>1. NormalizeOriginID(c, t).doc = t.doc  BY <1>3, <1>6, OriginDoc
  <2> QED BY <1>2, <1>4, <1>6, <2>1
<1> QED BY <1>1, <1>2, <1>5, <1>6

\* A verified citation is held by the result it was verified against, whatever
\* the shape of the result: one item has the quote and the document.
LEMMA VerifiedHolds ==
  ASSUME NEW f, ResultOK(f.result), NEW ev, Canonical(ev),
         NEW res, res = Resolved(f), verifyCitation(ev, res)
  PROVE  Holds(f, ev) /\ (Retrieved(f, ev) \/ ReadsLocally(f.result))
<1>1. PICK r : r = f.result  OBVIOUS
<1>2. /\ res.tool = r.tool /\ res.failed = r.failed /\ res.args = r.args
      /\ res.command = (IF r.tool = "bash" THEN r.command ELSE <<>>)
      /\ res.shape = r.shape /\ res.items = r.items
  BY <1>1 DEF Resolved
<1>3. /\ ~r.failed /\ checkAllowedRetrievalTool(ev, res) /\ ev.quote \notin r.args.quotes
  BY <1>2 DEF verifyCitation, quoteEchoedInDispatchArgs
<1>4. ev.channel \in r.retrieves \/ ReadsLocally(r)
  <2>1. PICK c \in {"github", "web", "semsource"} : c = ev.channel  BY DEF Canonical
  <2>2. PICK x : x = [channel |-> c]  OBVIOUS
  <2>3. x.channel = c  BY <2>2
  <2>4. checkAllowedRetrievalTool(x, r)
    BY <1>2, <1>3, <2>1, <2>3 DEF checkAllowedRetrievalTool
  <2> QED BY <1>1, <2>1, <2>2, <2>4 DEF ResultOK
<1>5. /\ r.shape \in {"records", "items", "blocks", "plain"}
      /\ r.shape = "blocks" => r.tool = "web_search"
      /\ r.shape = "plain" => \A i, j \in r.items : i = j
      /\ \A i \in r.items : \A t \in i.locs : LocatorOK(t)
      /\ \A t \in r.args.locs : LocatorOK(t)
  BY <1>1 DEF ResultOK
<1>6. \E i \in r.items :
        /\ ev.quote \in i.quotes
        /\ \E loc \in i.locs \cup (IF r.shape = "plain" THEN r.args.locs ELSE {}) :
             loc.doc = ev.loc.doc
  <2>1. CASE recordCitation(ev, res)
    <3>1. PICK i \in r.items : i.locs \cap {ev.loc, ev.origin} # {} /\ ev.quote \in i.quotes
      BY <1>2, <2>1 DEF recordCitation
    <3>2. textContainsLocatorOrOrigin(ev, i)  BY <3>1 DEF textContainsLocatorOrOrigin
    <3>3. \E t \in i.locs : t.doc = ev.loc.doc  BY <1>5, <3>2, TextDoc
    <3> QED BY <3>1, <3>3
  <2>2. CASE itemCitation(ev, res)
    <3>1. PICK i \in r.items : textContainsLocatorOrOrigin(ev, i) /\ ev.quote \in i.quotes
      BY <1>2, <2>2 DEF itemCitation
    <3>2. \E t \in i.locs : t.doc = ev.loc.doc  BY <1>5, <3>1, TextDoc
    <3> QED BY <3>1, <3>2
  <2>3. CASE r.shape = "plain" /\ singleCitation(ev, res)
    <3>1. PICK i \in r.items : ev.quote \in i.quotes
      BY <1>2, <2>3 DEF singleCitation
    <3>2. PICK text \in r.items \cup {r.args} : textContainsLocatorOrOrigin(ev, text)
      BY <1>2, <2>3 DEF singleCitation
    <3>3. PICK t \in text.locs : t.doc = ev.loc.doc  BY <1>5, <3>2, TextDoc
    <3>4. text = i \/ text = r.args  BY <1>5, <2>3
    <3>5. t \in i.locs \cup (IF r.shape = "plain" THEN r.args.locs ELSE {})
      BY <2>3, <3>3, <3>4
    <3> QED BY <3>1, <3>3, <3>5
  <2>4. \/ recordCitation(ev, res) \/ itemCitation(ev, res)
        \/ r.shape = "plain" /\ singleCitation(ev, res)
    <3>1. CASE r.shape = "records"  BY <1>2, <3>1 DEF verifyCitation
    <3>2. CASE r.shape # "records" /\ r.tool = "web_search"  BY <1>2, <3>2 DEF verifyCitation
    <3>3. CASE r.tool # "web_search" /\ r.shape = "items"  BY <1>2, <3>3 DEF verifyCitation
    <3>4. CASE r.tool # "web_search" /\ r.shape = "plain"  BY <1>2, <3>4 DEF verifyCitation
    <3> QED BY <1>5, <3>1, <3>2, <3>3, <3>4
  <2> QED BY <2>1, <2>2, <2>3, <2>4
<1>7. Holds(f, ev)  BY <1>1, <1>3, <1>6 DEF Holds
<1> QED BY <1>1, <1>4, <1>7 DEF Retrieved

\* The round that is checked is the round of the loop, unless the loop has
\* named one itself; where the graph says nothing there is none to check.
LEMMA RoundChecked ==
  ASSUME NEW p \in Loops, NEW v, v = resolveProducerLoopRevision(p)
  PROVE  v = Round(p) \/ HasEmitted(p)
<1>1. LoopOK(p)  BY EvidenceConstantsOK
<1>2. PICK r \in Nat : r = Graph[p].revision  BY <1>1 DEF LoopOK
<1>3. CASE r > 0
  <2>1. v = r  BY <1>2, <1>3 DEF resolveProducerLoopRevision
  <2>2. Round(p) = r  BY <1>1, <1>2, <1>3 DEF Round, LoopOK
  <2> QED BY <2>1, <2>2
<1>4. CASE r = 0 /\ ~HasEmitted(p)
  <2>1. v = IF Graph[p].plan # None THEN Graph[Graph[p].plan].revision ELSE 0
    BY <1>2, <1>4 DEF resolveProducerLoopRevision, HasEmitted
  <2> QED BY <1>2, <1>4, <2>1 DEF Round
<1> QED BY <1>2, <1>3, <1>4

CitationFields ==
  {"channel", "loc", "origin", "class", "quote", "ref", "revision", "retrieved", "kind"}

\* Stamping writes the revision that was left out and the kind, nothing else.
LEMMA StampShape ==
  ASSUME NEW ev, DOMAIN ev = CitationFields, NEW res, NEW x, x = stampCitation(ev, res)
  PROVE  /\ x.channel = ev.channel /\ x.loc = ev.loc /\ x.origin = ev.origin
         /\ x.quote = ev.quote /\ x.ref = ev.ref
         /\ x.class = ev.class /\ x.retrieved = ev.retrieved
         /\ x.revision = IF ev.revision = 0 THEN res.revision ELSE ev.revision
<1>1. PICK kind, revision :
        /\ x = [ev EXCEPT !.revision = revision, !.kind = kind]
        /\ revision = IF ev.revision = 0 THEN res.revision ELSE ev.revision
  BY DEF stampCitation
<1> QED BY <1>1 DEF CitationFields

\* Nothing but the citations changes in the artifact.
LEMMA StampedShape ==
  ASSUME NEW a, DraftOK(a), NEW pick
  PROVE  /\ stamped(a, pick).revision = a.revision /\ stamped(a, pick).gaps = a.gaps
         /\ \A x \in Citations(stamped(a, pick)) :
              \E ev \in Citations(a) : x = stampCitation(ev, Resolved(pick[ev.ref]))
<1> DEFINE stamp(ev) == stampCitation(ev, Resolved(pick[ev.ref]))
<1>1. PICK claims : claims = {{stamp(ev) : ev \in c} : c \in a.claims}  OBVIOUS
<1>2. PICK b : b = [a EXCEPT !.claims = claims]  OBVIOUS
<1>3. b = stamped(a, pick)  BY <1>1, <1>2 DEF stamped
<1>4. b.claims = claims /\ b.revision = a.revision /\ b.gaps = a.gaps
  BY <1>2 DEF DraftOK, NoArtifact
<1> HIDE DEF stamp
<1>5. \A x \in Citations(b) : \E ev \in Citations(a) : x = stamp(ev)
  BY <1>1, <1>4 DEF Citations
<1> QED BY <1>3, <1>4, <1>5 DEF stamp

\* What a citation is resolved to is what its reference can mean.
LEMMA PickMeans ==
  ASSUME Types, NEW l \in Loops, NEW ref, ~foreignHint(l, ref), NEW f \in candidates(l, ref)
  PROVE  f \in Means(l, ref)
<1>1. f \in fetchedFacts(l, ref) /\ f.id = ref.id /\ belongsToCallerRun(l, f.loop)
  BY DEF candidates
<1>2. f \in Facts /\ f.loop \in scanned(l, ref)  BY <1>1 DEF fetchedFacts
<1>3. ref.hint \in {None, f.loop}  BY <1>2 DEF scanned
<1>4. LoopOK(l)  BY EvidenceConstantsOK
<1>5. resolveCallerRun(l) = Graph[l].run  BY <1>4 DEF resolveCallerRun, LoopOK
<1>6. SameRun(l, f.loop)  BY <1>1, <1>5 DEF belongsToCallerRun, SameRun
<1> QED BY <1>1, <1>2, <1>3, <1>6 DEF Means

\* A citation that passed, as it is stamped, is derived.
LEMMA CitationDerived ==
  ASSUME Types, NEW l \in Loops, NEW ev, DOMAIN ev = CitationFields, LocatorOK(ev.loc),
         NEW pick, citationError(l, ev, pick) = "none",
         pick[ev.ref] \in IF candidates(l, ev.ref) = {} THEN {NoFact} ELSE candidates(l, ev.ref),
         NEW x, x = stampCitation(ev, Resolved(pick[ev.ref])), WellFormed(x)
  PROVE  Derived(l, x)
<1>1. PICK f : f = pick[ev.ref]  OBVIOUS
<1>2. PICK ref : ref = ev.ref  OBVIOUS
<1>3. PICK res : res = Resolved(f)  OBVIOUS
<1>4. ~foreignHint(l, ref) /\ f # NoFact /\ verifyCitation(ev, res)
  BY <1>1, <1>2, <1>3 DEF citationError
<1>5. f \in candidates(l, ref)  BY <1>1, <1>2, <1>4
<1>6. f \in Means(l, ref)  BY <1>4, <1>5, PickMeans
<1>7. f \in Facts  BY <1>6 DEF Means
<1>8. f.loop \in Loops /\ ResultOK(f.result)  BY <1>7, FactsOK
<1>9. x = stampCitation(ev, res)  BY <1>1, <1>3
<1>10. /\ x.channel = ev.channel /\ x.loc = ev.loc /\ x.origin = ev.origin
       /\ x.quote = ev.quote /\ x.ref = ev.ref
       /\ x.revision = IF ev.revision = 0 THEN res.revision ELSE ev.revision
  BY <1>9, StampShape
<1>11. Canonical(ev)  BY <1>10 DEF WellFormed, Canonical
<1>12. Holds(f, ev) /\ (Retrieved(f, ev) \/ ReadsLocally(f.result))
  BY <1>3, <1>4, <1>8, <1>11, VerifiedHolds
<1>13. Holds(f, x)  BY <1>10, <1>12 DEF Holds
<1>r. Retrieved(f, x) \/ ReadsLocally(f.result)  BY <1>10, <1>12 DEF Retrieved
<1>14. PICK p \in Loops : p = f.loop  BY <1>8
<1>15. PICK v : v = resolveProducerLoopRevision(p) /\ v = res.revision
  BY <1>3, <1>14 DEF Resolved
<1>16. v = Round(p) \/ HasEmitted(p)  BY <1>15, RoundChecked
<1>17. ASSUME v = Round(p) PROVE InRound(f, x)
  <2>1. LoopOK(p)  BY EvidenceConstantsOK
  <2>2. Graph[p].plan # None => Graph[p].plan \in Loops  BY <2>1 DEF LoopOK
  <2>3. \A q \in Loops : Graph[q].revision \in Nat  BY EvidenceConstantsOK DEF LoopOK
  <2>4. v \in Nat  BY <1>17, <2>2, <2>3 DEF Round
  <2>5. v > 0 => ev.revision \in {0, v}  BY <1>4, <1>15 DEF verifyCitation
  <2>6. v \in {0, x.revision}  BY <1>10, <1>15, <2>4, <2>5
  <2> QED BY <1>14, <1>17, <2>6 DEF InRound
<1> QED BY <1>2, <1>6, <1>10, <1>13, <1>r, <1>14, <1>16, <1>17 DEF Derived

(***************************************************************************)
(* What is published was retrieved                                         *)
(***************************************************************************)

\* An artifact as the check lets it through, with the results it cites.
Sound(l, a, facts) ==
  /\ a.revision > 0
  /\ \A ev \in Citations(a) : Derived(l, ev)
  /\ \A f \in facts : openGapsDisclose(a, f)

\* The check lets nothing else through.
LEMMA VerdictSound ==
  ASSUME Types, NEW l \in Loops, NEW a, DraftOK(a), NEW v \in verifyDerivation(l, a), v.kind = "ok"
  PROVE  Sound(l, v.artifact, v.facts)
<1>1. v \notin {[kind |-> "network", artifact |-> a, facts |-> {}] : ref \in Refs(a)}
  OBVIOUS
<1>2. ASSUME NEW pick \in resolutions(l, a),
             v \in LET errors == {citationError(l, ev, pick) : ev \in Citations(a)} \ {"none"}
                       facts == {pick[ref] : ref \in Refs(a)}
                   IN IF errors # {} THEN {[kind |-> e, artifact |-> a, facts |-> {}] : e \in errors}
                      ELSE IF /\ \A f \in facts : openGapsDisclose(a, f)
                              /\ Validate(stamped(a, pick))
                           THEN {[kind |-> "ok", artifact |-> stamped(a, pick), facts |-> facts]}
                           ELSE {[kind |-> "invalid_args", artifact |-> a, facts |-> {}]}
      PROVE  Sound(l, v.artifact, v.facts)
  <2>1. PICK errors : errors = {citationError(l, ev, pick) : ev \in Citations(a)} \ {"none"}
    OBVIOUS
  <2>2. PICK facts : facts = {pick[ref] : ref \in Refs(a)}  OBVIOUS
  <2>3. PICK b : b = stamped(a, pick)  OBVIOUS
  <2>4. errors = {}
    <3>1. \A e \in errors : e \in {"invalid_args", "internal"}  BY <2>1 DEF citationError
    <3>2. ASSUME errors # {} PROVE FALSE
      <4>1. PICK e \in errors : v = [kind |-> e, artifact |-> a, facts |-> {}]
        BY <1>2, <2>1, <3>2
      <4> QED BY <3>1, <4>1
    <3> QED BY <3>2
  <2>5. /\ \A f \in facts : openGapsDisclose(a, f)
        /\ Validate(b)
        /\ v = [kind |-> "ok", artifact |-> b, facts |-> facts]
    BY <1>2, <2>1, <2>2, <2>3, <2>4
  <2>6. v.artifact = b /\ v.facts = facts  BY <2>5
  <2>7. /\ b.revision = a.revision /\ b.gaps = a.gaps
        /\ \A x \in Citations(b) :
             \E ev \in Citations(a) : x = stampCitation(ev, Resolved(pick[ev.ref]))
    BY <2>3, StampedShape
  <2>8. \A f \in facts : openGapsDisclose(b, f)
    BY <2>5, <2>7 DEF openGapsDisclose
  <2>9. b.revision > 0
    <3>1. a.revision \in Int /\ b.revision >= 1  BY <2>5 DEF DraftOK, Validate
    <3> QED BY <2>7, <3>1
  <2>10. ASSUME NEW x \in Citations(b) PROVE Derived(l, x)
    <3>1. PICK ev \in Citations(a) : x = stampCitation(ev, Resolved(pick[ev.ref]))  BY <2>7
    <3>2. citationError(l, ev, pick) = "none"  BY <2>1, <2>4
    <3>3. PICK ref \in Refs(a) : ref = ev.ref  BY DEF Refs
    <3>4. pick[ref] \in IF candidates(l, ref) = {} THEN {NoFact} ELSE candidates(l, ref)
      BY <1>2 DEF resolutions
    <3>5. WellFormed(x)  BY <2>5 DEF Validate, Citations, ValidateArtifactCitation
    <3>6. DOMAIN ev = CitationFields /\ LocatorOK(ev.loc)  BY DEF DraftOK, CitationFields
    <3> QED BY <3>1, <3>2, <3>3, <3>4, <3>5, <3>6, CitationDerived
  <2> QED BY <2>6, <2>8, <2>9, <2>10 DEF Sound
<1> QED BY <1>1, <1>2 DEF verifyDerivation

\* The inductive invariant: emissions in progress and payloads are sound.
SoundInv ==
  /\ \A l \in Loops : \E e : e = emits[l] /\ (e.step # "none" => Sound(l, e.artifact, e.facts))
  /\ \A p \in payloads : Sound(p.loop, p.artifact, p.facts)

\* The graph and the trajectory only grow, and a loop that has emitted stays one:
\* what was derived stays derived.
Grows ==
  /\ UNCHANGED scenario /\ replies \subseteq replies'
  /\ \A m \in Loops : HasEmitted(m) => HasEmitted(m)'

\* Soundness is stable while they grow.
LEMMA SoundStays ==
  ASSUME Types, Grows, NEW l, NEW a, NEW facts, Sound(l, a, facts)
  PROVE  Sound(l, a, facts)'
<1>1. Facts \subseteq Facts'  BY DEF Grows, Facts, Script
<1>2. ASSUME NEW ev, Derived(l, ev) PROVE Derived(l, ev)'
  <2>1. PICK f \in Means(l, ev.ref) : /\ Holds(f, ev)
                                      /\ Retrieved(f, ev) \/ ReadsLocally(f.result)
                                      /\ InRound(f, ev) \/ HasEmitted(f.loop)
    BY <1>2 DEF Derived
  <2>2. f \in Means(l, ev.ref)'  BY <1>1 DEF Means
  <2>3. f \in Facts  BY DEF Means
  <2>4. PICK p \in Loops : p = f.loop  BY <2>3, FactsOK
  <2>5. HasEmitted(p) => HasEmitted(p)'  BY DEF Grows
  <2>6. HasEmitted(p)' => HasEmitted(f.loop)'  BY <2>4 DEF HasEmitted
  <2>7. HasEmitted(f.loop) => HasEmitted(p)  BY <2>4
  <2> QED BY <2>1, <2>2, <2>5, <2>6, <2>7 DEF Derived
<1> QED BY <1>2 DEF Sound

\* A step that starts no emission: what is in progress or published is what was.
Carries ==
  /\ \A m \in Loops : emits'[m].step # "none" =>
       /\ emits[m].step # "none"
       /\ emits'[m].artifact = emits[m].artifact /\ emits'[m].facts = emits[m].facts
  /\ \A p \in payloads' : p \in payloads \/ \E m \in Loops :
       /\ emits[m].step # "none"
       /\ p.loop = m /\ p.artifact = emits[m].artifact /\ p.facts = emits[m].facts

\* Such a step keeps the invariant.
LEMMA SoundCarried ==
  ASSUME Types, SoundInv, Grows, Carries
  PROVE  SoundInv'
<1>1. ASSUME NEW m \in Loops, emits[m].step # "none",
             NEW art, NEW facts, art = emits[m].artifact, facts = emits[m].facts
      PROVE  Sound(m, art, facts)'
  <2>1. Sound(m, art, facts)  BY <1>1 DEF SoundInv
  <2> QED BY <2>1, SoundStays
<1>2. ASSUME NEW m \in Loops
      PROVE  \E e : e = emits'[m] /\ (e.step # "none" => Sound(m, e.artifact, e.facts)')
  <2>1. PICK e : e = emits'[m]  OBVIOUS
  <2>2. ASSUME e.step # "none" PROVE Sound(m, e.artifact, e.facts)'
    <3>1. PICK art, facts : art = e.artifact /\ facts = e.facts  OBVIOUS
    <3>2. emits[m].step # "none" /\ art = emits[m].artifact /\ facts = emits[m].facts
      BY <2>1, <2>2, <3>1 DEF Carries
    <3>3. Sound(m, art, facts)'  BY <1>1, <3>2
    <3> QED BY <3>1, <3>3
  <2> QED BY <2>1, <2>2
<1>3. ASSUME NEW p \in payloads' PROVE Sound(p.loop, p.artifact, p.facts)'
  <2>1. PICK l, art, facts : l = p.loop /\ art = p.artifact /\ facts = p.facts  OBVIOUS
  <2>2. CASE p \in payloads
    <3>1. Sound(l, art, facts)  BY <2>1, <2>2 DEF SoundInv
    <3>2. Sound(l, art, facts)'  BY <3>1, SoundStays
    <3> QED BY <2>1, <3>2
  <2>3. ASSUME NEW m \in Loops, emits[m].step # "none",
               p.loop = m, p.artifact = emits[m].artifact, p.facts = emits[m].facts
        PROVE  Sound(p.loop, p.artifact, p.facts)'
    <3>1. Sound(l, art, facts)'  BY <1>1, <2>1, <2>3
    <3> QED BY <2>1, <3>1
  <2> QED BY <2>2, <2>3 DEF Carries
<1> QED BY <1>2, <1>3 DEF SoundInv

\* The steps of Execute carry the emission on; the marker they write is of an
\* artifact that names a round.
LEMMA ExecuteCarries ==
  ASSUME Types, Marking, SoundInv, NEW l \in Loops, NEW ok \in BOOLEAN, ExecuteStep(l, ok)
  PROVE  Grows /\ Carries
<1>0. EmitTypes  BY DEF Types
<1>1. PICK o : o = emits[l] /\ EmissionShape(o)  BY <1>0 DEF EmitTypes
<1>2. UNCHANGED <<scenario, replies>> /\ o.step # "none"
  BY <1>1 DEF ExecuteStep, renderMarkdown, AppendTriple, Publish, githubVars
<1>3. \E e : /\ emits' = [emits EXCEPT ![l] = e]
             /\ e = NoEmission \/ (e.artifact = o.artifact /\ e.facts = o.facts)
  <2>1. CASE emits' = [emits EXCEPT ![l] = NoEmission]  BY <2>1
  <2>2. CASE renderMarkdown(l, ok) /\ ok
    <3>1. PICK e : e = [o EXCEPT !.step = "mark"]  OBVIOUS
    <3>2. e.artifact = o.artifact /\ e.facts = o.facts  BY <1>1, <3>1 DEF EmissionShape
    <3>3. emits' = [emits EXCEPT ![l] = e]  BY <1>0, <1>1, <2>2, <3>1 DEF renderMarkdown, EmitTypes
    <3> QED BY <3>2, <3>3
  <2>3. CASE AppendTriple(l, ok) /\ ok
    <3>1. PICK marks, step : /\ marks = Tail(o.marks)
                             /\ step = IF Len(o.marks) = 1 THEN "publish" ELSE "mark"
      OBVIOUS
    <3>2. PICK e : e = [o EXCEPT !.marks = marks, !.step = step]  OBVIOUS
    <3>3. e.artifact = o.artifact /\ e.facts = o.facts  BY <1>1, <3>2 DEF EmissionShape
    <3>4. emits' = [emits EXCEPT ![l].marks = marks, ![l].step = step]
      BY <1>1, <2>3, <3>1 DEF AppendTriple
    <3>5. emits' = [emits EXCEPT ![l] = e]  BY <1>0, <1>1, <3>2, <3>4 DEF EmitTypes
    <3> QED BY <3>3, <3>5
  <2>4. CASE Publish(l, ok) /\ ok
    <3>1. PICK keys : keys = commitKeys(l, o.facts)  OBVIOUS
    <3>2. PICK e : e = [o EXCEPT !.step = "commit", !.keys = keys]  OBVIOUS
    <3>3. e.artifact = o.artifact /\ e.facts = o.facts  BY <1>1, <3>2 DEF EmissionShape
    <3>4. emits' = [emits EXCEPT ![l].step = "commit", ![l].keys = keys]
      BY <1>1, <2>4, <3>1 DEF Publish
    <3>5. emits' = [emits EXCEPT ![l] = e]  BY <1>0, <1>1, <3>2, <3>4 DEF EmitTypes
    <3> QED BY <3>3, <3>5
  <2>5. CASE ~ok
    <3>1. emits' = [emits EXCEPT ![l] = NoEmission]
      BY <2>5 DEF ExecuteStep, renderMarkdown, AppendTriple, Publish, answer
    <3> QED BY <3>1
  <2> QED BY <2>2, <2>3, <2>4, <2>5 DEF ExecuteStep
<1>4. PICK e : /\ emits' = [emits EXCEPT ![l] = e]
               /\ e = NoEmission \/ (e.artifact = o.artifact /\ e.facts = o.facts)
  BY <1>3
<1>5. ASSUME NEW m \in Loops, emits'[m].step # "none"
      PROVE  /\ emits[m].step # "none"
             /\ emits'[m].artifact = emits[m].artifact /\ emits'[m].facts = emits[m].facts
  <2>1. CASE m = l
    <3>1. emits'[m] = e  BY <1>0, <1>4, <2>1 DEF EmitTypes
    <3> QED BY <1>1, <1>2, <1>4, <1>5, <2>1, <3>1, NoEmissionShape
  <2>2. CASE m # l  BY <1>0, <1>4, <1>5, <2>2 DEF EmitTypes
  <2> QED BY <2>1, <2>2
<1>6. ASSUME NEW p \in payloads', p \notin payloads
      PROVE  p.loop = l /\ p.artifact = o.artifact /\ p.facts = o.facts
  <2>1. p = [loop |-> l, artifact |-> o.artifact, facts |-> o.facts]
    BY <1>1, <1>6 DEF ExecuteStep, renderMarkdown, AppendTriple, Publish
  <2> QED BY <2>1
<1>7. Carries  BY <1>1, <1>2, <1>5, <1>6 DEF Carries
<1>8. ASSUME NEW m \in Loops, HasEmitted(m) PROVE HasEmitted(m)'
  <2>1. CASE UNCHANGED markers  BY <1>8, <2>1 DEF HasEmitted
  <2>2. CASE AppendTriple(l, ok) /\ ok
    <3>1. PICK art, p : art = o.artifact /\ p = Head(o.marks)  OBVIOUS
    <3>2. markers' = [markers EXCEPT ![l][p] = art]  BY <1>1, <2>2, <3>1 DEF AppendTriple
    <3>3. art.revision > 0  BY <1>1, <1>2, <3>1 DEF SoundInv, Sound
    <3>4. markers'[m]["revision"] \in {markers[m]["revision"], art}
      BY <3>2 DEF Marking, Predicates
    <3> QED BY <1>8, <3>3, <3>4 DEF HasEmitted
  <2> QED BY <2>1, <2>2 DEF ExecuteStep, renderMarkdown, AppendTriple, Publish
<1> QED BY <1>2, <1>7, <1>8 DEF Grows

\* So does committing a key.
LEMMA CommitCarries ==
  ASSUME Types, NEW l \in Loops, NEW k \in emits[l].keys, NEW ok \in BOOLEAN,
         commitRunCursors(l, k, ok)
  PROVE  Grows /\ Carries
<1>0. EmitTypes  BY DEF Types
<1>1. PICK o : o = emits[l] /\ EmissionShape(o)  BY <1>0 DEF EmitTypes
<1>2. UNCHANGED <<scenario, replies, markers, payloads>> /\ o.step = "commit"
  BY <1>1 DEF commitRunCursors
<1>3. \E e : /\ emits' = [emits EXCEPT ![l] = e]
             /\ e = NoEmission \/ (e.artifact = o.artifact /\ e.facts = o.facts)
  <2>1. CASE emits' = [emits EXCEPT ![l] = NoEmission]  BY <2>1
  <2>2. CASE emits' = [emits EXCEPT ![l].keys = @ \ {k}]
    <3>1. PICK keys : keys = o.keys \ {k}  OBVIOUS
    <3>2. PICK e : e = [o EXCEPT !.keys = keys]  OBVIOUS
    <3>3. e.artifact = o.artifact /\ e.facts = o.facts  BY <1>1, <3>2 DEF EmissionShape
    <3>4. emits' = [emits EXCEPT ![l] = e]  BY <1>0, <1>1, <2>2, <3>1, <3>2 DEF EmitTypes
    <3> QED BY <3>3, <3>4
  <2> QED BY <2>1, <2>2 DEF commitRunCursors, answer
<1>4. PICK e : /\ emits' = [emits EXCEPT ![l] = e]
               /\ e = NoEmission \/ (e.artifact = o.artifact /\ e.facts = o.facts)
  BY <1>3
<1>5. ASSUME NEW m \in Loops, emits'[m].step # "none"
      PROVE  /\ emits[m].step # "none"
             /\ emits'[m].artifact = emits[m].artifact /\ emits'[m].facts = emits[m].facts
  <2>1. CASE m = l
    <3>1. emits'[m] = e  BY <1>0, <1>4, <2>1 DEF EmitTypes
    <3> QED BY <1>1, <1>2, <1>4, <1>5, <2>1, <3>1, NoEmissionShape
  <2>2. CASE m # l  BY <1>0, <1>4, <1>5, <2>2 DEF EmitTypes
  <2> QED BY <2>1, <2>2
<1>6. Carries  BY <1>2, <1>5 DEF Carries
<1> QED BY <1>2, <1>6 DEF Grows, HasEmitted

\* An emission starts from a verdict, and the check is sound.
LEMMA SoundEmit ==
  ASSUME Types, SoundInv, NEW l \in Loops, NEW draft \in Drafts(l), Emit(l, draft)
  PROVE  SoundInv'
<1>1. /\ UNCHANGED <<githubVars, scenario, markers, payloads>>
  BY DEF Emit
<1>2. Grows  BY <1>1 DEF Grows, HasEmitted, githubVars
<1>3. PICK d : d = PopulateCitationDefaults(draft)  OBVIOUS
<1>4. DraftOK(d)  BY <1>3, DraftsOK, DefaultsOK
<1>5. PICK v : /\ v \in IF Validate(d) THEN verifyDerivation(l, d)
                        ELSE {[kind |-> "invalid_args", artifact |-> d, facts |-> {}]}
               /\ IF v.kind = "ok"
                  THEN /\ emits' = [emits EXCEPT ![l] =
                            [step |-> "render", artifact |-> v.artifact, facts |-> v.facts,
                             marks |-> Append(buildTriples(v.artifact), "path"), keys |-> {}]]
                       /\ answers' = [answers EXCEPT ![l] = NoAnswer]
                  ELSE /\ answers' = [answers EXCEPT ![l] = [kind |-> v.kind, artifact |-> draft]]
                       /\ UNCHANGED emits
  BY <1>3 DEF Emit
<1>6. CASE v.kind # "ok"
  <2>1. Carries  BY <1>1, <1>5, <1>6 DEF Carries
  <2> QED BY <1>2, <2>1, SoundCarried
<1>7. CASE v.kind = "ok"
  <2>1. v \in verifyDerivation(l, d)  BY <1>5, <1>7
  <2>2. Sound(l, v.artifact, v.facts)  BY <1>4, <1>7, <2>1, VerdictSound
  <2>3. PICK art, facts, marks :
          art = v.artifact /\ facts = v.facts /\ marks = Append(buildTriples(v.artifact), "path")
    OBVIOUS
  <2>4. Sound(l, art, facts)'  BY <1>2, <2>2, <2>3, SoundStays
  <2>5. PICK e : e = [step |-> "render", artifact |-> art, facts |-> facts, marks |-> marks,
                      keys |-> {}]
    OBVIOUS
  <2>6. e.artifact = art /\ e.facts = facts  BY <2>5
  <2>7. emits' = [emits EXCEPT ![l] = e]  BY <1>5, <1>7, <2>3, <2>5
  <2>8. ASSUME NEW m \in Loops
        PROVE  \E x : x = emits'[m] /\ (x.step # "none" => Sound(m, x.artifact, x.facts)')
    <3>1. CASE m = l
      <4>1. emits'[m] = e  BY <2>7, <3>1 DEF Types, EmitTypes
      <4> QED BY <2>4, <2>6, <3>1, <4>1
    <3>2. CASE m # l
      <4>1. PICK x : x = emits[m] /\ (x.step # "none" => Sound(m, x.artifact, x.facts))
        BY DEF SoundInv
      <4>2. PICK b, F : b = x.artifact /\ F = x.facts  OBVIOUS
      <4>3. Sound(m, b, F) => Sound(m, b, F)'  BY <1>2, SoundStays
      <4>4. emits'[m] = x  BY <2>7, <3>2, <4>1 DEF Types, EmitTypes
      <4> QED BY <4>1, <4>2, <4>3, <4>4
    <3> QED BY <3>1, <3>2
  <2>9. ASSUME NEW p \in payloads' PROVE Sound(p.loop, p.artifact, p.facts)'
    <3>1. PICK k, b, F : k = p.loop /\ b = p.artifact /\ F = p.facts  OBVIOUS
    <3>2. Sound(k, b, F)  BY <1>1, <3>1 DEF SoundInv
    <3>3. Sound(k, b, F)'  BY <1>2, <3>2, SoundStays
    <3> QED BY <3>1, <3>3
  <2> QED BY <2>8, <2>9 DEF SoundInv
<1> QED BY <1>6, <1>7

\* Every step keeps what is in progress and what is published sound.
LEMMA SoundStep ==
  ASSUME Types, Marking, SoundInv, [Next]_vars
  PROVE  SoundInv'
<1>a. ASSUME UNCHANGED emitVars, replies \subseteq replies' PROVE SoundInv'
  <2>1. Grows /\ Carries  BY <1>a DEF emitVars, Grows, Carries, HasEmitted
  <2> QED BY <2>1, SoundCarried
<1>1. CASE UNCHANGED vars  BY <1>1, <1>a DEF vars, githubVars
<1>2. ASSUME UNCHANGED emitVars, NEW s, NEW i, Activity(s, i) PROVE SoundInv'
  BY <1>2, <1>a DEF Activity
<1>3. ASSUME UNCHANGED emitVars, NEW l \in Loops, CallStep(l) PROVE SoundInv'
  BY <1>3, <1>a, CallShape
<1>4. ASSUME UNCHANGED emitVars, NEW l \in Loops, NEW flushed \in BOOLEAN, Stage(l, flushed)
      PROVE  SoundInv'
  BY <1>4, <1>a DEF Stage
<1>5. ASSUME NEW l \in Loops, NEW draft \in Drafts(l), Emit(l, draft) PROVE SoundInv'
  BY <1>5, SoundEmit
<1>6. ASSUME NEW l \in Loops, NEW ok \in BOOLEAN, ExecuteStep(l, ok) PROVE SoundInv'
  BY <1>6, ExecuteCarries, SoundCarried
<1>7. ASSUME NEW l \in Loops, NEW k \in emits[l].keys, NEW ok \in BOOLEAN, commitRunCursors(l, k, ok)
      PROVE  SoundInv'
  BY <1>7, CommitCarries, SoundCarried
<1>8. CASE CrashStep
  <2>1. UNCHANGED <<scenario, markers, payloads, replies>>  BY <1>8 DEF CrashStep, Restart
  <2>2. \A m \in Loops : emits'[m].step = "none"  BY <1>8, NoEmissionShape DEF CrashStep
  <2>3. Grows /\ Carries  BY <2>1, <2>2 DEF Grows, Carries, HasEmitted
  <2> QED BY <2>3, SoundCarried
<1> QED BY <1>1, <1>2, <1>3, <1>4, <1>5, <1>6, <1>7, <1>8, NextCases

\* Every published citation quotes a document that a tool of its channel returned in
\* the same research run and in the round the citation names, item and quote
\* together, retrieved from outside unless a shell command read it from a file; and
\* every repository a cited result could not reach is named in the gaps, or part of
\* a name that is: for every graph, every set of tool results and drafts, and every
\* interleaving of emissions, reads, failures and crashes.
THEOREM PublishedIsDerivedAlways == Spec => []PublishedIsDerived
<1>1. Init => SoundInv
  <2> SUFFICES ASSUME Init PROVE SoundInv  OBVIOUS
  <2>1. payloads = {} /\ \A l \in Loops : emits[l].step = "none"
    BY NoEmissionShape DEF Init
  <2> QED BY <2>1 DEF SoundInv
<1>2. SoundInv /\ TypeOK => PublishedIsDerived
  <2> SUFFICES ASSUME SoundInv, NEW p \in payloads
               PROVE  /\ \A ev \in Citations(p.artifact) : Derived(p.loop, ev)
                      /\ \A f \in p.facts : \A r \in f.result.failures :
                           (\A g \in p.artifact.gaps : <<r, g>> \notin Within) => r \in p.artifact.gaps
    BY DEF PublishedIsDerived
  <2>1. PICK l, a, facts : l = p.loop /\ a = p.artifact /\ facts = p.facts  OBVIOUS
  <2>2. Sound(l, a, facts)  BY <2>1 DEF SoundInv
  <2>3. \A ev \in Citations(a) : Derived(l, ev)  BY <2>2 DEF Sound
  <2>4. ASSUME NEW f \in facts, NEW r \in f.result.failures,
               \A g \in a.gaps : <<r, g>> \notin Within
        PROVE  r \in a.gaps
    BY <2>2, <2>4 DEF Sound, openGapsDisclose, openGapsDiscloseRepository
  <2> QED BY <2>1, <2>3, <2>4
<1>3. Types /\ WholeInv /\ SoundInv /\ [Next]_vars => SoundInv'
  BY SoundStep DEF WholeInv
<1>4. Types /\ KeysInv /\ WholeInv /\ [Next]_vars => KeysInv' /\ WholeInv'
  BY KeysStep, WholeStep
<1>5. Init => KeysInv /\ WholeInv  BY PublishedInit, WholeInit
<1> QED BY <1>1, <1>2, <1>3, <1>4, <1>5, TypesAlways, TypeCorrect, PTL DEF Spec

(***************************************************************************)
(* A refusal has a cause                                                   *)
(***************************************************************************)

\* What the defaults leave alone in a citation.
FilledFrom(x, ev, revision) ==
  /\ x.channel = ev.channel /\ x.loc = ev.loc /\ x.quote = ev.quote /\ x.ref = ev.ref
  /\ x.kind = ev.kind /\ x.revision = IF ev.revision = 0 THEN revision ELSE ev.revision

\* The defaults fill in the origin, the revision and the retrieval, nothing else.
LEMMA DefaultsShape ==
  ASSUME NEW draft, DraftOK(draft), NEW a, a = PopulateCitationDefaults(draft)
  PROVE  /\ a.revision = draft.revision /\ a.gaps = draft.gaps
         /\ \A x \in Citations(a) :
              \E ev \in Citations(draft) : FilledFrom(x, ev, draft.revision)
<1> DEFINE canonical(ev) == NormalizeOriginID(ev.channel, ev.loc)
           fill(ev) == [ev EXCEPT
             !.origin = IF canonical(ev) # NoLocator
                           /\ (@ = NoLocator \/ NormalizeOriginID(ev.channel, @) = canonical(ev))
                        THEN canonical(ev) ELSE @,
             !.retrieved = TRUE,
             !.revision = IF @ = 0 THEN draft.revision ELSE @]
<1>1. PICK claims : claims = {{fill(ev) : ev \in c} : c \in draft.claims}  OBVIOUS
<1>2. a = [draft EXCEPT !.claims = claims]  BY <1>1 DEF PopulateCitationDefaults
<1>3. a.revision = draft.revision /\ a.gaps = draft.gaps /\ a.claims = claims
  BY <1>2 DEF DraftOK, NoArtifact
<1>4. ASSUME NEW ev \in Citations(draft) PROVE FilledFrom(fill(ev), ev, draft.revision)
  <2>1. DOMAIN ev = CitationFields  BY DEF DraftOK, CitationFields
  <2>2. PICK origin, revision :
          /\ fill(ev) = [ev EXCEPT !.origin = origin, !.retrieved = TRUE, !.revision = revision]
          /\ revision = IF ev.revision = 0 THEN draft.revision ELSE ev.revision
    OBVIOUS
  <2> HIDE DEF fill
  <2> QED BY <2>1, <2>2 DEF FilledFrom, CitationFields
<1> HIDE DEF fill
<1>5. \A x \in Citations(a) : \E ev \in Citations(draft) : x = fill(ev)
  BY <1>1, <1>3 DEF Citations
<1> QED BY <1>3, <1>4, <1>5

\* Among the results of a world the check can tell cause from chance: those of the
\* script by assumption, the replies of github_read by what they are made of.
LEMMA FactsJudged ==
  ASSUME Types, NEW l \in Loops, NEW draft \in Script.drafts[l], NEW ev \in Citations(draft),
         NEW f \in Facts
  PROVE  Judgeable(f.result) /\ NamedAlike(f.result, ev)
<1>1. CASE f \in Script.facts
  BY <1>1, RefusalConstantsOK DEF Types, EmitTypes, Script, Scripts
<1>2. ASSUME NEW r \in replies, f = ReplyFact(r)
      PROVE  Judgeable(f.result) /\ NamedAlike(f.result, ev)
  <2>1. PICK items : items = {[locs |-> {recordLocator(x[1], x[2])}, quotes |-> recordBody(x[3]),
                               kind |-> recordKind[x[1][2]]] : x \in r.records}
    OBVIOUS
  <2>2. PICK res : res = f.result  OBVIOUS
  <2>3. /\ res.tool = "github_read" /\ res.retrieves = {"github"}
        /\ res.args = [locs |-> {}, quotes |-> {}] /\ res.items = items
    BY <1>2, <2>1, <2>2 DEF ReplyFact
  <2>4. ASSUME NEW i \in items, NEW t \in i.locs
        PROVE  /\ DOMAIN t = {"scheme", "doc", "dressed"}
               /\ t.scheme = "github" /\ t.dressed = FALSE
               /\ t = [scheme |-> "github", doc |-> t.doc, dressed |-> FALSE]
    <3>1. PICK x \in r.records : i = [locs |-> {recordLocator(x[1], x[2])},
                                      quotes |-> recordBody(x[3]), kind |-> recordKind[x[1][2]]]
      BY <2>1
    <3>2. t = recordLocator(x[1], x[2])  BY <2>4, <3>1
    <3> QED BY <3>2 DEF recordLocator
  <2>5. ASSUME NEW t, LocatorOK(t), t.scheme \in {"github", "github.com"}
        PROVE  NormalizeOriginID("github", t) = [scheme |-> "github", doc |-> t.doc, dressed |-> FALSE]
    <3>1. PICK u, w : /\ u = [t EXCEPT !.scheme = "github", !.dressed = FALSE]
                      /\ w = [scheme |-> "github", doc |-> t.doc, dressed |-> FALSE]
      OBVIOUS
    <3>2. u = [k \in {"scheme", "doc", "dressed"} |-> u[k]]
      BY <2>5, <3>1 DEF LocatorOK
    <3>3. w = [k \in {"scheme", "doc", "dressed"} |-> w[k]]  BY <3>1
    <3>4. u.scheme = w.scheme /\ u.doc = w.doc /\ u.dressed = w.dressed
      BY <2>5, <3>1 DEF LocatorOK
    <3>5. u = w  BY <3>2, <3>3, <3>4
    <3> QED BY <2>5, <3>1, <3>5 DEF NormalizeOriginID
  <2>6. \A i \in items : \A t \in i.locs : NormalizeOriginID("github", t) = t
    BY <2>4, <2>5 DEF LocatorOK
  <2>7. checkAllowedRetrievalTool([channel |-> "github"], res)
    BY <2>3 DEF checkAllowedRetrievalTool
  <2>8. Judgeable(res)  BY <2>3, <2>6, <2>7 DEF Judgeable
  <2>9. ASSUME NEW text \in items, NEW t \in text.locs, ev.channel = "github",
               t.doc = ev.loc.doc, NormalizeOriginID("github", ev.loc) # NoLocator
        PROVE  NormalizeOriginID("github", t) = NormalizeOriginID("github", ev.loc)
    <3>1. PICK loc : loc = ev.loc  OBVIOUS
    <3>2. LocatorOK(loc)
      BY <3>1, EvidenceConstantsOK DEF Types, EmitTypes, Script, Scripts, DraftOK
    <3>3. loc.scheme \in {"github", "github.com"}  BY <2>9, <3>1 DEF NormalizeOriginID
    <3>4. NormalizeOriginID("github", loc) = [scheme |-> "github", doc |-> loc.doc, dressed |-> FALSE]
      BY <2>5, <3>2, <3>3
    <3> QED BY <2>4, <2>6, <2>9, <3>1, <3>4
  <2>10. \A t \in res.args.locs : FALSE  BY <2>3
  <2>11. NamedAlike(res, ev)  BY <2>3, <2>9, <2>10 DEF NamedAlike
  <2> QED BY <2>2, <2>8, <2>11
<1> QED BY <1>1, <1>2 DEF Facts

\* The converse of VerifiedHolds: a citation that a result of its round holds
\* passes the check, whatever the shape of the result.
LEMMA HoldsVerified ==
  ASSUME NEW f, ResultOK(f.result), Judgeable(f.result),
         NEW ev, Canonical(ev), NamedAlike(f.result, ev), ev.kind = NoKind, Holds(f, ev), Retrieved(f, ev),
         NEW res, res = Resolved(f), res.revision > 0 => ev.revision \in {0, res.revision}
  PROVE  verifyCitation(ev, res)
<1>1. PICK r : r = f.result  OBVIOUS
<1>2. /\ res.tool = r.tool /\ res.failed = r.failed /\ res.args = r.args
      /\ res.command = (IF r.tool = "bash" THEN r.command ELSE <<>>)
      /\ res.shape = r.shape /\ res.items = r.items
  BY <1>1 DEF Resolved
<1>3. ~r.failed /\ ev.channel \in r.retrieves /\ ev.quote \notin r.args.quotes
  BY <1>1 DEF Holds, Retrieved
<1>4. checkAllowedRetrievalTool(ev, res)
  <2>1. PICK c : c = ev.channel  OBVIOUS
  <2>2. PICK x : x = [channel |-> c]  OBVIOUS
  <2>3. checkAllowedRetrievalTool(x, r)  BY <1>1, <1>3, <2>1, <2>2 DEF Judgeable
  <2>4. x.channel = c  BY <2>2
  <2> QED BY <1>2, <2>1, <2>3, <2>4 DEF checkAllowedRetrievalTool
<1>5. ASSUME NEW text \in r.items \cup {r.args}, NEW t \in text.locs, t.doc = ev.loc.doc
      PROVE  NormalizeOriginID(ev.channel, t) = ev.origin
  BY <1>1, <1>3, <1>5 DEF NamedAlike, Canonical
<1>6. PICK i \in r.items :
        /\ ev.quote \in i.quotes
        /\ \E loc \in i.locs \cup (IF r.shape = "plain" THEN r.args.locs ELSE {}) :
             loc.doc = ev.loc.doc
  BY <1>1 DEF Holds
<1>7. PICK t \in i.locs \cup (IF r.shape = "plain" THEN r.args.locs ELSE {}) : t.doc = ev.loc.doc
  BY <1>6
<1>8. NormalizeOriginID(ev.channel, t) = ev.origin  BY <1>5, <1>7
<1>9. r.shape # "plain" => itemCitation(ev, res)
  BY <1>2, <1>6, <1>7, <1>8 DEF itemCitation, textContainsLocatorOrOrigin
<1>10. r.shape = "plain" => singleCitation(ev, res)
  BY <1>2, <1>6, <1>7, <1>8 DEF singleCitation, textContainsLocatorOrOrigin
<1>11. r.shape = "records" => recordCitation(ev, res)
  <2> SUFFICES ASSUME r.shape = "records" PROVE recordCitation(ev, res)  OBVIOUS
  <2>1. t \in i.locs  BY <1>7
  <2>2. NormalizeOriginID(ev.channel, t) = t  BY <1>1, <1>3, <2>1 DEF Judgeable
  <2>3. i.locs \cap {ev.loc, ev.origin} # {}  BY <1>8, <2>1, <2>2
  <2> QED BY <1>2, <1>6, <2>3 DEF recordCitation
<1>12. /\ r.shape \in {"records", "items", "blocks", "plain"}
       /\ r.shape = "blocks" <=> r.tool = "web_search"
  BY <1>1 DEF ResultOK, Judgeable
<1>13. ~res.failed /\ ~quoteEchoedInDispatchArgs(ev, res)
  BY <1>2, <1>3 DEF quoteEchoedInDispatchArgs
<1>14. CASE r.shape = "records"
  BY <1>2, <1>4, <1>11, <1>12, <1>13, <1>14 DEF verifyCitation
<1>15. CASE r.shape = "blocks"
  BY <1>2, <1>4, <1>9, <1>12, <1>13, <1>15 DEF verifyCitation
<1>16. CASE r.shape = "items"
  BY <1>2, <1>4, <1>9, <1>12, <1>13, <1>16 DEF verifyCitation
<1>17. CASE r.shape = "plain"
  BY <1>2, <1>4, <1>10, <1>12, <1>13, <1>17 DEF verifyCitation
<1> QED BY <1>12, <1>14, <1>15, <1>16, <1>17

\* Where a loop that has emitted named its own round, that round is checked.
LEMMA RoundAgrees ==
  ASSUME NEW p \in Loops, HasEmitted(p) => markers[p]["revision"].revision = Round(p),
         NEW v, v = resolveProducerLoopRevision(p)
  PROVE  v = Round(p)
<1>1. LoopOK(p)  BY EvidenceConstantsOK
<1>2. PICK r \in Nat : r = Graph[p].revision  BY <1>1 DEF LoopOK
<1>3. CASE ~HasEmitted(p)  BY <1>3, RoundChecked
<1>4. CASE HasEmitted(p) /\ r > 0
  <2>1. v = r  BY <1>2, <1>4 DEF resolveProducerLoopRevision
  <2>2. Round(p) = r  BY <1>1, <1>2, <1>4 DEF Round, LoopOK
  <2> QED BY <2>1, <2>2
<1>5. CASE HasEmitted(p) /\ ~(r > 0)
  <2>1. v = markers[p]["revision"].revision
    BY <1>2, <1>5 DEF resolveProducerLoopRevision, HasEmitted
  <2> QED BY <1>5, <2>1
<1> QED BY <1>3, <1>4, <1>5

\* A result the reference can mean, alone and of the round, is found.
LEMMA FoundAlone ==
  ASSUME Types, RoundsReached, NEW l \in Loops, NEW draft \in Script.drafts[l],
         NEW ev \in Citations(draft), NEW ref, ref = ev.ref,
         NEW f \in Means(l, ref), InRound(f, ev), \A g \in Means(l, ref) : g = f
  PROVE  ~foreignHint(l, ref) /\ candidates(l, ref) = {f}
<1>1. f \in Facts /\ f.id = ref.id /\ ref.hint \in {None, f.loop} /\ SameRun(l, f.loop)
  BY DEF Means
<1>2. PICK p \in Loops : p = f.loop  BY <1>1, FactsOK
<1>3. LoopOK(l)  BY EvidenceConstantsOK
<1>4. resolveCallerRun(l) = Graph[l].run  BY <1>3 DEF resolveCallerRun, LoopOK
<1>5. belongsToCallerRun(l, p)  BY <1>1, <1>2, <1>4 DEF belongsToCallerRun, SameRun
<1>6. ~foreignHint(l, ref)  BY <1>1, <1>2, <1>5 DEF foreignHint
<1>7. p \in scanned(l, ref)
  <2>1. CASE ref.hint # None  BY <1>1, <1>2, <2>1 DEF scanned
  <2>2. CASE ref.hint = None
    <3>1. SameRun(l, p) /\ Round(p) \in {0, ev.revision}  BY <1>1, <1>2 DEF InRound
    <3>2. p \in discoverRunLoopIDs(l)
      BY <3>1 DEF RoundsReached, Types, EmitTypes, Script, Scripts
    <3> QED BY <2>2, <3>2 DEF scanned
  <2> QED BY <2>1, <2>2
<1>8. f \in fetchedFacts(l, ref)  BY <1>1, <1>2, <1>7 DEF fetchedFacts
<1>9. candidates(l, ref) # {}  BY <1>1, <1>2, <1>5, <1>8 DEF candidates
<1>10. candidates(l, ref) \subseteq Means(l, ref)  BY <1>6, PickMeans
<1>11. candidates(l, ref) = {f}  BY <1>9, <1>10
<1> QED BY <1>6, <1>11

\* Stamping leaves a valid artifact valid.
LEMMA StampedValid ==
  ASSUME NEW a, DraftOK(a), Validate(a), NEW pick
  PROVE  Validate(stamped(a, pick))
<1> DEFINE stamp(ev) == stampCitation(ev, Resolved(pick[ev.ref]))
<1>1. PICK claims : claims = {{stamp(ev) : ev \in c} : c \in a.claims}  OBVIOUS
<1>2. PICK b : b = [a EXCEPT !.claims = claims]  OBVIOUS
<1>3. b = stamped(a, pick)  BY <1>1, <1>2 DEF stamped
<1>4. b.claims = claims /\ b.revision = a.revision
  BY <1>2 DEF DraftOK, NoArtifact
<1>5. b.harness = a.harness /\ b.needsHarness = a.needsHarness
  BY <1>2 DEF DraftOK, NoArtifact
<1>6. ASSUME NEW c \in a.claims, NEW ev \in c
      PROVE  ValidateArtifactCitation(stamp(ev), a.revision)
  <2>1. DOMAIN ev = CitationFields  BY DEF DraftOK, CitationFields, Citations
  <2>2. ValidateArtifactCitation(ev, a.revision)  BY DEF Validate
  <2>3. ev.revision # 0  BY <2>2 DEF ValidateArtifactCitation
  <2>4. PICK res : res = Resolved(pick[ev.ref])  OBVIOUS
  <2>5. PICK x : x = stampCitation(ev, res)  OBVIOUS
  <2>6. x = stamp(ev)  BY <2>4, <2>5
  <2>7. /\ x.channel = ev.channel /\ x.loc = ev.loc /\ x.origin = ev.origin
        /\ x.quote = ev.quote /\ x.ref = ev.ref
        /\ x.class = ev.class /\ x.retrieved = ev.retrieved
        /\ x.revision = ev.revision
    BY <2>1, <2>3, <2>5, StampShape
  <2>8. ValidateArtifactCitation(x, a.revision)
    BY <2>2, <2>7 DEF ValidateArtifactCitation, WellFormed
  <2> QED BY <2>6, <2>8
<1> HIDE DEF stamp
<1>7. ASSUME NEW d \in claims
      PROVE  d # {} /\ \A x \in d : ValidateArtifactCitation(x, a.revision)
  <2>1. PICK c \in a.claims : d = {stamp(ev) : ev \in c}  BY <1>1
  <2>2. c # {}  BY DEF Validate
  <2> QED BY <1>6, <2>1, <2>2
<1>8. a.revision >= 1 /\ (a.harness \/ a.needsHarness)  BY DEF Validate
<1>9. Validate(b)  BY <1>4, <1>5, <1>7, <1>8 DEF Validate
<1> QED BY <1>3, <1>9

\* A citation for which there is no cause of refusal passes.
LEMMA CitationPasses ==
  ASSUME Types, RoundsReached, NEW l \in Loops, NEW draft \in Script.drafts[l],
         ~HasCause(l, draft), NEW a, a = PopulateCitationDefaults(draft), NEW x \in Citations(a),
         NEW pick \in resolutions(l, a)
  PROVE  /\ citationError(l, x, pick) # "invalid_args"
         /\ openGapsDisclose(a, pick[x.ref])
<1>1. DraftOK(draft) /\ DraftOK(a)
  BY EvidenceConstantsOK, DefaultsOK DEF Types, EmitTypes, Script, Scripts
<1>2. PICK ev \in Citations(draft) : FilledFrom(x, ev, draft.revision)  BY <1>1, DefaultsShape
<1>3. PICK ref : ref = ev.ref  OBVIOUS
<1>4. /\ Validate(a) /\ ev.revision # 0 /\ ev.kind = NoKind
      /\ \A f, g \in Means(l, ref) : f = g
      /\ \E f \in Means(l, ref) : Holds(f, ev) /\ Retrieved(f, ev) /\ InRound(f, ev)
      /\ \A f \in Means(l, ref) :
           /\ HasEmitted(f.loop) => markers[f.loop]["revision"].revision = Round(f.loop)
           /\ f.result.failures \subseteq a.gaps
  BY <1>3 DEF HasCause
<1>5. PICK f \in Means(l, ref) : Holds(f, ev) /\ Retrieved(f, ev) /\ InRound(f, ev)  BY <1>4
<1>6. ~foreignHint(l, ref) /\ candidates(l, ref) = {f}  BY <1>3, <1>4, <1>5, FoundAlone
<1>7. /\ x.channel = ev.channel /\ x.loc = ev.loc /\ x.quote = ev.quote /\ x.ref = ref
      /\ x.kind = NoKind /\ x.revision = ev.revision
  BY <1>2, <1>3, <1>4 DEF FilledFrom
<1>8. pick[ref] = f
  <2>1. ref \in Refs(a)  BY <1>7 DEF Refs
  <2>2. pick[ref] \in IF candidates(l, ref) = {} THEN {NoFact} ELSE candidates(l, ref)
    BY <2>1 DEF resolutions
  <2> QED BY <1>6, <2>2
<1>9. f \in Facts  BY DEF Means
<1>10. f.loop \in Loops /\ ResultOK(f.result)  BY <1>9, FactsOK
<1>11. f # NoFact  BY <1>10, GithubConstantsOK DEF NoFact
<1>12. Judgeable(f.result) /\ NamedAlike(f.result, ev)  BY <1>9, FactsJudged
<1>13. NamedAlike(f.result, x)  BY <1>7, <1>12 DEF NamedAlike
<1>14. Holds(f, x) /\ Retrieved(f, x)  BY <1>5, <1>7 DEF Holds, Retrieved
<1>15. Canonical(x)
  <2>1. WellFormed(x)  BY <1>4 DEF Validate, Citations, ValidateArtifactCitation
  <2>2. LocatorOK(x.loc)  BY <1>1 DEF DraftOK
  <2> QED BY <2>1, <2>2 DEF WellFormed, Canonical
<1>16. PICK res : res = Resolved(f)  OBVIOUS
<1>17. res.revision > 0 => x.revision \in {0, res.revision}
  <2>1. PICK p \in Loops : p = f.loop  BY <1>10
  <2>2. PICK v : v = resolveProducerLoopRevision(p) /\ v = res.revision
    BY <1>16, <2>1 DEF Resolved
  <2>3. HasEmitted(p) => markers[p]["revision"].revision = Round(p)  BY <1>4, <2>1
  <2>4. v = Round(p)  BY <2>2, <2>3, RoundAgrees
  <2>5. Round(p) \in {0, ev.revision}  BY <1>5, <2>1 DEF InRound
  <2> QED BY <1>7, <2>2, <2>4, <2>5
<1>18. verifyCitation(x, res)
  BY <1>7, <1>10, <1>12, <1>13, <1>14, <1>15, <1>16, <1>17, HoldsVerified
<1>19. citationError(l, x, pick) # "invalid_args"
  BY <1>6, <1>7, <1>8, <1>11, <1>16, <1>18 DEF citationError
<1>20. openGapsDisclose(a, f)  BY <1>4 DEF openGapsDisclose, openGapsDiscloseRepository
<1> QED BY <1>7, <1>8, <1>19, <1>20

\* The check does not refuse a draft without a cause.
LEMMA VerdictBlames ==
  ASSUME Types, RoundsReached, NEW l \in Loops, NEW draft \in Script.drafts[l],
         ~HasCause(l, draft), NEW a, a = PopulateCitationDefaults(draft),
         NEW v \in verifyDerivation(l, a)
  PROVE  v.kind # "invalid_args"
<1>1. CASE v \in {[kind |-> "network", artifact |-> a, facts |-> {}] : ref \in Refs(a)}
  BY <1>1
<1>2. ASSUME NEW pick \in resolutions(l, a),
             v \in LET errors == {citationError(l, ev, pick) : ev \in Citations(a)} \ {"none"}
                       facts == {pick[ref] : ref \in Refs(a)}
                   IN IF errors # {} THEN {[kind |-> e, artifact |-> a, facts |-> {}] : e \in errors}
                      ELSE IF /\ \A f \in facts : openGapsDisclose(a, f)
                              /\ Validate(stamped(a, pick))
                           THEN {[kind |-> "ok", artifact |-> stamped(a, pick), facts |-> facts]}
                           ELSE {[kind |-> "invalid_args", artifact |-> a, facts |-> {}]}
      PROVE  v.kind # "invalid_args"
  <2>1. PICK errors : errors = {citationError(l, ev, pick) : ev \in Citations(a)} \ {"none"}
    OBVIOUS
  <2>2. PICK facts : facts = {pick[ref] : ref \in Refs(a)}  OBVIOUS
  <2>3. PICK b : b = stamped(a, pick)  OBVIOUS
  <2>4. \A e \in errors : e # "invalid_args"  BY <2>1, CitationPasses
  <2>5. \A f \in facts : openGapsDisclose(a, f)  BY <2>2, CitationPasses DEF Refs
  <2>6. Validate(a)  BY DEF HasCause
  <2>7. DraftOK(a)  BY EvidenceConstantsOK, DefaultsOK DEF Types, EmitTypes, Script, Scripts
  <2>8. Validate(b)  BY <2>3, <2>6, <2>7, StampedValid
  <2>9. CASE errors # {}
    <3>1. PICK e \in errors : v = [kind |-> e, artifact |-> a, facts |-> {}]
      BY <1>2, <2>1, <2>9
    <3> QED BY <2>4, <3>1
  <2>10. CASE errors = {}
    <3>1. v = [kind |-> "ok", artifact |-> b, facts |-> facts]
      BY <1>2, <2>1, <2>2, <2>3, <2>5, <2>8, <2>10
    <3> QED BY <3>1
  <2> QED BY <2>9, <2>10
<1> QED BY <1>1, <1>2 DEF verifyDerivation

\* An item of a reply is cited without a revision.
LEMMA QuotingUndated ==
  ASSUME NEW r, NEW draft \in QuotingDrafts(r)
  PROVE  \E ev \in Citations(draft) : ev.revision = 0
<1>1. PICK locs, quotes : /\ locs = UNION {i.locs : i \in ReplyFact(r).result.items}
                          /\ quotes = UNION {i.quotes : i \in ReplyFact(r).result.items}
  OBVIOUS
<1>2. draft \in {Quoting(r, hint, gaps, loc, quote) :
                   hint \in {None, r.loop}, gaps \in GapsTold(r), loc \in locs, quote \in quotes}
  BY <1>1 DEF QuotingDrafts
<1>3. PICK hint \in {None, r.loop}, gaps \in GapsTold(r), loc \in locs, quote \in quotes :
        draft = Quoting(r, hint, gaps, loc, quote)
  BY <1>2
<1>4. PICK ref : ref = [hint |-> hint, id |-> r.id]  OBVIOUS
<1>5. PICK ev : ev = EvidenceRecord("github", loc, quote, ref)  OBVIOUS
<1>6. ev.revision = 0  BY <1>5 DEF EvidenceRecord
<1>7. PICK claims : claims = {{ev}}  OBVIOUS
<1>8. draft = [NoArtifact EXCEPT !.revision = 1, !.needsHarness = TRUE, !.gaps = gaps,
                                 !.claims = claims]
  BY <1>3, <1>4, <1>5, <1>7 DEF Quoting
<1>9. draft.claims = claims  BY <1>8 DEF NoArtifact
<1> QED BY <1>6, <1>7, <1>9 DEF Citations

\* Where a draft is refused as invalid it has a cause.
LEMMA EmitBlames ==
  ASSUME Types, RoundsReached, NEW l \in Loops, NEW draft \in Drafts(l), Emit(l, draft)
  PROVE  \A m \in Loops : answers'[m] # answers[m] /\ answers'[m].kind = "invalid_args" =>
           m = l /\ answers'[m].artifact = draft /\ HasCause(l, draft)
<1>1. PICK d : d = PopulateCitationDefaults(draft)  OBVIOUS
<1>2. PICK v : /\ v \in IF Validate(d) THEN verifyDerivation(l, d)
                        ELSE {[kind |-> "invalid_args", artifact |-> d, facts |-> {}]}
               /\ IF v.kind = "ok"
                  THEN answers' = [answers EXCEPT ![l] = NoAnswer]
                  ELSE answers' = [answers EXCEPT ![l] = [kind |-> v.kind, artifact |-> draft]]
  BY <1>1 DEF Emit
<1>3. DOMAIN answers = Loops  BY DEF Types, EmitTypes
<1>4. NoAnswer.kind = "none"  BY DEF NoAnswer
<1>5. ASSUME v.kind = "invalid_args" PROVE HasCause(l, draft)
  <2>1. CASE ~Validate(d)  BY <1>1, <2>1 DEF HasCause
  <2>2. CASE Validate(d) /\ draft \in Script.drafts[l]
    <3>1. v \in verifyDerivation(l, d)  BY <1>2, <2>2
    <3> QED BY <1>1, <1>5, <2>2, <3>1, VerdictBlames
  <2>3. ASSUME NEW r \in replies, draft \in QuotingDrafts(r) PROVE HasCause(l, draft)
    <3>1. \E ev \in Citations(draft) : ev.revision = 0  BY <2>3, QuotingUndated
    <3> QED BY <3>1 DEF HasCause
  <2> QED BY <2>1, <2>2, <2>3 DEF Drafts
<1>6. CASE v.kind = "ok"  BY <1>2, <1>3, <1>4, <1>6
<1>7. CASE v.kind # "ok"
  <2>1. PICK b : b = [kind |-> v.kind, artifact |-> draft]  OBVIOUS
  <2>2. b.kind = v.kind /\ b.artifact = draft  BY <2>1
  <2>3. answers' = [answers EXCEPT ![l] = b]  BY <1>2, <1>7, <2>1
  <2> QED BY <1>3, <1>5, <2>2, <2>3
<1> QED BY <1>6, <1>7

\* No other step answers that an artifact is invalid.
LEMMA BlamedStep ==
  ASSUME Types, RoundsReached, [Next]_vars
  PROVE  \A m \in Loops : answers'[m] # answers[m] /\ answers'[m].kind = "invalid_args" =>
           HasCause(m, answers'[m].artifact)
<1> DEFINE Silent == \A m \in Loops : answers'[m] # answers[m] => answers'[m].kind # "invalid_args"
<1>0. DOMAIN answers = Loops  BY DEF Types, EmitTypes
<1>1. CASE UNCHANGED answers  BY <1>1
<1>2. ASSUME NEW l \in Loops, NEW kind \in {"ok", "network", "internal"}, answer(l, kind)
      PROVE  Silent
  <2>1. PICK b : b = [kind |-> kind, artifact |-> emits[l].artifact]  OBVIOUS
  <2>2. b.kind = kind  BY <2>1
  <2>3. answers' = [answers EXCEPT ![l] = b]  BY <1>2, <2>1 DEF answer
  <2> QED BY <1>0, <2>2, <2>3
<1>3. ASSUME NEW l \in Loops, NEW ok \in BOOLEAN, ExecuteStep(l, ok) PROVE Silent
  <2>1. UNCHANGED answers \/ \E kind \in {"ok", "network", "internal"} : answer(l, kind)
    BY <1>3 DEF ExecuteStep, renderMarkdown, AppendTriple, Publish
  <2> QED BY <1>2, <2>1
<1>4. ASSUME NEW l \in Loops, NEW k \in emits[l].keys, NEW ok \in BOOLEAN, commitRunCursors(l, k, ok)
      PROVE  Silent
  <2>1. UNCHANGED answers \/ \E kind \in {"ok", "network", "internal"} : answer(l, kind)
    BY <1>4 DEF commitRunCursors
  <2> QED BY <1>2, <2>1
<1>5. ASSUME NEW l \in Loops, NEW draft \in Drafts(l), Emit(l, draft)
      PROVE  \A m \in Loops : answers'[m] # answers[m] /\ answers'[m].kind = "invalid_args" =>
               HasCause(m, answers'[m].artifact)
  BY <1>5, EmitBlames
<1>6. UNCHANGED emitVars \/ UNCHANGED vars \/ CrashStep => UNCHANGED answers
  BY DEF emitVars, vars, CrashStep
<1> QED BY <1>1, <1>3, <1>4, <1>5, <1>6, NextCases

\* The tool never blames the model for what it did not do: a draft answered with
\* invalid_args is malformed, or one of its citations is missing, misquoted, of
\* another round or leaves a gap undisclosed.  The hypothesis is about the graph:
\* from a loop that writes, its edges lead to the loops of the rounds it cites.
THEOREM BlamedForCauseAlways ==
  ASSUME RoundsReached PROVE Spec => BlamedForCause
<1>1. Types /\ [Next]_vars =>
        [\A l \in Loops : answers'[l] # answers[l] /\ answers'[l].kind = "invalid_args" =>
           HasCause(l, answers'[l].artifact)]_vars
  BY BlamedStep
<1> QED BY <1>1, TypesAlways, PTL DEF Spec, BlamedForCause
=============================================================================
