--------------------------- MODULE MCEmitArtifact ---------------------------
(***************************************************************************)
(* A research run of two rounds and a loop of another run.  A behaviour    *)
(* follows one scenario: reading GitHub and publishing, citing results of  *)
(* other tools, or emitting twice.                                         *)
(***************************************************************************)
EXTENDS EmitArtifact

Entity(run, plan, prior, gathers, revision) ==
  [run |-> run, plan |-> plan, prior |-> prior, gathers |-> gathers, revision |-> revision,
   related |-> {}]
MCGraph ==
  [run |-> Entity("run", None, None, {}, 0),
   plan1 |-> Entity("run", None, None, {"gather1"}, 1),
   gather1 |-> Entity("run", "plan1", None, {}, 0),
   synth1 |-> [Entity("run", "plan1", None, {}, 0) EXCEPT !.related = {<<TRUE, "plan1">>}],
   plan2 |-> Entity("run", None, "synth1", {"gather2"}, 2),
   gather2 |-> Entity("run", "plan2", None, {}, 0),
   synth2 |-> Entity("run", "plan2", None, {}, 0),
   other |-> Entity("other", None, None, {}, 0)]
MCAnchor == [l \in Loops |-> IF l \in {"gather1", "synth2"} THEN "run" ELSE None]

\* Loop ids as "loop-research-1" and "loop-spec-1": the first 8 characters.
MCIdPrefix == [l \in Loops |-> IF l = "synth2" THEN "loop-spe" ELSE "loop-res"]
\* r1 is "acme/app-server" and r2 is "acme/app".
MCWithin == {<<"r2", "r1">>}

MCPortfolio == {[program |-> "p", project |-> "a", repo |-> "r1", board |-> None],
                [program |-> "p", project |-> "b", repo |-> "r2", board |-> None]}

Doc(scheme, name, dressed) == [scheme |-> scheme, doc |-> <<name>>, dressed |-> dressed]
Text(locs, quotes) == [locs |-> locs, quotes |-> quotes, kind |-> NoKind]
D1 == Doc("https", "d1", FALSE)
D1dressed == Doc("https", "d1", TRUE)
D2 == Doc("https", "d2", FALSE)
G1 == Doc("github.com", "g1", FALSE)
G1uri == Doc("github", "g1", FALSE)
E1 == Doc("semsource", "e1", FALSE)
QA == <<"a">>
QB == <<"b">>
Short == <<"short">>
MCLongQuotes == {QA, QB} \cup {<<"v", v>> : v \in 1..MaxVersion}

Result(tool, channels, argLocs, argQuotes, shape, items) ==
  [tool |-> tool, failed |-> FALSE, retrieves |-> channels,
   args |-> [locs |-> argLocs, quotes |-> argQuotes], shape |-> shape, items |-> items,
   failures |-> {},
   command |-> [substitution |-> FALSE, pipelines |-> {}, local |-> FALSE]]
Bash(channels, first, rest, sub, argQuotes) ==
  [Result("bash", channels, {D1, G1}, argQuotes, "plain", {Text({}, {QA})}) EXCEPT
     !.command.substitution = sub, !.command.pipelines = {[first |-> first, rest |-> rest]}]
Fact(loop, id, result) ==
  [loop |-> loop, id |-> id, correlated |-> TRUE, intact |-> TRUE, result |-> result]

Fetched == Result("http_request", {"web", "github"}, {D1, G1}, {}, "plain", {Text({}, {QA})})
Searched == Result("web_search", {"web"}, {}, {QB}, "blocks",
                   {Text({D1dressed}, {QA}), Text({D2}, {QB})})
Queried == Result("graph_query", {"semsource"}, {}, {}, "items", {Text({E1}, {QA}), Text({}, {QB})})

\* curl file:///... : no check tells it from a retrieval.
Local == Fact("gather1", 26, [Bash({}, "curl", {}, FALSE, {}) EXCEPT !.command.local = TRUE])
MCFacts ==
  {Fact("gather1", 11, Fetched),
   Fact("gather1", 12, Searched),
   Fact("gather1", 13, Queried),
   Fact("gather1", 14, Bash({"web", "github"}, "curl", {"jq"}, FALSE, {})),
   Fact("gather1", 15, Bash({}, "cat", {}, FALSE, {})),
   Fact("gather1", 16, Bash({}, "curl", {}, TRUE, {})),
   Fact("gather1", 17, Bash({"github"}, "gh", {"head"}, FALSE, {})),
   Fact("gather1", 18, [Fetched EXCEPT !.failed = TRUE]),
   Fact("gather2", 19, Bash({"web", "github"}, "wget", {}, FALSE, {QA})),
   Fact("gather2", 20, Fetched),
   Fact("synth1", 21, Fetched),
   Fact("other", 22, Fetched),
   Fact("gather2", 23, [Queried EXCEPT !.items = {Text({E1}, {QA, QB})}]),
   Fact("gather1", 24, Fetched),
   Fact("gather2", 24, Searched),
   Fact("gather1", 25, [Fetched EXCEPT !.failures = {"r2"}]),
   Local}

Cite(channel, loc, quote, hint, id, revision) ==
  [EvidenceRecord(channel, loc, quote, [hint |-> hint, id |-> id]) EXCEPT !.revision = revision]
Draft(revision, citations) ==
  [NoArtifact EXCEPT !.revision = revision, !.needsHarness = TRUE, !.claims = {citations}]

Hints(id) == {None} \cup {f.loop : f \in {f \in MCFacts : f.id = id}}
Named == {<<"web", D1>>, <<"web", D1dressed>>, <<"web", D2>>, <<"web", G1>>, <<"github", G1>>,
          <<"github", G1uri>>, <<"github", D1>>, <<"semsource", E1>>}
CitesOf(revision) ==
  UNION {{Cite(n[1], n[2], q, h, id, r) :
            n \in Named, q \in {QA, QB}, h \in Hints(id), r \in 0..revision} : id \in 11..27}

Misquoted == {Cite("web", D1, Short, None, 11, 1), Cite("web", D1, <<>>, None, 11, 1),
              Cite("web", NoLocator, QA, None, 11, 1), Cite("rumour", D1, QA, None, 11, 1),
              Cite("web", D1, QA, None, 0, 1), Cite("web", D1, QA, None, 11, 3)}

Silent == [l \in Loops |-> {}]
Scenario(drafts, emissions) ==
  [readers |-> {}, requests |-> {}, active |-> {}, citers |-> {}, facts |-> MCFacts,
   replies |-> 0, crashes |-> 0, versions |-> 2,
   drafts |-> drafts, passes |-> emissions]
\* Every citation of every result, by the synthesis of either round.
Citing == Scenario([Silent EXCEPT !["synth1"] = {Draft(1, {ev}) : ev \in CitesOf(1) \cup Misquoted}
                                               \cup {[Draft(1, {Cite("web", D1, QA, None, 25, 1)}) EXCEPT !.gaps = {r}] :
                                                       r \in {"r1", "r2", "r3"}},
                                  !["synth2"] = {Draft(2, {ev}) : ev \in CitesOf(2)},
                                  !["other"] = {Draft(1, {Cite("web", D1, QA, None, id, 1)}) : id \in 11..27}], 1)
\* A fact that cannot be read, with and without a correlation to skip it by.
Corrupt(correlated) ==
  [Scenario([Silent EXCEPT !["synth2"] = {Draft(2, {Cite("web", D1, QA, h, id, r)}) :
                      h \in {None, "gather1", "gather2"}, id \in {11, 12, 20}, r \in {1, 2}}], 1)
     EXCEPT !.facts = MCFacts \cup {[Fact("gather1", 12, Fetched) EXCEPT
                                       !.intact = FALSE, !.correlated = correlated]}]
\* Two emissions, by one loop or by two, with and without a title or a harness;
\* the later synthesis cites a result of the earlier one.
Again ==
  LET some == {[NoArtifact EXCEPT !.revision = r, !.title = t, !.harness = h, !.needsHarness = ~h] :
                 r \in {1, 2}, t \in {NoTitle, <<>>, <<"research", "loop-res">>}, h \in BOOLEAN}
      later == {Draft(2, {Cite("web", D1, QA, None, 21, r)}) : r \in {1, 2}}
  IN Scenario([Silent EXCEPT !["synth1"] = some, !["other"] = some, !["synth2"] = later], 2)
Bare == {[NoArtifact EXCEPT !.revision = 1, !.needsHarness = TRUE]}
Request(filter, all) == [filter |-> filter, kinds |-> {"issues"}, all |-> all]
R1 == <<"r1", "issues">>
\* Two streams in one call: one may fail, and a crash may come at any point.
Wide ==
  [Scenario([Silent EXCEPT !["synth1"] = Bare], 1) EXCEPT
     !.facts = {}, !.readers = {"gather1"}, !.citers = {"synth1"}, !.replies = 2, !.crashes = 1,
     !.active = {<<R1, "i1">>}, !.requests = {Request([program |-> "p"], FALSE)}]
\* Two runs read one stream whose activity goes on.
Shared(emitters, reads, emissions) ==
  [Scenario([l \in Loops |-> IF l \in emitters THEN Bare ELSE {}], emissions) EXCEPT
     !.facts = {}, !.readers = {"gather1", "other"}, !.replies = reads,
     !.active = {<<R1, "i1">>}, !.requests = {Request([project |-> "a"], FALSE)}]
\* A page shorter than the activity, and reads that repeat what was seen.
Paged ==
  [Scenario([Silent EXCEPT !["synth2"] = Bare], 2) EXCEPT
     !.facts = {}, !.readers = {"gather1"}, !.replies = 2, !.crashes = 1,
     !.active = {<<R1, "i1">>, <<R1, "i2">>},
     !.requests = {Request([project |-> "a"], all) : all \in BOOLEAN}]
\* Pull requests fill the page of issues; two streams of one repository.
Crowded ==
  [Scenario([Silent EXCEPT !["synth1"] = Bare], 1) EXCEPT
     !.facts = {}, !.readers = {"gather1"}, !.replies = 1, !.versions = 3,
     !.active = {<<R1, "i1">>} \cup {<<<<"r1", "pull_requests">>, i>> : i \in Items},
     !.requests = {[Request([project |-> "a"], FALSE) EXCEPT !.kinds = {}]}]

MCScenarios ==
  [citing |-> Citing, corrupt |-> Corrupt(TRUE), uncorrelated |-> Corrupt(FALSE), again |-> Again,
   wide |-> Wide, paged |-> Paged, retried |-> Shared({"other"}, 3, 1),
   crowded |-> Crowded, raced |-> Shared({"synth2", "other"}, 1, 2)]

\* The graph of the instance leads from every writer to the rounds it cites.
ASSUME RoundsFound == RoundsReached
=============================================================================
