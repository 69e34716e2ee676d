---------------------------- MODULE MCRulePacks ----------------------------
(***************************************************************************)
(* Finite instances of two rule packs that never meet on one run: a        *)
(* behaviour is a research request (ResearchArc) or a change (SpecHandoff).*)
(***************************************************************************)
EXTENDS ResearchArc, SpecHandoff

VARIABLE pack
allVars == <<pack, vars, handoffVars>>

\* Proof facts.  Ids are positions; a field that is left out has no triple.
Claim(requires) == [status |-> "Accepted", requires |-> requires]
Blank == [claims |-> <<Claim(<<1>>)>>, deps |-> << >>, profiles |-> << >>,
          readiness |-> << >>, covers |-> {}, waivers |-> << >>]
Active1 == [status |-> "active", claims |-> <<1>>]
WaiverLists ==
  <<<< >>, <<Active1>>, <<[status |-> "active", deps |-> <<1>>]>>,
    <<[Active1 EXCEPT !.claims = <<2>>]>>,
    <<[status |-> "active", claims |-> <<1>>, expires |-> 1]>>,
    <<[status |-> "active", deps |-> <<1>>, expires |-> Unreadable]>>,
    <<[status |-> "revoked", deps |-> <<1>>]>>, <<[claims |-> <<1>>]>>,
    <<[status |-> "none", deps |-> <<1>>]>>,
    <<[status |-> "revoked", claims |-> <<1>>], Active1>>>>
DepLists ==
  <<<< >>, <<[status |-> "READY"]>>, <<[status |-> "waived"]>>, <<[status |-> "unknown"]>>,
    <<[profile |-> 1]>>, <<[status |-> "failed", route |-> "lab"]>>,
    <<[status |-> "missing", route |-> "Coordinator"]>>, <<[status |-> "new"]>>,
    <<[status |-> "ready", profile |-> 1]>>>>
ProfileLists == <<<< >>, <<NoText>>, <<"READY">>, <<"rejected">>, <<"draft">>>>
Record(status, smoke, expires) ==
  [profile |-> 1, status |-> status, smoke |-> smoke, expires |-> expires]
Statuses == <<"passed", "failed", "stale", "blocked", "new">>
Dates == <<Never, 1, Unreadable>>

\* op on every pair of an item of s and an item of t.
Pairs(s, t, op(_, _)) ==
  FlattenSeq([i \in DOMAIN s |-> [j \in DOMAIN t |-> op(s[i], t[j])]])

RecordLists ==
  <<<< >>, <<[Record("passed", NoText, Never) EXCEPT !.profile = 2]>>,
    <<Record("passed", NoText, 1), Record("failed", NoText, Never)>>,
    <<Record("passed", NoText, Unreadable), Record("passed", "passed", 2)>>>>
  \o Pairs(Statuses, Dates, LAMBDA s, d : <<Record(s, NoText, d)>>)
  \o Pairs(Statuses, Dates, LAMBDA s, d : <<Record(s, "failed", d)>>)

SomeFacts ==
  Pairs(<<[status |-> "Accepted"], [status |-> "draft"]>>, WaiverLists,
        LAMBDA c, w : [Blank EXCEPT !.claims = <<c>>, !.waivers = w])
  \o Pairs(<<{}, {1}>>, WaiverLists, LAMBDA c, w :
        [Blank EXCEPT !.claims = <<Claim(<< >>)>>, !.covers = c, !.waivers = w])
  \o Pairs(DepLists, WaiverLists, LAMBDA d, w :
        [Blank EXCEPT !.claims = <<Claim(<<Nothing, 1>>)>>, !.deps = d, !.waivers = w])
  \o Pairs(ProfileLists, RecordLists, LAMBDA p, r :
        [Blank EXCEPT !.deps = <<[status |-> "ready", profile |-> 1]>>,
                      !.profiles = p, !.readiness = r])
  \o Pairs(<<"Accepted", "draft">>, <<<< >>, <<2>>>>, LAMBDA s, x :
        [Blank EXCEPT !.claims = <<[status |-> "Accepted", conflicts |-> x], [status |-> s]>>,
                      !.covers = {1, 2}])

\* Drafts.
Delta(added, modified, removed) ==
  [cap |-> "api", added |-> added, modified |-> modified, removed |-> removed]
Task(id, section, ref) == [id |-> id, section |-> section, ref |-> ref,
                          expects |-> IF id = "a1" THEN "green" ELSE NoText]
Draft(slug, delta, tasks) ==
  [slug |-> slug, complete |-> TRUE, deltas |-> <<delta>>, tasks |-> tasks]
Two == Draft("s1", Delta(<<"Retry">>, <<"Limit">>, << >>),
             <<Task("a1", "A", <<"api", "Limit">>), Task("a2", "B", << >>)>>)
One == Draft("s1", Delta(<<"Retry">>, << >>, <<"Limit">>), <<Task("b1", "A", <<"api", "retry">>)>>)
Other == Draft("s2", Delta(<<"Retry">>, << >>, << >>), <<Task("c1", "A", << >>)>>)
Refused ==
  {Draft("s1", Delta(<<"Retry", "Retry!">>, << >>, << >>), <<Task("d1", "A", <<"api", "Retry!">>)>>),
   Draft("s1", Delta(<<"Retry">>, << >>, <<"Limit">>), <<Task("d2", "A", <<"api", "Limit">>)>>),
   Draft("s1", Delta(<<"Retry">>, << >>, << >>),
         <<Task("d3", "A", << >>), Task("d4", "B", << >>), Task("d5", "A", << >>)>>),
   Draft("s1", Delta(<< >>, << >>, << >>), <<Task("d6", "A", << >>)>>),
   [Other EXCEPT !.complete = FALSE]}
MCSlugified == [n \in {"Retry", "Retry!", "retry", "Limit"} |->
                  IF n = "Limit" THEN "limit" ELSE "retry"]
MCSuffixed == [x \in {"retry", "limit"} \X {2} |-> IF x[1] = "retry" THEN "retry-2" ELSE "limit-2"]

Message(target) == [permitted |-> TRUE, selected |-> TRUE, owner |-> TRUE,
                    names_run |-> FALSE, target |-> target]
MCCommands == {Message("s1"), [Message(NoText) EXCEPT !.owner = FALSE], [Message(NoText) EXCEPT !.names_run = TRUE]}

Start(versions, drafts, commands, anchors, n, until) ==
  [facts |-> versions, drafts |-> drafts, commands |-> commands, anchors |-> anchors,
   calls |-> n, until |-> until]
Lasting == [Blank EXCEPT !.deps = <<[status |-> "ready"]>>]
Expiring == [Lasting EXCEPT !.deps = <<[status |-> "ready", profile |-> 1]>>, !.profiles = <<"ready">>,
                            !.readiness = <<Record("passed", "passed", 1)>>]
Conflicting == [Blank EXCEPT !.claims = <<[status |-> "Accepted", conflicts |-> <<2>>], Claim(<< >>)>>,
                             !.covers = {1, 2}]
Lab == [Blank EXCEPT !.deps = <<[status |-> "failed", route |-> "lab"]>>]
MCWorlds ==
  <<Start({<<Lasting>>}, {One, Two} \cup Refused, {Message(NoText)}, {}, 4, 1),
    Start({<<Lasting>>}, {One}, {}, {"run"}, 2, 1),
    Start({<<Lasting>>}, {One, Other}, MCCommands, {}, 3, 1),
    Start({<<Expiring>>}, {One}, {}, {"lineage"}, 2, 2),
    Start({<<Blank, Lasting>>}, {One}, {Message(NoText)}, {}, 3, 1),
    Start({<<Conflicting, Lasting>>}, {}, {Message(NoText)}, {}, 2, 1),
    Start({<<Lab, Blank>>}, {}, {Message(NoText)}, {}, 2, 1),
    Start({<<[Blank EXCEPT !.claims = << >>]>>}, {}, {Message(NoText)}, {}, 2, 1),
    Start({<<SomeFacts[i]>> : i \in DOMAIN SomeFacts}, {}, {}, {}, 0, 2)>>

PacksInit ==
  \/ pack = "research" /\ Init
     /\ HandoffInit /\ world = 1
  \/ pack = "change" /\ HandoffInit /\ loops = << >> /\ fired = {}

ResearchNext == pack = "research" /\ Next /\ UNCHANGED <<pack, handoffVars>>
ChangeNext == pack = "change" /\ HandoffNext /\ UNCHANGED <<pack, vars>>
ChangeRules == pack = "change" /\ RuleAction /\ UNCHANGED <<pack, vars>>

PacksSpec ==
  /\ PacksInit /\ [][ResearchNext \/ ChangeNext]_allVars
  /\ WF_allVars(ResearchNext) /\ WF_allVars(ChangeRules)
=============================================================================
