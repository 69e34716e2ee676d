--------------------------- MODULE EvidenceCheck ---------------------------
(***************************************************************************)
(* cmd/semteams/research and the citation half of                          *)
(* cmd/semteams/tools/emitartifact/derivation.go: what a well-formed       *)
(* research artifact is, and when a tool result backs a citation.          *)
(*                                                                         *)
(* A text is abstracted to the locators and the quotes it contains, on     *)
(* token boundaries.  A locator is a scheme, the document it leads to, and *)
(* whether it is dressed up: letter case, a fragment, tracking parameters, *)
(* a trailing slash.  A shell command is its parsed pipelines and whether  *)
(* one of their operands is a local file.                                  *)
(***************************************************************************)
EXTENDS Integers

CONSTANTS LongQuotes    \* quotes of at least MinQuoteLength characters

NoKind == ""   \* an artifact_kind that was left out
NoLocator == [scheme |-> "none", doc |-> <<>>, dressed |-> FALSE]

\* A citation on a claim.  Zero, NoKind and <<>> are fields the model left out.
EvidenceRecord(channel, loc, quote, ref) ==
  [channel |-> channel, loc |-> loc, origin |-> NoLocator, class |-> "official",
   quote |-> quote, ref |-> ref, revision |-> 0, retrieved |-> FALSE, kind |-> NoKind]

\* The channel decides which schemes are read, and github://o/r/x and
\* https://github.com/o/r/x are one origin.
NormalizeOriginID(channel, l) ==
  CASE channel = "github" /\ l.scheme \in {"github", "github.com"} ->
         [l EXCEPT !.scheme = "github", !.dressed = FALSE]
    [] channel = "web" /\ l.scheme \in {"https", "github.com"} -> [l EXCEPT !.dressed = FALSE]
    [] channel = "semsource" /\ l.scheme = "semsource" -> [l EXCEPT !.dressed = FALSE]
    [] OTHER -> NoLocator

(***************************************************************************)
(* The artifact's own checks                                               *)
(***************************************************************************)

\* EvidenceRecord.Validate
WellFormed(ev) ==
  /\ ev.channel \in {"github", "web", "semsource"}
  /\ ev.loc # NoLocator
  /\ ev.origin # NoLocator /\ ev.origin = NormalizeOriginID(ev.channel, ev.loc)
  /\ ev.class \in {"primary", "official", "secondary", "community"}
  /\ ev.retrieved
  /\ ev.quote # <<>>

ValidateArtifactCitation(ev, maxRevision) ==
  /\ WellFormed(ev)
  /\ ev.quote \in LongQuotes
  /\ ev.ref.id # 0
  /\ ev.revision \in 1..maxRevision

\* Actors and integration points alike are claims with citations.
PopulateCitationDefaults(a) ==
  LET canonical(ev) == NormalizeOriginID(ev.channel, ev.loc)
      fill(ev) == [ev EXCEPT
        !.origin = IF canonical(ev) # NoLocator
                      /\ (@ = NoLocator \/ NormalizeOriginID(ev.channel, @) = canonical(ev))
                   THEN canonical(ev) ELSE @,
        !.retrieved = TRUE,
        !.revision = IF @ = 0 THEN a.revision ELSE @]
  IN [a EXCEPT !.claims = {{fill(ev) : ev \in c} : c \in @}]

\* Mutations, names and directions are checked field by field in the same way.
Validate(a) ==
  /\ a.revision >= 1
  /\ \A c \in a.claims : c # {} /\ \A ev \in c : ValidateArtifactCitation(ev, a.revision)
  /\ a.harness \/ a.needsHarness

(***************************************************************************)
(* One citation against one tool result                                    *)
(***************************************************************************)

\* Only fetchers, each piped into filters at most, and no substitution.  The names
\* of the commands are checked, not their operands: cmd.local, a file:// address or
\* a file that a filter opens itself, makes no difference.
isBashFetchCommand(cmd, allowGH) ==
  /\ ~cmd.substitution /\ cmd.pipelines # {}
  /\ \A p \in cmd.pipelines :
       /\ p.first \in {"curl", "wget"} \cup (IF allowGH THEN {"gh"} ELSE {})
       /\ p.rest \subseteq {"head", "tail", "sed", "grep", "egrep", "fgrep",
                            "jq", "cut", "tr", "sort", "uniq", "wc"}

checkAllowedRetrievalTool(ev, res) ==
  \/ /\ ev.channel = "github"
     /\ \/ res.tool \in {"github_read", "http_request"}
        \/ res.tool = "bash" /\ isBashFetchCommand(res.command, TRUE)
  \/ /\ ev.channel = "web"
     /\ \/ res.tool \in {"web_search", "http_request"}
        \/ res.tool = "bash" /\ isBashFetchCommand(res.command, FALSE)
  \/ /\ ev.channel = "semsource"
     /\ res.tool \in {"graph_query", "graph_search", "query_entity",
                      "query_relationships", "semsource_read"}

quoteEchoedInDispatchArgs(ev, res) == ev.quote \in res.args.quotes

\* A token of the text is the locator, the origin, or normalises to it.
textContainsLocatorOrOrigin(ev, text) ==
  \E t \in text.locs : t \in {ev.loc, ev.origin}
                       \/ NormalizeOriginID(ev.channel, t) = ev.origin

\* github_read's envelope: a record of that origin or locator, and its body.
\* Records of one origin have one kind: that of the first decides in the code.
recordCitation(ev, res) ==
  \E r \in res.items :
    /\ r.locs \cap {ev.loc, ev.origin} # {}
    /\ ev.quote \in r.quotes
    /\ r.kind = NoKind \/ ev.kind \in {NoKind, r.kind}

\* Mutant: the locator and the quote may come from different items.
AnyItem_itemCitation(ev, res) ==
  /\ \E i \in res.items : textContainsLocatorOrOrigin(ev, i)
  /\ \E i \in res.items : ev.quote \in i.quotes

\* Numbered search results and JSON lists: both in the same item.
itemCitation(ev, res) ==
  \E i \in res.items : textContainsLocatorOrOrigin(ev, i) /\ ev.quote \in i.quotes

\* One fetched resource: the locator may be the one that was asked for.
singleCitation(ev, res) ==
  /\ \E text \in res.items \cup {res.args} : textContainsLocatorOrOrigin(ev, text)
  /\ \E i \in res.items : ev.quote \in i.quotes

verifyCitation(ev, res) ==
  /\ ~res.failed
  /\ checkAllowedRetrievalTool(ev, res)
  /\ ~quoteEchoedInDispatchArgs(ev, res)
  /\ res.revision > 0 => ev.revision \in {0, res.revision}
  /\ CASE res.shape = "records" -> recordCitation(ev, res)
       [] res.tool = "web_search" -> ev.kind \in {NoKind, "snippet"} /\ res.shape = "blocks"
                                     /\ itemCitation(ev, res)
       [] res.shape = "items" -> itemCitation(ev, res)
       [] OTHER -> singleCitation(ev, res)

\* What the check writes into the citation.
stampCitation(ev, res) ==
  [ev EXCEPT
    !.revision = IF @ = 0 THEN res.revision ELSE @,
    !.kind = IF res.shape = "records"
             THEN (CHOOSE r \in res.items : r.locs \cap {ev.loc, ev.origin} # {}
                                            /\ ev.quote \in r.quotes).kind
             ELSE IF res.tool = "web_search" THEN "snippet"
             ELSE IF @ # NoKind THEN @
             ELSE IF ev.channel = "semsource" THEN "entity" ELSE "body"]
=============================================================================
