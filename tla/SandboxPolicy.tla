---------------------------- MODULE SandboxPolicy ----------------------------
(***************************************************************************)
(* The pure half of cmd/semteams/sandboxmanager: what a sandbox request    *)
(* means (Validate, Normalize, Hash), which profile serves it              *)
(* (MatchProfile), whether it is admitted (AdmissionCheck), what is        *)
(* attested (Attest ...) and which triples an attestation writes and a     *)
(* query reads back.  A written token is <<name, case>>, so that lowering  *)
(* is visible; a SHA-256 over canonical JSON is the normalised value       *)
(* itself; text of reasons is the thing the reason is about.               *)
(***************************************************************************)
EXTENDS Integers, Sequences, FiniteSets, Functions

CONSTANTS
  WellFormed,    \* names that match tokenPattern
  Kebab(_),      \* kebabProbeName: the predicate segment of a probe name
  Second,        \* how many instants of the clock a second has
  DefaultTTL,    \* the TTL of profiles that name none
  None           \* an absent value

NoText == ""   \* the empty string
Lower(w) == <<w[1], "lower">>
Privileges == {"docker-socket", "privileged"}
Mounts == {"workspace-write", "workspace-read"}
Networks == {"restricted", "public", "none"}

\* Requirements as parsed: slices keep order, case and repetitions.
validateProbes(ps) ==
  /\ \A i \in DOMAIN ps : ps[i].name[1] \in WellFormed /\ ps[i].command # NoText
  /\ \A i, j \in DOMAIN ps : i # j => Kebab(ps[i].name[1]) # Kebab(ps[j].name[1])

validateSlices(r) ==
  /\ \A c \in Range(r.caps) : c.token[1] \in WellFormed
  /\ r.network \in Networks \cup {NoText}
  /\ \A s \in Range(r.secrets) : s[1] \in WellFormed /\ s[2] = "upper"
  /\ Range(r.mounts) \subseteq Mounts
  /\ Range(r.privileges) \subseteq Privileges

Validate(r) == validateSlices(r) /\ validateProbes(r.probes)

\* Arguments of a wrong type anywhere parse to nothing.
ParseRequirements(args) == args # None

\* Sorted and deduplicated slices are sets.  Secrets go through the same
\* normalizeTokens as capabilities.
Normalize(r) ==
  [caps |-> {[kind |-> c.kind, token |-> Lower(c.token)] : c \in Range(r.caps)},
   network |-> IF r.network = NoText THEN "restricted" ELSE r.network,
   secrets |-> {Lower(s) : s \in Range(r.secrets)},
   mounts |-> Range(r.mounts),
   privileges |-> Range(r.privileges),
   probes |-> {[p EXCEPT !.name = Lower(p.name)] : p \in Range(r.probes)}]

Hash(r) == Normalize(r)
SignatureFor(profile, r) == <<profile.id, Hash(r)>>
Unmatched == [id |-> "unmatched@v0", adv |-> {}, networks |-> {}, privileges |-> {}, ttl |-> 0]

\* Profile.ResolvedTTL.
ResolvedTTL(p) == IF p.ttl = 0 THEN DefaultTTL ELSE p.ttl

\* NewCatalog: names are unique, and every profile enumerates its networks.
NewCatalogAccepts(catalog) ==
  /\ \A i, j \in DOMAIN catalog : i # j => catalog[i].id # catalog[j].id
  /\ \A p \in Range(catalog) : p.networks # {}

\* MatchProfile: among the profiles that cover every need the best score wins,
\* the first of equals; no profile, no match.
NoPenalty_Score(needs, p) == Cardinality(needs \cap p.adv)
Score(needs, p) == Cardinality(needs \cap p.adv) - Cardinality(p.adv \ needs)
Covering(needs, catalog) == {i \in DOMAIN catalog : needs \subseteq catalog[i].adv}
Better(needs, catalog, i, j) ==
  \/ Score(needs, catalog[i]) > Score(needs, catalog[j])
  \/ Score(needs, catalog[i]) = Score(needs, catalog[j]) /\ i < j

MatchProfile(r, catalog) ==
  LET needs == Normalize(r).caps
      cover == Covering(needs, catalog)
  IN IF cover = {} THEN Unmatched
     ELSE catalog[CHOOSE i \in cover : \A j \in cover \ {i} : Better(needs, catalog, i, j)]

\* AdmissionCheck: what is denied, what waits for a reviewer, the worst wins.
NoSecrets_DeniedReasons(n, profile, policy) ==
     {<<"privilege", v>> : v \in n.privileges \ profile.privileges}
  \cup {<<"network", v>> : v \in {n.network} \ profile.networks}

DeniedReasons(n, profile, policy) ==
     {<<"privilege", v>> : v \in {v \in n.privileges :
        \/ v = "privileged" /\ ~policy.privileged
        \/ v \notin profile.privileges}}
  \cup {<<"network", v>> : v \in {n.network} \ profile.networks}
  \cup {<<"secret", s>> : s \in n.secrets \ policy.secrets}

PendingReasons(n, profile, policy) ==
     {<<"review", v>> : v \in {v \in n.privileges :
        v \in profile.privileges /\ (v = "privileged" => policy.privileged)}}
  \cup {<<"review", v>> : v \in {v \in {n.network} :
        v = "public" /\ v \in profile.networks /\ ~policy.public}}

AdmissionCheck(n, profile, policy) ==
  LET denied == DeniedReasons(n, profile, policy)
      pending == PendingReasons(n, profile, policy)
  IN [outcome |-> IF denied # {} THEN "denied"
                  ELSE IF pending # {} THEN "admission_pending" ELSE "admitted",
      reasons |-> denied \cup pending]

-----------------------------------------------------------------------------
\* Attestations.  A probe result is [exit, out] or Err; out is "" or some text.
Err == [exit |-> -1, out |-> NoText]
ExitIgnored_OK(probe, res) == res # Err
OK(probe, res) == res # Err /\ res.exit = probe.expect

Bare(profile, n, t) ==
  [profile |-> profile.id, signature |-> <<profile.id, n>>, at |-> t, ttl |-> ResolvedTTL(profile),
   admission |-> "admitted", reasons |-> {}, ready |-> FALSE, degraded |-> FALSE,
   terminal |-> FALSE, why |-> None, folder |-> None,
   failed |-> {}, verified |-> {}]

AttestTerminalError(profile, n, why, t) ==
  [Bare(profile, n, t) EXCEPT !.terminal = TRUE, !.why = why]

AttestAdmissionFailure(profile, n, res, t) ==
  [Bare(profile, n, t) EXCEPT
     !.admission = res.outcome, !.reasons = res.reasons,
     !.terminal = res.outcome = "denied",
     !.why = IF res.outcome = "denied" THEN "admission-denied" ELSE None]

\* results maps every probe of n to its result.
Attest(profile, n, folder, results, t) ==
  LET passed == {p \in n.probes : OK(p, results[p])}
      failed == n.probes \ passed
  IN [Bare(profile, n, t) EXCEPT
        !.folder = folder,
        !.failed = {p.name : p \in failed},
        !.verified = {<<p.name, results[p].out>> : p \in passed},
        !.ready = failed = {},
        !.degraded = failed # {} /\ passed # {},
        !.terminal = failed # {} /\ passed = {},
        !.why = IF failed # {} /\ passed = {} THEN "all-probes-failed" ELSE None]

\* A TTL is stored as int64(ttl.Seconds()).
WholeSeconds(d) == (d \div Second) * Second

\* What the graph holds for one entity after Append of att.Triples: predicates
\* of the batch are overwritten, the ones that are left out keep their value.
Triples(old, att) ==
  LET stamped == {<<Kebab(v[1][1]), v[2]>> : v \in {v \in att.verified : v[2] # NoText}}
  IN [att EXCEPT
        !.ttl = WholeSeconds(@),
        !.why = IF @ # None THEN @ ELSE old.why,
        !.folder = IF @ # None THEN @ ELSE old.folder,
        !.failed = IF @ # {} THEN @ ELSE old.failed,
        !.reasons = IF @ # {} THEN @ ELSE old.reasons,
        !.verified = stamped \cup {v \in old.verified : \A w \in stamped : w[1] # v[1]}]

Unstamped ==
  [profile |-> None, signature |-> None, at |-> 0, ttl |-> 0, admission |-> None,
   reasons |-> {}, ready |-> FALSE, degraded |-> FALSE, terminal |-> FALSE, why |-> None,
   folder |-> None, failed |-> {}, verified |-> {}]

\* A TTL that is read back as zero stands for the default.
Window(att) == IF att.ttl = 0 THEN DefaultTTL ELSE att.ttl

\* Mutant: fresh at the instant the TTL ends, as the comment at attestation.go 182
\* has it.
Inclusive_IsFresh(att, t) == att.at # 0 /\ t <= att.at + Window(att)
IsFresh(att, t) == att.at # 0 /\ t < att.at + Window(att)

\* query_sandbox_attestation.  The workspace folder is not read back.
attestationFromTriples(stored) == [stored EXCEPT !.folder = None]

Lookup(stored, r, catalog, t) ==
  LET profile == MatchProfile(r, catalog)
      found == profile # Unmatched /\ stored.signature = SignatureFor(profile, r)
  IN [found |-> found, fresh |-> found /\ IsFresh(stored, t),
      attestation |-> IF found THEN attestationFromTriples(stored) ELSE Unstamped]
=============================================================================
