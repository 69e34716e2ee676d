------------------------ MODULE SandboxManagerProofs ------------------------
(***************************************************************************)
(* TLAPS proofs about SandboxManager, for any catalogs, policies, callers, *)
(* requirements and numbers of concurrent requests.                        *)
(***************************************************************************)
EXTENDS SandboxManager, FiniteSetTheorems, WellFoundedInduction, TLAPS

-----------------------------------------------------------------------------
\* What MatchProfile relies on in a catalog.
CatalogOK(catalog) ==
  /\ DOMAIN catalog \subseteq Nat
  /\ \A i, j \in DOMAIN catalog : i # j => catalog[i].id # catalog[j].id
  /\ \A p \in Range(catalog) : IsFiniteSet(p.adv) /\ p.ttl \in Nat /\ p.id # Unmatched.id

\* p serves the request n: it covers it, and nothing tighter does.
Serves(p, n, catalog) ==
  /\ p \in Range(catalog) /\ n.caps \subseteq p.adv
  /\ \A q \in Range(catalog) :
       n.caps \subseteq q.adv => Cardinality(p.adv) <= Cardinality(q.adv)

\* The request n is within what profile p and the operator allow.
Allowed(p, n, policy) ==
  /\ n.privileges = {} /\ n.network \in p.networks
  /\ n.network = "public" => policy.public
  /\ n.secrets \subseteq policy.secrets

Meanings == {Normalize(r) : r \in Raw \ {None}}
Profiles == Range(setup.catalog) \cup {Unmatched}
Granted(p, n) ==
  n \in Meanings /\ Serves(p, n, setup.catalog) /\ Allowed(p, n, setup.policy)

\* Every probe passed in workspace f, unless the runner is the mock.
Proven(f) ==
  setup.runner # "mock" => f \in staged /\ \E t \in 1..now : <<f, t>> \in proven

AttFields == {"profile", "signature", "at", "ttl", "admission", "reasons", "ready", "degraded",
              "terminal", "why", "folder", "failed", "verified"}
ActFields == {"step", "entity", "profile", "req", "results", "att", "reply", "emit"}

\* An attestation is about some profile, was made by now, and says ready only of
\* a workspace that was proven.
AttOK(a) ==
  /\ DOMAIN a = AttFields
  /\ a.at \in 1..now /\ a.signature # None
  /\ \E p \in Profiles : a.signature[1] = p.id /\ a.ttl = ResolvedTTL(p)
  /\ a.ready => a.folder = a.signature /\ Proven(a.signature)

\* What a handler may rely on at each of its steps, of what it is doing (a).
SignatureOf(a) == <<a.profile.id, a.req>>
RecOK(a) ==
  /\ DOMAIN a = ActFields /\ a.step \in Steps
  /\ a.reply \in {None, "attestation", "artifact", "error"}
  /\ a.step \notin {"idle", "done"} => a.entity # None
  /\ a.step \in {"stage", "up", "probe", "stamp"} => a.entity \in Entities
  /\ a.step \in {"stage", "up", "probe"} => Granted(a.profile, a.req)
  /\ a.step = "up" => SignatureOf(a) \in staged
  /\ a.step = "probe" /\ setup.runner # "mock" => SignatureOf(a) \in staged
  /\ a.step = "stamp" => AttOK(a.att) /\ a.att.signature = SignatureOf(a)
  /\ a.step \in {"write", "path"} /\ a.emit.folder # None => Proven(a.emit.folder)

\* The host holds only what was granted.
HostOK ==
  /\ up \subseteq staged
  /\ \A s \in staged : \E p \in Range(setup.catalog) :
       s[1] = p.id /\ Granted(p, s[2]) /\ s[2].secrets \subseteq setup.env

\* What an entity says is what one applied attestation said.
GraphOK(e) ==
  \/ graph[e] = Unstamped
  \/ /\ DOMAIN graph[e] = AttFields
     /\ \E a \in applied[e] : Verdict(a) = Verdict(graph[e]) /\ graph[e].ttl = WholeSeconds(a.ttl)
     /\ graph[e].signature # None
     /\ graph[e].ready => Proven(graph[e].folder)

SetupOK ==
  /\ CatalogOK(setup.catalog)
  /\ \A p \in Profiles, n \in Meanings : <<p.id, n>> # None

ActsOK == DOMAIN act = Handlers /\ \A h \in Handlers : RecOK(act[h])
GraphsOK ==
  /\ DOMAIN graph = Entities \ {None} /\ DOMAIN applied = Entities \ {None}
  /\ \A e \in Entities \ {None} : GraphOK(e) /\ \A a \in applied[e] : AttOK(a)
WrittenOK == \A f \in written : Proven(f)

MInv ==
  /\ SetupOK /\ now \in 1..MaxTime /\ issued \in 0..MaxRequests
  /\ ActsOK /\ HostOK /\ GraphsOK /\ WrittenOK

-----------------------------------------------------------------------------
\* A set of naturals has a smallest element.
LEMMA SmallestOf ==
  ASSUME NEW T \in SUBSET Nat, T # {}
  PROVE  \E x \in T : \A y \in T : x <= y
<1>1. IsWellFoundedOn(OpToRel(<, Nat), Nat)  BY NatLessThanWellFounded
<1>2. \E x \in T : \A y \in T : ~(<<y, x>> \in OpToRel(<, Nat))
  BY <1>1, WFMin, Zenon
<1>3. PICK x \in T : \A y \in T : ~(<<y, x>> \in OpToRel(<, Nat))  BY <1>2
<1>4. \A y \in T : ~(y < x)
  BY <1>3 DEF OpToRel
<1> QED BY <1>4

\* A covering profile scores twice the needs less all it offers.
LEMMA ScoreIs ==
  ASSUME NEW needs, NEW p, IsFiniteSet(p.adv), needs \subseteq p.adv
  PROVE  /\ IsFiniteSet(needs) /\ Cardinality(needs) \in Nat /\ Cardinality(p.adv) \in Nat
         /\ Score(needs, p) = 2 * Cardinality(needs) - Cardinality(p.adv)
<1>1. IsFiniteSet(needs)  BY FS_Subset
<1>2. Cardinality(needs) \in Nat /\ Cardinality(p.adv) \in Nat  BY <1>1, FS_CardinalityType
<1>3. needs \cap p.adv = needs /\ p.adv \cap needs = needs  OBVIOUS
<1>4. Cardinality(p.adv \ needs) = Cardinality(p.adv) - Cardinality(needs)
  <2>1. PICK A : A = p.adv  OBVIOUS
  <2>2. Cardinality(A \ needs) = Cardinality(A) - Cardinality(A \cap needs)
    BY <2>1, FS_Difference
  <2>3. A \cap needs = needs  BY <2>1
  <2> QED BY <2>1, <2>2, <2>3, Zenon
<1>5. Score(needs, p) = Cardinality(needs) - Cardinality(p.adv \ needs)
  BY <1>3, Zenon DEF Score
<1> QED BY <1>1, <1>2, <1>4, <1>5

\* MatchProfile against its reference: among the profiles that cover the needs
\* its score picks one with the fewest capabilities.
LEMMA MatchIs ==
  ASSUME NEW r, NEW catalog, CatalogOK(catalog), MatchProfile(r, catalog) # Unmatched
  PROVE  Serves(MatchProfile(r, catalog), Normalize(r), catalog)
<1> DEFINE needs == Normalize(r).caps
           cover == Covering(needs, catalog)
           size(i) == Cardinality(catalog[i].adv)
           Wins(i) == \A j \in cover \ {i} : Better(needs, catalog, i, j)
           best == CHOOSE i \in cover : Wins(i)
<1>1. cover # {} /\ MatchProfile(r, catalog) = catalog[best]  BY DEF MatchProfile
<1>2. ASSUME NEW i \in cover
      PROVE  /\ i \in DOMAIN catalog /\ i \in Nat /\ needs \subseteq catalog[i].adv
             /\ catalog[i] \in Range(catalog)
  BY DEF Covering, CatalogOK, Range
<1>3. ASSUME NEW i \in cover
      PROVE  /\ size(i) \in Nat /\ Cardinality(needs) \in Nat
             /\ Score(needs, catalog[i]) = 2 * Cardinality(needs) - size(i)
  <2>1. IsFiniteSet(catalog[i].adv) /\ needs \subseteq catalog[i].adv  BY <1>2 DEF CatalogOK
  <2> HIDE DEF needs
  <2> QED BY <2>1, ScoreIs
<1>4. \E i \in cover : Wins(i)
  <2> DEFINE sizes == {size(i) : i \in cover}
  <2>1. sizes \in SUBSET Nat /\ sizes # {}  BY <1>1, <1>3
  <2>2. PICK m \in sizes : \A k \in sizes : m <= k
    <3> HIDE DEF sizes
    <3> QED BY <2>1, SmallestOf
  <2> DEFINE firsts == {i \in cover : size(i) = m}
  <2>3. firsts \in SUBSET Nat /\ firsts # {}  BY <1>2, <2>2
  <2>4. PICK i \in firsts : \A k \in firsts : i <= k
    <3> HIDE DEF firsts
    <3> QED BY <2>3, SmallestOf
  <2>5. ASSUME NEW j \in cover \ {i} PROVE Better(needs, catalog, i, j)
    <3>1. i \in cover /\ size(i) = m /\ i \in Nat /\ j \in Nat  BY <1>2, <2>4
    <3>2. size(j) \in sizes  OBVIOUS
    <3>3. m <= size(j)  BY <2>2, <3>2
    <3>4. size(j) = m => i < j  BY <2>4, <3>1
    <3>5. /\ size(j) \in Nat /\ size(i) \in Nat /\ Cardinality(needs) \in Nat
          /\ Score(needs, catalog[i]) = 2 * Cardinality(needs) - size(i)
          /\ Score(needs, catalog[j]) = 2 * Cardinality(needs) - size(j)
      BY <1>3, <3>1
    <3> HIDE DEF size, needs, cover, sizes, firsts
    <3> QED BY <3>1, <3>3, <3>4, <3>5 DEF Better
  <2> QED BY <2>4, <2>5
<1>5. best \in cover /\ Wins(best)
  <2> HIDE DEF cover, Wins
  <2> QED BY <1>4
<1>6. ASSUME NEW j \in cover PROVE size(best) <= size(j)
  <2>1. CASE j = best  BY <1>3, <1>5, <2>1
  <2>2. CASE j # best
    <3>1. Better(needs, catalog, best, j)  BY <1>5, <2>2
    <3>2. /\ size(j) \in Nat /\ size(best) \in Nat /\ Cardinality(needs) \in Nat
          /\ Score(needs, catalog[best]) = 2 * Cardinality(needs) - size(best)
          /\ Score(needs, catalog[j]) = 2 * Cardinality(needs) - size(j)
      BY <1>3, <1>5
    <3> HIDE DEF size, needs, cover, best
    <3> QED BY <3>1, <3>2 DEF Better
  <2> QED BY <2>1, <2>2
<1>7. ASSUME NEW q \in Range(catalog), needs \subseteq q.adv
      PROVE  Cardinality(catalog[best].adv) <= Cardinality(q.adv)
  <2>1. PICK j \in DOMAIN catalog : q = catalog[j]  BY DEF Range
  <2>2. j \in cover  BY <1>7, <2>1 DEF Covering
  <2> QED BY <1>6, <2>1, <2>2
<1>8. catalog[best] \in Range(catalog) /\ needs \subseteq catalog[best].adv  BY <1>2, <1>5
<1> HIDE DEF best
<1> QED BY <1>1, <1>7, <1>8 DEF Serves

\* Names are unique: the profile of a signature is the one that it was made with.
LEMMA ProfileOfIs ==
  ASSUME CatalogOK(setup.catalog), NEW p \in Range(setup.catalog), NEW s, s[1] = p.id
  PROVE  ProfileOf(s) = p
<1>1. \A q \in Range(setup.catalog) : q.id = p.id => q = p  BY DEF CatalogOK, Range
<1>2. ProfileOf(s) \in Range(setup.catalog) /\ ProfileOf(s).id = s[1]  BY DEF ProfileOf
<1> QED BY <1>1, <1>2

\* An admitted request is within what profile and operator allow, and asks for no
\* privilege at all: one is either denied or waits for a review.
LEMMA AdmittedIs ==
  ASSUME NEW n, NEW p, NEW policy, AdmissionCheck(n, p, policy).outcome = "admitted"
  PROVE  Allowed(p, n, policy)
<1>1. DeniedReasons(n, p, policy) = {} /\ PendingReasons(n, p, policy) = {}
  BY DEF AdmissionCheck
<1>2. /\ \A v \in n.privileges : ~(v = "privileged" /\ ~policy.privileged) /\ v \in p.privileges
      /\ n.network \in p.networks /\ n.secrets \subseteq policy.secrets
  <2>1. {<<"privilege", v>> : v \in {v \in n.privileges :
            (v = "privileged" /\ ~policy.privileged) \/ v \notin p.privileges}} = {}
    BY <1>1 DEF DeniedReasons
  <2>2. {<<"network", v>> : v \in {n.network} \ p.networks} = {}  BY <1>1 DEF DeniedReasons
  <2>3. {<<"secret", v>> : v \in n.secrets \ policy.secrets} = {}  BY <1>1 DEF DeniedReasons
  <2> QED BY <2>1, <2>2, <2>3
<1>3. /\ \A v \in n.privileges : ~(v \in p.privileges /\ (v = "privileged" => policy.privileged))
      /\ n.network = "public" /\ n.network \in p.networks => policy.public
  <2>1. {<<"review", v>> : v \in {v \in n.privileges :
            v \in p.privileges /\ (v = "privileged" => policy.privileged)}} = {}
    BY <1>1 DEF PendingReasons
  <2>2. {<<"review", v>> : v \in {v \in {n.network} :
            v = "public" /\ v \in p.networks /\ ~policy.public}} = {}
    BY <1>1 DEF PendingReasons
  <2> QED BY <2>1, <2>2
<1> QED BY <1>2, <1>3 DEF Allowed

-----------------------------------------------------------------------------
\* Every attestation is about the profile and request it was made with.
About(a, p, n, t) ==
  DOMAIN a = AttFields /\ a.signature = <<p.id, n>> /\ a.at = t /\ a.ttl = ResolvedTTL(p)

\* An attestation before its verdict is about its profile and request, and not ready.
LEMMA BareIs ==
  ASSUME NEW p, NEW n, NEW t
  PROVE  About(Bare(p, n, t), p, n, t) /\ Bare(p, n, t).ready = FALSE
BY DEF About, Bare, AttFields

\* An attestation of a terminal error is not ready.
LEMMA TerminalErrorIs ==
  ASSUME NEW p, NEW n, NEW why, NEW t
  PROVE  /\ About(AttestTerminalError(p, n, why, t), p, n, t)
         /\ AttestTerminalError(p, n, why, t).ready = FALSE
BY DEF About, Bare, AttFields, AttestTerminalError

\* An attestation of a refused request is not ready.
LEMMA AdmissionFailureIs ==
  ASSUME NEW p, NEW n, NEW res, NEW t
  PROVE  /\ About(AttestAdmissionFailure(p, n, res, t), p, n, t)
         /\ AttestAdmissionFailure(p, n, res, t).ready = FALSE
BY DEF About, Bare, AttFields, AttestAdmissionFailure

\* A ready attestation: every probe exited as expected.
Filled(b, folder, failed, verified, ready, degraded, terminal, why) ==
  [b EXCEPT !.folder = folder, !.failed = failed, !.verified = verified, !.ready = ready,
            !.degraded = degraded, !.terminal = terminal, !.why = why]

\* Filling in a verdict keeps the signature and the times.
LEMMA FilledIs ==
  ASSUME NEW b, DOMAIN b = AttFields, NEW folder, NEW failed, NEW verified, NEW ready,
         NEW degraded, NEW terminal, NEW why
  PROVE  LET a == Filled(b, folder, failed, verified, ready, degraded, terminal, why) IN
         /\ DOMAIN a = AttFields /\ a.signature = b.signature /\ a.at = b.at /\ a.ttl = b.ttl
         /\ a.folder = folder /\ a.ready = ready
BY DEF Filled, AttFields

\* A ready attestation means that every probe exited as expected.
LEMMA AttestIs ==
  ASSUME NEW p, NEW n, NEW folder, NEW results, NEW t
  PROVE  /\ About(Attest(p, n, folder, results, t), p, n, t)
         /\ Attest(p, n, folder, results, t).folder = folder
         /\ Attest(p, n, folder, results, t).ready
              => \A q \in n.probes : results[q].exit = q.expect
<1> DEFINE passed == {q \in n.probes : OK(q, results[q])}
           failed == n.probes \ passed
<1>1. PICK a : a = Attest(p, n, folder, results, t)  OBVIOUS
<1>2. a = Filled(Bare(p, n, t), folder, {q.name : q \in failed},
                 {<<q.name, results[q].out>> : q \in passed}, failed = {},
                 failed # {} /\ passed # {}, failed # {} /\ passed = {},
                 IF failed # {} /\ passed = {} THEN "all-probes-failed" ELSE None)
  BY <1>1, Zenon DEF Attest, Filled
<1>3. PICK b : b = Bare(p, n, t)  OBVIOUS
<1>4. PICK v1, v2, v4, v5, v6 :
        /\ v1 = {q.name : q \in failed} /\ v2 = {<<q.name, results[q].out>> : q \in passed}
        /\ v4 = (failed # {} /\ passed # {}) /\ v5 = (failed # {} /\ passed = {})
        /\ v6 = IF failed # {} /\ passed = {} THEN "all-probes-failed" ELSE None
  OBVIOUS
<1>5. a = Filled(b, folder, v1, v2, failed = {}, v4, v5, v6)  BY <1>2, <1>3, <1>4, Zenon
<1>6. About(b, p, n, t)  BY <1>3, BareIs
<1>7. failed = {} => \A q \in n.probes : results[q].exit = q.expect  BY DEF OK
<1> HIDE DEF failed, passed
<1>8. PICK v3 : v3 = (failed = {})  OBVIOUS
<1>9. a = Filled(b, folder, v1, v2, v3, v4, v5, v6)  BY <1>5, <1>8, Zenon
<1>10. DOMAIN b = AttFields  BY <1>6 DEF About
<1>11. /\ DOMAIN a = AttFields /\ a.signature = b.signature /\ a.at = b.at /\ a.ttl = b.ttl
       /\ a.folder = folder /\ a.ready = v3
  BY <1>9, <1>10, FilledIs
<1>12. a.ready => failed = {}  BY <1>8, <1>11, Zenon
<1>13. About(a, p, n, t)  BY <1>6, <1>11 DEF About
<1> QED BY <1>1, <1>7, <1>11, <1>12, <1>13

\* What a batch leaves in the graph says what the attestation said.
LEMMA TriplesIs ==
  ASSUME NEW old, NEW att, DOMAIN att = AttFields
  PROVE  LET new == Triples(old, att) IN
         /\ DOMAIN new = AttFields /\ Verdict(new) = Verdict(att)
         /\ new.signature = att.signature /\ new.ready = att.ready
         /\ new.ttl = WholeSeconds(att.ttl)
         /\ att.folder # None => new.folder = att.folder
BY DEF AttFields, Triples, Verdict

-----------------------------------------------------------------------------
\* What every step does to the state that proofs of the past rest on.
Grows ==
  /\ UNCHANGED setup /\ staged \subseteq staged' /\ proven \subseteq proven'
  /\ now \in 1..MaxTime /\ now' \in 1..MaxTime /\ now <= now'

\* A folder once proven was proven.
LEMMA ProvenStays ==
  ASSUME Grows, NEW f, Proven(f)
  PROVE  Proven(f)'
BY SandboxConstantsOK DEF Grows, Proven

\* What an attestation says outlives later steps.
LEMMA AttStays ==
  ASSUME Grows, NEW a, AttOK(a)
  PROVE  AttOK(a)'
<1>1. a.ready => a.folder = a.signature /\ Proven(a.signature)'
  BY ProvenStays DEF AttOK
<1> QED BY <1>1, SandboxConstantsOK DEF AttOK, Grows, Profiles

\* So does what is known of a handler.
LEMMA RecStays ==
  ASSUME Grows, NEW a, RecOK(a)
  PROVE  RecOK(a)'
<1>1. a.step = "stamp" => AttOK(a.att)'  BY AttStays DEF RecOK
<1>2. a.step \in {"write", "path"} /\ a.emit.folder # None => Proven(a.emit.folder)'
  BY ProvenStays DEF RecOK
<1>3. Granted(a.profile, a.req) => Granted(a.profile, a.req)'  BY DEF Grows, Granted
<1> QED BY <1>1, <1>2, <1>3 DEF RecOK, Grows

\* Records of a handler that moved on.
WithStep(a, step) == [a EXCEPT !.step = step]
WithAtt(a, att) == [a EXCEPT !.step = "stamp", !.att = att]
WithReply(a, reply) == [a EXCEPT !.step = "done", !.reply = reply]
Ended(reply) == [Idle EXCEPT !.step = "done", !.reply = reply]
MovesTo(h, new) ==
  DOMAIN act' = Handlers /\ act'[h] = new /\ \A g \in Handlers \ {h} : act'[g] = act[g]

\* A step of one handler keeps what is known of all of them.
LEMMA HandlerStep ==
  ASSUME ActsOK, Grows, NEW h \in Handlers, NEW new, MovesTo(h, new), RecOK(new)'
  PROVE  ActsOK'
<1>1. ASSUME NEW g \in Handlers PROVE RecOK(act[g])'
  <2>1. PICK x : x = act'[g]  OBVIOUS
  <2>2. CASE g = h
    <3>1. x = new  BY <2>1, <2>2 DEF MovesTo
    <3>2. RecOK(x)'  BY <3>1
    <3> QED BY <2>1, <3>2 DEF RecOK
  <2>3. CASE g # h
    <3>1. x = act[g]  BY <2>1, <2>3 DEF MovesTo
    <3>2. RecOK(x)  BY <3>1 DEF ActsOK
    <3>3. RecOK(x)'  BY <3>2, RecStays
    <3> QED BY <2>1, <3>3 DEF RecOK
  <2> QED BY <2>2, <2>3
<1> QED BY <1>1 DEF ActsOK, MovesTo

\* A handler that has replied has nothing to answer for.
LEMMA EndedIs ==
  ASSUME NEW reply \in {"attestation", "artifact", "error"}
  PROVE  RecOK(Ended(reply))'
BY DEF RecOK, Ended, Idle, ActFields, Steps

\* The same for one that ends with a reply.
LEMMA WithReplyIs ==
  ASSUME NEW a, DOMAIN a = ActFields, NEW reply \in {"attestation", "artifact", "error"}
  PROVE  RecOK(WithReply(a, reply))'
BY DEF RecOK, WithReply, ActFields, Steps

\* A handler that attests holds a true attestation of its own signature.
LEMMA WithAttIs ==
  ASSUME NEW a, RecOK(a), a.step \in {"stage", "up", "probe"},
         NEW att, AttOK(att)', att.signature = SignatureOf(a)
  PROVE  RecOK(WithAtt(a, att))'
<1>1. /\ DOMAIN WithAtt(a, att) = ActFields /\ WithAtt(a, att).step = "stamp"
      /\ WithAtt(a, att).att = att /\ WithAtt(a, att).entity = a.entity
      /\ WithAtt(a, att).reply = a.reply /\ SignatureOf(WithAtt(a, att)) = SignatureOf(a)
  BY DEF RecOK, WithAtt, ActFields, SignatureOf
<1> QED BY <1>1 DEF RecOK, Steps

\* An attestation made now, whose ready verdict is proven, is true.
LEMMA MadeAtt ==
  ASSUME now \in 1..MaxTime, SetupOK, UNCHANGED <<setup, now>>,
         NEW p \in Profiles, NEW n \in Meanings, NEW a, About(a, p, n, now),
         a.ready => a.folder = a.signature /\ Proven(a.signature)'
  PROVE  AttOK(a)'
<1>1. a.signature = <<p.id, n>> /\ a.signature # None  BY DEF About, SetupOK
<1>2. p \in Profiles' /\ a.signature[1] = p.id /\ a.ttl = ResolvedTTL(p)  BY <1>1 DEF About, Profiles
<1>3. a.at \in (1..now)' /\ DOMAIN a = AttFields  BY SandboxConstantsOK DEF About
<1> QED BY <1>1, <1>2, <1>3 DEF AttOK

\* Steps that write no triple keep what is known of the graph.
LEMMA GraphsStay ==
  ASSUME GraphsOK, Grows, UNCHANGED <<graph, applied>>
  PROVE  GraphsOK'
<1>1. ASSUME NEW e \in Entities \ {None}, GraphOK(e) PROVE GraphOK(e)'
  <2>1. CASE graph[e] = Unstamped  BY <2>1 DEF GraphOK
  <2>2. CASE graph[e] # Unstamped
    <3>1. PICK g : g = graph[e]  OBVIOUS
    <3>2. g.ready => Proven(g.folder)'  BY <1>1, <2>2, <3>1, ProvenStays DEF GraphOK
    <3>3. g = graph'[e] /\ applied'[e] = applied[e]  BY <3>1
    <3>4. graph'[e].ready => Proven(graph[e].folder)'  BY <3>2, <3>3 DEF Proven
    <3> QED BY <1>1, <2>2, <3>3, <3>4 DEF GraphOK
  <2> QED BY <2>1, <2>2
<1>2. ASSUME NEW e \in Entities \ {None}, NEW a \in applied'[e] PROVE AttOK(a)'
  BY <1>2, AttStays DEF GraphsOK
<1> QED BY <1>1, <1>2 DEF GraphsOK

\* Steps that write no artifact keep what is known of artifacts.
LEMMA WrittenStays ==
  ASSUME WrittenOK, Grows, UNCHANGED written
  PROVE  WrittenOK'
BY ProvenStays DEF WrittenOK

\* Steps that stage nothing keep what is known of the host.
LEMMA HostStays ==
  ASSUME HostOK, Grows, UNCHANGED staged, up' \subseteq staged
  PROVE  HostOK'
BY DEF HostOK, Grows, Granted

-----------------------------------------------------------------------------
\* A step that leaves the past alone and moves one handler to a good record.
LEMMA OnlyHandlerMoves ==
  ASSUME MInv, NEW h \in Handlers, NEW new, MovesTo(h, new), RecOK(new)',
         UNCHANGED <<setup, graph, host, emitted, now, history>>, issued' \in 0..MaxRequests
  PROVE  MInv'
<1>1. Grows  BY DEF Grows, MInv, host, history
<1>2. ActsOK'  BY <1>1, HandlerStep DEF MInv
<1>3. GraphsOK' /\ WrittenOK'
  BY <1>1, GraphsStay, WrittenStays DEF MInv, history, emitted
<1>4. HostOK'  BY <1>1, HostStays DEF MInv, host, HostOK
<1>5. SetupOK'  BY DEF MInv, SetupOK, Profiles
<1> QED BY <1>2, <1>3, <1>4, <1>5 DEF MInv

\* The bound on requests.
LEMMA OneMoreRequest ==
  ASSUME MInv, issued < MaxRequests, issued' = issued + 1
  PROVE  issued' \in 0..MaxRequests
BY SandboxConstantsOK DEF MInv

\* A request is refused before anything is staged.
LEMMA RefusedStep ==
  ASSUME MInv, NEW h \in Handlers, NEW c \in Callers, NEW r \in Raw, RequestRefused(h, c, r)
  PROVE  MInv'
<1>1. MovesTo(h, Ended("error"))  BY DEF RequestRefused, MovesTo, Ended, MInv, ActsOK
<1>2. RecOK(Ended("error"))'  BY EndedIs
<1>3. issued' \in 0..MaxRequests  BY OneMoreRequest DEF RequestRefused
<1>4. PICK new : new = Ended("error")  OBVIOUS
<1>5. MovesTo(h, new) /\ RecOK(new)'  BY <1>1, <1>2, <1>4
<1> QED BY <1>3, <1>5, OnlyHandlerMoves DEF RequestRefused

\* request_sandbox: an attestation at once, or a request that is granted.
LEMMA RequestStep ==
  ASSUME MInv, NEW h \in Handlers, NEW c \in Callers, NEW r \in Raw, Request(h, c, r)
  PROVE  MInv'
<1>1. PICK n : n = Normalize(r)  OBVIOUS
<1>2. PICK p : p = IF Validate(r) THEN MatchProfile(r, setup.catalog) ELSE Unmatched  OBVIOUS
<1>3. PICK res : res = AdmissionCheck(n, p, setup.policy)  OBVIOUS
<1>4. PICK e : e = ChainEntityID(c)  OBVIOUS
<1>5. PICK begun : begun = [Idle EXCEPT !.entity = e, !.profile = p, !.req = n]  OBVIOUS
<1>6. PICK new : new = CASE p = Unmatched ->
                              WithAtt(begun, AttestTerminalError(p, n, "unmatched", now))
                         [] p # Unmatched /\ res.outcome # "admitted" ->
                              WithAtt(begun, AttestAdmissionFailure(p, n, res, now))
                         [] OTHER -> WithStep(begun, "stage")
  OBVIOUS
<1>7. act' = [act EXCEPT ![h] = new]
  BY <1>1, <1>2, <1>3, <1>4, <1>5, <1>6, Zenon DEF Request, WithAtt, WithStep
<1>8. MovesTo(h, new)  BY <1>7 DEF MovesTo, MInv, ActsOK
<1>9. /\ r # None /\ e # None /\ e \in Entities /\ n \in Meanings
      /\ issued' \in 0..MaxRequests /\ SetupOK /\ now \in 1..MaxTime
      /\ UNCHANGED <<setup, graph, host, emitted, now, history>>
  <2>1. issued' \in 0..MaxRequests  BY OneMoreRequest DEF Request
  <2> QED BY <1>1, <1>4, <2>1 DEF Request, ParseRequirements, Entities, Meanings, MInv
<1>10. /\ DOMAIN begun = ActFields /\ begun.entity = e /\ begun.profile = p /\ begun.req = n
       /\ begun.reply = None
  BY <1>5 DEF Idle, ActFields
<1>11. p # Unmatched => Serves(p, n, setup.catalog)
  <2> SUFFICES ASSUME p # Unmatched PROVE Serves(p, n, setup.catalog)  OBVIOUS
  <2>1. p = MatchProfile(r, setup.catalog)  BY <1>2
  <2> QED BY <1>1, <1>9, <2>1, MatchIs DEF SetupOK
<1>12. p \in Profiles  BY <1>11 DEF Serves, Profiles
<1>13. ASSUME NEW att, About(att, p, n, now), att.ready = FALSE, new = WithAtt(begun, att)
       PROVE  RecOK(new)'
  <2>1. AttOK(att)'  BY <1>9, <1>12, <1>13, MadeAtt
  <2>2. /\ DOMAIN new = ActFields /\ new.step = "stamp" /\ new.att = att /\ new.entity = e
        /\ new.reply = None /\ new.profile = p /\ new.req = n
    BY <1>10, <1>13 DEF WithAtt, ActFields
  <2>3. att.signature = <<p.id, n>>  BY <1>13 DEF About
  <2>4. att.signature = SignatureOf(new)  BY <2>2, <2>3 DEF SignatureOf
  <2> QED BY <1>9, <2>1, <2>2, <2>4 DEF RecOK, Steps
<1>14. RecOK(new)'
  <2>1. CASE p = Unmatched
    <3>1. new = WithAtt(begun, AttestTerminalError(p, n, "unmatched", now))  BY <1>6, <2>1
    <3> QED BY <1>13, <3>1, TerminalErrorIs
  <2>2. CASE p # Unmatched /\ res.outcome # "admitted"
    <3>1. new = WithAtt(begun, AttestAdmissionFailure(p, n, res, now))  BY <1>6, <2>2
    <3> QED BY <1>13, <3>1, AdmissionFailureIs
  <2>3. CASE p # Unmatched /\ res.outcome = "admitted"
    <3>1. new = WithStep(begun, "stage")  BY <1>6, <2>3
    <3>2. /\ DOMAIN new = ActFields /\ new.step = "stage" /\ new.entity = e
          /\ new.reply = None /\ new.profile = p /\ new.req = n
      BY <1>10, <3>1 DEF WithStep, ActFields
    <3>3. Allowed(p, n, setup.policy)  BY <1>3, <2>3, AdmittedIs
    <3>4. Granted(p, n)'  BY <1>9, <1>11, <2>3, <3>3 DEF Granted
    <3> QED BY <1>9, <3>2, <3>4 DEF RecOK, Steps
  <2> QED BY <2>1, <2>2, <2>3
<1> QED BY <1>8, <1>9, <1>14, OnlyHandlerMoves

-----------------------------------------------------------------------------
\* Ending with an attestation is a move of one handler.
LEMMA EndsMoves ==
  ASSUME ActsOK, NEW h \in Handlers, NEW att, Ends(h, att)
  PROVE  MovesTo(h, WithAtt(act[h], att))
BY DEF ActsOK, Ends, MovesTo, WithAtt

\* So is going on to the next step.
LEMMA StepMoves ==
  ASSUME ActsOK, NEW h \in Handlers, NEW step, act' = [act EXCEPT ![h].step = step]
  PROVE  MovesTo(h, WithStep(act[h], step))
BY DEF ActsOK, MovesTo, WithStep

\* A handler that goes on keeps its profile and request.
LEMMA WithStepIs ==
  ASSUME NEW a, DOMAIN a = ActFields, NEW step
  PROVE  LET new == WithStep(a, step) IN
         /\ DOMAIN new = ActFields /\ new.step = step /\ new.entity = a.entity
         /\ new.reply = a.reply /\ new.profile = a.profile /\ new.req = a.req
         /\ new.att = a.att /\ new.emit = a.emit /\ SignatureOf(new) = SignatureOf(a)
BY DEF WithStep, ActFields, SignatureOf

\* A request that is in progress ends with an attestation about itself.
LEMMA AttestsItself ==
  ASSUME MInv, Grows, UNCHANGED now, NEW h \in Handlers, NEW a, a = act[h],
         a.step \in {"stage", "up", "probe"}, NEW att, About(att, a.profile, a.req, now),
         att.ready => att.folder = att.signature /\ Proven(att.signature)', Ends(h, att)
  PROVE  ActsOK'
<1>1. RecOK(a)  BY DEF MInv, ActsOK
<1>2. a.profile \in Profiles /\ a.req \in Meanings
  BY <1>1 DEF RecOK, Granted, Serves, Profiles
<1>3. AttOK(att)'
  BY <1>2, MadeAtt DEF MInv, Grows
<1>4. att.signature = SignatureOf(a)  BY DEF About, SignatureOf
<1>5. PICK new : new = WithAtt(a, att)  OBVIOUS
<1>6. RecOK(new)'  BY <1>1, <1>3, <1>4, <1>5, WithAttIs
<1>7. MovesTo(h, new)  BY <1>5, EndsMoves DEF MInv
<1> QED BY <1>6, <1>7, HandlerStep DEF MInv

\* devcontainer up, or staging for it, fails.
LEMMA UpFailsStep ==
  ASSUME MInv, Grows, UNCHANGED now, NEW h \in Handlers,
         act[h].step \in {"stage", "up"}, UpFails(h)
  PROVE  ActsOK'
<1>1. PICK a : a = act[h]  OBVIOUS
<1>2. PICK att : att = AttestTerminalError(a.profile, a.req, "up", now)  OBVIOUS
<1>3. About(att, a.profile, a.req, now) /\ att.ready = FALSE  BY <1>2, TerminalErrorIs
<1>4. Ends(h, att)  BY <1>1, <1>2 DEF UpFails
<1> QED BY <1>1, <1>3, <1>4, AttestsItself

\* The rest of the invariant, in a step on the host.
LEMMA HostStep ==
  ASSUME MInv, Grows, ActsOK', HostOK', UNCHANGED <<setup, graph, emitted, now, issued, history>>
  PROVE  MInv'
<1>1. GraphsOK' /\ WrittenOK'  BY GraphsStay, WrittenStays DEF MInv, history, emitted
<1>2. SetupOK'  BY DEF MInv, SetupOK, Profiles
<1> QED BY <1>1, <1>2 DEF MInv

\* Nothing is staged that was not granted, and no secret that is not exported.
LEMMA StagedMore ==
  ASSUME MInv, Grows, NEW h \in Handlers, act[h].step = "stage",
         act[h].req.secrets \subseteq setup.env,
         staged' \in {staged, staged \cup {Signature(h)}}, UNCHANGED up
  PROVE  HostOK'
<1>1. PICK a : a = act[h]  OBVIOUS
<1>2. RecOK(a)  BY <1>1 DEF MInv, ActsOK
<1>3. Granted(a.profile, a.req) /\ a.profile \in Range(setup.catalog)
  BY <1>1, <1>2 DEF RecOK, Granted, Serves
<1>4. Signature(h) = <<a.profile.id, a.req>>  BY <1>1 DEF Signature
<1>5. HostOK  BY DEF MInv
<1>6. ASSUME NEW s \in staged'
      PROVE  \E p \in Range(setup.catalog) :
               s[1] = p.id /\ Granted(p, s[2]) /\ s[2].secrets \subseteq setup.env
  <2>1. CASE s \in staged  BY <1>5, <2>1 DEF HostOK
  <2>2. CASE s = <<a.profile.id, a.req>>  BY <1>1, <1>3, <2>2
  <2> QED BY <1>4, <2>1, <2>2
<1>7. setup' = setup  BY DEF Grows
<1>8. \A p, n : Granted(p, n) => Granted(p, n)'  BY <1>7 DEF Granted
<1> QED BY <1>5, <1>6, <1>7, <1>8 DEF HostOK

\* The profile is staged in the folder of its signature.
LEMMA StageStep ==
  ASSUME MInv, NEW h \in Handlers, StageProfile(h)
  PROVE  MInv'
<1>1. PICK a : a = act[h]  OBVIOUS
<1>2. RecOK(a) /\ a.step = "stage" /\ act[h].step = "stage"  BY <1>1 DEF MInv, ActsOK, StageProfile
<1>3. UNCHANGED <<setup, graph, emitted, now, issued, history>> /\ staged \subseteq staged'
  BY DEF StageProfile, host
<1>4. Grows  BY <1>3 DEF Grows, MInv, history
<1>5. /\ DOMAIN a = ActFields /\ a.entity # None /\ a.entity \in Entities
      /\ a.reply \in {None, "attestation", "artifact", "error"}
      /\ Granted(a.profile, a.req)' /\ SignatureOf(a) = Signature(h)
  <2>1. Granted(a.profile, a.req)'  BY <1>2, <1>3 DEF RecOK, Granted
  <2> QED BY <1>1, <1>2, <2>1 DEF RecOK, SignatureOf, Signature
<1>6. CASE UNCHANGED host /\ UpFails(h)
  <2>1. ActsOK'  BY <1>2, <1>3, <1>4, <1>6, UpFailsStep
  <2>2. HostOK'  BY <1>4, <1>6, HostStays DEF host, MInv, HostOK
  <2> QED BY <1>3, <1>4, <2>1, <2>2, HostStep
<1>7. CASE setup.runner = "mock" /\ act' = [act EXCEPT ![h].step = "probe"] /\ UNCHANGED host
  <2>1. PICK new : new = WithStep(a, "probe")  OBVIOUS
  <2>2. MovesTo(h, new)  BY <1>1, <1>7, <2>1, StepMoves DEF MInv
  <2>3. /\ DOMAIN new = ActFields /\ new.step = "probe" /\ new.entity = a.entity
        /\ new.reply = a.reply /\ new.profile = a.profile /\ new.req = a.req
    BY <1>5, <2>1, WithStepIs
  <2>4. setup'.runner = "mock"  BY <1>3, <1>7
  <2>5. RecOK(new)'  BY <1>5, <2>3, <2>4 DEF RecOK, Steps
  <2>6. ActsOK'  BY <1>4, <2>2, <2>5, HandlerStep DEF MInv
  <2>7. HostOK'  BY <1>4, <1>7, HostStays DEF host, MInv, HostOK
  <2> QED BY <1>3, <1>4, <2>6, <2>7, HostStep
<1>8. CASE /\ act[h].req.secrets \subseteq setup.env /\ UNCHANGED up
           /\ staged' = staged \cup {Signature(h)} /\ act' = [act EXCEPT ![h].step = "up"]
  <2>1. PICK new : new = WithStep(a, "up")  OBVIOUS
  <2>2. MovesTo(h, new)  BY <1>1, <1>8, <2>1, StepMoves DEF MInv
  <2>3. /\ DOMAIN new = ActFields /\ new.step = "up" /\ new.entity = a.entity
        /\ new.reply = a.reply /\ new.profile = a.profile /\ new.req = a.req
        /\ SignatureOf(new) = SignatureOf(a)
    BY <1>5, <2>1, WithStepIs
  <2>4. SignatureOf(new) \in staged'  BY <1>5, <1>8, <2>3
  <2>5. RecOK(new)'  BY <1>5, <2>3, <2>4 DEF RecOK, Steps
  <2>6. ActsOK'  BY <1>4, <2>2, <2>5, HandlerStep DEF MInv
  <2>7. HostOK'  BY <1>2, <1>4, <1>8, StagedMore
  <2> QED BY <1>3, <1>4, <2>6, <2>7, HostStep
<1>9. CASE /\ act[h].req.secrets \subseteq setup.env /\ UNCHANGED up
           /\ staged' \in {staged, staged \cup {Signature(h)}} /\ UpFails(h)
  <2>1. ActsOK'  BY <1>2, <1>3, <1>4, <1>9, UpFailsStep
  <2>2. HostOK'  BY <1>2, <1>4, <1>9, StagedMore
  <2> QED BY <1>3, <1>4, <2>1, <2>2, HostStep
<1> QED BY <1>6, <1>7, <1>8, <1>9 DEF StageProfile

\* The devcontainer comes up, or fails.
LEMMA UpStep ==
  ASSUME MInv, NEW h \in Handlers, DevcontainerUp(h)
  PROVE  MInv'
<1>1. PICK a : a = act[h]  OBVIOUS
<1>2. RecOK(a) /\ a.step = "up" /\ act[h].step = "up"  BY <1>1 DEF MInv, ActsOK, DevcontainerUp
<1>3. UNCHANGED <<setup, graph, staged, emitted, now, issued, history>>  BY DEF DevcontainerUp
<1>4. Grows  BY <1>3 DEF Grows, MInv, history
<1>5. /\ DOMAIN a = ActFields /\ a.entity # None /\ a.entity \in Entities
      /\ a.reply \in {None, "attestation", "artifact", "error"}
      /\ Granted(a.profile, a.req)' /\ SignatureOf(a) = Signature(h) /\ Signature(h) \in staged
  <2>1. Granted(a.profile, a.req)'  BY <1>2, <1>3 DEF RecOK, Granted
  <2> QED BY <1>1, <1>2, <2>1 DEF RecOK, SignatureOf, Signature
<1>6. HostOK'
  <2>1. up' \subseteq staged  BY <1>5 DEF MInv, HostOK, DevcontainerUp
  <2> QED BY <1>3, <1>4, <2>1, HostStays DEF MInv
<1>7. CASE UpFails(h)
  <2>1. ActsOK'  BY <1>2, <1>3, <1>4, <1>7, UpFailsStep
  <2> QED BY <1>3, <1>4, <1>6, <2>1, HostStep
<1>8. CASE act' = [act EXCEPT ![h].step = "probe"]
  <2>1. PICK new : new = WithStep(a, "probe")  OBVIOUS
  <2>2. MovesTo(h, new)  BY <1>1, <1>8, <2>1, StepMoves DEF MInv
  <2>3. /\ DOMAIN new = ActFields /\ new.step = "probe" /\ new.entity = a.entity
        /\ new.reply = a.reply /\ new.profile = a.profile /\ new.req = a.req
        /\ SignatureOf(new) = SignatureOf(a)
    BY <1>5, <2>1, WithStepIs
  <2>4. SignatureOf(new) \in staged'  BY <1>3, <1>5, <2>3
  <2>5. RecOK(new)'  BY <1>5, <2>3, <2>4 DEF RecOK, Steps
  <2>6. ActsOK'  BY <1>4, <2>2, <2>5, HandlerStep DEF MInv
  <2> QED BY <1>3, <1>4, <1>6, <2>6, HostStep
<1> QED BY <1>7, <1>8 DEF DevcontainerUp

WithResults(a, results) == [a EXCEPT !.results = results]

\* A handler keeps what it knows while it probes.
LEMMA WithResultsIs ==
  ASSUME NEW a, RecOK(a), a.step = "probe", NEW results, UNCHANGED <<setup, staged, proven, now>>
  PROVE  RecOK(WithResults(a, results))'
<1>1. PICK new : new = WithResults(a, results)  OBVIOUS
<1>2. /\ DOMAIN new = ActFields /\ new.step = "probe" /\ new.entity = a.entity
      /\ new.reply = a.reply /\ new.profile = a.profile /\ new.req = a.req
      /\ SignatureOf(new) = SignatureOf(a)
  BY <1>1 DEF RecOK, WithResults, ActFields, SignatureOf
<1>3. Granted(a.profile, a.req)'  BY DEF RecOK, Granted
<1>4. RecOK(new)'  BY <1>2, <1>3 DEF RecOK, Steps
<1> QED BY <1>1, <1>4

\* One probe more, and at the end the attestation.
LEMMA ProbeStep ==
  ASSUME MInv, NEW h \in Handlers, Probe(h)
  PROVE  MInv'
<1>1. PICK a : a = act[h]  OBVIOUS
<1>2. RecOK(a) /\ a.step = "probe"  BY <1>1 DEF MInv, ActsOK, Probe
<1>3. UNCHANGED <<setup, graph, host, emitted, now, issued, history>>  BY DEF Probe
<1>4. PICK results : act' = [act EXCEPT ![h].results = results]  BY DEF Probe
<1>5. PICK new : new = WithResults(a, results)  OBVIOUS
<1>6. MovesTo(h, new)  BY <1>1, <1>4, <1>5 DEF MovesTo, WithResults, MInv, ActsOK
<1>7. RecOK(new)'  BY <1>2, <1>3, <1>5, WithResultsIs DEF host, history
<1>8. issued' \in 0..MaxRequests  BY <1>3 DEF MInv
<1> QED BY <1>3, <1>6, <1>7, <1>8, OnlyHandlerMoves

\* Ready is claimed at the moment at which every probe has passed.
LEMMA AttestStep ==
  ASSUME MInv, NEW h \in Handlers, AttestProbes(h)
  PROVE  MInv'
<1>1. PICK a : a = act[h]  OBVIOUS
<1>2. RecOK(a) /\ a.step = "probe" /\ act[h].step = "probe"  BY <1>1 DEF MInv, ActsOK, AttestProbes
<1>3. UNCHANGED <<setup, graph, host, emitted, now, issued, applied>> /\ proven \subseteq proven'
  BY DEF AttestProbes
<1>4. Grows  BY <1>3 DEF Grows, MInv, host
<1>5. PICK att : att = Attest(a.profile, a.req, SignatureOf(a), a.results, now)  OBVIOUS
<1>6. Signature(h) = SignatureOf(a)  BY <1>1 DEF Signature, SignatureOf
<1>7. Ends(h, att)  BY <1>1, <1>5, <1>6 DEF AttestProbes
<1>8. /\ About(att, a.profile, a.req, now) /\ att.folder = SignatureOf(a)
      /\ att.ready => \A q \in a.req.probes : a.results[q].exit = q.expect
  BY <1>5, AttestIs
<1>9. att.signature = SignatureOf(a)  BY <1>8 DEF About, SignatureOf
<1>10. ASSUME att.ready PROVE Proven(att.signature)'
  <2>1. proven' = proven \cup {<<SignatureOf(a), now>>}
    BY <1>1, <1>6, <1>8, <1>10 DEF AttestProbes
  <2>2. setup'.runner # "mock" => SignatureOf(a) \in staged'
    BY <1>2, <1>3 DEF RecOK, host
  <2>3. now' \in 1..now' /\ now' = now  BY <1>3, SandboxConstantsOK DEF MInv
  <2> QED BY <1>9, <2>1, <2>2, <2>3 DEF Proven
<1>11. ActsOK'  BY <1>1, <1>2, <1>3, <1>4, <1>7, <1>8, <1>9, <1>10, AttestsItself
<1>12. HostOK'  BY <1>3, <1>4, HostStays DEF host, MInv, HostOK
<1>13. GraphsOK' /\ WrittenOK'
  BY <1>3, <1>4, GraphsStay, WrittenStays DEF MInv, emitted
<1>14. SetupOK'  BY <1>3 DEF MInv, SetupOK, Profiles
<1> QED BY <1>3, <1>11, <1>12, <1>13, <1>14 DEF MInv

\* One batch: the entity says what the attestation says, ready with its folder.
LEMMA StampStep ==
  ASSUME MInv, NEW h \in Handlers, Stamp(h)
  PROVE  MInv'
<1>1. PICK a : a = act[h]  OBVIOUS
<1>2. RecOK(a) /\ a.step = "stamp"  BY <1>1 DEF MInv, ActsOK, Stamp
<1>3. UNCHANGED <<setup, host, emitted, now, issued, proven>>  BY DEF Stamp
<1>4. Grows  BY <1>3 DEF Grows, MInv, host
<1>5. DOMAIN a = ActFields /\ a.entity \in Entities \ {None} /\ AttOK(a.att)
  BY <1>2 DEF RecOK
<1>6. PICK reply \in {"attestation", "error"} :
        act' = [act EXCEPT ![h].step = "done", ![h].reply = reply]
  BY DEF Stamp
<1>7. PICK new : new = WithReply(a, reply)  OBVIOUS
<1>8. MovesTo(h, new)  BY <1>1, <1>6, <1>7 DEF MovesTo, WithReply, MInv, ActsOK
<1>9. RecOK(new)'  BY <1>5, <1>7, WithReplyIs
<1>10. ActsOK'  BY <1>4, <1>8, <1>9, HandlerStep DEF MInv
<1>11. HostOK' /\ WrittenOK' /\ SetupOK'
  <2>1. HostOK'  BY <1>3, <1>4, HostStays DEF host, MInv, HostOK
  <2>2. WrittenOK'  BY <1>3, <1>4, WrittenStays DEF MInv, emitted
  <2> QED BY <1>3, <2>1, <2>2 DEF MInv, SetupOK, Profiles
<1>12. GraphsOK'
  <2>1. CASE UNCHANGED <<graph, applied>>  BY <1>4, <2>1, GraphsStay DEF MInv
  <2>2. CASE /\ graph' = [graph EXCEPT ![a.entity] = Triples(@, a.att)]
             /\ applied' = [applied EXCEPT ![a.entity] = @ \cup {a.att}]
    <3>1. GraphsOK /\ AttOK(a.att)'  BY <1>4, <1>5, AttStays DEF MInv
    <3>2. DOMAIN graph' = Entities \ {None} /\ DOMAIN applied' = Entities \ {None}
      BY <2>2, <3>1 DEF GraphsOK
    <3>3. ASSUME NEW e \in Entities \ {None}, NEW b \in applied'[e] PROVE AttOK(b)'
      <4>1. b = a.att \/ b \in applied[e]  BY <2>2, <3>1, <3>3 DEF GraphsOK
      <4>2. b \in applied[e] => AttOK(b)  BY <3>1 DEF GraphsOK
      <4> QED BY <1>4, <3>1, <4>1, <4>2, AttStays
    <3>4. ASSUME NEW e \in Entities \ {None} PROVE GraphOK(e)'
      <4>1. CASE e = a.entity
        <5>1. PICK g : g = Triples(graph[e], a.att)  OBVIOUS
        <5>2. graph'[e] = g /\ a.att \in applied'[e]  BY <2>2, <3>1, <4>1, <5>1 DEF GraphsOK
        <5>3. /\ DOMAIN g = AttFields /\ Verdict(g) = Verdict(a.att)
              /\ g.signature = a.att.signature /\ g.ready = a.att.ready
              /\ a.att.folder # None => g.folder = a.att.folder
              /\ g.ttl = WholeSeconds(a.att.ttl)
          BY <1>5, <5>1, TriplesIs DEF AttOK
        <5>4. g.signature # None /\ (g.ready => g.folder = a.att.signature /\ Proven(a.att.signature)')
          BY <3>1, <5>3 DEF AttOK
        <5>5. g.ready => Proven(g.folder)'  BY <5>4
        <5>6. graph'[e].ready => Proven(graph[e].folder)'  BY <5>2, <5>5 DEF Proven
        <5> QED BY <5>2, <5>3, <5>4, <5>6 DEF GraphOK
      <4>2. CASE e # a.entity
        <5>1. graph'[e] = graph[e] /\ applied'[e] = applied[e]  BY <2>2, <3>1, <4>2 DEF GraphsOK
        <5>2. GraphOK(e)  BY <3>1 DEF GraphsOK
        <5>3. CASE graph[e] = Unstamped  BY <5>1, <5>3 DEF GraphOK
        <5>4. CASE graph[e] # Unstamped
          <6>1. PICK g : g = graph[e]  OBVIOUS
          <6>2. g.ready => Proven(g.folder)'  BY <1>4, <5>2, <5>4, <6>1, ProvenStays DEF GraphOK
          <6>3. graph'[e].ready => Proven(graph[e].folder)'  BY <5>1, <6>1, <6>2 DEF Proven
          <6> QED BY <5>1, <5>2, <5>4, <6>3 DEF GraphOK
        <5> QED BY <5>3, <5>4
      <4> QED BY <4>1, <4>2
    <3> QED BY <3>2, <3>3, <3>4 DEF GraphsOK
  <2> QED BY <1>1, <2>1, <2>2 DEF Stamp
<1> QED BY <1>3, <1>10, <1>11, <1>12 DEF MInv

-----------------------------------------------------------------------------
\* Commands and artifacts are routed only into proven workspaces.
LEMMA ReadyFolderIs ==
  ASSUME MInv, NEW e \in Entities, NEW f, f = ReadyFolder(e), f # None
  PROVE  Proven(f)
<1>1. Stored(e).ready /\ f = Stored(e).folder  BY DEF ReadyFolder
<1>2. e # None  BY <1>1 DEF Stored, Unstamped
<1>3. GraphOK(e) /\ Stored(e) = graph[e]  BY <1>2 DEF MInv, GraphsOK, Stored
<1>4. graph[e] # Unstamped  BY <1>1, <1>3 DEF Unstamped
<1> QED BY <1>1, <1>3, <1>4 DEF GraphOK

\* emit_autoresearch_artifact looks for the folder of its caller.
LEMMA EmitStep ==
  ASSUME MInv, NEW h \in Handlers, NEW c \in Callers, NEW found \in BOOLEAN,
         EmitArtifact(h, c, found)
  PROVE  MInv'
<1>1. PICK emit : emit = [caller |-> c, found |-> found,
                          folder |-> IF found THEN HostWorkspaceFolder(c) ELSE None,
                          known |-> IF BashEntity(c) = None THEN 0 ELSE batches[BashEntity(c)]]
  OBVIOUS
<1>2. PICK new : new = [Idle EXCEPT !.step = "write", !.entity = LoopOf(c.loop), !.emit = emit]
  OBVIOUS
<1>3. act' = [act EXCEPT ![h] = new]  BY <1>1, <1>2, Zenon DEF EmitArtifact
<1>4. MovesTo(h, new)  BY <1>3 DEF MovesTo, MInv, ActsOK
<1>5. /\ UNCHANGED <<setup, graph, host, emitted, now, history>>
      /\ issued' \in 0..MaxRequests
  BY OneMoreRequest DEF EmitArtifact
<1>6. /\ DOMAIN new = ActFields /\ new.step = "write" /\ new.entity = LoopOf(c.loop)
      /\ new.reply = None /\ new.emit = emit
  BY <1>2 DEF Idle, ActFields
<1>7. emit.folder # None => Proven(emit.folder)
  <2>1. PICK f : f = emit.folder  OBVIOUS
  <2> SUFFICES ASSUME f # None PROVE Proven(f)  BY <2>1
  <2>2. f = ReadyFolder(Anchor(c))  BY <1>1, <2>1 DEF HostWorkspaceFolder
  <2>3. Anchor(c) \in Entities  BY DEF Entities
  <2> QED BY <2>2, <2>3, ReadyFolderIs
<1>8. emit.folder # None => Proven(emit.folder)'  BY <1>5, <1>7 DEF Proven, host, history
<1>9. LoopOf(c.loop) # None  BY SandboxConstantsOK
<1>10. RecOK(new)'  BY <1>6, <1>8, <1>9 DEF RecOK, Steps
<1> QED BY <1>4, <1>5, <1>10, OnlyHandlerMoves

\* The artifact is written.
LEMMA WriteStep ==
  ASSUME MInv, NEW h \in Handlers, WriteFile(h)
  PROVE  MInv'
<1>1. PICK a : a = act[h]  OBVIOUS
<1>2. RecOK(a) /\ a.step = "write"  BY <1>1 DEF MInv, ActsOK, WriteFile
<1>3. UNCHANGED <<setup, graph, host, artifacts, now, issued, history>>  BY DEF WriteFile
<1>4. Grows  BY <1>3 DEF Grows, MInv, host, history
<1>5. ActsOK'
  <2>1. CASE act' = [act EXCEPT ![h].step = "path"]
    <3>1. PICK new : new = WithStep(a, "path")  OBVIOUS
    <3>2. MovesTo(h, new)  BY <1>1, <2>1, <3>1, StepMoves DEF MInv
    <3>3. /\ DOMAIN new = ActFields /\ new.step = "path" /\ new.entity = a.entity
          /\ new.reply = a.reply /\ new.emit = a.emit
      BY <1>2, <3>1, WithStepIs DEF RecOK
    <3>4. a.emit.folder # None => Proven(a.emit.folder)'  BY <1>2, <1>4, ProvenStays DEF RecOK
    <3>5. RecOK(new)'  BY <1>2, <3>3, <3>4 DEF RecOK, Steps
    <3> QED BY <1>4, <3>2, <3>5, HandlerStep DEF MInv
  <2>2. CASE act' = [act EXCEPT ![h] = Ended("error")]
    <3>1. PICK new : new = Ended("error")  OBVIOUS
    <3>2. MovesTo(h, new)  BY <2>2, <3>1 DEF MovesTo, MInv, ActsOK
    <3>3. RecOK(new)'  BY <3>1, EndedIs
    <3> QED BY <1>4, <3>2, <3>3, HandlerStep DEF MInv
  <2> QED BY <2>1, <2>2 DEF WriteFile, Ended
<1>6. WrittenOK'
  <2> SUFFICES ASSUME NEW f \in written' PROVE Proven(f)'  BY DEF WrittenOK
  <2>1. f \in written \/ f \in {a.emit.folder} \ {None}
    BY <1>1 DEF WriteFile, renderMarkdown
  <2>2. Proven(f)  BY <1>2, <2>1 DEF RecOK, MInv, WrittenOK
  <2> QED BY <1>4, <2>2, ProvenStays
<1>7. HostOK'  BY <1>3, <1>4, HostStays DEF host, MInv, HostOK
<1>8. GraphsOK'  BY <1>3, <1>4, GraphsStay DEF MInv, history
<1>9. SetupOK'  BY <1>3 DEF MInv, SetupOK, Profiles
<1> QED BY <1>3, <1>5, <1>6, <1>7, <1>8, <1>9 DEF MInv

\* The artifact's path is stamped.
LEMMA PathStep ==
  ASSUME MInv, NEW h \in Handlers, StampPath(h)
  PROVE  MInv'
<1>1. PICK reply \in {"artifact", "error"} : act' = [act EXCEPT ![h] = Ended(reply)]
  BY DEF StampPath, Ended
<1>2. PICK new : new = Ended(reply)  OBVIOUS
<1>3. MovesTo(h, new)  BY <1>1, <1>2 DEF MovesTo, MInv, ActsOK
<1>4. RecOK(new)'  BY <1>2, EndedIs
<1>5. UNCHANGED <<setup, graph, host, written, now, issued, history>>  BY DEF StampPath
<1>6. Grows  BY <1>5 DEF Grows, MInv, host, history
<1>7. ActsOK'  BY <1>3, <1>4, <1>6, HandlerStep DEF MInv
<1>8. HostOK'  BY <1>5, <1>6, HostStays DEF host, MInv, HostOK
<1>9. GraphsOK' /\ WrittenOK'  BY <1>5, <1>6, GraphsStay, WrittenStays DEF MInv, history
<1>10. SetupOK'  BY <1>5 DEF MInv, SetupOK, Profiles
<1> QED BY <1>5, <1>7, <1>8, <1>9, <1>10 DEF MInv

\* Steps of nobody's handler: containers stop, the clock advances, nothing happens.
LEMMA OtherStep ==
  ASSUME MInv, ContainerStops \/ Tick \/ UNCHANGED vars
  PROVE  MInv'
<1>1. /\ UNCHANGED <<setup, graph, staged, emitted, act, issued, history>> /\ up' \subseteq up
      /\ now' \in 1..MaxTime /\ now <= now'
  BY SandboxConstantsOK DEF ContainerStops, Tick, vars, host, MInv
<1>2. Grows  BY <1>1 DEF Grows, MInv, history
<1>3. ActsOK'
  <2>1. ASSUME NEW g \in Handlers PROVE RecOK(act[g])'
    <3>1. PICK a : a = act[g]  OBVIOUS
    <3>2. RecOK(a)'  BY <1>2, <3>1, RecStays DEF MInv, ActsOK
    <3>3. a = act'[g]  BY <1>1, <3>1
    <3> QED BY <3>2, <3>3 DEF RecOK
  <2> QED BY <1>1, <2>1 DEF MInv, ActsOK
<1>4. HostOK'
  <2>1. up' \subseteq staged  BY <1>1 DEF MInv, HostOK
  <2> QED BY <1>1, <1>2, <2>1, HostStays DEF MInv
<1>5. GraphsOK' /\ WrittenOK'
  BY <1>1, <1>2, GraphsStay, WrittenStays DEF MInv, history, emitted
<1>6. SetupOK'  BY <1>1 DEF MInv, SetupOK, Profiles
<1> QED BY <1>1, <1>3, <1>4, <1>5, <1>6 DEF MInv

-----------------------------------------------------------------------------
\* A manager that has served nothing.
LEMMA MInvInit ==
  ASSUME Init
  PROVE  MInv
<1>1. PICK b \in Boots : NewCatalogAccepts(b.catalog) /\ setup = [b EXCEPT !.runner = selectSandboxRunner(b)]
  BY DEF Init
<1>2. setup.catalog = b.catalog  BY <1>1, SandboxConstantsOK
<1>3. SetupOK
  <2>1. CatalogOK(setup.catalog)
    BY <1>1, <1>2, SandboxConstantsOK DEF CatalogOK, NewCatalogAccepts
  <2>2. ASSUME NEW p \in Profiles, NEW n \in Meanings PROVE <<p.id, n>> # None
    <3>1. PICK r \in Raw \ {None} : n = Normalize(r)  BY DEF Meanings
    <3>2. SignatureFor(p, r) # None  BY <1>2, SandboxConstantsOK DEF Profiles
    <3> QED BY <3>1, <3>2 DEF SignatureFor, Hash
  <2> QED BY <2>1, <2>2 DEF SetupOK
<1>4. ActsOK
  <2>1. RecOK(Idle)  BY DEF RecOK, Idle, ActFields, Steps
  <2> QED BY <2>1 DEF Init, ActsOK
<1>5. HostOK /\ WrittenOK  BY DEF Init, HostOK, WrittenOK
<1>6. GraphsOK  BY DEF Init, GraphsOK, GraphOK
<1>7. now \in 1..MaxTime /\ issued \in 0..MaxRequests  BY SandboxConstantsOK DEF Init
<1> QED BY <1>3, <1>4, <1>5, <1>6, <1>7 DEF MInv

\* Every step keeps the invariant.
LEMMA MInvNext ==
  ASSUME MInv, [Next]_vars
  PROVE  MInv'
<1>1. CASE \E h \in Handlers, c \in Callers, r \in Raw : Request(h, c, r) \/ RequestRefused(h, c, r)
  BY <1>1, RequestStep, RefusedStep
<1>2. CASE \E h \in Handlers, c \in Callers, found \in BOOLEAN : EmitArtifact(h, c, found)
  BY <1>2, EmitStep
<1>3. CASE \E h \in Handlers : Advance(h)
  BY <1>3, StageStep, UpStep, ProbeStep, AttestStep, StampStep, WriteStep, PathStep DEF Advance
<1>4. CASE ContainerStops \/ Tick \/ UNCHANGED vars  BY <1>4, OtherStep
<1> QED BY <1>1, <1>2, <1>3, <1>4 DEF Next

\* The inductive invariant of the manager holds of every behaviour.
THEOREM MInvAlways == Spec => []MInv
<1>1. Init => MInv  BY MInvInit
<1>2. MInv /\ [Next]_vars => MInv'  BY MInvNext
<1> QED BY <1>1, <1>2, PTL DEF Spec

\* The invariant implies the types.
LEMMA TypeHolds ==
  ASSUME MInv
  PROVE  TypeOK
<1>1. ASSUME NEW h \in Handlers
      PROVE  /\ act[h].step \in Steps /\ act[h].reply \in {None, "attestation", "artifact", "error"}
             /\ Busy(h) => act[h].entity # None
             /\ (act[h].step = "stamp") => act[h].att.signature = Signature(h)
  <2>1. PICK a : a = act[h]  OBVIOUS
  <2>2. RecOK(a)  BY <2>1 DEF MInv, ActsOK
  <2> QED BY <2>1, <2>2 DEF RecOK, Busy, Signature, SignatureOf
<1>2. \A e \in DOMAIN graph : graph[e] = Unstamped \/ graph[e].signature # None
  BY DEF MInv, GraphsOK, GraphOK
<1> QED BY <1>1, <1>2 DEF TypeOK, MInv

\* Nothing reaches the host beyond what profile and operator allow.
THEOREM HostWithinPolicyAlways == Spec => []HostWithinPolicy
<1>1. ASSUME MInv PROVE HostWithinPolicy
  <2>1. ASSUME NEW s \in staged \cup up
        PROVE  /\ s[2].privileges = {} /\ s[2].network \in ProfileOf(s).networks
               /\ s[2].network = "public" => setup.policy.public
               /\ s[2].secrets \subseteq (setup.policy.secrets \cap setup.env)
    <3>1. PICK p \in Range(setup.catalog) :
            s[1] = p.id /\ Granted(p, s[2]) /\ s[2].secrets \subseteq setup.env
      BY <1>1 DEF MInv, HostOK
    <3>2. ProfileOf(s) = p  BY <1>1, <3>1, ProfileOfIs DEF MInv, SetupOK
    <3> QED BY <3>1, <3>2 DEF Granted, Allowed
  <2>2. TypeOK  BY <1>1, TypeHolds
  <2> QED BY <2>1, <2>2 DEF HostWithinPolicy
<1> QED BY <1>1, MInvAlways, PTL

\* A container offers what was asked for, and nothing tighter would have.
THEOREM TightestProfileAlways == Spec => []TightestProfile
<1>1. ASSUME MInv PROVE TightestProfile
  <2>1. ASSUME NEW s \in staged
        PROVE  /\ s[2].caps \subseteq ProfileOf(s).adv
               /\ \A p \in Range(setup.catalog) : s[2].caps \subseteq p.adv
                    => Cardinality(ProfileOf(s).adv) <= Cardinality(p.adv)
    <3>1. PICK p \in Range(setup.catalog) : s[1] = p.id /\ Granted(p, s[2])
      BY <1>1 DEF MInv, HostOK
    <3>2. ProfileOf(s) = p  BY <1>1, <3>1, ProfileOfIs DEF MInv, SetupOK
    <3> QED BY <3>1, <3>2 DEF Granted, Serves
  <2> QED BY <2>1 DEF TightestProfile
<1> QED BY <1>1, MInvAlways, PTL

\* Commands and artifacts go only into workspaces in which every probe passed.
THEOREM RoutedIntoProvenAlways == Spec => []RoutedIntoProven
<1>1. ASSUME MInv PROVE RoutedIntoProven
  <2> SUFFICES ASSUME setup.runner # "mock",
                      NEW f \in written \cup ({resolveWorkspaceFolder(c) : c \in Callers} \ {None})
               PROVE  f \in staged /\ \E t \in 1..now : <<f, t>> \in proven
    BY DEF RoutedIntoProven
  <2>1. CASE f \in written  BY <1>1, <2>1 DEF MInv, WrittenOK, Proven
  <2>2. CASE f \notin written
    <3>1. PICK c \in Callers : f = ReadyFolder(BashEntity(c)) /\ f # None
      BY <2>2 DEF resolveWorkspaceFolder
    <3>2. BashEntity(c) \in Entities  BY DEF Entities
    <3>3. Proven(f)  BY <1>1, <3>1, <3>2, ReadyFolderIs
    <3> QED BY <3>3 DEF Proven
  <2> QED BY <2>1, <2>2
<1> QED BY <1>1, MInvAlways, PTL

\* The TTL that is read back is no longer than the one that was resolved.
LEMMA WindowIs ==
  ASSUME NEW q, q.ttl \in Nat, q.ttl = 0 \/ q.ttl >= Second,
         NEW g, g.ttl = WholeSeconds(ResolvedTTL(q))
  PROVE  Window(g) <= ResolvedTTL(q) /\ Window(g) \in Nat /\ ResolvedTTL(q) \in Nat
<1>1. PICK d \in Nat \ {0} : d = ResolvedTTL(q)  BY SandboxConstantsOK DEF ResolvedTTL
<1>2. PICK w : w = WholeSeconds(d)  OBVIOUS
<1>3. w \in Nat /\ w <= d /\ (d >= Second => w # 0)
  <2>1. PICK k : k = d \div Second  OBVIOUS
  <2>2. PICK m : m = d % Second  OBVIOUS
  <2>3. k \in Nat /\ m \in Nat /\ m < Second /\ d = Second * k + m
    BY <2>1, <2>2, SandboxConstantsOK
  <2>4. w = k * Second  BY <1>2, <2>1 DEF WholeSeconds
  <2>5. w \in Nat /\ w <= d  BY <2>3, <2>4, SandboxConstantsOK
  <2>6. k = 0 => d < Second  BY <2>3, SandboxConstantsOK
  <2>7. k # 0 => w # 0  BY <2>3, <2>4, SandboxConstantsOK
  <2> QED BY <2>3, <2>5, <2>6, <2>7, SandboxConstantsOK
<1>4. CASE w # 0  BY <1>1, <1>2, <1>3, <1>4 DEF Window
<1>5. CASE w = 0
  <2>1. q.ttl = 0  BY <1>1, <1>3, <1>5 DEF ResolvedTTL
  <2> QED BY <1>1, <1>2, <1>5, <2>1 DEF Window, ResolvedTTL
<1> QED BY <1>4, <1>5

\* What a query finds was stamped for a request with that meaning, and is called
\* fresh only within the TTL, or the default.
THEOREM LookupTrueAlways == Spec => []LookupTrue
<1>1. ASSUME MInv PROVE LookupTrue
  <2> SUFFICES ASSUME NEW e \in DOMAIN graph, NEW r \in Raw \ {None},
                      NEW l, l = Lookup(graph[e], r, setup.catalog, now), l.found
               PROVE  \E a \in applied[e] :
                        /\ Verdict(a) = Verdict(l.attestation)
                        /\ a.signature[2] = Normalize(r)
                        /\ LET q == ProfileOf(a.signature) IN
                           l.fresh /\ (q.ttl = 0 \/ q.ttl >= Second) => now - a.at < ResolvedTTL(q)
    BY DEF LookupTrue
  <2>1. PICK p : p = MatchProfile(r, setup.catalog)  OBVIOUS
  <2>2. PICK g : g = graph[e]  OBVIOUS
  <2>3. /\ p # Unmatched /\ g.signature = <<p.id, Normalize(r)>>
        /\ l.fresh => now < g.at + Window(g)
        /\ l.attestation = [g EXCEPT !.folder = None]
    BY <2>1, <2>2 DEF Lookup, SignatureFor, Hash, IsFresh, attestationFromTriples
  <2>4. SetupOK /\ CatalogOK(setup.catalog) /\ e \in Entities \ {None}
    BY <1>1 DEF MInv, SetupOK, GraphsOK
  <2>5. p \in Range(setup.catalog)  BY <2>1, <2>3, <2>4, MatchIs DEF Serves
  <2>6. g.signature # None  BY <2>3, <2>4, <2>5 DEF SetupOK, Profiles, Meanings
  <2>7. GraphOK(e) /\ \A a \in applied[e] : AttOK(a)  BY <1>1, <2>4 DEF MInv, GraphsOK
  <2>8. g # Unstamped  BY <2>6 DEF Unstamped
  <2>9. DOMAIN g = AttFields  BY <2>2, <2>7, <2>8 DEF GraphOK
  <2>10. PICK a \in applied[e] : Verdict(a) = Verdict(g) /\ g.ttl = WholeSeconds(a.ttl)
    BY <2>2, <2>7, <2>8 DEF GraphOK
  <2>11. Verdict(l.attestation) = Verdict(g)  BY <2>3, <2>9 DEF Verdict, AttFields
  <2>12. a.signature = g.signature /\ a.at = g.at  BY <2>10 DEF Verdict
  <2>13. a.signature[2] = Normalize(r) /\ a.signature[1] = p.id  BY <2>3, <2>12
  <2>14. PICK q : q = ProfileOf(a.signature)  OBVIOUS
  <2>15. ASSUME l.fresh, q.ttl = 0 \/ q.ttl >= Second PROVE now - a.at < ResolvedTTL(q)
    <3>1. AttOK(a) /\ now \in 1..MaxTime  BY <1>1, <2>7 DEF MInv
    <3>2. PICK o \in Profiles : a.signature[1] = o.id /\ a.ttl = ResolvedTTL(o)  BY <3>1 DEF AttOK
    <3>3. a.at \in Nat /\ now \in Nat  BY <3>1, SandboxConstantsOK DEF AttOK
    <3>4. o \in Range(setup.catalog)  BY <2>4, <2>5, <2>13, <3>2 DEF Profiles, CatalogOK
    <3>5. q = o /\ q.ttl \in Nat  BY <2>4, <2>14, <3>2, <3>4, ProfileOfIs DEF CatalogOK
    <3>6. now < a.at + Window(g)  BY <2>3, <2>12, <2>15
    <3>7. Window(g) <= ResolvedTTL(q) /\ Window(g) \in Nat /\ ResolvedTTL(q) \in Nat
      BY <2>10, <2>15, <3>2, <3>5, WindowIs
    <3> QED BY <3>3, <3>6, <3>7
  <2> QED BY <2>10, <2>11, <2>13, <2>14, <2>15
<1> QED BY <1>1, MInvAlways, PTL

-----------------------------------------------------------------------------
\* Emission e goes where bash looks, unless another batch has been applied since.
Agrees(e) ==
  LET b == BashEntity(e.caller) IN
  /\ e.caller \in Callers
  /\ b # None => e.known \in Nat /\ e.known <= batches[b]
  /\ e.found => \/ e.folder = ReadyFolder(b)
                \/ b # None /\ e.known < batches[b]

\* Requests are on their way to a target, emissions to where bash looks.
OnTheWay(a) ==
  /\ a.step \in {"stage", "up", "probe", "stamp"} => a.entity \in Targets
  /\ a.step \in {"write", "path"} => \E e : e = a.emit /\ Agrees(e)

PlacesOK ==
  /\ \A h \in Handlers : \E a : a = act[h] /\ OnTheWay(a)
  /\ \A e \in Entities \ {None} : e \notin Targets => graph[e] = Unstamped
  /\ batches \in [Entities \ {None} -> Nat]
  /\ \A e \in artifacts : Agrees(e)

\* A step that changes an entity only with a batch, and only a target.
Batched ==
  /\ UNCHANGED setup /\ batches' \in [Entities \ {None} -> Nat]
  /\ \A e \in Entities \ {None} :
       \/ graph'[e] = graph[e] /\ batches'[e] = batches[e]
       \/ e \in Targets /\ batches'[e] = batches[e] + 1

\* Steps that write no attestation.
LEMMA NoBatch ==
  ASSUME PlacesOK, UNCHANGED <<setup, graph, batches>>
  PROVE  Batched
BY DEF Batched, PlacesOK

\* An emission that agreed still does.
LEMMA AgreesStays ==
  ASSUME PlacesOK, Batched, NEW e, Agrees(e)
  PROVE  Agrees(e)'
<1>1. PICK b : b = BashEntity(e.caller)  OBVIOUS
<1>2. /\ e.caller \in Callers
      /\ b # None => e.known \in Nat /\ e.known <= batches[b]
      /\ e.found => \/ e.folder = ReadyFolder(b)
                    \/ b # None /\ e.known < batches[b]
  BY <1>1 DEF Agrees
<1>3. b \in Entities  BY <1>1, <1>2 DEF Entities
<1>4. CASE b = None
  <2>1. ReadyFolder(b)' = ReadyFolder(b)
    BY <1>4 DEF ReadyFolder, Stored, attestationAware, Batched
  <2> QED BY <1>1, <1>2, <1>4, <2>1 DEF Agrees
<1>5. CASE b # None /\ graph'[b] = graph[b] /\ batches'[b] = batches[b]
  <2>1. ReadyFolder(b)' = ReadyFolder(b)
    BY <1>5 DEF ReadyFolder, Stored, attestationAware, Batched
  <2> QED BY <1>1, <1>2, <1>5, <2>1 DEF Agrees
<1>6. CASE b # None /\ batches'[b] = batches[b] + 1
  <2>1. batches[b] \in Nat  BY <1>3, <1>6 DEF PlacesOK
  <2>2. e.known \in Nat /\ e.known < batches'[b]  BY <1>2, <1>6, <2>1
  <2>3. e.known <= batches'[b]  BY <1>2, <1>6, <2>1
  <2> QED BY <1>1, <1>2, <1>6, <2>2, <2>3 DEF Agrees
<1> QED BY <1>3, <1>4, <1>5, <1>6 DEF Batched

\* What a handler's next record takes over from the one before.
Follows(a, new) ==
  \/ new.step \in {"idle", "done"}
  \/ /\ new.step \in {"stage", "up", "probe", "stamp"} /\ new.entity = a.entity
     /\ a.step \in {"stage", "up", "probe", "stamp"}
  \/ new.step = "path" /\ a.step = "write" /\ new.emit = a.emit

\* A handler that goes on stays on its way.
LEMMA FollowsIs ==
  ASSUME PlacesOK, Batched, NEW a, OnTheWay(a), NEW new, Follows(a, new)
  PROVE  OnTheWay(new)'
<1>1. CASE new.step \in {"idle", "done"}  BY <1>1 DEF OnTheWay
<1>2. CASE /\ new.step \in {"stage", "up", "probe", "stamp"} /\ new.entity = a.entity
           /\ a.step \in {"stage", "up", "probe", "stamp"}
  BY <1>2 DEF OnTheWay
<1>3. CASE new.step = "path" /\ a.step = "write" /\ new.emit = a.emit
  <2>1. PICK e : e = a.emit /\ Agrees(e)  BY <1>3 DEF OnTheWay
  <2>2. Agrees(e)'  BY <2>1, AgreesStays
  <2> QED BY <1>3, <2>1, <2>2 DEF OnTheWay
<1> QED BY <1>1, <1>2, <1>3 DEF Follows

\* One handler moves to a record that is on its way.
LEMMA PlacesMove ==
  ASSUME PlacesOK, Batched, NEW h \in Handlers, NEW new, MovesTo(h, new), OnTheWay(new)',
         \A e \in artifacts' : e \in artifacts \/ Agrees(e)
  PROVE  PlacesOK'
<1>1. ASSUME NEW g \in Handlers PROVE \E b : b = act'[g] /\ OnTheWay(b)'
  <2>1. CASE g = h  BY <2>1 DEF MovesTo
  <2>2. CASE g # h
    <3>1. PICK b : b = act[g] /\ OnTheWay(b)  BY DEF PlacesOK
    <3>2. b = act'[g]  BY <2>2, <3>1 DEF MovesTo
    <3>3. OnTheWay(b)'
      <4>1. CASE b.step \in {"write", "path"}
        <5>1. PICK e : e = b.emit /\ Agrees(e)  BY <3>1, <4>1 DEF OnTheWay
        <5>2. Agrees(e)'  BY <5>1, AgreesStays
        <5> QED BY <4>1, <5>1, <5>2 DEF OnTheWay
      <4>2. CASE b.step \notin {"write", "path"}  BY <3>1, <4>2 DEF OnTheWay
      <4> QED BY <4>1, <4>2
    <3> QED BY <3>2, <3>3
  <2> QED BY <2>1, <2>2
<1>2. \A e \in artifacts' : Agrees(e)'  BY AgreesStays DEF PlacesOK
<1>3. \A e \in Entities \ {None} : e \notin Targets => graph'[e] = Unstamped
  BY DEF PlacesOK, Batched
<1>4. batches' \in [Entities \ {None} -> Nat]  BY DEF Batched
<1> QED BY <1>1, <1>2, <1>3, <1>4 DEF PlacesOK

\* The record that a step on the way to an attestation leaves.
LEMMA AdvanceMoves ==
  ASSUME MInv, NEW h \in Handlers, StageProfile(h) \/ DevcontainerUp(h) \/ AttestProbes(h)
  PROVE  \E new : MovesTo(h, new) /\ Follows(act[h], new)
<1>1. PICK a : a = act[h]  OBVIOUS
<1>2. DOMAIN a = ActFields  BY <1>1 DEF MInv, ActsOK, RecOK
<1>3. a.step \in {"stage", "up", "probe"}
  BY <1>1 DEF StageProfile, DevcontainerUp, AttestProbes
<1>4. ASSUME NEW step \in {"up", "probe"}, act' = [act EXCEPT ![h].step = step]
      PROVE  \E new : MovesTo(h, new) /\ Follows(act[h], new)
  <2>1. PICK new : new = WithStep(a, step)  OBVIOUS
  <2>2. MovesTo(h, new)  BY <1>1, <1>4, <2>1, StepMoves DEF MInv
  <2>3. new.step = step /\ new.entity = a.entity  BY <1>2, <2>1, WithStepIs
  <2>4. Follows(a, new)  BY <1>3, <1>4, <2>3 DEF Follows
  <2> QED BY <1>1, <2>2, <2>4
<1>5. ASSUME NEW att, Ends(h, att) PROVE \E new : MovesTo(h, new) /\ Follows(act[h], new)
  <2>1. PICK new : new = WithAtt(a, att)  OBVIOUS
  <2>2. MovesTo(h, new)  BY <1>1, <1>5, <2>1, EndsMoves DEF MInv
  <2>3. new.step = "stamp" /\ new.entity = a.entity  BY <1>2, <2>1 DEF WithAtt, ActFields
  <2>4. Follows(a, new)  BY <1>3, <2>3 DEF Follows
  <2> QED BY <1>1, <2>2, <2>4
<1>6. CASE UpFails(h)  BY <1>5, <1>6 DEF UpFails
<1>7. CASE StageProfile(h)  BY <1>4, <1>6, <1>7 DEF StageProfile
<1>8. CASE DevcontainerUp(h)  BY <1>4, <1>6, <1>8 DEF DevcontainerUp
<1>9. CASE AttestProbes(h)  BY <1>5, <1>9 DEF AttestProbes
<1> QED BY <1>7, <1>8, <1>9

\* A handler that moves on, or ends, and writes no triple.
LEMMA OnlyPlaceMoves ==
  ASSUME PlacesOK, NEW h \in Handlers, NEW a, a = act[h], NEW new, MovesTo(h, new),
         Follows(a, new), UNCHANGED <<setup, graph, batches, artifacts>>
  PROVE  PlacesOK'
<1>1. Batched  BY NoBatch
<1>2. OnTheWay(a)  BY DEF PlacesOK
<1>3. OnTheWay(new)'  BY <1>1, <1>2, FollowsIs
<1> QED BY <1>1, <1>3, PlacesMove

\* The steps of a request between its first and its stamp.
LEMMA AdvancePlaces ==
  ASSUME MInv, PlacesOK, NEW h \in Handlers,
         StageProfile(h) \/ DevcontainerUp(h) \/ AttestProbes(h) \/ Probe(h)
  PROVE  PlacesOK'
<1>1. UNCHANGED <<setup, graph, batches, artifacts>>
  BY DEF StageProfile, DevcontainerUp, AttestProbes, Probe, history, emitted
<1>2. PICK a : a = act[h]  OBVIOUS
<1>3. \E new : MovesTo(h, new) /\ Follows(a, new)
  <2>1. CASE StageProfile(h) \/ DevcontainerUp(h) \/ AttestProbes(h)
    BY <1>2, <2>1, AdvanceMoves
  <2>2. CASE Probe(h)
    <3>1. DOMAIN a = ActFields /\ a.step = "probe"  BY <1>2, <2>2 DEF MInv, ActsOK, RecOK, Probe
    <3>2. PICK results : act' = [act EXCEPT ![h].results = results]  BY <2>2 DEF Probe
    <3>3. PICK new : new = WithResults(a, results)  OBVIOUS
    <3>4. MovesTo(h, new)  BY <1>2, <3>2, <3>3 DEF MovesTo, WithResults, MInv, ActsOK
    <3>5. new.step = "probe" /\ new.entity = a.entity  BY <3>1, <3>3 DEF WithResults, ActFields
    <3>6. Follows(a, new)  BY <3>1, <3>5 DEF Follows
    <3> QED BY <3>4, <3>6
  <2> QED BY <2>1, <2>2
<1>4. PICK new : MovesTo(h, new) /\ Follows(a, new)  BY <1>3
<1> QED BY <1>1, <1>2, <1>4, OnlyPlaceMoves

\* A request that is refused ends.
LEMMA RefusedPlaces ==
  ASSUME MInv, PlacesOK, NEW h \in Handlers, NEW c \in Callers, NEW r \in Raw,
         RequestRefused(h, c, r)
  PROVE  PlacesOK'
<1>1. PICK new : new = Ended("error")  OBVIOUS
<1>2. MovesTo(h, new)  BY <1>1 DEF RequestRefused, MovesTo, Ended, MInv, ActsOK
<1>3. new.step = "done"  BY <1>1 DEF Ended, Idle
<1>4. PICK a : a = act[h]  OBVIOUS
<1>5. Follows(a, new)  BY <1>3 DEF Follows
<1>6. UNCHANGED <<setup, graph, batches, artifacts>>  BY DEF RequestRefused, history, emitted
<1> QED BY <1>2, <1>4, <1>5, <1>6, OnlyPlaceMoves

\* A request is on its way to its caller's target.
LEMMA RequestPlaces ==
  ASSUME MInv, PlacesOK, NEW h \in Handlers, NEW c \in Callers, NEW r \in Raw, Request(h, c, r)
  PROVE  PlacesOK'
<1>1. PICK n : n = Normalize(r)  OBVIOUS
<1>2. PICK p : p = IF Validate(r) THEN MatchProfile(r, setup.catalog) ELSE Unmatched  OBVIOUS
<1>3. PICK res : res = AdmissionCheck(n, p, setup.policy)  OBVIOUS
<1>4. PICK e : e = ChainEntityID(c)  OBVIOUS
<1>5. PICK begun : begun = [Idle EXCEPT !.entity = e, !.profile = p, !.req = n]  OBVIOUS
<1>6. PICK new : new = CASE p = Unmatched ->
                              WithAtt(begun, AttestTerminalError(p, n, "unmatched", now))
                         [] p # Unmatched /\ res.outcome # "admitted" ->
                              WithAtt(begun, AttestAdmissionFailure(p, n, res, now))
                         [] OTHER -> WithStep(begun, "stage")
  OBVIOUS
<1>7. act' = [act EXCEPT ![h] = new]
  BY <1>1, <1>2, <1>3, <1>4, <1>5, <1>6, Zenon DEF Request, WithAtt, WithStep
<1>8. MovesTo(h, new)  BY <1>7 DEF MovesTo, MInv, ActsOK
<1>9. e \in Targets  BY <1>4 DEF Request, Targets
<1>10. DOMAIN begun = ActFields /\ begun.entity = e  BY <1>5 DEF Idle, ActFields
<1>11. ASSUME NEW att, new = WithAtt(begun, att) PROVE new.step = "stamp" /\ new.entity = e
  BY <1>10, <1>11 DEF WithAtt, ActFields
<1>12. ASSUME new = WithStep(begun, "stage") PROVE new.step = "stage" /\ new.entity = e
  BY <1>10, <1>12 DEF WithStep, ActFields
<1>13. new.step \in {"stage", "stamp"} /\ new.entity = e
  <2>1. CASE p = Unmatched
    <3>1. PICK att : att = AttestTerminalError(p, n, "unmatched", now)  OBVIOUS
    <3>2. new = WithAtt(begun, att)  BY <1>6, <2>1, <3>1
    <3> QED BY <1>11, <3>2
  <2>2. CASE p # Unmatched /\ res.outcome # "admitted"
    <3>1. PICK att : att = AttestAdmissionFailure(p, n, res, now)  OBVIOUS
    <3>2. new = WithAtt(begun, att)  BY <1>6, <2>2, <3>1
    <3> QED BY <1>11, <3>2
  <2>3. CASE p # Unmatched /\ res.outcome = "admitted"
    <3>1. new = WithStep(begun, "stage")  BY <1>6, <2>3
    <3> QED BY <1>12, <3>1
  <2> QED BY <2>1, <2>2, <2>3
<1>14. OnTheWay(new)'  BY <1>9, <1>13 DEF OnTheWay
<1>15. UNCHANGED <<setup, graph, batches, artifacts>>  BY DEF Request, history, emitted
<1>16. Batched  BY <1>15, NoBatch
<1> QED BY <1>8, <1>14, <1>15, <1>16, PlacesMove

\* Only targets are stamped, and each batch counts.
LEMMA StampPlaces ==
  ASSUME MInv, PlacesOK, NEW h \in Handlers, Stamp(h)
  PROVE  PlacesOK'
<1>1. PICK a : a = act[h] /\ OnTheWay(a)  BY DEF PlacesOK
<1>2. DOMAIN a = ActFields /\ a.step = "stamp"  BY <1>1 DEF MInv, ActsOK, RecOK, Stamp
<1>3. a.entity \in Targets /\ a.entity \in Entities \ {None}
  BY <1>1, <1>2 DEF OnTheWay, Targets, Entities
<1>4. UNCHANGED <<setup, artifacts>>  BY DEF Stamp, emitted
<1>5. PICK reply : act' = [act EXCEPT ![h].step = "done", ![h].reply = reply]  BY DEF Stamp
<1>6. PICK new : new = WithReply(a, reply)  OBVIOUS
<1>7. MovesTo(h, new)  BY <1>1, <1>5, <1>6 DEF MovesTo, WithReply, MInv, ActsOK
<1>8. new.step = "done"  BY <1>2, <1>6 DEF WithReply, ActFields
<1>9. Follows(a, new)  BY <1>8 DEF Follows
<1>10. Batched
  <2>1. CASE UNCHANGED <<graph, batches>>  BY <1>4, <2>1, NoBatch
  <2>2. CASE /\ graph' = [graph EXCEPT ![a.entity] = Triples(@, a.att)]
             /\ batches' = [batches EXCEPT ![a.entity] = @ + 1]
    <3>1. DOMAIN graph = Entities \ {None} /\ batches \in [Entities \ {None} -> Nat]
      BY DEF MInv, GraphsOK, PlacesOK
    <3>2. batches' \in [Entities \ {None} -> Nat]  BY <1>3, <2>2, <3>1
    <3>3. ASSUME NEW e \in Entities \ {None}
          PROVE  \/ graph'[e] = graph[e] /\ batches'[e] = batches[e]
                 \/ e \in Targets /\ batches'[e] = batches[e] + 1
      <4>1. CASE e = a.entity  BY <1>3, <2>2, <3>1, <4>1
      <4>2. CASE e # a.entity  BY <2>2, <3>1, <4>2
      <4> QED BY <4>1, <4>2
    <3> QED BY <1>4, <3>2, <3>3 DEF Batched
  <2> QED BY <1>1, <2>1, <2>2 DEF Stamp
<1>11. OnTheWay(new)'  BY <1>1, <1>9, <1>10, FollowsIs
<1> QED BY <1>4, <1>7, <1>10, <1>11, PlacesMove

\* emit_autoresearch_artifact finds the workspace that bash would be sent to.
LEMMA EmitPlaces ==
  ASSUME AnchorsAgree, MInv, PlacesOK, NEW h \in Handlers, NEW c \in Callers,
         NEW found \in BOOLEAN, EmitArtifact(h, c, found)
  PROVE  PlacesOK'
<1>1. PICK f, k : /\ f = IF found THEN HostWorkspaceFolder(c) ELSE None
                  /\ k = IF BashEntity(c) = None THEN 0 ELSE batches[BashEntity(c)]
  OBVIOUS
<1>2. PICK emit : emit = [caller |-> c, found |-> found, folder |-> f, known |-> k]  OBVIOUS
<1>3. PICK new : new = [Idle EXCEPT !.step = "write", !.entity = LoopOf(c.loop), !.emit = emit]
  OBVIOUS
<1>4. act' = [act EXCEPT ![h] = new]  BY <1>1, <1>2, <1>3, Zenon DEF EmitArtifact
<1>5. MovesTo(h, new)  BY <1>4 DEF MovesTo, MInv, ActsOK
<1>6. new.step = "write" /\ new.emit = emit  BY <1>3 DEF Idle
<1>7. UNCHANGED <<setup, graph, batches, artifacts>>  BY DEF EmitArtifact, history, emitted
<1>8. PICK a, b : a = Anchor(c) /\ b = BashEntity(c)  OBVIOUS
<1>9. a \in Entities /\ b \in Entities  BY <1>8 DEF Entities
<1>10. ReadyFolder(a) = ReadyFolder(b)
  <2>1. a = b \/ (a \notin Targets /\ b \notin Targets)
    BY <1>8 DEF AnchorsAgree, EmitArtifact
  <2>2. ASSUME NEW e \in Entities, e \notin Targets PROVE ReadyFolder(e) = None
    <3>1. Stored(e) = Unstamped  BY <2>2 DEF Stored, PlacesOK
    <3>2. Stored(e).ready = FALSE  BY <3>1 DEF Unstamped
    <3> QED BY <3>2 DEF ReadyFolder
  <2> QED BY <1>9, <2>1, <2>2
<1>11. found => f = ReadyFolder(b)  BY <1>1, <1>8, <1>10 DEF HostWorkspaceFolder
<1>12. b # None => k \in Nat /\ k = batches[b]  BY <1>1, <1>8, <1>9 DEF PlacesOK
<1>13. Agrees(emit)
  <2>1. emit.caller = c /\ emit.found = found /\ emit.folder = f /\ emit.known = k  BY <1>2
  <2>2. b = BashEntity(emit.caller)  BY <1>8, <2>1
  <2>3. b # None => k <= batches[b]  BY <1>12
  <2> QED BY <1>11, <1>12, <2>1, <2>2, <2>3 DEF Agrees
<1>14. Batched  BY <1>7, NoBatch
<1>15. Agrees(emit)'  BY <1>13, <1>14, AgreesStays
<1>16. OnTheWay(new)'  BY <1>6, <1>15 DEF OnTheWay
<1> QED BY <1>5, <1>7, <1>14, <1>16, PlacesMove

\* The file is written where the lookup said.
LEMMA WritePlaces ==
  ASSUME MInv, PlacesOK, NEW h \in Handlers, WriteFile(h)
  PROVE  PlacesOK'
<1>1. PICK a : a = act[h]  OBVIOUS
<1>2. DOMAIN a = ActFields /\ a.step = "write"  BY <1>1 DEF MInv, ActsOK, RecOK, WriteFile
<1>3. UNCHANGED <<setup, graph, batches, artifacts>>  BY DEF WriteFile, history
<1>4. CASE act' = [act EXCEPT ![h].step = "path"]
  <2>1. PICK new : new = WithStep(a, "path")  OBVIOUS
  <2>2. MovesTo(h, new)  BY <1>1, <1>4, <2>1, StepMoves DEF MInv
  <2>3. new.step = "path" /\ new.emit = a.emit  BY <1>2, <2>1, WithStepIs
  <2>4. Follows(a, new)  BY <1>2, <2>3 DEF Follows
  <2> QED BY <1>1, <1>3, <2>2, <2>4, OnlyPlaceMoves
<1>5. CASE act' = [act EXCEPT ![h] = Ended("error")]
  <2>1. PICK new : new = Ended("error")  OBVIOUS
  <2>2. MovesTo(h, new)  BY <1>5, <2>1 DEF MovesTo, MInv, ActsOK
  <2>3. new.step = "done"  BY <2>1 DEF Ended, Idle
  <2>4. Follows(a, new)  BY <2>3 DEF Follows
  <2> QED BY <1>1, <1>3, <2>2, <2>4, OnlyPlaceMoves
<1> QED BY <1>4, <1>5 DEF WriteFile, Ended

\* What is recorded is what was written.
LEMMA PathPlaces ==
  ASSUME MInv, PlacesOK, NEW h \in Handlers, StampPath(h)
  PROVE  PlacesOK'
<1>1. PICK a : a = act[h] /\ OnTheWay(a)  BY DEF PlacesOK
<1>2. PICK emit : emit = a.emit /\ Agrees(emit)  BY <1>1 DEF OnTheWay, StampPath
<1>3. \A e \in artifacts' : e \in artifacts \/ e = emit  BY <1>1, <1>2 DEF StampPath
<1>4. PICK reply : act' = [act EXCEPT ![h] = Ended(reply)]  BY DEF StampPath, Ended
<1>5. PICK new : new = Ended(reply)  OBVIOUS
<1>6. MovesTo(h, new)  BY <1>4, <1>5 DEF MovesTo, MInv, ActsOK
<1>7. new.step = "done"  BY <1>5 DEF Ended, Idle
<1>8. UNCHANGED <<setup, graph, batches>>  BY DEF StampPath, history
<1>9. Batched  BY <1>8, NoBatch
<1>10. OnTheWay(new)'  BY <1>7 DEF OnTheWay
<1>11. \A e \in artifacts' : e \in artifacts \/ Agrees(e)  BY <1>2, <1>3
<1> QED BY <1>6, <1>9, <1>10, <1>11, PlacesMove

\* Steps of nobody's handler.
LEMMA OtherPlaces ==
  ASSUME PlacesOK, ContainerStops \/ Tick \/ UNCHANGED vars
  PROVE  PlacesOK'
<1>1. UNCHANGED <<setup, graph, batches, artifacts, act>>
  BY DEF ContainerStops, Tick, vars, history, emitted
<1>2. Batched  BY <1>1, NoBatch
<1>3. ASSUME NEW g \in Handlers PROVE \E b : b = act'[g] /\ OnTheWay(b)'
  <2>1. PICK b : b = act[g] /\ OnTheWay(b)  BY DEF PlacesOK
  <2>2. CASE b.step \in {"write", "path"}
    <3>1. PICK e : e = b.emit /\ Agrees(e)  BY <2>1, <2>2 DEF OnTheWay
    <3>2. Agrees(e)'  BY <1>2, <3>1, AgreesStays
    <3>3. OnTheWay(b)'  BY <2>2, <3>1, <3>2 DEF OnTheWay
    <3> QED BY <1>1, <2>1, <3>3
  <2>3. CASE b.step \notin {"write", "path"}  BY <1>1, <2>1, <2>3 DEF OnTheWay
  <2> QED BY <2>2, <2>3
<1>4. \A e \in artifacts' : Agrees(e)'  BY <1>1, <1>2, AgreesStays DEF PlacesOK
<1> QED BY <1>1, <1>3, <1>4 DEF PlacesOK

\* Nothing is attested or emitted yet.
LEMMA PlacesInit ==
  ASSUME Init
  PROVE  PlacesOK
<1>1. OnTheWay(Idle)  BY DEF OnTheWay, Idle
<1>2. ASSUME NEW h \in Handlers PROVE \E a : a = act[h] /\ OnTheWay(a)
  BY <1>1 DEF Init
<1> QED BY <1>2 DEF Init, PlacesOK

\* Every step keeps requests and emissions on their way.
LEMMA PlacesNext ==
  ASSUME AnchorsAgree, MInv, PlacesOK, [Next]_vars
  PROVE  PlacesOK'
<1>1. CASE \E h \in Handlers, c \in Callers, r \in Raw : Request(h, c, r) \/ RequestRefused(h, c, r)
  BY <1>1, RequestPlaces, RefusedPlaces
<1>2. CASE \E h \in Handlers, c \in Callers, found \in BOOLEAN : EmitArtifact(h, c, found)
  BY <1>2, EmitPlaces
<1>3. CASE \E h \in Handlers : Advance(h)
  BY <1>3, AdvancePlaces, StampPlaces, WritePlaces, PathPlaces DEF Advance
<1>4. CASE ContainerStops \/ Tick \/ UNCHANGED vars  BY <1>4, OtherPlaces
<1> QED BY <1>1, <1>2, <1>3, <1>4 DEF Next

\* emit_autoresearch_artifact finds its workspace by the run entity, bash by the run
\* id.  While dispatch stamps the two of one run, and no run is attested under the
\* id of a loop that has none, a recorded artifact is where the reviewer's commands
\* look, however requests, emissions and lost replies interleave.
THEOREM ArtifactWhereBashLooksAlways ==
  ASSUME AnchorsAgree PROVE Spec => []ArtifactWhereBashLooks
<1>1. Init => PlacesOK  BY PlacesInit
<1>2. MInv /\ PlacesOK /\ [Next]_vars => PlacesOK'  BY PlacesNext
<1>3. PlacesOK => ArtifactWhereBashLooks
  <2> SUFFICES ASSUME PlacesOK, NEW e \in artifacts
               PROVE  \/ e.folder = resolveWorkspaceFolder(e.caller)
                      \/ ~e.found
                      \/ batches[BashEntity(e.caller)] # e.known
    BY DEF ArtifactWhereBashLooks
  <2>1. PICK b : b = BashEntity(e.caller)  OBVIOUS
  <2>2. /\ e.caller \in Callers
        /\ b # None => e.known \in Nat /\ e.known <= batches[b]
        /\ e.found => \/ e.folder = ReadyFolder(b)
                      \/ b # None /\ e.known < batches[b]
    BY <2>1 DEF PlacesOK, Agrees
  <2>3. b \in Entities  BY <2>1, <2>2 DEF Entities
  <2>4. b # None => batches[b] \in Nat  BY <2>3 DEF PlacesOK
  <2>5. b # None /\ e.known < batches[b] => batches[b] # e.known  BY <2>2, <2>4
  <2> QED BY <2>1, <2>2, <2>5 DEF resolveWorkspaceFolder
<1> QED BY <1>1, <1>2, <1>3, MInvAlways, PTL DEF Spec
=============================================================================
