-------------------------- MODULE MCSandboxManager --------------------------
(***************************************************************************)
(* Finite instance of SandboxManager: three profiles of which two overlap, *)
(* one per kind of caller, requests that mean the same in two writings,    *)
(* one per way of being refused, and one and two probes.                   *)
(***************************************************************************)
EXTENDS SandboxManager, TLC

U(n) == <<n, "upper">>
L(n) == <<n, "lower">>
Lang(n) == [kind |-> "language", token |-> n]
Tool(n) == [kind |-> "tool", token |-> n]
Probe1(n) == [name |-> n, command |-> "version", expect |-> 0]
Probe2(n) == [name |-> n, command |-> "refuses", expect |-> 1]

MCWellFormed == {"go", "git", "key", "go.mod", "go_mod"}
MCKebab(n) == IF n \in {"go.mod", "go_mod"} THEN "go-mod" ELSE n

Asks(caps, net, secrets, privs, probes) ==
  [caps |-> caps, network |-> net, secrets |-> secrets, mounts |-> << >>,
   privileges |-> privs, probes |-> probes]

Plain == Asks(<<Lang(U("go"))>>, "", << >>, << >>, <<Probe1(L("go")), Probe2(L("go.mod"))>>)
Again == Asks(<<Lang(L("go")), Lang(L("go"))>>, "restricted", << >>, << >>,
              <<Probe2(U("go.mod")), Probe1(L("go"))>>)
Wide == Asks(<<Lang(L("go")), Tool(L("git"))>>, "public", << >>, << >>, << >>)
Secret == Asks(<<Lang(L("go"))>>, "", <<U("key")>>, << >>, << >>)
Rooted == Asks(<<Tool(L("git"))>>, "", << >>, <<"docker-socket", "privileged">>, << >>)
Clash == Asks(<< >>, "", << >>, << >>, <<Probe1(L("go.mod")), Probe1(L("go_mod"))>>)
Unknown == Asks(<<Tool(L("go.mod"))>>, "", << >>, << >>, << >>)

Small == [id |-> "small@v1", adv |-> {Lang(L("go"))}, networks |-> {"restricted"},
          privileges |-> {}, ttl |-> 3]
Full == [id |-> "full@v1", adv |-> {Lang(L("go")), Tool(L("git"))},
         networks |-> {"restricted", "public"}, privileges |-> {"docker-socket"}, ttl |-> 0]
\* One profile's TTL is a second and a half, the other has the default.
\* A duplicated profile is refused at boot; a policy that allows little on a
\* host that has the key, and one that allows more on a host that does not.
Strict == [public |-> FALSE, privileged |-> TRUE, secrets |-> {U("key")}]
Open == [public |-> TRUE, privileged |-> FALSE, secrets |-> {L("key")}]
Boot(catalog, policy, env, runner, url) ==
  [catalog |-> catalog, policy |-> policy, env |-> env, runner |-> runner, url |-> url]
MCBoots == {Boot(<<Full, Small>>, Strict, {U("key"), L("key")}, "api", TRUE),
            Boot(<<Full, Small>>, Open, {U("key"), L("key")}, "cli", TRUE),
            Boot(<<Full, Small>>, Open, {}, "api", FALSE),
            Boot(<<Full, Small>>, Open, {}, "mock", TRUE),
            Boot(<<Small, Small>>, Open, {}, "cli", FALSE)}

Caller(rel, id, ent, keys, loop) ==
  [related |-> rel, runId |-> id, runEntity |-> ent, runKeys |-> keys, loop |-> loop]
Member == Caller(None, "r", None, TRUE, "l")
Pinned == Caller(ChainOf("r"), None, None, FALSE, "m")
FrontDoor == Caller(None, None, None, FALSE, "m")
Broken == Caller(None, None, None, TRUE, "m")
MCCallers == {Member, FrontDoor, Broken}
MCRaw == {Plain, Again, Wide, Secret, Rooted, Clash, Unknown, None}
Symmetry == Permutations(Handlers)

\* The callers of this instance are as the theorem on artifacts assumes.
ASSUME CallersAgree == AnchorsAgree
=============================================================================
