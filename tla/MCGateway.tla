------------------------------ MODULE MCGateway ------------------------------
(* A small instance of Gateway for TLC. *)
EXTENDS Gateway, TLC

CONSTANTS r1, r2

Requests == {r1, r2}

K(major, region, minor, ts) == [major |-> major, region |-> region, minor |-> minor, ts |-> ts]
a == <<0>>
b == <<1>>
system == <<1, 1>>
x == <<0>>
y == <<1>>

\* Minor keys <<1>> and <<0, 0>> come in a different order as bytes of an entry
\* key and as bytes; <<1, 1, 1, 0>> is too long and is cut to <<1, 1, 1>>.
Row == {K(a, x, <<1>>, t) : t \in {NoTime, 1, 2}}
ClientKeys == Row \cup {K(a, x, <<0, 0>>, NoTime), K(a, y, <<1>>, NoTime),
                        K(b, x, <<1>>, NoTime), K(b, x, <<1, 1, 1, 0>>, NoTime),
                        K(a, <<>>, <<1>>, NoTime), K(system, x, <<1>>, NoTime), EmptyKey}
Probes == ClientKeys \cup {K(a, x, <<1>>, 0), K(a, x, <<1>>, 3), K(b, x, <<1, 1, 1>>, NoTime)}
PhysicalKeys == {EncodeKey(k) : k \in ClientKeys}

At(version, expiresAt) == [version |-> version, expiresAt |-> expiresAt, value |-> 0]
Holding(S) ==
  [e \in PhysicalKeys |-> IF \E k \in DOMAIN S : EncodeKey(k) = e
                          THEN S[CHOOSE k \in DOMAIN S : EncodeKey(k) = e] ELSE Absent]
Expiring(S) ==
  Holding([k \in S |-> At(1, IF k.ts = 1 THEN 1 ELSE IF k.ts = 2 THEN 2 ELSE 0)])
Others == {K(a, x, <<0, 0>>, NoTime), K(a, y, <<1>>, NoTime), K(b, x, <<1, 1, 1, 0>>, NoTime)}
Nothing == Expiring({})
Rows == Expiring(Row \cup Others)
Few == Expiring(Others \cup {K(a, x, <<1>>, 1)})
WithSystem == Expiring({K(a, x, <<0, 0>>, NoTime), K(a, x, <<1>>, 1), K(system, x, <<1>>, NoTime)})

\* People: root is an administrator, dis is disabled, gil is in a group that
\* has a group among its members.
Bind(role, members) == [role |-> role, members |-> members]
Iam1 ==
  [users |-> [u \in {"root", "ann", "dis", "gil"} |->
                [admin |-> u \in {"root"}, disabled |-> u = "dis"]],
   groups |-> [g \in {"team", "outer"} |-> IF g = "team" THEN {"gil"} ELSE {"team", "dis"}],
   roles |-> [r \in {"viewer", "counter"} |->
                IF r = "viewer" THEN {"put", "iam.set"} ELSE {"increment", "batch"}],
   policies |-> [s \in {<<>>, <<a>>, <<a, x>>, <<b>>, <<system>>} |->
                   CASE s = <<>> -> {Bind("viewer", {"svc", "dis"})}
                     [] s = <<a>> -> {Bind("viewer", {"ann", "outer"}), Bind("counter", {"svc"})}
                     [] s = <<a, x>> -> {Bind("editor", {"ann", "team"})}
                     [] s = <<b>> -> {Bind("missing", {"gil"}), Bind("auditor", {"gil"})}
                     [] OTHER -> {Bind("admin", {"ann"})}]]
Iam2 == [Iam1 EXCEPT !.policies[<<a>>] = {}, !.users["gil"].disabled = TRUE]

\* Calls.
Req(who, op, key) == [who |-> who, op |-> op, key |-> key]
PutOf(who, key, expiresAt) ==
  [who |-> who, op |-> "put", key |-> key, value |-> 0, ttl |-> 0, expiresAt |-> expiresAt,
   cas |-> FALSE, version |-> 0]
TouchOf(who, key) == [who |-> who, op |-> "touch", key |-> key, ttl |-> 0, expiresAt |-> 0]
IncrementOf(who, key) ==
  [who |-> who, op |-> "increment", key |-> key, initial |-> 0, delta |-> 0, ttl |-> 0,
   expiresAt |-> 0]
BatchOf(who, keys) ==
  [who |-> who, op |-> "batch", records |-> [i \in DOMAIN keys |->
     [key |-> keys[i], value |-> 0, ttl |-> 0, expiresAt |-> 0]]]
Enumerate(who, key, ordered, reverse) ==
  [who |-> who, op |-> "enumerate", key |-> key, ordered |-> ordered, reverse |-> reverse]

Ping == Req("ann", "get", K(a, x, <<1>>, NoTime))
Prefix(major, region, minor) == K(major, region, minor, NoTime)

Client(budget, calls) == [budget |-> budget, calls |-> calls]
Reader == Client(0, {Ping})

\* The policy changes under two requests, with a load and a failing scan.
Reload ==
  [iam |-> <<Iam1, Iam2, Iam1, Iam2>>, faults |-> TRUE, db |-> Nothing, replicated |-> TRUE,
   unreadable |-> {}, clock |-> 0, probes |-> {}, clients |-> (r1 :> Reader @@ r2 :> Reader)]

Still == [Reload EXCEPT !.iam = <<Iam1>>, !.faults = FALSE]

\* Everybody tries every kind of call in every kind of place.
Somebody == {"root", "ann", "dis", "gil", "svc", Anonymous}
Spots == {K(a, x, <<1>>, NoTime), K(a, y, <<1>>, NoTime), K(b, x, <<1>>, NoTime),
          K(a, <<>>, <<1>>, NoTime), NilKey}
Decisions ==
  [Still EXCEPT !.clients = r1 :> Client(1,
     {Ping, Req("svc", "getrecent", NilKey)}
     \cup {PutOf(u, k, 0) : u \in Somebody, k \in Spots}
     \cup {TouchOf(u, k) : u \in Somebody, k \in Spots}
     \cup {Req(u, op, k) : u \in Somebody, op \in {"remove", "watch"}, k \in Spots}
     \cup {Req(u, "watch", K(system, x, <<1>>, NoTime)) : u \in Somebody}
     \cup {IncrementOf(u, k) : u \in Somebody, k \in Spots}
     \cup {BatchOf(u, <<k, l>>) : u \in Somebody, k \in Spots, l \in Spots}
     \cup {BatchOf(u, <<>>) : u \in Somebody})]

\* Writes under a row's timestamps while its records expire.
Timeline ==
  [Still EXCEPT !.db = Rows, !.clock = 2, !.probes = Probes, !.clients = r1 :> Client(2,
     {Req("ann", "getrecent", K(a, x, <<1>>, 3)), PutOf("ann", K(a, x, <<1>>, 1), 2),
      PutOf("root", K(b, x, <<1, 1, 1, 0>>, NoTime), 1), Req("root", "remove", K(a, x, <<1>>, 2)),
      TouchOf("ann", K(a, x, <<1>>, 2)), PutOf("root", EmptyKey, 0)})]

\* Enumerations, each with one concurrent write; in two of them records expire or
\* cannot be read.
Enumerating(store, e, clock, unreadable) ==
  [Still EXCEPT !.db = store, !.clock = clock, !.unreadable = {EncodeKey(k) : k \in unreadable},
     !.clients =
     r1 :> Client(1, {e}) @@
     r2 :> Client(1, {Ping, BatchOf("ann", <<K(a, x, <<0, 0>>, NoTime), K(a, x, <<1>>, 2)>>),
                      Req("ann", "remove", K(a, x, <<0, 0>>, NoTime))})]
Enumerations ==
  [region |-> Enumerating(Rows, Enumerate("ann", Prefix(a, x, <<>>), FALSE, FALSE),
                         1, {K(a, x, <<1>>, NoTime)}),
   ordered |-> Enumerating(Few, Enumerate("ann", Prefix(a, <<>>, <<>>), TRUE, FALSE),
                          1, {K(a, y, <<1>>, NoTime)}),
   reversed |-> Enumerating(Few, Enumerate("ann", Prefix(a, x, <<>>), TRUE, TRUE), 0, {}),
   everything |-> Enumerating(WithSystem, Enumerate("svc", NilKey, FALSE, FALSE), 0, {}),
   system |-> Enumerating(WithSystem, Enumerate("ann", Prefix(system, <<>>, <<>>), FALSE, FALSE),
                         0, {})]

\* An enumeration and a write decided before their grant is taken away.
Revocation ==
  [Still EXCEPT !.iam = <<Iam1, Iam2>>, !.db = Few, !.clients =
     r1 :> Client(1, {Enumerate("gil", Prefix(a, x, <<>>), FALSE, FALSE)}) @@
     r2 :> Client(1, {Ping, PutOf("gil", K(a, x, <<0, 0>>, NoTime), 0)})]

\* A watcher behind a small buffer and two writers.
Watching(prefix, replicated) ==
  [Still EXCEPT !.replicated = replicated, !.clients =
     r1 :> Client(2, {Req("ann", "watch", prefix), PutOf("ann", K(a, x, <<1>>, NoTime), 0)}) @@
     r2 :> Client(1, {Ping, Req("ann", "remove", K(a, x, <<1>>, 1)),
                      BatchOf("ann", <<K(a, x, <<0, 0>>, NoTime), K(a, x, <<1>>, NoTime)>>)})]
Watches ==
  [watchRow |-> Watching(Prefix(a, x, <<1>>), FALSE),
   watchRegion |-> Watching(Prefix(a, x, <<>>), FALSE),
   watchReplicated |-> Watching(Prefix(a, x, <<>>), TRUE)]

Workloads ==
  [reload |-> Reload, decisions |-> Decisions, revocation |-> Revocation, timeline |-> Timeline]
    @@ Enumerations @@ Watches
=============================================================================
