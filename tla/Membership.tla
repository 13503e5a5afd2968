----------------------------- MODULE Membership -----------------------------
(***************************************************************************)
(* The raft configuration of a formed cluster: operators add and remove     *)
(* servers at any node's console (pkg/console/nodes.go), machines move to   *)
(* new addresses, and every node's AddressReconciler                        *)
(* (pkg/replication/address_reconciler.go) re-registers it under the        *)
(* address it advertises.                                                   *)
(*                                                                         *)
(* hashicorp/raft is external and kept to its configuration entries: the    *)
(* latest one in a node's log is what GetConfiguration returns there,       *)
(* committed or not, and what decides whom a leader or candidate dials.     *)
(***************************************************************************)
EXTENDS Naturals, FiniteSets

CONSTANTS
  Peer,       \* node ids
  First,      \* the node that bootstrapped, recorded under its private address
  Movers,     \* nodes whose machine may move
  Commands,   \* bound: what operators ask for, one of them in a behaviour
  MaxMove,    \* bound on the moves of a machine
  MaxTurn,    \* bound on the elections that depose a leader
  Nobody

ASSUME MembershipBounds ==
  /\ First \in Peer /\ IsFiniteSet(Peer) /\ Nobody \notin Peer
  /\ MaxMove \in Nat /\ MaxTurn \in Nat
  /\ \A c \in Commands : c.op \in {"add", "remove"} /\ c.id \in Peer

VARIABLES
  host,      \* per node: how often its machine has moved
  view,      \* per node: the latest configuration entry in its log
  record,    \* the committed configuration entry
  chief,     \* the leader
  turn,      \* raft term
  loop,      \* per node: AddressReconciler.loop
  command,   \* the operator's request
  past       \* auxiliary: the configurations that have been committed

mvars == <<host, view, record, chief, turn, loop, command, past>>

\* A node's name, which it keeps, and its private address after k moves.
Advertised(n) == <<n, 0>>
Private(n, k) == <<n, k + 1>>

\* Who answers at an address.
At_(a) == IF a \in {Advertised(a[1]), Private(a[1], host[a[1]])} THEN a[1] ELSE Nobody

Members(e) == DOMAIN e.servers
Newer(d, e) == d.turn > e.turn \/ (d.turn = e.turn /\ d.index > e.index)
Majority_(S, e) == 2 * Cardinality(S \cap Members(e)) > Cardinality(Members(e))

Watching == [pc |-> "watching", targets |-> {}]
NoCommand == [pc |-> "none", on |-> Nobody]
Answered == [pc |-> "answered", on |-> Nobody]

FirstEntry ==
  [turn |-> 0, index |-> 1,
   servers |-> [n \in Peer |-> IF n = First THEN Private(n, 0) ELSE Advertised(n)]]

\* Joiners are recorded as they advertise, and their loops have seen it.
MemberInit ==
  /\ host = [n \in Peer |-> 0]
  /\ view = [n \in Peer |-> FirstEntry]
  /\ record = FirstEntry
  /\ chief = Nobody /\ turn = 0
  /\ loop = [n \in Peer |-> IF n = First THEN Watching ELSE [Watching EXCEPT !.pc = "stopped"]]
  /\ command = NoCommand
  /\ past = {FirstEntry.servers}

-----------------------------------------------------------------------------
(***************************************************************************)
(* raft: elections, replication of the latest entry, its commit.            *)
(***************************************************************************)
Dials(n, m) == m \in Members(view[n]) /\ At_(view[n].servers[m]) = m

Electable(n) ==
  /\ n \in Members(view[n])
  /\ Majority_({m \in Peer : m = n \/ (Dials(n, m) /\ ~Newer(view[m], view[n]))}, view[n])

\* A leader's first entry, in its own term, comes after what its log holds.
ElectChief(n) ==
  /\ chief # n /\ Electable(n)
  /\ chief = Nobody \/ turn < MaxTurn
  /\ chief' = n /\ turn' = turn + 1
  /\ view' = [view EXCEPT ![n].turn = turn + 1]
  /\ UNCHANGED <<host, record, loop, command, past>>

\* The leader lease runs out.
LeaseExpires ==
  /\ chief # Nobody
  /\ ~Majority_({m \in Peer : m = chief \/ Dials(chief, m)}, view[chief])
  /\ chief' = Nobody
  /\ UNCHANGED <<host, view, record, turn, loop, command, past>>

\* One change at a time; an entry that repeats the configuration changes nothing.
Append_(servers) ==
  /\ view[chief] = record
  /\ view' = IF servers = record.servers THEN view
             ELSE [view EXCEPT ![chief] = [turn |-> turn, index |-> record.index + 1,
                                           servers |-> servers]]

ReplicateTo(n) ==
  /\ chief \notin {Nobody, n} /\ view[n] # view[chief]
  /\ Dials(chief, n)
  /\ view' = [view EXCEPT ![n] = view[chief]]
  /\ UNCHANGED <<host, record, chief, turn, loop, command, past>>

\* A leader that has removed itself steps down with the commit.
CommitEntry ==
  /\ chief # Nobody /\ view[chief] # record
  /\ Majority_({n \in Peer : view[n] = view[chief]}, view[chief])
  /\ record' = view[chief]
  /\ past' = past \cup {record'.servers}
  /\ chief' = IF chief \in Members(record') THEN chief ELSE Nobody
  /\ UNCHANGED <<host, view, turn, loop, command>>

\* A machine moves, or the process restarts where it is.
Move(n) ==
  /\ n \in Movers /\ host[n] < MaxMove
  /\ host' = [host EXCEPT ![n] = @ + 1]
  /\ loop' = [loop EXCEPT ![n] = Watching]
  /\ chief' = IF chief = n THEN Nobody ELSE chief
  /\ command' = IF command.on = n THEN Answered ELSE command
  /\ UNCHANGED <<view, record, turn, past>>

-----------------------------------------------------------------------------
(***************************************************************************)
(* AddressReconciler.                                                       *)
(***************************************************************************)
Registers(n) == [m \in Members(view[chief]) \cup {n} |->
                   IF m = n THEN Advertised(n) ELSE view[chief].servers[m]]

\* A node that is not a member has nothing to fix and goes on watching.
Drifted(n) == n \in Members(view[n]) /\ view[n].servers[n] # Advertised(n)

Healed(n) == n \in Members(view[n]) /\ view[n].servers[n] = Advertised(n)

ReconcileHealed(n) ==
  /\ loop[n].pc = "watching" /\ Healed(n)
  /\ loop' = [loop EXCEPT ![n].pc = "stopped"]
  /\ UNCHANGED <<host, view, record, chief, turn, command, past>>

ReconcileAsLeader(n) ==
  /\ loop[n].pc = "watching" /\ Drifted(n) /\ chief = n
  /\ Append_(Registers(n))
  /\ UNCHANGED <<host, record, chief, turn, loop, command, past>>

\* joinViaPeers: the leader it knows of, if any, and every peer.
KnownLeaderOnly(n) == {view[n].servers[m] : m \in {p \in Members(view[n]) \ {n} : p = chief /\ Dials(p, n)}}

JoinTargets(n) == {view[n].servers[m] : m \in Members(view[n]) \ {n}}

joinViaPeers(n) ==
  /\ loop[n].pc = "watching" /\ Drifted(n) /\ chief # n
  /\ loop' = [loop EXCEPT ![n] = [pc |-> "joining", targets |-> JoinTargets(n)]]
  /\ UNCHANGED <<host, view, record, chief, turn, command, past>>

\* The Join call at one target: the leader adds the voter, others refuse, and an
\* answer that comes too late counts as a refusal.
Leads(a) == IF chief = Nobody THEN FALSE ELSE At_(a) = chief /\ view[chief] = record

CallJoin(n) ==
  /\ loop[n].pc = "joining"
  /\ \E a \in loop[n].targets :
       LET refused == [loop[n] EXCEPT !.targets = @ \ {a}] IN
       IF Leads(a)
       THEN /\ Append_(Registers(n))
            /\ \E next \in {Watching, refused} : loop' = [loop EXCEPT ![n] = next]
       ELSE /\ loop' = [loop EXCEPT ![n] = refused]
            /\ UNCHANGED view
  /\ UNCHANGED <<host, record, chief, turn, command, past>>

JoinGivesUp(n) ==
  /\ loop[n].pc = "joining" /\ loop[n].targets = {}
  /\ loop' = [loop EXCEPT ![n] = Watching]
  /\ UNCHANGED <<host, view, record, chief, turn, command, past>>

-----------------------------------------------------------------------------
(***************************************************************************)
(* addNode and removeNode at the console of a node.                         *)
(***************************************************************************)
\* PreflightClusterPeer: somebody of this cluster answers there, by that id.
PreflightAnyMember(id, addr) == At_(addr) # Nobody

Preflight(id, addr) == At_(addr) = id

addNode(on, c) ==
  /\ command = NoCommand /\ c.op = "add"
  /\ Preflight(c.id, c.addr)
  /\ command' = [pc |-> "change", on |-> on, change |-> c]
  /\ UNCHANGED <<host, view, record, chief, turn, loop, past>>

removeNode(on, c) ==
  /\ command = NoCommand /\ c.op = "remove"
  /\ command' = [pc |-> "change", on |-> on, change |-> c]
  /\ UNCHANGED <<host, view, record, chief, turn, loop, past>>

Changed(c) ==
  IF c.op = "add"
  THEN [m \in Members(view[chief]) \cup {c.id} |->
          IF m = c.id THEN c.addr ELSE view[chief].servers[m]]
  ELSE [m \in Members(view[chief]) \ {c.id} |-> view[chief].servers[m]]

\* membershipChange on the leader.
ChangeHere ==
  /\ command.pc \in {"change", "forwarded"} /\ command.on = chief
  /\ Append_(Changed(command.change))
  /\ command' = Answered
  /\ UNCHANGED <<host, record, chief, turn, loop, past>>

\* proxyToLeader, once: a request that was sent on is not sent on again, and of an
\* add, whose body has been read by now, the leader gets nothing it could apply.
proxyToLeader ==
  /\ command.pc = "change" /\ command.on # chief
  /\ command' = IF chief # Nobody /\ command.change.op = "remove"
                THEN [command EXCEPT !.pc = "forwarded", !.on = chief] ELSE Answered
  /\ UNCHANGED <<host, view, record, chief, turn, loop, past>>

\* The change fails: another one is pending, the leader is lost, the call times out.
ChangeFails ==
  /\ command.pc \in {"change", "forwarded"}
  /\ command' = Answered
  /\ UNCHANGED <<host, view, record, chief, turn, loop, past>>

MemberStep(n) ==
  \/ ReconcileHealed(n)
  \/ ReconcileAsLeader(n)
  \/ joinViaPeers(n)
  \/ CallJoin(n)
  \/ JoinGivesUp(n)

MemberNext ==
  \/ CommitEntry \/ LeaseExpires
  \/ ChangeHere \/ proxyToLeader \/ ChangeFails
  \/ \E n \in Peer : MemberStep(n) \/ ElectChief(n) \/ ReplicateTo(n) \/ Move(n)
  \/ \E on \in Peer, c \in Commands : addNode(on, c) \/ removeNode(on, c)

MemberSpec == MemberInit /\ [][MemberNext]_mvars

-----------------------------------------------------------------------------
\* Whatever operators ask for, at whichever console and however machines move
\* between addNode's preflight and the change, and however the reconcilers race
\* with them: a configuration records a node only under an address that is or was
\* that node's own, so that no voter is somebody else.
RecordsOwnAddress ==
  \A n \in Peer : \A m \in Members(view[n]) :
    view[n].servers[m] \in {Advertised(m)} \cup {Private(m, k) : k \in 0..host[m]}

\* The reconciler's promise: a member recorded under another address than the one
\* it advertises is re-registered, whether it leads, knows the leader or is cut off
\* from it by the stale record.  A record can only stay wrong for ever when an
\* operator wrote it, when it has cost the cluster its majority, or when the last
\* configuration its owner ever receives, the one GetConfiguration shows there, was
\* never committed.
RecordedWell(n) ==
  \/ n \notin Members(record)
  \/ record.servers[n] = Advertised(n)
  \/ \E c \in Commands : c.op = "add" /\ c.id = n /\ c.addr = record.servers[n]

Stranded == chief = Nobody /\ \A n \in Peer : ~Electable(n)

AddressReconciled ==
  \A n \in Peer : \/ []<>RecordedWell(n)
                  \/ <>[](view[n].servers \notin past)
                  \/ <>[]Stranded

=============================================================================
