-------------------------------- MODULE Groups --------------------------------
(***************************************************************************)
(* Groups and acknowledged updates across the members of one session.      *)
(*                                                                         *)
(* Every member keeps its own copy of the group table.  CreateGroup(),     *)
(* DestroyGroup(), AddPlayerToGroup(), RemovePlayerFromGroup() and         *)
(* SetPeerInfo() change the local copy, queue packets to the connected     *)
(* peers and complete when a shared counter, `pending', has come down to   *)
(* zero: it counts one callback per queued packet (or the ack the packet   *)
(* asks for) and one detached thread that tells the application.           *)
(*                                                                         *)
(* A player is its node.  A connection is a send queue of two priorities,  *)
(* a FIFO wire and a table of acks at each end.  Each handler runs under   *)
(* the lock of its node; where it releases the lock for an indication and  *)
(* has more to do afterwards it is cut in two, and the connection is not   *)
(* read in between (recv_busy).  Joining is modelled as far as groups are  *)
(* concerned; module Session has the rest of it.                           *)
(***************************************************************************)
EXTENDS Integers, Sequences, FiniteSets

CONSTANTS
    Host,       \* the host, which hands out group ids
    Others,     \* the other nodes
    MaxGroups,  \* bound: group ids are 1..MaxGroups
    MaxOps,     \* bound: number of calls
    Scenarios   \* how sessions start, and the bounds of each: records with
                \*   present  the nodes that are in the session
                \*   groups   the groups they have
                \*   members  the players in those groups
                \*   kinds    the calls the application makes
                \*   ops      bound: number of calls
                \*   joins    bound: number of nodes that connect
                \*   breaks   bound: number of connections that break

Nodes == {Host} \cup Others
GroupIds == 1..MaxGroups
OpIds == 1..MaxOps
AllKinds == {"create", "destroy", "add", "remove", "info", "desc"}

ASSUME GroupsAssumption ==
    /\ Host \notin Others /\ IsFiniteSet(Others)
    /\ MaxGroups \in Nat /\ MaxOps \in Nat
    /\ \A s \in Scenarios :
          /\ s.present \subseteq Nodes /\ Host \in s.present
          /\ \E k \in 0..MaxGroups : s.groups = 1..k
          /\ s.members \subseteq s.present
          /\ s.kinds \subseteq AllKinds
          /\ s.ops \in 0..MaxOps /\ s.joins \in Nat /\ s.breaks \in Nat

\* In one session nodes join or connections break, not both: what a joining node does when
\* a connection breaks is not modelled here.
ASSUME UnmixedAssumption == \A s \in Scenarios : s.joins = 0 \/ s.breaks = 0

VARIABLES
    scenario,   \* the scenario, which never changes
    sess,       \* "out", "connecting", "connected" (or hosting), "terminated"
    link,       \* link[n][m]: state of n's Peer for m, "none" if there is none, "gone" if
                \* it was erased while DESTROY_PLAYER is still being handled
    high,       \* high[n][m]: packets queued with SEND_PRI_HIGH
    medium,     \* medium[n][m]: packets queued with SEND_PRI_MEDIUM
    wire,       \* wire[n][m]: written by n, not yet read by m
    acks,       \* acks[n][m]: Peer::pending_acks, as the ops that wait
    reading,    \* reading[n][m]: a handler of n that is in an indication
    groups,     \* groups[n]: the ids in n's group table
    player_ids, \* player_ids[n][g]: Group::player_ids
    destroyed,  \* destroyed[n]: destroyed_groups
    threads,    \* the detached threads of local operations
    op,         \* the calls made so far
    next_id,    \* the next group id at the host
    info,       \* info[n][p]: what n knows of p's name and data
    desc,       \* desc[n]: the application description
    cut,        \* connections that are broken or closed, as pairs of nodes
    fault,      \* a null or deleted object was used
    told,       \* history: CREATE_GROUP and DESTROY_GROUP indicated
    performed,  \* history: requests their target carried out
    dropped,    \* history: <<sender, receiver, op>> of packets a handler refused
    early       \* history: nodes that changed a membership while connecting

tables == <<groups, player_ids, destroyed, told>>
queues == <<high, medium>>
facts == <<info, desc, next_id>>
history == <<performed, dropped, early>>
vars == <<scenario, sess, link, queues, wire, acks, reading, tables, threads, op, facts,
          cut, fault, history>>

------------------------------------------------------------------------------
(* Packets and queues.                                                      *)

\* cb is what the callback of the send does: nothing, count down the op's
\* `pending', or register the ack of the op.
Packet(t, g, o, cb) ==
    [t |-> t, g |-> g, o |-> o, cb |-> cb, r |-> "ok", s |-> {}, p |-> {}, v |-> 0, d |-> 0]

AckPacket(o, r, g) == [Packet("ack", g, o, "none") EXCEPT !.r = r]

To(m, q) == [x \in Nodes |-> IF x = m THEN q ELSE <<>>]

Both(f, h) == [x \in Nodes |-> f[x] \o h[x]]

\* PS_CONNECTED; it stays so while peer_destroy() fails the acks.
Connected(n, m) == link[n][m] \in {"connected", "failing"}

PeersOf(n) == {m \in Nodes : Connected(n, m)}

Broadcast(n, packet) == [x \in Nodes |-> IF x \in PeersOf(n) THEN <<packet>> ELSE <<>>]

\* Fault: packets are queued at the front.
QueuedFront(q, n, f) == [q EXCEPT ![n] = [x \in Nodes |-> f[x] \o @[x]]]

\* SendQueue::send(), at the end of the list of its priority.
Queued(q, n, f) == [q EXCEPT ![n] = [x \in Nodes |-> @[x] \o f[x]]]

------------------------------------------------------------------------------
(* Operations.                                                              *)

NoOp == [kind |-> "none", node |-> Host, g |-> 0, target |-> Host, pending |-> 0,
         result |-> "ok", lost |-> 0]

Issued(o) == op[o].kind # "none"
Done(o) == Issued(o) /\ op[o].pending = 0
NextOp(o) == ~Issued(o) /\ \A x \in OpIds : x < o => Issued(x)

\* complete() of the group operations and op_finished_cb() of SetPeerInfo(): of
\* the former the last result counts, of the latter the first error.
Settled(x, r) ==
    [x EXCEPT !.pending = @ - 1,
              !.result = IF x.kind = "info" /\ @ # "ok" THEN @ ELSE r]

Settle(ops, S, r) == [o \in OpIds |-> IF o \in S THEN Settled(ops[o], r) ELSE ops[o]]

Start(o, k, n, g, m, pending) ==
    op' = [op EXCEPT ![o] = [kind |-> k, node |-> n, g |-> g, target |-> m,
                             pending |-> pending, result |-> "ok", lost |-> 0]]

Thread(n, k, o, g) == [n |-> n, k |-> k, o |-> o, g |-> g]

\* create_the_group(): the local table, GROUP_CREATE to every peer, and a thread
\* that indicates CREATE_GROUP.
CreateTheGroup(n, o, g) ==
    /\ groups' = [groups EXCEPT ![n] = @ \cup {g}]
    /\ high' = Queued(high, n, Broadcast(n, Packet("create", g, o, "count")))
    /\ threads' = threads \cup {Thread(n, "create", o, g)}

MayCall(n, k, o) ==
    /\ ~fault /\ sess[n] = "connected"
    /\ k \in scenario.kinds /\ o <= scenario.ops /\ NextOp(o)

\* Bound: an id for every CreateGroup().
IdLeft == next_id + Cardinality({x \in OpIds : op[x].kind = "create" /\ op[x].g = 0}) <= MaxGroups

\* CreateGroup() of the host, which takes the next id itself.
CreateGroup(n, o) ==
    /\ MayCall(n, "create", o) /\ n = Host /\ IdLeft
    /\ next_id' = next_id + 1
    /\ CreateTheGroup(n, o, next_id)
    /\ Start(o, "create", n, next_id, n, 1 + Cardinality(PeersOf(n)))
    /\ UNCHANGED <<scenario, sess, link, medium, wire, acks, reading, player_ids, destroyed, told,
                   info, desc, cut, fault, history>>

\* CreateGroup() of another node asks the host for an id; the assertion is that
\* the host is a peer.
CreateGroupRemote(n, o) ==
    /\ MayCall(n, "create", o) /\ n # Host /\ IdLeft
    /\ fault' = (link[n][Host] \in {"none", "gone"})
    /\ high' = Queued(high, n, To(Host, <<Packet("allocate", 0, o, "register")>>))
    /\ Start(o, "create", n, 0, Host, 1)
    /\ UNCHANGED <<scenario, sess, link, medium, wire, acks, reading, tables, threads, facts, cut, history>>

DestroyGroup(n, o, g) ==
    /\ MayCall(n, "destroy", o)
    /\ g \in groups[n] \ destroyed[n]
    /\ destroyed' = [destroyed EXCEPT ![n] = @ \cup {g}]
    /\ high' = Queued(high, n, Broadcast(n, Packet("destroy", g, o, "count")))
    /\ threads' = threads \cup {Thread(n, "destroy", o, g)}
    /\ Start(o, "destroy", n, g, n, 1 + Cardinality(PeersOf(n)))
    /\ UNCHANGED <<scenario, sess, link, medium, wire, acks, reading, groups, player_ids, told,
                   facts, cut, fault, history>>

\* AddPlayerToGroup() of the local player.
AddSelf(n, o, g) ==
    /\ MayCall(n, "add", o)
    /\ g \in groups[n] \ destroyed[n] /\ n \notin player_ids[n][g]
    /\ high' = Queued(high, n, Broadcast(n, Packet("joined", g, o, "count")))
    /\ player_ids' = [player_ids EXCEPT ![n][g] = @ \cup {n}]
    /\ threads' = threads \cup {Thread(n, "add", o, g)}
    /\ Start(o, "add", n, g, n, 1 + Cardinality(PeersOf(n)))
    /\ UNCHANGED <<scenario, sess, link, medium, wire, acks, reading, groups, destroyed, told,
                   facts, cut, fault, history>>

RemoveSelf(n, o, g) ==
    /\ MayCall(n, "remove", o)
    /\ g \in groups[n] /\ n \in player_ids[n][g]
    /\ high' = Queued(high, n, Broadcast(n, Packet("left", g, o, "count")))
    /\ player_ids' = [player_ids EXCEPT ![n][g] = @ \ {n}]
    /\ threads' = threads \cup {Thread(n, "remove", o, g)}
    /\ Start(o, "remove", n, g, n, 1 + Cardinality(PeersOf(n)))
    /\ UNCHANGED <<scenario, sess, link, medium, wire, acks, reading, groups, destroyed, told,
                   facts, cut, fault, history>>

\* player_to_peer_id has the player until its DESTROY_PLAYER has returned, but the
\* Peer may be erased before.
Addressable(n, m) == link[n][m] \in {"connected", "failing", "closing"}

\* AddPlayerToGroup() of a remote player: a request, to be acknowledged.
AddRemote(n, o, g, m) ==
    /\ MayCall(n, "add", o) /\ Addressable(n, m)
    /\ g \in groups[n] \ destroyed[n] /\ m \notin player_ids[n][g]
    /\ high' = Queued(high, n, To(m, <<Packet("join", g, o, "register")>>))
    /\ Start(o, "add", n, g, m, 1)
    /\ UNCHANGED <<scenario, sess, link, medium, wire, acks, reading, tables, threads, facts, cut,
                   fault, history>>

RemoveRemote(n, o, g, m) ==
    /\ MayCall(n, "remove", o) /\ Addressable(n, m)
    /\ g \in groups[n] /\ m \in player_ids[n][g]
    /\ high' = Queued(high, n, To(m, <<Packet("leave", g, o, "register")>>))
    /\ Start(o, "remove", n, g, m, 1)
    /\ UNCHANGED <<scenario, sess, link, medium, wire, acks, reading, tables, threads, facts, cut,
                   fault, history>>

\* SetPeerInfo(): a packet to every peer, each to be acknowledged, and PEER_INFO
\* for ourselves on the calling thread.
SetPeerInfo(n, o) ==
    /\ MayCall(n, "info", o)
    /\ info' = [info EXCEPT ![n][n] = o]
    /\ medium' = Queued(medium, n, Broadcast(n, [Packet("info", 0, o, "register") EXCEPT !.v = o]))
    /\ threads' = threads \cup {Thread(n, "info", o, 0)}
    /\ Start(o, "info", n, 0, n, 1 + Cardinality(PeersOf(n)))
    /\ UNCHANGED <<scenario, sess, link, high, wire, acks, reading, tables, desc, next_id, cut,
                   fault, history>>

\* The description goes out with the priority of CONNECT_HOST_OK.
Announce(packet) ==
    /\ medium' = Queued(medium, Host, Broadcast(Host, packet))
    /\ high' = high

\* SetApplicationDesc(): the host's, and nobody waits for the peers.
SetApplicationDesc(o) ==
    /\ MayCall(Host, "desc", o)
    /\ desc' = [desc EXCEPT ![Host] = o]
    /\ Announce([Packet("desc", 0, o, "none") EXCEPT !.d = o])
    /\ Start(o, "desc", Host, 0, Host, 0)
    /\ UNCHANGED <<scenario, sess, link, wire, acks, reading, tables, threads, info, next_id,
                   cut, fault, history>>

\* The detached thread of CreateGroup(), AddPlayerToGroup() and
\* RemovePlayerFromGroup(), and the tail of SetPeerInfo(): the indication, then
\* complete().
ThreadTells(th) ==
    /\ ~fault /\ th \in threads /\ th.k \in {"create", "add", "remove", "info"}
    /\ threads' = threads \ {th}
    /\ told' = IF th.k = "create" THEN [told EXCEPT ![th.n][th.g][1] = @ + 1] ELSE told
    /\ op' = Settle(op, {th.o}, "ok")
    /\ UNCHANGED <<scenario, sess, link, queues, wire, acks, reading, groups, player_ids, destroyed,
                   facts, cut, fault, history>>

\* The detached thread of DestroyGroup() up to DESTROY_GROUP.
ThreadDestroys(th) ==
    /\ ~fault /\ th \in threads /\ th.k = "destroy"
    /\ IF th.g \in groups[th.n]
         THEN /\ threads' = (threads \ {th}) \cup {[th EXCEPT !.k = "destroying"]}
              /\ told' = [told EXCEPT ![th.n][th.g][2] = @ + 1]
              /\ op' = op
         ELSE /\ threads' = threads \ {th}
              /\ told' = told
              /\ op' = Settle(op, {th.o}, "ok")
    /\ UNCHANGED <<scenario, sess, link, queues, wire, acks, reading, groups, player_ids, destroyed,
                   facts, cut, fault, history>>

EraseGroup(n, g) ==
    /\ groups' = [groups EXCEPT ![n] = @ \ {g}]
    /\ player_ids' = [player_ids EXCEPT ![n][g] = {}]

\* ... and after it.
ThreadErases(th) ==
    /\ ~fault /\ th \in threads /\ th.k = "destroying"
    /\ threads' = threads \ {th}
    /\ EraseGroup(th.n, th.g)
    /\ op' = Settle(op, {th.o}, "ok")
    /\ UNCHANGED <<scenario, sess, link, queues, wire, acks, reading, destroyed, told,
                   facts, cut, fault, history>>

------------------------------------------------------------------------------
(* Writing.  io_peer_send() takes the oldest packet of the highest priority *)
(* and runs its callback with S_OK while it still has the lock.             *)

\* Fault: nobody waits for the acks.
RegisteredNever(n, m, packet) == acks

\* register_ack(), in the callback of a request that has been written.
Registered(n, m, packet) ==
    IF packet.cb = "register" THEN [acks EXCEPT ![n][m] = @ \cup {packet.o}] ELSE acks

Write(n, m) ==
    LET q == high[n][m] \o medium[n][m]
        packet == Head(q)
    IN /\ ~fault /\ link[n][m] \in {"requesting", "connected", "failing"} /\ q # <<>>
       /\ IF high[n][m] # <<>>
            THEN high' = [high EXCEPT ![n][m] = Tail(@)] /\ medium' = medium
            ELSE medium' = [medium EXCEPT ![n][m] = Tail(@)] /\ high' = high
       /\ wire' = IF {n, m} \in cut THEN wire ELSE [wire EXCEPT ![n][m] = Append(@, packet)]
       /\ op' = IF packet.cb = "count" THEN Settle(op, {packet.o}, "ok") ELSE op
       /\ acks' = Registered(n, m, packet)
       /\ UNCHANGED <<scenario, sess, link, reading, tables, threads, facts, cut, fault, history>>

------------------------------------------------------------------------------
(* The handlers of group packets.                                           *)

Idle == [at |-> "idle", g |-> 0, o |-> 0]

\* n reads a packet of type t from m.
Take(n, m, t) ==
    /\ ~fault /\ reading[n][m] = Idle /\ wire[m][n] # <<>>
    /\ Head(wire[m][n]).t = t
    /\ wire' = [wire EXCEPT ![m][n] = Tail(@)]

Received(n, m) == Head(wire[m][n])

\* Every handler but those of GROUP_CREATE, GROUP_DESTROY and ACK requires
\* PS_CONNECTED, and logs and forgets the packet otherwise.
HandleUnexpected(n, m) ==
    /\ link[n][m] = "requesting"
    /\ \E t \in {"allocate", "join", "joined", "leave", "left", "info", "desc"} : Take(n, m, t)
    /\ dropped' = dropped \cup {<<m, n, Received(n, m).o>>}
    /\ UNCHANGED <<scenario, sess, link, queues, acks, reading, tables, threads, op, facts, cut, fault,
                   performed, early>>

\* Fault: only a success is acknowledged.
AcknowledgeOkOnly(n, m, r, g) ==
    high' = IF r = "ok" THEN Queued(high, n, To(m, <<AckPacket(Received(n, m).o, r, g)>>)) ELSE high

\* send_ack() to m.
Acknowledge(n, m, r, g) ==
    high' = Queued(high, n, To(m, <<AckPacket(Received(n, m).o, r, g)>>))

HandleGroupAllocate(n, m) ==
    /\ Connected(n, m) /\ Take(n, m, "allocate")
    /\ next_id' = next_id + 1
    /\ Acknowledge(n, m, "ok", next_id)
    /\ UNCHANGED <<scenario, sess, link, medium, acks, reading, tables, threads, op, info, desc, cut,
                   fault, history>>

\* Fault: a group that was destroyed is not remembered.
IsOldAlive(n, g) == g \in groups[n]

\* GROUP_CREATE is ignored for a group that exists or has existed.
IsOld(n, g) == g \in groups[n] \cup destroyed[n]

HandleGroupCreate(n, m) ==
    LET g == Received(n, m).g
    IN /\ link[n][m] \in {"requesting", "connected", "failing"} /\ Take(n, m, "create")
       /\ IF IsOld(n, g) THEN UNCHANGED <<groups, told>>
            ELSE /\ groups' = [groups EXCEPT ![n] = @ \cup {g}]
                 /\ told' = [told EXCEPT ![n][g][1] = @ + 1]
       /\ UNCHANGED <<scenario, sess, link, queues, acks, reading, player_ids, destroyed, threads, op,
                      facts, cut, fault, history>>

\* Fault: two destroyers of one group both indicate it.
MustIndicateTwice(n, g) == g \in groups[n]

\* Only the first to destroy a group indicates it.
MustIndicate(n, g) == g \in groups[n] \ destroyed[n]

HandleGroupDestroy(n, m) ==
    LET g == Received(n, m).g
    IN /\ link[n][m] \in {"requesting", "connected", "failing"} /\ Take(n, m, "destroy")
       /\ destroyed' = [destroyed EXCEPT ![n] = @ \cup {g}]
       /\ IF ~MustIndicate(n, g) THEN UNCHANGED <<told, reading>>
            ELSE /\ told' = [told EXCEPT ![n][g][2] = @ + 1]
                 /\ reading' = [reading EXCEPT ![n][m] = [at |-> "destroying", g |-> g, o |-> 0]]
       /\ UNCHANGED <<scenario, sess, link, queues, acks, groups, player_ids, threads, op, facts, cut,
                      fault, history>>

\* DESTROY_GROUP has returned, to handle_group_destroy() or group_destroy_all().
GroupDestroyed(n, m) ==
    /\ ~fault /\ reading[n][m].at = "destroying"
    /\ EraseGroup(n, reading[n][m].g)
    /\ reading' = [reading EXCEPT ![n][m] = Idle]
    /\ UNCHANGED <<scenario, sess, link, queues, wire, acks, destroyed, told, threads, op, facts, cut,
                   fault, history>>

\* A group that is not known yet: it is created and indicated.
CreateUnknown(n, m, at) ==
    LET packet == Received(n, m)
    IN /\ groups' = [groups EXCEPT ![n] = @ \cup {packet.g}]
       /\ told' = [told EXCEPT ![n][packet.g][1] = @ + 1]
       /\ reading' = [reading EXCEPT ![n][m] = [at |-> at, g |-> packet.g, o |-> packet.o]]

JoinRefusal(n, g) == IF g \in destroyed[n] THEN "invalidgroup" ELSE "alreadyingroup"

\* Fault: the request is acknowledged before the others are told.
JoinAnswerAckFirst(n, m, o, g) ==
    Both(To(m, <<AckPacket(o, "ok", 0)>>), Broadcast(n, Packet("joined", g, 0, "none")))

\* History: the peers n is still connecting to will not hear of its membership.
Hasty(n) == IF sess[n] = "connecting" THEN early \cup {n} ELSE early

\* GROUP_JOINED to every peer and then the ack to the one that asked.
JoinAnswer(n, m, o, g) ==
    Both(Broadcast(n, Packet("joined", g, 0, "none")), To(m, <<AckPacket(o, "ok", 0)>>))

HandleGroupJoin(n, m) ==
    LET packet == Received(n, m)
        g == packet.g
    IN /\ Connected(n, m) /\ Take(n, m, "join")
       /\ \/ /\ g \in destroyed[n] \/ (g \in groups[n] /\ n \in player_ids[n][g])
             /\ Acknowledge(n, m, JoinRefusal(n, g), 0)
             /\ UNCHANGED <<groups, player_ids, told, reading, performed, early>>
          \/ /\ g \notin destroyed[n] \cup groups[n]
             /\ CreateUnknown(n, m, "join")
             /\ UNCHANGED <<high, player_ids, performed, early>>
          \/ /\ g \in groups[n] \ destroyed[n] /\ n \notin player_ids[n][g]
             /\ high' = Queued(high, n, JoinAnswer(n, m, packet.o, g))
             /\ player_ids' = [player_ids EXCEPT ![n][g] = @ \cup {n}]
             /\ performed' = performed \cup {packet.o}
             /\ early' = Hasty(n)
             /\ UNCHANGED <<groups, told, reading>>
       /\ UNCHANGED <<scenario, sess, link, medium, acks, destroyed, threads, op, facts, cut, fault, dropped>>

HandleGroupJoined(n, m) ==
    LET g == Received(n, m).g
    IN /\ Connected(n, m) /\ Take(n, m, "joined")
       /\ \/ /\ g \notin destroyed[n] \cup groups[n]
             /\ CreateUnknown(n, m, "joined")
             /\ UNCHANGED player_ids
          \/ /\ g \in destroyed[n] \cup groups[n]
             /\ player_ids' = IF g \in destroyed[n] THEN player_ids
                                ELSE [player_ids EXCEPT ![n][g] = @ \cup {m}]
             /\ UNCHANGED <<groups, told, reading>>
       /\ UNCHANGED <<scenario, sess, link, queues, acks, destroyed, threads, op, facts, cut, fault, history>>

\* CREATE_GROUP has returned to handle_group_join() or handle_group_joined().  The
\* group they look up again is a second variable that hides the first, so when the
\* group is still there the null pointer of the first is used; when it is gone
\* handle_group_join() answers through a Peer it has not looked up again.
UnknownCreated(n, m) ==
    LET cont == reading[n][m]
    IN /\ ~fault /\ cont.at \in {"join", "joined"}
       /\ reading' = [reading EXCEPT ![n][m] = Idle]
       /\ fault' = (cont.g \in groups[n] \/ (cont.at = "join" /\ link[n][m] \in {"none", "gone"}))
       /\ high' = IF fault' \/ cont.at = "joined" THEN high
                    ELSE Queued(high, n, To(m, <<AckPacket(cont.o, "invalidgroup", 0)>>))
       /\ UNCHANGED <<scenario, sess, link, medium, wire, acks, tables, threads, op, facts, cut, history>>

LeaveRefusal(n, g) == IF g \in destroyed[n] THEN "invalidgroup" ELSE "notingroup"

\* Fault: only the node that asked is told.
LeaveAnswerQuiet(n, m, o, g) == To(m, <<Packet("left", g, 0, "none"), AckPacket(o, "ok", 0)>>)

LeaveAnswer(n, m, o, g) ==
    Both(Broadcast(n, Packet("left", g, 0, "none")), To(m, <<AckPacket(o, "ok", 0)>>))

\* A request about a group that is not known is not answered at all.
HandleGroupLeave(n, m) ==
    LET packet == Received(n, m)
        g == packet.g
    IN /\ Connected(n, m) /\ Take(n, m, "leave")
       /\ \/ /\ g \notin groups[n] \ destroyed[n] \/ n \notin player_ids[n][g]
             /\ IF g \in groups[n] \cup destroyed[n]
                  THEN Acknowledge(n, m, LeaveRefusal(n, g), 0) /\ dropped' = dropped
                  ELSE high' = high /\ dropped' = dropped \cup {<<m, n, packet.o>>}
             /\ UNCHANGED <<player_ids, performed, early>>
          \/ /\ g \in groups[n] \ destroyed[n] /\ n \in player_ids[n][g]
             /\ high' = Queued(high, n, LeaveAnswer(n, m, packet.o, g))
             /\ player_ids' = [player_ids EXCEPT ![n][g] = @ \ {n}]
             /\ performed' = performed \cup {packet.o}
             /\ early' = Hasty(n)
             /\ UNCHANGED dropped
       /\ UNCHANGED <<scenario, sess, link, medium, acks, reading, groups, destroyed, told, threads, op,
                      facts, cut, fault>>

HandleGroupLeft(n, m) ==
    LET g == Received(n, m).g
    IN /\ Connected(n, m) /\ Take(n, m, "left")
       /\ player_ids' = IF g \in groups[n] \ destroyed[n]
                          THEN [player_ids EXCEPT ![n][g] = @ \ {m}] ELSE player_ids
       /\ UNCHANGED <<scenario, sess, link, queues, acks, reading, groups, destroyed, told, threads, op,
                      facts, cut, fault, history>>

\* handle_ack(): the callback of an op that waits for it.
HandleAck(n, m) ==
    LET packet == Received(n, m)
        o == packet.o
        creates == o \in acks[n][m] /\ op[o].kind = "create" /\ packet.r = "ok"
    IN /\ link[n][m] \in {"requesting", "connected", "failing"} /\ Take(n, m, "ack")
       /\ acks' = [acks EXCEPT ![n][m] = @ \ {o}]
       /\ \/ /\ creates
             /\ CreateTheGroup(n, o, packet.g)
             /\ op' = [op EXCEPT ![o].g = packet.g, ![o].pending = @ + Cardinality(PeersOf(n))]
          \/ /\ ~creates
             /\ op' = IF o \in acks[n][m] THEN Settle(op, {o}, packet.r) ELSE op
             /\ UNCHANGED <<groups, high, threads>>
       /\ UNCHANGED <<scenario, sess, link, medium, reading, player_ids, destroyed, told, facts, cut,
                      fault, history>>

\* handle_playerinfo(): the ack is queued before PEER_INFO is indicated.
HandlePlayerinfo(n, m) ==
    /\ Connected(n, m) /\ Take(n, m, "info")
    /\ info' = [info EXCEPT ![n][m] = Received(n, m).v]
    /\ Acknowledge(n, m, "ok", 0)
    /\ UNCHANGED <<scenario, sess, link, medium, acks, reading, tables, threads, op, desc, next_id, cut,
                   fault, history>>

HandleAppdesc(n, m) ==
    /\ Connected(n, m) /\ Take(n, m, "desc")
    /\ desc' = IF m = Host THEN [desc EXCEPT ![n] = Received(n, m).d] ELSE desc
    /\ UNCHANGED <<scenario, sess, link, queues, acks, reading, tables, threads, op, info, next_id, cut,
                   fault, history>>

------------------------------------------------------------------------------
(* Joining, as far as groups and updates are concerned.                     *)

SeqOf(S) == CHOOSE q \in [1..Cardinality(S) -> S] : \A i, j \in DOMAIN q : i < j => q[i] < q[j]

\* What a member sends a newcomer before it welcomes it: GROUP_DESTROY for every
\* group that was destroyed, GROUP_CREATE for every other one.
Briefing(n) ==
    LET gone == SeqOf(destroyed[n])
        known == SeqOf(groups[n] \ destroyed[n])
    IN [i \in DOMAIN gone |-> Packet("destroy", gone[i], 0, "none")]
         \o [i \in DOMAIN known |-> Packet("create", known[i], 0, "none")]

\* CONNECT_HOST_OK or CONNECT_PEER_OK: the groups the sender is in, the peers to
\* connect to, and the sender's info.
Welcome(n, m, t) ==
    [Packet(t, 0, 0, "none") EXCEPT
        !.s = {g \in groups[n] \ destroyed[n] : n \in player_ids[n][g]},
        !.p = PeersOf(n) \ {m}, !.v = info[n][n], !.d = desc[n]]

Greeting(n, t) == <<[Packet(t, 0, 0, "none") EXCEPT !.v = info[n][n]]>>

\* Connect(), up to HOST_CONNECT_REQUEST.
Connect(n) ==
    /\ ~fault /\ sess[n] = "out" /\ sess[Host] = "connected"
    /\ Cardinality({m \in Nodes : m \notin scenario.present /\ sess[m] # "out"}) < scenario.joins
    /\ sess' = [sess EXCEPT ![n] = "connecting"]
    /\ link' = [link EXCEPT ![n][Host] = "requesting"]
    /\ medium' = Queued(medium, n, To(Host, Greeting(n, "request")))
    /\ UNCHANGED <<scenario, high, wire, acks, reading, tables, threads, op, facts, cut, fault, history>>

\* handle_host_connect_request() once the application has accepted.  The briefing
\* is queued with high priority, CONNECT_HOST_OK with medium.
HandleHostConnectRequest(n, m) ==
    /\ link[n][m] = "none" /\ Take(n, m, "request")
    /\ link' = [link EXCEPT ![n][m] = "connected"]
    /\ info' = [info EXCEPT ![n][m] = Received(n, m).v]
    /\ high' = Queued(high, n, To(m, Briefing(n)))
    /\ medium' = Queued(medium, n, To(m, <<Welcome(n, m, "host_ok")>>))
    /\ UNCHANGED <<scenario, sess, acks, reading, tables, threads, op, desc, next_id, cut, fault, history>>

\* The sender of a welcome is put into its groups, those we know of.
Seated(n, m, S) ==
    [player_ids EXCEPT ![n] = [g \in GroupIds |-> IF g \in S \cap (groups[n] \ destroyed[n])
                                                    THEN @[g] \cup {m} ELSE @[g]]]

\* connect_check(): nobody is left to answer.
Complete(n, l) == [sess EXCEPT ![n] = IF \A m \in Nodes : l[m] # "requesting" THEN "connected" ELSE @]

HandleHostConnectOk(n, m) ==
    LET packet == Received(n, m)
    IN /\ link[n][m] = "requesting" /\ Take(n, m, "host_ok")
       /\ link' = [link EXCEPT ![n] = [x \in Nodes |-> IF x = m THEN "connected"
                                          ELSE IF x \in packet.p THEN "requesting" ELSE @[x]]]
       /\ sess' = Complete(n, link'[n])
       /\ player_ids' = Seated(n, m, packet.s)
       /\ info' = [info EXCEPT ![n][m] = packet.v]
       /\ desc' = [desc EXCEPT ![n] = packet.d]
       /\ high' = Queued(high, n, [x \in Nodes |-> IF x \in packet.p THEN Greeting(n, "connect") ELSE <<>>])
       /\ UNCHANGED <<scenario, medium, acks, reading, groups, destroyed, told, threads, op, next_id,
                      cut, fault, history>>

\* CONNECT_PEER_OK follows the briefing with the same priority.
WelcomePeer(n, m) ==
    /\ high' = Queued(high, n, To(m, Append(Briefing(n), Welcome(n, m, "peer_ok"))))
    /\ medium' = medium

HandleConnectPeer(n, m) ==
    /\ link[n][m] = "none" /\ Take(n, m, "connect")
    /\ link' = [link EXCEPT ![n][m] = "connected"]
    /\ info' = [info EXCEPT ![n][m] = Received(n, m).v]
    /\ WelcomePeer(n, m)
    /\ UNCHANGED <<scenario, sess, acks, reading, tables, threads, op, desc, next_id, cut, fault, history>>

HandleConnectPeerOk(n, m) ==
    LET packet == Received(n, m)
    IN /\ link[n][m] = "requesting" /\ Take(n, m, "peer_ok")
       /\ link' = [link EXCEPT ![n][m] = "connected"]
       /\ sess' = Complete(n, link'[n])
       /\ player_ids' = Seated(n, m, packet.s)
       /\ info' = [info EXCEPT ![n][m] = packet.v]
       /\ UNCHANGED <<scenario, queues, acks, reading, groups, destroyed, told, threads, op, desc,
                      next_id, cut, fault, history>>

------------------------------------------------------------------------------
(* Loss of a connection.  Joining and losing are not mixed in this module.  *)

Break(n, m) ==
    /\ ~fault /\ {n, m} \notin cut /\ Cardinality(cut) < scenario.breaks
    /\ link[n][m] = "connected" /\ link[m][n] = "connected"
    /\ \A x \in Nodes : sess[x] # "connecting"
    /\ cut' = cut \cup {{n, m}}
    /\ UNCHANGED <<scenario, sess, link, queues, wire, acks, reading, tables, threads, op, facts, fault, history>>

PacketsOf(n, m) == LET q == high[n][m] \o medium[n][m] IN {q[i] : i \in DOMAIN q}
OpsWith(S, cb) == {x.o : x \in {y \in S : y.cb = cb}}

\* PS_CLOSING, and dispatch_destroy_player() takes the player out of its groups.
Bury(n, m) ==
    /\ link' = [link EXCEPT ![n][m] = "closing"]
    /\ player_ids' = [player_ids EXCEPT ![n] = [g \in GroupIds |-> @[g] \ {m}]]

\* Fails the next ack, or goes on to PS_CLOSING when there is none; ops is `op'
\* with the sends already failed.
FailAck(n, m, ops) ==
    \/ /\ acks[n][m] = {}
       /\ Bury(n, m)
       /\ op' = ops /\ acks' = acks
    \/ \E o \in acks[n][m] :
          /\ acks' = [acks EXCEPT ![n][m] = @ \ {o}]
          /\ op' = Settle(ops, {o}, "lost")
          /\ link' = [link EXCEPT ![n][m] = "failing"]
          /\ player_ids' = player_ids

\* The callbacks of what is flushed from the queue.
Flushed(n, m) == Settle(Settle(op, OpsWith(PacketsOf(n, m), "count"), "ok"),
                        OpsWith(PacketsOf(n, m), "register"), "lost")

\* A worker that meets the broken connection calls peer_destroy(), whoever else has done so.
MayDestroy(n, m) == ~fault /\ ({n, m} \in cut \/ sess[n] = "terminated")

\* peer_destroy(): the queue is flushed, then the acks are failed one by one with
\* the lock released for each completion.  Another worker that calls it meanwhile
\* flushes what was queued since.
PeerDestroy(n, m) ==
    /\ MayDestroy(n, m) /\ Connected(n, m)
    /\ FailAck(n, m, Flushed(n, m))
    /\ high' = [high EXCEPT ![n][m] = <<>>]
    /\ medium' = [medium EXCEPT ![n][m] = <<>>]
    /\ UNCHANGED <<scenario, sess, wire, reading, groups, destroyed, told, threads, facts, cut, fault, history>>

PeerDestroyAcks(n, m) ==
    /\ ~fault /\ link[n][m] = "failing"
    /\ FailAck(n, m, op)
    /\ UNCHANGED <<scenario, sess, queues, wire, reading, groups, destroyed, told, threads, facts, cut,
                   fault, history>>

\* ... or while DESTROY_PLAYER is handled; no ack is waited for by then.
PeerDestroyAgain(n, m) ==
    /\ MayDestroy(n, m) /\ link[n][m] = "closing" /\ PacketsOf(n, m) # {}
    /\ op' = Flushed(n, m)
    /\ high' = [high EXCEPT ![n][m] = <<>>]
    /\ medium' = [medium EXCEPT ![n][m] = <<>>]
    /\ UNCHANGED <<scenario, sess, link, wire, acks, reading, tables, threads, facts, cut, fault, history>>

\* The Peer is deleted.  What was queued since the flush is deleted with it and its
\* callbacks never run.
Erase(n, m, state) ==
    LET unsent == PacketsOf(n, m)
        stranded == OpsWith(unsent, "count") \cup OpsWith(unsent, "register")
    IN /\ ~fault /\ link[n][m] = "closing"
       /\ link' = [link EXCEPT ![n][m] = state]
       /\ op' = [o \in OpIds |-> IF o \in stranded THEN [op[o] EXCEPT !.lost = @ + 1] ELSE op[o]]
       /\ high' = [high EXCEPT ![n][m] = <<>>]
       /\ medium' = [medium EXCEPT ![n][m] = <<>>]
       /\ wire' = [wire EXCEPT ![m][n] = <<>>]
       /\ cut' = cut \cup {{n, m}}
       /\ UNCHANGED <<scenario, acks, reading, groups, destroyed, told, threads, facts, fault, history>>

\* DESTROY_PLAYER has returned: player_to_peer_id is cleared, and a lost host ends
\* the session.
PlayerGone(n, m) ==
    IF m = Host /\ sess[n] = "connected"
      THEN /\ sess' = [sess EXCEPT ![n] = "terminated"]
           /\ player_ids' = [player_ids EXCEPT ![n] = [g \in GroupIds |-> @[g] \ {n}]]
      ELSE UNCHANGED <<sess, player_ids>>

\* The worker that raised DESTROY_PLAYER goes on to erase the Peer ...
PeerErase(n, m) == Erase(n, m, "none") /\ PlayerGone(n, m)

\* ... unless another one, which had to do nothing more for PS_CLOSING, did so before ...
PeerEraseEarly(n, m) ==
    /\ MayDestroy(n, m)
    /\ Erase(n, m, "gone")
    /\ UNCHANGED <<sess, player_ids>>

\* ... and then it finds the Peer gone.
PeerErased(n, m) ==
    /\ ~fault /\ link[n][m] = "gone"
    /\ link' = [link EXCEPT ![n][m] = "none"]
    /\ PlayerGone(n, m)
    /\ UNCHANGED <<scenario, queues, wire, acks, reading, groups, destroyed, told, threads, op, facts,
                   cut, fault, history>>

\* group_destroy_all() after the last peer is gone.
GroupDestroyAll(n) ==
    /\ ~fault /\ sess[n] = "terminated" /\ \A m \in Nodes : link[n][m] \in {"none", "gone"}
    /\ reading[n][n] = Idle
    /\ \E g \in groups[n] :
          \/ /\ g \in destroyed[n]
             /\ EraseGroup(n, g)
             /\ UNCHANGED <<destroyed, told, reading>>
          \/ /\ g \notin destroyed[n]
             /\ destroyed' = [destroyed EXCEPT ![n] = @ \cup {g}]
             /\ told' = [told EXCEPT ![n][g][2] = @ + 1]
             /\ reading' = [reading EXCEPT ![n][n] = [at |-> "destroying", g |-> g, o |-> 0]]
             /\ UNCHANGED <<groups, player_ids>>
    /\ UNCHANGED <<scenario, sess, link, queues, wire, acks, threads, op, facts, cut, fault, history>>

------------------------------------------------------------------------------

Init ==
    \E s \in Scenarios :
       /\ scenario = s
       /\ sess = [n \in Nodes |-> IF n \in s.present THEN "connected" ELSE "out"]
       /\ link = [n \in Nodes |-> [m \in Nodes |->
                     IF {n, m} \subseteq s.present /\ n # m THEN "connected" ELSE "none"]]
       /\ high = [n \in Nodes |-> [m \in Nodes |-> <<>>]]
       /\ medium = high
       /\ wire = high
       /\ acks = [n \in Nodes |-> [m \in Nodes |-> {}]]
       /\ reading = [n \in Nodes |-> [m \in Nodes |-> Idle]]
       /\ groups = [n \in Nodes |-> IF n \in s.present THEN s.groups ELSE {}]
       /\ player_ids = [n \in Nodes |-> [g \in GroupIds |->
                           IF n \in s.present /\ g \in s.groups THEN s.members ELSE {}]]
       /\ destroyed = [n \in Nodes |-> {}]
       /\ threads = {}
       /\ op = [o \in OpIds |-> NoOp]
       /\ next_id = Cardinality(s.groups) + 1
       /\ info = [n \in Nodes |-> [m \in Nodes |-> 0]]
       /\ desc = [n \in Nodes |-> 0]
       /\ cut = {}
       /\ fault = FALSE
       /\ told = [n \in Nodes |-> [g \in GroupIds |->
                     IF n \in s.present /\ g \in s.groups THEN <<1, 0>> ELSE <<0, 0>>]]
       /\ performed = {}
       /\ dropped = {}
       /\ early = {}

Calls ==
    \E o \in OpIds :
       \/ SetApplicationDesc(o)
       \/ \E n \in Nodes :
             \/ CreateGroup(n, o) \/ CreateGroupRemote(n, o) \/ SetPeerInfo(n, o)
             \/ \E g \in GroupIds :
                   \/ DestroyGroup(n, o, g) \/ AddSelf(n, o, g) \/ RemoveSelf(n, o, g)
                   \/ \E m \in Nodes : AddRemote(n, o, g, m) \/ RemoveRemote(n, o, g, m)

Handle(n, m) ==
    \/ HandleUnexpected(n, m) \/ HandleGroupAllocate(n, m) \/ HandleGroupCreate(n, m)
    \/ HandleGroupDestroy(n, m) \/ HandleGroupJoin(n, m) \/ HandleGroupJoined(n, m)
    \/ HandleGroupLeave(n, m) \/ HandleGroupLeft(n, m) \/ HandleAck(n, m)
    \/ HandlePlayerinfo(n, m) \/ HandleAppdesc(n, m)
    \/ HandleHostConnectRequest(n, m) \/ HandleHostConnectOk(n, m)
    \/ HandleConnectPeer(n, m) \/ HandleConnectPeerOk(n, m)
    \/ GroupDestroyed(n, m) \/ UnknownCreated(n, m)

Lose(n, m) ==
    \/ PeerDestroy(n, m) \/ PeerDestroyAcks(n, m) \/ PeerDestroyAgain(n, m)
    \/ PeerErase(n, m) \/ PeerEraseEarly(n, m) \/ PeerErased(n, m)

Threading == \E th \in threads : ThreadTells(th) \/ ThreadDestroys(th) \/ ThreadErases(th)

\* Nothing is under way.
Quiet ==
    /\ threads = {}
    /\ \A n, m \in Nodes :
          /\ high[n][m] = <<>> /\ medium[n][m] = <<>> /\ wire[n][m] = <<>>
          /\ reading[n][m] = Idle
          /\ link[n][m] \notin {"requesting", "failing", "closing", "gone"}
          /\ {n, m} \in cut => link[n][m] = "none"
    /\ \A n \in Nodes : sess[n] = "terminated" => groups[n] = {} /\ \A m \in Nodes : link[n][m] = "none"

\* The bounds are used up, or a process has died.
Finished == (fault \/ Quiet) /\ UNCHANGED vars

\* The threads of the library: what happens without a call, a new member or a failure.
Work ==
    \/ \E n, m \in Nodes : Write(n, m) \/ Handle(n, m) \/ Lose(n, m)
    \/ \E n \in Nodes : GroupDestroyAll(n)
    \/ Threading

Next ==
    \/ Calls
    \/ Work
    \/ \E n, m \in Nodes : Break(n, m)
    \/ \E n \in Nodes : Connect(n)
    \/ Finished

Spec == Init /\ [][Next]_vars

------------------------------------------------------------------------------
(* Properties.                                                              *)

PacketTypes == {"allocate", "create", "destroy", "join", "joined", "leave", "left", "ack",
                "info", "desc", "request", "host_ok", "connect", "peer_ok"}
Results == {"ok", "lost", "invalidgroup", "alreadyingroup", "notingroup"}
Packets == [t : PacketTypes, g : 0..MaxGroups, o : 0..MaxOps, cb : {"none", "count", "register"},
            r : Results, s : SUBSET GroupIds, p : SUBSET Nodes, v : 0..MaxOps, d : 0..MaxOps]

ResultsOf(kind) ==
    {"ok", "lost"} \cup (CASE kind = "add" -> {"invalidgroup", "alreadyingroup"}
                           [] kind = "remove" -> {"invalidgroup", "notingroup"}
                           [] OTHER -> {})

\* Every variable has its type; in particular no counter `pending' ever goes below
\* zero, and an operation completes only with the errors documented for it.
TypeOK ==
    /\ sess \in [Nodes -> {"out", "connecting", "connected", "terminated"}]
    /\ link \in [Nodes -> [Nodes -> {"none", "requesting", "connected", "failing", "closing", "gone"}]]
    /\ \A n, m \in Nodes : \A q \in {high[n][m], medium[n][m], wire[n][m]} :
          \A i \in DOMAIN q : q[i] \in Packets
    /\ acks \in [Nodes -> [Nodes -> SUBSET OpIds]]
    /\ groups \in [Nodes -> SUBSET GroupIds]
    /\ destroyed \in [Nodes -> SUBSET GroupIds]
    /\ player_ids \in [Nodes -> [GroupIds -> SUBSET Nodes]]
    /\ \A o \in OpIds : op[o].pending \in Nat /\ op[o].result \in ResultsOf(op[o].kind)
    /\ next_id \in 1..MaxGroups + 1
    /\ fault \in BOOLEAN

Links == Nodes \X Nodes
Unsent(l) == high[l[1]][l[2]] \o medium[l[1]][l[2]]
Callbacks(o) ==
    UNION {{<<l, i>> : i \in {j \in DOMAIN Unsent(l) : Unsent(l)[j].o = o /\ Unsent(l)[j].cb # "none"}} : l \in Links}
Awaited(o) == {l \in Links : o \in acks[l[1]][l[2]]}

\* The counter of an operation is the number of callbacks, acks and threads that will
\* still count it down, plus the callbacks that were deleted with a Peer.  complete()
\* is reached from writers, handlers, detached threads and peer_destroy() alike.
Accounting ==
    \A o \in OpIds :
       op[o].pending = Cardinality(Callbacks(o)) + Cardinality(Awaited(o))
                         + Cardinality({th \in threads : th.o = o}) + op[o].lost

\* Every operation completes: no behaviour goes on for ever without a new call, and when
\* nothing is under way every operation has completed, unless a callback was
\* deleted with a Peer (peer_destroy()) or its request was refused without an
\* answer (the state checks at the top of the handlers).
QuietMeansDone ==
    Quiet /\ ~fault =>
       \A o \in OpIds : Issued(o) =>
          Done(o) \/ op[o].lost > 0 \/ \E d \in dropped : d[3] = o

Mutual(n, m) == sess[n] = "connected" /\ sess[m] = "connected"
                  /\ link[n][m] = "connected" /\ link[m][n] = "connected"

\* When nothing is under way and no connection was lost, two connected members have
\* the same groups, the same view of each other's memberships and the same
\* application description.  The memberships of a node may differ only where it
\* is the host and a packet of it overtook CONNECT_HOST_OK and was refused, which cannot
\* happen to CONNECT_PEER_OK, and where it changed them itself while it was joining
\* (CONNECT_PEER does not carry them).
Agreement ==
    Quiet /\ ~fault /\ cut = {} =>
       \A n, m \in Nodes : Mutual(n, m) =>
          /\ groups[n] = groups[m] /\ destroyed[n] = destroyed[m]
          /\ desc[n] = desc[m]
          /\ \A g \in groups[n] : (m \in player_ids[n][g]) # (m \in player_ids[m][g]) =>
                m \in early \/ (m = Host /\ \E d \in dropped : d[1] = m /\ d[2] = n)

\* CREATE_GROUP and DESTROY_GROUP are indicated at most once for a group, and
\* when nothing is under way a member has been told of exactly the groups it has.
IndicatedOnce ==
    \A n \in Nodes, g \in GroupIds :
       /\ told[n][g][1] <= 1 /\ told[n][g][2] <= 1
       /\ Quiet /\ ~fault /\ sess[n] = "connected" =>
             told[n][g][1] - told[n][g][2] = IF g \in groups[n] THEN 1 ELSE 0

\* With two members in the session the order of one connection is enough: a group is
\* known, or known to be destroyed, before anybody joins it, and the branch for
\* unknown groups in handle_group_join() and handle_group_joined(), which uses a null
\* pointer or a deleted Peer, is not reached.  It is about the handlers only: with
\* two members, too, CreateGroup() can meet its assert() once the host is lost.
PairsAreSafe ==
    [][fault' /\ Cardinality({n \in Nodes : sess[n] # "out"}) <= 2 =>
          ~ \E n, m \in Nodes : Handle(n, m)]_vars

\* No handler uses a null group or a deleted Peer.  With three members the code
\* does not keep this (handle_group_joined()).
NoFault == ~fault

\* A destroyed group does not come back at a member that has forgotten it.
NoRevival ==
    [][\A n \in Nodes : (destroyed[n] \ groups[n]) \cap groups'[n] = {}]_vars

\* When AddPlayerToGroup(), RemovePlayerFromGroup() or SetPeerInfo() completes with
\* S_OK, the target has carried the request out, the caller already sees the membership
\* it asked for, and the peers have the new info: the answer neither lies nor overtakes
\* its effects.
SeenBeforeDone ==
    [][\A o \in OpIds :
          LET n == op[o].node
              g == op[o].g
              m == op[o].target
          IN op[o].pending > 0 /\ op'[o].pending = 0 /\ op'[o].result = "ok" =>
               /\ op[o].kind \in {"add", "remove"} /\ m # n => o \in performed'
               /\ op[o].kind = "add" /\ m # n => m \in player_ids'[n][g] \/ g \in destroyed'[n]
               /\ op[o].kind = "remove" /\ m # n => m \notin player_ids'[n][g] \/ g \in destroyed'[n]
               /\ op[o].kind = "info" => \A x \in Nodes : Mutual(n, x) => info[x][n] >= o]_vars
==============================================================================
