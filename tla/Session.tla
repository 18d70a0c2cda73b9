------------------------------- MODULE Session -------------------------------
(***************************************************************************)
(* One DirectPlay8Peer as a member of a session: its state, its table of   *)
(* peers, the handlers of the session messages, and the calls that start   *)
(* and end a session.  The rest of the session (host, other members, new   *)
(* connections) is the environment: it sends what a correct remote may     *)
(* send in the state the connection is in, and may go away at any time.    *)
(*                                                                         *)
(* Everything runs under DirectPlay8Peer::lock, which is released while    *)
(* the application handles an indication and while a call waits on a       *)
(* condition variable.  What interleaves are therefore the pieces of code  *)
(* between two such points.  `stack' holds, per thread, the functions it   *)
(* is in, the innermost first; a frame says where its function goes on.    *)
(*                                                                         *)
(* A failing assert() or a use of a deleted Peer sets `fault' and ends the *)
(* behaviour.  The queues of outgoing data are the subject of Sends.       *)
(***************************************************************************)
EXTENDS Naturals, Sequences, FiniteSets, FiniteSetsExt

CONSTANTS
    Workers,        \* threads of the HandleHandlingPool
    Callers,        \* application threads that call into the library
    FirstPeerIds,   \* values next_peer_id, which nothing initialises, may start with
    MaxPeers,       \* bound: number of connections made or accepted
    MaxPlayers,     \* bound: the largest player id
    MaxStarts,      \* bound: number of Host() and Connect() calls
    Calls,          \* the calls the application makes
    ConnectIn,      \* the states in which it dares to call Connect() or Host(),
    CloseIn,        \* and Close()
    Remote,         \* what the other members and the local sockets do
    Null

SessionStates == {"new", "initialised", "hosting", "connecting_to_host", "connecting_to_peers",
                  "connect_failed", "connected", "closing", "terminated"}

PeerStates == {"accepted", "indicating", "connecting_host", "requesting_host",
               "connecting_peer", "requesting_peer", "connected", "closing"}

Players == 1..MaxPlayers

\* struct Peer, as far as the session goes.
PeerRecs == [st : PeerStates, player : Players \cup {Null}, recv_busy : BOOLEAN]

ASSUME SessionAssumption ==
    /\ FirstPeerIds \subseteq Nat /\ FirstPeerIds # {}
    /\ MaxPeers \in Nat /\ MaxStarts \in Nat /\ MaxPlayers \in Nat /\ MaxPlayers >= 2
    /\ Calls \subseteq {"Host", "Connect", "ConnectSync", "Close", "CloseImmediate",
                        "TerminateSession", "DestroyPeer", "CancelConnect"}
    /\ ConnectIn \subseteq SessionStates /\ CloseIn \subseteq SessionStates
    /\ Remote \subseteq {"unreachable", "refuse", "close", "reset", "kick", "terminate", "leave",
                         "message", "flush", "connect", "sockets"}
    /\ Workers \cap Callers = {}
    /\ Null \notin Workers \cup Callers \cup Nat \cup PeerRecs

Threads == Workers \cup Callers
PeerIds == {f + i : f \in FirstPeerIds, i \in 0..(MaxPeers - 1)}

\* The lists of other players that CONNECT_HOST_OK may contain: each player once.
PlayerLists ==
    {s \in UNION {[1..n -> Players \ {1, 2}] : n \in 0..MaxPlayers} : \A i, j \in DOMAIN s : s[i] = s[j] => i = j}

VARIABLES
    lock,               \* owner of DirectPlay8Peer::lock, Null when free
    stack,              \* the functions each thread is in
    state,              \* DirectPlay8Peer::state
    listening,          \* listener_socket is open
    peers,              \* the map of Peers: Null for an id that is not in it
    player_to_peer_id,  \* likewise
    next_peer_id, next_player_id, host_player_id, local_player_id,
    starts,             \* number of Host() and Connect() calls so far
    told,               \* history: what the application knows of each player
    completes,          \* history: CONNECT_COMPLETE indications of this Connect()
    host_ok,            \* history: the last CONNECT_HOST_OK sent
    fault               \* the assertion that failed, or Null

run == <<lock, stack>>
table == <<peers, player_to_peer_id>>
ids == <<next_peer_id, next_player_id, host_player_id, local_player_id>>
hist == <<told, completes, host_ok>>
vars == <<run, state, listening, table, ids, starts, hist, fault>>

------------------------------------------------------------------------------
(* Threads                                                                  *)

Frame(pc, p) == [pc |-> pc, peer |-> p, arg |-> Null]
With(f, x) == [f EXCEPT !.arg = x]

Top(t) == Head(stack[t])
Below(t) == Tail(stack[t])

\* Thread t runs, with the lock, at the place named pc.
Runs(t, pc) == lock = t /\ stack[t] # <<>> /\ Top(t).pc = pc

\* Thread t comes back from the application, or from a wait, and gets the lock.
Resumes(t, pc) == lock = Null /\ stack[t] # <<>> /\ Top(t).pc = pc

Stack(t, s) == stack' = [stack EXCEPT ![t] = s]

\* t goes on at f; it calls f, to go on at `back' after that; it returns; it
\* hands an indication to the application, or waits, to go on at f.
Goto(t, f) == lock' = t /\ Stack(t, <<f>> \o Below(t))
Call(t, f, back) == lock' = t /\ Stack(t, <<f, back>> \o Below(t))
Return(t) == /\ lock' = IF Below(t) = <<>> THEN Null ELSE t
             /\ Stack(t, Below(t))
Unlock(t, f) == lock' = Null /\ Stack(t, <<f>> \o Below(t))

\* An idle thread begins with the frames s.
Begin(t, s) == lock = Null /\ stack[t] = <<>> /\ lock' = t /\ Stack(t, s)

\* assert(c), or a dereference of a Peer that is gone.
Abort(what) == fault' = what /\ UNCHANGED <<run, state, listening, table, ids, starts, hist>>

\* t returns from its function, waking the threads that wait at `place':
\* connect_cv.notify_all() or peer_destroyed.notify_all().
ReturnAndNotify(t, place) ==
    /\ lock' = IF Below(t) = <<>> THEN Null ELSE t
    /\ stack' = [u \in Threads |->
           IF u = t THEN Below(t)
           ELSE IF stack[u] # <<>> /\ Top(u).pc = place
           THEN <<With(Top(u), "notified")>> \o Below(u) ELSE stack[u]]

------------------------------------------------------------------------------
(* The table of peers, and what the application is told.                    *)

Present == {p \in PeerIds : peers[p] # Null}
Known == {x \in Players : player_to_peer_id[x] # Null}

NewPeer(st, x) == [st |-> st, player |-> x, recv_busy |-> FALSE]

\* A player the application has been told of is present; it is told of each
\* player's arrival and departure once.
Create(x) == [told EXCEPT ![x] = IF @ = "present" THEN "twice" ELSE "present"]
Destroy(x) == [told EXCEPT ![x] = IF @ = "present" THEN "gone" ELSE "unheard"]

Connecting == state \in {"connecting_to_host", "connecting_to_peers"}

\* Connections this peer has initiated that have neither completed nor failed.
Outgoing == {p \in Present : peers[p].st \in {"connecting_host", "requesting_host",
                                              "connecting_peer", "requesting_peer"}}

------------------------------------------------------------------------------
(* peer_destroy(peer_id)                                                    *)

\* An outstanding send or ack may be completed first, in the application.
DestroyFlush(t) ==
    /\ Runs(t, "destroy") /\ "flush" \in Remote
    /\ peers[Top(t).peer] # Null /\ peers[Top(t).peer].st \in {"connected", "closing"}
    /\ Unlock(t, Frame("flushcb", Top(t).peer))
    /\ UNCHANGED <<state, listening, table, ids, starts, hist, fault>>

\* Fault: no RENEW_PEER_OR_RETURN() after the callback.
DestroyFlushedUnrenewed(t) ==
    /\ Resumes(t, "flushcb")
    /\ Goto(t, Frame("destroyflushed", Top(t).peer))
    /\ UNCHANGED <<state, listening, table, ids, starts, hist, fault>>

DestroyFlushed(t) ==
    /\ Resumes(t, "flushcb")
    /\ IF peers[Top(t).peer] = Null THEN Return(t)
       ELSE Goto(t, Frame("destroyflushed", Top(t).peer))
    /\ UNCHANGED <<state, listening, table, ids, starts, hist, fault>>

\* Fault: player_to_peer_id is erased before DESTROY_PLAYER, not after.
DestroyPeerStateForgets(t) ==
    /\ Runs(t, "destroy") \/ Runs(t, "destroyflushed")
    /\ LET p == Top(t).peer
       IN  /\ peers[p] # Null
           /\ IF peers[p].st # "connected"
              THEN Goto(t, Frame("erase", p)) /\ UNCHANGED <<table, told>>
              ELSE /\ peers' = [peers EXCEPT ![p].st = "closing"]
                   /\ player_to_peer_id' = [player_to_peer_id EXCEPT ![peers[p].player] = Null]
                   /\ told' = Destroy(peers[p].player)
                   /\ Unlock(t, With(Frame("destroycb", p), peers[p].player))
    /\ UNCHANGED <<state, listening, ids, starts, completes, host_ok, fault>>

\* A player is indicated as destroyed; the loss of a connection that was being
\* made fails the Connect(); any other peer just goes.
DestroyPeerState(t) ==
    /\ Runs(t, "destroy") \/ Runs(t, "destroyflushed")
    /\ LET p == Top(t).peer
       IN  \/ /\ peers[p] = Null /\ Abort("assert(peer != NULL) in peer_destroy")
           \/ /\ peers[p] # Null /\ peers[p].st = "connected"
              /\ peers' = [peers EXCEPT ![p].st = "closing"]
              /\ told' = Destroy(peers[p].player)
              /\ Unlock(t, With(Frame("destroycb", p), peers[p].player))
              /\ UNCHANGED <<state, listening, player_to_peer_id, ids, starts, completes, host_ok, fault>>
           \/ /\ peers[p] # Null /\ peers[p].st # "connected"
              /\ IF \/ state = "connecting_to_host" /\ peers[p].st \in {"connecting_host", "requesting_host"}
                    \/ state = "connecting_to_peers" /\ peers[p].st \in {"connecting_peer", "requesting_peer"}
                 THEN Call(t, Frame("fail", Null), Frame("erase", p))
                 ELSE Goto(t, Frame("erase", p))
              /\ UNCHANGED <<state, listening, table, ids, starts, hist, fault>>

\* After DESTROY_PLAYER.  Losing the host terminates the session.
DestroyIndicated(t) ==
    /\ Resumes(t, "destroycb")
    /\ LET p == Top(t).peer
           x == Top(t).arg
       IN  /\ player_to_peer_id' = [player_to_peer_id EXCEPT ![x] = Null]
           /\ IF state = "connected" /\ x = host_player_id
              THEN state' = "terminated" /\ Unlock(t, Frame("hostlostcb", p))
              ELSE state' = state /\ Goto(t, Frame("erase", p))
    /\ UNCHANGED <<listening, peers, ids, starts, hist, fault>>

\* After TERMINATE_SESSION: the local player goes, then every other peer.
HostLost(t) ==
    /\ Resumes(t, "hostlostcb")
    /\ told' = Destroy(local_player_id)
    /\ Unlock(t, Frame("hostlostselfcb", Top(t).peer))
    /\ UNCHANGED <<state, listening, table, ids, starts, completes, host_ok, fault>>

HostLostDone(t) ==
    /\ Resumes(t, "hostlostselfcb")
    /\ Call(t, Frame("destroyall", Null), Frame("erase", Top(t).peer))
    /\ UNCHANGED <<state, listening, table, ids, starts, hist, fault>>

\* Fault: peer_destroyed is not notified.
EraseSilently(t) ==
    /\ Runs(t, "erase")
    /\ peers' = [peers EXCEPT ![Top(t).peer] = Null]
    /\ Return(t)
    /\ UNCHANGED <<state, listening, player_to_peer_id, ids, starts, hist, fault>>

\* RENEW_PEER_OR_RETURN(); take the peer out of the map.
Erase(t) ==
    /\ Runs(t, "erase")
    /\ peers' = [peers EXCEPT ![Top(t).peer] = Null]
    /\ IF peers[Top(t).peer] = Null THEN Return(t) ELSE ReturnAndNotify(t, "closewait")
    /\ UNCHANGED <<state, listening, player_to_peer_id, ids, starts, hist, fault>>

\* peer_destroy_all()
DestroyAll(t) ==
    /\ Runs(t, "destroyall")
    /\ IF Present = {} THEN Return(t)
       ELSE Call(t, Frame("destroy", Min(Present)), Frame("destroyall", Null))
    /\ UNCHANGED <<state, listening, table, ids, starts, hist, fault>>

------------------------------------------------------------------------------
(* peer_shutdown(peer_id) and peer_shutdown_all()                           *)

\* Faults: the peer is not marked as closing before DESTROY_PLAYER; or one
\* that is no player yet is marked as closing, not destroyed.
PeerShutdownUnmarked(t) ==
    /\ Runs(t, "shutdown")
    /\ LET p == Top(t).peer
       IN  IF peers[p].st = "connected"
           THEN told' = Destroy(peers[p].player) /\ Unlock(t, Frame("shutdowncb", p))
           ELSE /\ UNCHANGED told
                /\ IF peers[p].st = "closing" THEN Return(t) ELSE Goto(t, Frame("destroy", p))
    /\ UNCHANGED <<state, listening, table, ids, starts, completes, host_ok, fault>>

PeerShutdownMarks(t) ==
    /\ Runs(t, "shutdown")
    /\ LET p == Top(t).peer
       IN  /\ peers' = [peers EXCEPT ![p].st = "closing"]
           /\ IF peers[p].st = "connected"
              THEN told' = Destroy(peers[p].player) /\ Unlock(t, Frame("shutdowncb", p))
              ELSE told' = told /\ Return(t)
    /\ UNCHANGED <<state, listening, player_to_peer_id, ids, starts, completes, host_ok, fault>>

PeerShutdown(t) ==
    /\ Runs(t, "shutdown")
    /\ LET p == Top(t).peer
       IN  \/ /\ peers[p] = Null /\ Abort("assert(peer != NULL) in peer_shutdown")
           \/ /\ peers[p] # Null /\ peers[p].st = "connected"
              /\ peers' = [peers EXCEPT ![p].st = "closing"]
              /\ told' = Destroy(peers[p].player)
              /\ Unlock(t, Frame("shutdowncb", p))
              /\ UNCHANGED <<state, listening, player_to_peer_id, ids, starts, completes, host_ok, fault>>
           \/ /\ peers[p] # Null /\ peers[p].st # "connected"
              /\ IF peers[p].st = "closing" THEN Return(t) ELSE Goto(t, Frame("destroy", p))
              /\ UNCHANGED <<state, listening, table, ids, starts, hist, fault>>

\* The key that is erased is the peer_id, in a map from player ids.
ShutdownIndicated(t) ==
    /\ Resumes(t, "shutdowncb")
    /\ LET k == Top(t).peer
       IN  player_to_peer_id' = [x \in Players |-> IF x = k THEN Null ELSE player_to_peer_id[x]]
    /\ Return(t)
    /\ UNCHANGED <<state, listening, peers, ids, starts, hist, fault>>

\* One turn of the loop, which starts at the first peer again after each one.
ShutdownAll(t) ==
    /\ Runs(t, "shutdownall")
    /\ LET open == {p \in Present : peers[p].st # "closing"}
       IN  IF open = {} THEN Return(t)
           ELSE Call(t, Frame("shutdown", Min(open)), Frame("shutdownall", Null))
    /\ UNCHANGED <<state, listening, table, ids, starts, hist, fault>>

------------------------------------------------------------------------------
(* connect_check() and connect_fail()                                       *)

ConnectCheck(t) ==
    /\ Runs(t, "check")
    /\ \/ ~Connecting /\ Abort("assert(state) in connect_check")
       \/ /\ Connecting /\ Outgoing # {}
          /\ Return(t)
          /\ UNCHANGED <<state, listening, table, ids, starts, hist, fault>>
       \/ /\ Connecting /\ Outgoing = {}
          /\ state' = "connected"
          /\ completes' = completes + 1
          /\ Unlock(t, Frame("checkcb", Null))
          /\ UNCHANGED <<listening, table, ids, starts, told, host_ok, fault>>

ConnectChecked(t) ==
    /\ Resumes(t, "checkcb")
    /\ ReturnAndNotify(t, "connectwait")
    /\ UNCHANGED <<state, listening, table, ids, starts, hist, fault>>

\* Fault: the state neither stops a second failure nor changes at the first.
ConnectFailAgain(t) ==
    /\ Runs(t, "fail")
    /\ listening' = FALSE
    /\ Call(t, Frame("destroyall", Null), With(Frame("failself", Null), state))
    /\ UNCHANGED <<state, table, ids, starts, hist, fault>>

ConnectFail(t) ==
    /\ Runs(t, "fail")
    /\ \/ ~Connecting /\ Abort("assert(state) in connect_fail")
       \/ /\ Connecting
          /\ state' = "connect_failed"
          /\ listening' = FALSE
          /\ Call(t, Frame("destroyall", Null), With(Frame("failself", Null), state))
          /\ UNCHANGED <<table, ids, starts, hist, fault>>

\* Fault: the local player is forgotten.
ConnectFailOthers(t) ==
    /\ Runs(t, "failself")
    /\ Goto(t, Frame("failcomplete", Null))
    /\ UNCHANGED <<state, listening, table, ids, starts, hist, fault>>

\* The local player was indicated if we got as far as connecting to peers.
ConnectFailSelf(t) ==
    /\ Runs(t, "failself")
    /\ IF Top(t).arg = "connecting_to_peers"
       THEN told' = Destroy(local_player_id) /\ Unlock(t, Frame("failselfcb", Null))
       ELSE told' = told /\ Goto(t, Frame("failcomplete", Null))
    /\ UNCHANGED <<state, listening, table, ids, starts, completes, host_ok, fault>>

ConnectFailComplete(t) ==
    /\ Runs(t, "failcomplete") \/ Resumes(t, "failselfcb")
    /\ completes' = completes + 1
    /\ Unlock(t, Frame("failcb", Null))
    /\ UNCHANGED <<state, listening, table, ids, starts, told, host_ok, fault>>

ConnectFailed(t) ==
    /\ Resumes(t, "failcb")
    /\ state' = "initialised"
    /\ ReturnAndNotify(t, "connectwait")
    /\ UNCHANGED <<listening, table, ids, starts, hist, fault>>

------------------------------------------------------------------------------
(* Socket events.  The pool runs io_peer_triggered() on any thread.         *)

\* handle_other_socket_event(), peer_accept()
Accept(t) ==
    /\ "connect" \in Remote /\ lock = Null /\ stack[t] = <<>>
    /\ listening /\ next_peer_id \in PeerIds
    /\ peers' = [peers EXCEPT ![next_peer_id] = NewPeer("accepted", Null)]
    /\ next_peer_id' = next_peer_id + 1
    /\ UNCHANGED <<run, state, listening, player_to_peer_id, next_player_id, host_player_id,
                   local_player_id, starts, hist, fault>>

\* io_peer_connected(): the connection is established, and the request sent.
Established(t, p) ==
    /\ lock = Null /\ stack[t] = <<>>
    /\ p \in Present /\ peers[p].st \in {"connecting_host", "connecting_peer"}
    /\ LET host == peers[p].st = "connecting_host"
       IN  IF state = IF host THEN "connecting_to_host" ELSE "connecting_to_peers"
           THEN /\ peers' = [peers EXCEPT ![p].st = IF host THEN "requesting_host" ELSE "requesting_peer"]
                /\ UNCHANGED <<run, state, listening, player_to_peer_id, ids, starts, hist, fault>>
           ELSE Abort("assert(state) in io_peer_triggered")

\* io_peer_connected(): it is not.
NotEstablished(t, p) ==
    /\ "unreachable" \in Remote
    /\ p \in Present /\ peers[p].st \in {"connecting_host", "connecting_peer"}
    /\ LET host == peers[p].st = "connecting_host"
       IN  \/ /\ state = IF host THEN "connecting_to_host" ELSE "connecting_to_peers"
              /\ Begin(t, <<Frame("fail", Null)>>)
              /\ UNCHANGED <<state, listening, table, ids, starts, hist, fault>>
           \/ /\ state # IF host THEN "connecting_to_host" ELSE "connecting_to_peers"
              /\ lock = Null /\ stack[t] = <<>>
              /\ Abort("assert(state) in io_peer_triggered")

\* io_peer_connected(): getsockopt() does not say.  The Connect() fails, which
\* deletes every Peer, and the function goes on with this one's.
ConnectionUnknown(t, p) ==
    /\ "sockets" \in Remote
    /\ p \in Present /\ peers[p].st \in {"connecting_host", "connecting_peer"}
    /\ state = IF peers[p].st = "connecting_host" THEN "connecting_to_host" ELSE "connecting_to_peers"
    /\ Begin(t, <<Frame("fail", Null), Frame("connectfailed", p)>>)
    /\ UNCHANGED <<state, listening, table, ids, starts, hist, fault>>

\* Whatever the uninitialised `error' is, the state of the deleted Peer is read.
ConnectionUsed(t) == Runs(t, "connectfailed") /\ Abort("use of a deleted Peer in io_peer_connected")

\* io_peer_send() finds the connection broken, also while another thread is
\* in a handler of this peer.
SendFails(t, p) ==
    /\ "reset" \in Remote
    /\ p \in Present /\ peers[p].st \in {"requesting_host", "requesting_peer", "connected", "closing"}
    /\ Begin(t, <<Frame("destroy", p)>>)
    /\ UNCHANGED <<state, listening, table, ids, starts, hist, fault>>

\* io_peer_recv(): one thread at a time reads from p.
Reads(t, p, f) ==
    /\ p \in Present /\ peers[p].st \notin {"connecting_host", "connecting_peer"}
    /\ ~peers[p].recv_busy
    /\ peers' = [peers EXCEPT ![p].recv_busy = TRUE]
    /\ Begin(t, f)
    /\ UNCHANGED <<state, listening, player_to_peer_id, ids, starts, hist, fault>>

\* The end of the stream.
ReadsEnd(t, p) ==
    /\ "close" \in Remote \/ (p \in Present /\ peers[p].st = "closing")
    /\ Reads(t, p, <<Frame("destroy", p)>>)

\* A message for the handler named h.  What a closing peer sends is discarded.
ReadsMessage(t, p, h, x) ==
    /\ p \in Present /\ peers[p].st # "closing"
    /\ Reads(t, p, <<With(Frame(h, p), x), Frame("readdone", p)>>)

\* After the handler: RENEW_PEER_OR_RETURN(), and the next thread may read.
ReadDone(t) ==
    /\ Runs(t, "readdone")
    /\ LET p == Top(t).peer
       IN  peers' = IF peers[p] = Null THEN peers ELSE [peers EXCEPT ![p].recv_busy = FALSE]
    /\ Return(t)
    /\ UNCHANGED <<state, listening, player_to_peer_id, ids, starts, hist, fault>>

------------------------------------------------------------------------------
(* The host's side of joining: handle_host_connect_request().               *)

\* send_fail(): the answer is queued and the peer closes.
Refuse(t, p) ==
    /\ peers' = [peers EXCEPT ![p].st = "closing"]
    /\ Return(t)

\* A request in the wrong state is ignored, one that does not fit this session
\* (arg FALSE) is refused, any other is put to the application.
HostConnectRequest(t) ==
    /\ Runs(t, "host_connect_request")
    /\ LET p == Top(t).peer
       IN  \/ /\ peers[p].st # "accepted"
              /\ Return(t) /\ UNCHANGED peers
           \/ /\ peers[p].st = "accepted" /\ ~(state = "hosting" /\ Top(t).arg)
              /\ Refuse(t, p)
           \/ /\ peers[p].st = "accepted" /\ state = "hosting" /\ Top(t).arg
              /\ peers' = [peers EXCEPT ![p].st = "indicating"]
              /\ Unlock(t, Frame("indicatecb", p))
    /\ UNCHANGED <<state, listening, player_to_peer_id, ids, starts, hist, fault>>

\* INDICATE_CONNECT accepted: the peer becomes a player, and is sent the list
\* of the others.  The list's length is taken from player_to_peer_id, its
\* elements from the connected peers.
IndicateAccepted(t) ==
    /\ Resumes(t, "indicatecb")
    /\ LET p == Top(t).peer
           x == next_player_id
       IN  /\ peers[p] # Null /\ x \in Players
           /\ next_player_id' = x + 1
           /\ player_to_peer_id' = [player_to_peer_id EXCEPT ![x] = p]
           /\ peers' = [peers EXCEPT ![p].st = "connected", ![p].player = x]
           /\ host_ok' = [count |-> Cardinality(Known \cup {x}) - 1,
                          listed |-> Cardinality({q \in Present \ {p} : peers[q].st = "connected"})]
           /\ told' = Create(x)
    /\ Unlock(t, Frame("createcb", Top(t).peer))
    /\ UNCHANGED <<state, listening, next_peer_id, host_player_id, local_player_id, starts, completes, fault>>

\* INDICATE_CONNECT rejected, or the peer went away meanwhile.
IndicateRejected(t) ==
    /\ Resumes(t, "indicatecb")
    /\ LET p == Top(t).peer
       IN  IF peers[p] = Null THEN Return(t) /\ UNCHANGED peers ELSE Refuse(t, p)
    /\ UNCHANGED <<state, listening, player_to_peer_id, ids, starts, hist, fault>>

\* CREATE_PLAYER, or another indication with nothing after it, is over.
Indicated(t) ==
    /\ Resumes(t, "createcb")
    /\ Return(t)
    /\ UNCHANGED <<state, listening, table, ids, starts, hist, fault>>

\* handle_message(), handle_playerinfo(), handle_appdesc(): an indication.
HandleMessage(t) ==
    /\ Runs(t, "message")
    /\ Unlock(t, Frame("createcb", Top(t).peer))
    /\ UNCHANGED <<state, listening, table, ids, starts, hist, fault>>

------------------------------------------------------------------------------
(* The joining side: handle_host_connect_ok() and ..._fail().               *)

\* The host's player id is 1, ours is 2: the first Host() and the first
\* accepted request assign them.  arg is the list of the other players.
HostConnectOk(t) ==
    /\ Runs(t, "host_connect_ok")
    /\ LET p == Top(t).peer
       IN  \/ /\ peers[p].st # "requesting_host"
              /\ Return(t)
              /\ UNCHANGED <<state, listening, table, ids, starts, hist, fault>>
           \/ /\ peers[p].st = "requesting_host" /\ state # "connecting_to_host"
              /\ Abort("assert(state) in handle_host_connect_ok")
           \/ /\ peers[p].st = "requesting_host" /\ state = "connecting_to_host"
              /\ host_player_id' = 1 /\ local_player_id' = 2
              /\ peers' = [peers EXCEPT ![p].st = "connected", ![p].player = 1]
              /\ player_to_peer_id' = [player_to_peer_id EXCEPT ![1] = p]
              /\ state' = "connecting_to_peers"
              /\ told' = Create(2)
              /\ Unlock(t, [Top(t) EXCEPT !.pc = "okselfcb"])
              /\ UNCHANGED <<listening, next_peer_id, next_player_id, starts, completes, host_ok, fault>>

\* After CREATE_PLAYER for ourselves the Peer is used without looking it up.
HostConnectOkSelf(t) ==
    /\ Resumes(t, "okselfcb")
    /\ LET p == Top(t).peer
       IN  \/ peers[p] = Null /\ Abort("use of a deleted Peer in handle_host_connect_ok")
           \/ /\ peers[p] # Null
              /\ told' = Create(peers[p].player)
              /\ Unlock(t, [Top(t) EXCEPT !.pc = "okhostcb"])
              /\ UNCHANGED <<state, listening, table, ids, starts, completes, host_ok, fault>>

\* peer_connect() to the first n of the other players, in the order of the list.
ConnectTo(list, n) ==
    /\ peers' = [p \in PeerIds |->
           IF p \in next_peer_id..(next_peer_id + n - 1)
           THEN NewPeer("connecting_peer", list[p - next_peer_id + 1]) ELSE peers[p]]
    /\ next_peer_id' = next_peer_id + n

HostConnectOkHost(t) ==
    /\ Resumes(t, "okhostcb")
    /\ IF peers[Top(t).peer] = Null
       THEN Return(t) /\ UNCHANGED <<peers, next_peer_id>>
       ELSE LET list == Top(t).arg IN
            \/ /\ ConnectTo(list, Len(list))
               /\ Goto(t, Frame("check", Null))
            \/ /\ "unreachable" \in Remote
               /\ \E n \in 0..(Len(list) - 1) : ConnectTo(list, n)
               /\ Goto(t, Frame("fail", Null))
    /\ UNCHANGED <<state, listening, player_to_peer_id, next_player_id, host_player_id,
                   local_player_id, starts, hist, fault>>

\* handle_host_connect_fail() and handle_connect_peer_fail(): arg is the
\* state of peer, and that of the session, in which the answer is expected.
ConnectRefused(t) ==
    /\ Runs(t, "connect_refused")
    /\ LET p == Top(t).peer
       IN  \/ /\ peers[p].st # Top(t).arg.peer
              /\ Return(t)
              /\ UNCHANGED <<state, listening, table, ids, starts, hist, fault>>
           \/ /\ peers[p].st = Top(t).arg.peer /\ state # Top(t).arg.session
              /\ Abort("assert(state) in handle_connect_fail")
           \/ /\ peers[p].st = Top(t).arg.peer /\ state = Top(t).arg.session
              /\ Goto(t, Frame("fail", Null))
              /\ UNCHANGED <<state, listening, table, ids, starts, hist, fault>>

------------------------------------------------------------------------------
(* Peers among themselves: handle_connect_peer() and ..._ok().              *)

\* Fault: a player id that is already known is let in.
ConnectPeerAgain(t) ==
    /\ Runs(t, "connect_peer")
    /\ LET p == Top(t).peer
           x == Top(t).arg
       IN  IF peers[p].st = "accepted" /\ state = "connected"
           THEN /\ peers' = [peers EXCEPT ![p].st = "connected", ![p].player = x]
                /\ player_to_peer_id' = [player_to_peer_id EXCEPT ![x] = p]
                /\ told' = Create(x)
                /\ Unlock(t, Frame("createcb", p))
           ELSE Return(t) /\ UNCHANGED <<table, told>>
    /\ UNCHANGED <<state, listening, ids, starts, completes, host_ok, fault>>

\* arg is the player id the new peer says it was given.
ConnectPeer(t) ==
    /\ Runs(t, "connect_peer")
    /\ LET p == Top(t).peer
           x == Top(t).arg
       IN  \/ /\ peers[p].st # "accepted"
              /\ Return(t) /\ UNCHANGED <<table, told>>
           \/ /\ peers[p].st = "accepted" /\ state # "connected"
              /\ Refuse(t, p) /\ UNCHANGED <<player_to_peer_id, told>>
           \/ /\ peers[p].st = "accepted" /\ state = "connected" /\ x \in Known
              /\ peers' = [peers EXCEPT ![p].st = "closing", ![p].player = x]
              /\ Return(t) /\ UNCHANGED <<player_to_peer_id, told>>
           \/ /\ peers[p].st = "accepted" /\ state = "connected" /\ x \notin Known
              /\ peers' = [peers EXCEPT ![p].st = "connected", ![p].player = x]
              /\ player_to_peer_id' = [player_to_peer_id EXCEPT ![x] = p]
              /\ told' = Create(x)
              /\ Unlock(t, Frame("createcb", p))
    /\ UNCHANGED <<state, listening, ids, starts, completes, host_ok, fault>>

ConnectPeerOk(t) ==
    /\ Runs(t, "connect_peer_ok")
    /\ LET p == Top(t).peer
           x == peers[p].player
       IN  \/ /\ peers[p].st # "requesting_peer"
              /\ Return(t)
              /\ UNCHANGED <<state, listening, table, ids, starts, hist, fault>>
           \/ /\ peers[p].st = "requesting_peer" /\ state # "connecting_to_peers"
              /\ Abort("assert(state) in handle_connect_peer_ok")
           \/ /\ peers[p].st = "requesting_peer" /\ state = "connecting_to_peers"
              /\ peers' = [peers EXCEPT ![p].st = "connected"]
              /\ player_to_peer_id' = [player_to_peer_id EXCEPT ![x] = p]
              /\ told' = Create(x)
              /\ Unlock(t, Frame("peerokcb", p))
              /\ UNCHANGED <<state, listening, ids, starts, completes, host_ok, fault>>

ConnectPeerIndicated(t) ==
    /\ Resumes(t, "peerokcb")
    /\ IF peers[Top(t).peer] = Null THEN Return(t) ELSE Goto(t, Frame("check", Null))
    /\ UNCHANGED <<state, listening, table, ids, starts, hist, fault>>

------------------------------------------------------------------------------
(* Leaving: handle_destroy_peer() and handle_terminate_session().           *)

\* arg is the player that is destroyed, or 0 for the session.  Only the host
\* may destroy others.
HandleDestroy(t) ==
    /\ Runs(t, "destroy_message")
    /\ LET p == Top(t).peer
           x == Top(t).arg
           host == peers[p].player = host_player_id
           own == x \in {0, local_player_id}
           heard == /\ peers[p].st = "connected"
                    /\ host \/ (x # 0 /\ x = peers[p].player)
       IN  \/ /\ ~heard \/ (~own /\ x \notin Known)
              /\ Return(t) /\ state' = state
           \/ /\ heard /\ own
              /\ state' = "terminated"
              /\ Unlock(t, Frame("endcb", Null))
           \/ /\ heard /\ ~own /\ x \in Known
              /\ Goto(t, Frame("destroy", player_to_peer_id[x])) /\ state' = state
    /\ UNCHANGED <<listening, table, ids, starts, hist, fault>>

\* The session is over for us: the local player goes, then the peers are shut
\* down (and told, if it was only us).
SessionEnds(t) ==
    /\ Resumes(t, "endcb")
    /\ told' = Destroy(local_player_id)
    /\ Unlock(t, Frame("endselfcb", Null))
    /\ UNCHANGED <<state, listening, table, ids, starts, completes, host_ok, fault>>

SessionEnded(t) ==
    /\ Resumes(t, "endselfcb")
    /\ Goto(t, Frame("shutdownall", Null))
    /\ UNCHANGED <<state, listening, table, ids, starts, hist, fault>>

------------------------------------------------------------------------------
(* Calls: Initialize(), Host(), Connect()                                   *)

Initialize(t) ==
    /\ lock = Null /\ stack[t] = <<>> /\ state = "new"
    /\ state' = "initialised"
    /\ UNCHANGED <<run, listening, table, ids, starts, hist, fault>>

\* The states the switch at the start of Host() and Connect() lets pass.
MayStart == state \in {"initialised", "connect_failed", "closing", "terminated"}

Starts == MayStart /\ state \in ConnectIn /\ starts < MaxStarts /\ starts' = starts + 1

Host(t) ==
    /\ "Host" \in Calls /\ lock = Null /\ stack[t] = <<>> /\ Starts
    /\ state' = "hosting" /\ listening' = TRUE
    /\ host_player_id' = 1 /\ local_player_id' = 1 /\ next_player_id' = 2
    /\ told' = Create(1)
    /\ stack' = [stack EXCEPT ![t] = <<Frame("createcb", Null)>>]
    /\ UNCHANGED <<lock, table, next_peer_id, completes, host_ok, fault>>

\* Host() fails after listener_socket has been opened, and leaves it open.
HostFails(t) ==
    /\ "Host" \in Calls /\ "sockets" \in Remote /\ lock = Null /\ stack[t] = <<>> /\ Starts
    /\ listening' = TRUE
    /\ UNCHANGED <<run, state, table, ids, hist, fault>>

\* A synchronous Connect() waits on connect_cv.
Connect(t, sync) ==
    /\ IF sync THEN "ConnectSync" \in Calls ELSE "Connect" \in Calls
    /\ lock = Null /\ stack[t] = <<>> /\ Starts
    /\ next_peer_id \in PeerIds
    /\ state' = "connecting_to_host" /\ listening' = TRUE
    /\ peers' = [peers EXCEPT ![next_peer_id] = NewPeer("connecting_host", Null)]
    /\ next_peer_id' = next_peer_id + 1
    /\ completes' = 0
    /\ stack' = IF sync THEN [stack EXCEPT ![t] = <<Frame("connectwait", Null)>>] ELSE stack
    /\ UNCHANGED <<lock, player_to_peer_id, next_player_id, host_player_id, local_player_id,
                   told, host_ok, fault>>

\* Connect() fails once it has set STATE_CONNECTING_TO_HOST, and does not undo
\* that: peer_connect() fails, or WSAEventSelect() does after it.
ConnectFails(t) ==
    /\ Calls \cap {"Connect", "ConnectSync"} # {} /\ "sockets" \in Remote
    /\ lock = Null /\ stack[t] = <<>> /\ Starts
    /\ state' = "connecting_to_host"
    /\ completes' = 0
    /\ \/ listening' = FALSE /\ UNCHANGED <<peers, next_peer_id>>
       \/ /\ listening' = TRUE /\ next_peer_id \in PeerIds
          /\ peers' = [peers EXCEPT ![next_peer_id] = NewPeer("connecting_host", Null)]
          /\ next_peer_id' = next_peer_id + 1
    /\ UNCHANGED <<run, player_to_peer_id, next_player_id, host_player_id, local_player_id,
                   told, host_ok, fault>>

\* CancelAsyncOperation() of an asynchronous connect, by its handle or by flags.
CancelConnect(t) ==
    /\ "CancelConnect" \in Calls /\ "Connect" \in Calls /\ Connecting
    /\ \A u \in Callers : stack[u] # <<>> => Top(u).pc # "connectwait"
    /\ Begin(t, <<Frame("fail", Null)>>)
    /\ UNCHANGED <<state, listening, table, ids, starts, hist, fault>>

\* The wait ends, or goes on, when it has been notified.
ConnectWaits(t) ==
    /\ Resumes(t, "connectwait") /\ Top(t).arg = "notified"
    /\ IF Connecting \/ state = "connect_failed"
       THEN Unlock(t, Frame("connectwait", Null))
       ELSE Return(t)
    /\ UNCHANGED <<state, listening, table, ids, starts, hist, fault>>

------------------------------------------------------------------------------
(* Close()                                                                  *)

\* arg of the frames: was the peer hosting or connected, is it DPNCLOSE_IMMEDIATE.
Close(t, now) ==
    /\ IF now THEN "CloseImmediate" \in Calls ELSE "Close" \in Calls
    /\ state \notin {"new", "closing"} /\ state \in CloseIn
    /\ LET f == With(Frame("close", Null), [was |-> state, now |-> now])
       IN  Begin(t, IF Connecting THEN <<Frame("fail", Null), f>> ELSE <<f>>)
    /\ listening' = FALSE
    /\ UNCHANGED <<state, table, ids, starts, hist, fault>>

\* Fault: a host's own departure is not indicated.
CloseBeginsMute(t) ==
    /\ Runs(t, "close")
    /\ state' = "closing"
    /\ Goto(t, [Top(t) EXCEPT !.pc = "closepeers"])
    /\ UNCHANGED <<listening, table, ids, starts, hist, fault>>

\* A host indicates its own departure before that of the peers.
CloseBegins(t) ==
    /\ Runs(t, "close")
    /\ state' = "closing"
    /\ IF Top(t).arg.was = "hosting"
       THEN told' = Destroy(local_player_id) /\ Unlock(t, [Top(t) EXCEPT !.pc = "closeselfcb"])
       ELSE told' = told /\ Goto(t, [Top(t) EXCEPT !.pc = "closepeers"])
    /\ UNCHANGED <<listening, table, ids, starts, completes, host_ok, fault>>

ClosePeers(t) ==
    /\ Runs(t, "closepeers") \/ Resumes(t, "closeselfcb")
    /\ Call(t, Frame(IF Top(t).arg.now THEN "destroyall" ELSE "shutdownall", Null),
            [Top(t) EXCEPT !.pc = "closewaits"])
    /\ UNCHANGED <<state, listening, table, ids, starts, hist, fault>>

\* peer_destroyed.wait(), with its predicate tested before and after.
CloseWaits(t) ==
    /\ \/ Runs(t, "closewaits")
       \/ Resumes(t, "closewait") /\ Top(t).arg = "notified"
    /\ LET below == IF Top(t).pc = "closewaits" THEN stack[t] ELSE Below(t)
       IN  IF Present = {}
           THEN lock' = t /\ Stack(t, <<[Head(below) EXCEPT !.pc = "closeself"]>> \o Tail(below))
           ELSE lock' = Null /\ Stack(t, <<Frame("closewait", Null)>> \o below)
    /\ UNCHANGED <<state, listening, table, ids, starts, hist, fault>>

\* Any other member indicates it after; then the groups go and the lock is
\* released for the destructor of the pool.
CloseSelf(t) ==
    /\ Runs(t, "closeself")
    /\ told' = IF Top(t).arg.was = "connected" THEN Destroy(local_player_id) ELSE told
    /\ Unlock(t, Frame("closepool", Null))
    /\ UNCHANGED <<state, listening, table, ids, starts, completes, host_ok, fault>>

\* ~HandleHandlingPool() has joined every worker.
CloseReturns(t) ==
    /\ Resumes(t, "closepool")
    /\ \A w \in Workers : stack[w] = <<>>
    /\ state' = "new"
    /\ Return(t)
    /\ UNCHANGED <<listening, table, ids, starts, hist, fault>>

------------------------------------------------------------------------------
(* TerminateSession() and DestroyPeer()                                     *)

\* arg: the players still to indicate, and the peers still to destroy.
TerminateSession(t) ==
    /\ "TerminateSession" \in Calls /\ state = "hosting" /\ lock = Null /\ stack[t] = <<>>
    /\ LET joined == {p \in Present : peers[p].st = "connected"}
           others == {p \in Present : peers[p].st \notin {"connected", "closing"}}
       IN  /\ peers' = [p \in PeerIds |-> IF p \in joined THEN [peers[p] EXCEPT !.st = "closing"] ELSE peers[p]]
           /\ stack' = [stack EXCEPT ![t] = <<With(Frame("tsendcb", Null),
                  [players |-> {peers[p].player : p \in joined}, peers |-> others])>>]
    /\ state' = "terminated" /\ listening' = FALSE
    /\ UNCHANGED <<lock, player_to_peer_id, ids, starts, hist, fault>>

\* DESTROY_PLAYER for ourselves, then for each player that was connected.
TerminateIndicates(t) ==
    /\ Resumes(t, "tsendcb") \/ Resumes(t, "tsplayercb")
    /\ LET a == Top(t).arg
           x == IF Top(t).pc = "tsendcb" THEN local_player_id ELSE Min(a.players)
       IN  IF Top(t).pc = "tsplayercb" /\ a.players = {}
           THEN told' = told /\ Goto(t, [Top(t) EXCEPT !.pc = "tsdestroy"])
           ELSE told' = Destroy(x) /\ Unlock(t, With(Frame("tsplayercb", Null),
                                                     [a EXCEPT !.players = @ \ {x}]))
    /\ UNCHANGED <<state, listening, table, ids, starts, completes, host_ok, fault>>

\* The loop over destroy_peers destroys the first of them, and does not advance.
TerminateDestroys(t) ==
    /\ Runs(t, "tsdestroy")
    /\ IF Top(t).arg.peers = {} THEN Return(t)
       ELSE Call(t, Frame("destroy", Min(Top(t).arg.peers)), Top(t))
    /\ UNCHANGED <<state, listening, table, ids, starts, hist, fault>>

DestroyPeer(t, x) ==
    /\ "DestroyPeer" \in Calls /\ state = "hosting"
    /\ x # local_player_id /\ x \in Known /\ player_to_peer_id[x] \in Present
    /\ Begin(t, <<Frame("shutdown", player_to_peer_id[x])>>)
    /\ UNCHANGED <<state, listening, table, ids, starts, hist, fault>>

------------------------------------------------------------------------------
Init ==
    /\ lock = Null /\ stack = [t \in Threads |-> <<>>]
    /\ state = "new" /\ listening = FALSE
    /\ peers = [p \in PeerIds |-> Null] /\ player_to_peer_id = [x \in Players |-> Null]
    /\ next_peer_id \in FirstPeerIds
    /\ next_player_id = 0 /\ host_player_id = 0 /\ local_player_id = 0
    /\ starts = 0
    /\ told = [x \in Players |-> "unknown"] /\ completes = 0
    /\ host_ok = [count |-> 0, listed |-> 0] /\ fault = Null

\* What a correct remote may send on connection p.
Message(t, p) ==
    \/ /\ state = "hosting" \/ "connect" \in Remote
       /\ peers[p].st = "accepted"
       /\ \/ host_player_id = local_player_id /\ \E fits \in {TRUE} \cup (IF "refuse" \in Remote THEN {FALSE} ELSE {}) :
                 ReadsMessage(t, p, "host_connect_request", fits)
          \/ host_player_id # local_player_id /\ \E x \in Players \ {1, 2} : ReadsMessage(t, p, "connect_peer", x)
    \/ /\ peers[p].st = "requesting_host"
       /\ \/ \E list \in PlayerLists :
                 /\ list = <<>> \/ next_peer_id + Len(list) - 1 \in PeerIds
                 /\ ReadsMessage(t, p, "host_connect_ok", list)
          \/ /\ "refuse" \in Remote
             /\ ReadsMessage(t, p, "connect_refused", [peer |-> "requesting_host", session |-> "connecting_to_host"])
    \/ /\ peers[p].st = "requesting_peer"
       /\ \/ ReadsMessage(t, p, "connect_peer_ok", Null)
          \/ /\ "refuse" \in Remote
             /\ ReadsMessage(t, p, "connect_refused", [peer |-> "requesting_peer", session |-> "connecting_to_peers"])
    \/ /\ peers[p].st = "connected"
       /\ \/ "message" \in Remote /\ ReadsMessage(t, p, "message", Null)
          \/ "leave" \in Remote /\ ReadsMessage(t, p, "destroy_message", peers[p].player)
          \/ /\ peers[p].player = 1
             /\ \/ "terminate" \in Remote /\ ReadsMessage(t, p, "destroy_message", 0)
                \/ "kick" \in Remote /\ \E x \in Players \ {1} : ReadsMessage(t, p, "destroy_message", x)

Serve(t) ==
    \/ Accept(t)
    \/ \E p \in Present : \/ Established(t, p) \/ NotEstablished(t, p) \/ ConnectionUnknown(t, p)
                          \/ SendFails(t, p) \/ ReadsEnd(t, p) \/ Message(t, p)

Run(t) ==
    \/ DestroyFlush(t) \/ DestroyFlushed(t) \/ DestroyPeerState(t) \/ DestroyIndicated(t)
    \/ HostLost(t) \/ HostLostDone(t) \/ Erase(t) \/ DestroyAll(t)
    \/ PeerShutdown(t) \/ ShutdownIndicated(t) \/ ShutdownAll(t)
    \/ ConnectCheck(t) \/ ConnectChecked(t)
    \/ ConnectFail(t) \/ ConnectFailSelf(t) \/ ConnectFailComplete(t) \/ ConnectFailed(t)
    \/ ConnectionUsed(t) \/ ReadDone(t)
    \/ HostConnectRequest(t) \/ IndicateAccepted(t) \/ IndicateRejected(t) \/ Indicated(t) \/ HandleMessage(t)
    \/ HostConnectOk(t) \/ HostConnectOkSelf(t) \/ HostConnectOkHost(t) \/ ConnectRefused(t)
    \/ ConnectPeer(t) \/ ConnectPeerOk(t) \/ ConnectPeerIndicated(t)
    \/ HandleDestroy(t) \/ SessionEnds(t) \/ SessionEnded(t)
    \/ ConnectWaits(t)
    \/ CloseBegins(t) \/ ClosePeers(t) \/ CloseWaits(t) \/ CloseSelf(t) \/ CloseReturns(t)
    \/ TerminateIndicates(t) \/ TerminateDestroys(t)

CallApi(t) ==
    \/ Initialize(t) \/ Host(t) \/ HostFails(t)
    \/ Connect(t, TRUE) \/ Connect(t, FALSE) \/ ConnectFails(t) \/ CancelConnect(t)
    \/ Close(t, TRUE) \/ Close(t, FALSE)
    \/ TerminateSession(t) \/ \E x \in Players : DestroyPeer(t, x)

\* Nothing more happens: the process is gone, or nobody calls the library.
Rest == (fault # Null \/ \A t \in Threads : stack[t] = <<>>) /\ UNCHANGED vars

Next ==
    \/ fault = Null /\ \E t \in Threads : Run(t)
    \/ fault = Null /\ \E t \in Workers : Serve(t)
    \/ fault = Null /\ \E t \in Callers : CallApi(t)
    \/ Rest

Spec == Init /\ [][Next]_vars

\* What the other end of p owes us: a connection is established or fails, a
\* request is answered or the connection closed, and a remote that has been
\* told of the end of our stream ends its own.
Answered(t, p) ==
    /\ p \in Present
    /\ \/ peers[p].st \in {"connecting_host", "connecting_peer"} /\ (Established(t, p) \/ NotEstablished(t, p))
       \/ peers[p].st \in {"requesting_host", "requesting_peer"} /\ (Message(t, p) \/ ReadsEnd(t, p))
       \/ peers[p].st = "closing" /\ ReadsEnd(t, p)

\* The application returns from its callbacks, and a thread that asks for the
\* lock again and again gets it.
Fairness ==
    /\ \A t \in Threads : SF_vars(fault = Null /\ Run(t))
    /\ \A p \in PeerIds : SF_vars(fault = Null /\ \E t \in Workers : Answered(t, p))

FairSpec == Spec /\ Fairness

------------------------------------------------------------------------------
(* Properties                                                               *)

Frames == UNION {{stack[t][i] : i \in DOMAIN stack[t]} : t \in Threads}

\* Every variable has its type; no thread is left with the lock and nothing to do.
TypeOK ==
    /\ lock \in Threads \cup {Null} /\ (lock # Null => stack[lock] # <<>>)
    /\ \A f \in Frames : f.peer \in PeerIds \cup {Null}
    /\ state \in SessionStates /\ listening \in BOOLEAN
    /\ peers \in [PeerIds -> {Null} \cup PeerRecs]
    /\ player_to_peer_id \in [Players -> PeerIds \cup {Null}]
    /\ next_peer_id \in Nat /\ next_player_id \in Nat
    /\ host_player_id \in 0..MaxPlayers /\ local_player_id \in 0..MaxPlayers
    /\ starts \in 0..MaxStarts /\ completes \in Nat
    /\ told \in [Players -> {"unknown", "present", "gone", "twice", "unheard"}]

\* No assert() of the library fails and no deleted Peer is used.
NoFault == fault = Null

Joined == {p \in Present : peers[p].st = "connected"}

\* No two connected peers are the same player, and none is the local player.
UniquePlayers ==
    /\ \A p, q \in Joined : peers[p].player = peers[q].player => p = q
    /\ \A p \in Joined : peers[p].player # local_player_id

\* The player's DPNID leads to its Peer.
Addressable(x) ==
    LET p == player_to_peer_id[x]
    IN  p # Null /\ peers[p] # Null /\ peers[p].player = x

\* A peer that was shut down, or another that is gone, has the id of player x.
Misfiled(x) == x \in PeerIds /\ x < next_peer_id /\ (peers[x] # Null => peers[x].st = "closing")

\* A player the application has been told of can be addressed by its DPNID,
\* until it is told that the player goes; and while it handles DESTROY_PLAYER,
\* if no other peer_destroy() has deleted the Peer meanwhile.  The exception
\* is who has the id of a peer that goes: peer_shutdown() erases its entry.
Reachable ==
    /\ \A x \in Players \ {local_player_id} : told[x] = "present" => Addressable(x) \/ Misfiled(x)
    /\ \A f \in Frames :
          f.pc \in {"destroycb", "shutdowncb"} /\ peers[f.peer] # Null =>
             Addressable(peers[f.peer].player) \/ Misfiled(peers[f.peer].player)

\* A Connect() is completed at most once.
OneComplete == completes <= 1

\* CREATE_PLAYER and DESTROY_PLAYER alternate for every player.
IndicatedOnce == \A x \in Players : told[x] \notin {"twice", "unheard"}

\* When Close() has returned, the application has been told of the departure
\* of everyone it had been told of.
NobodyLeft == state = "new" => \A x \in Players : told[x] # "present"

\* When Close() has returned, the local player is gone for the application.
LocalGone == state = "new" => \A x \in {1, 2} : x = local_player_id => told[x] # "present"

\* A peer that has begun to close is never a player again: what a handler does
\* after a callback does not undo what happened to its peer meanwhile.
NoResurrection ==
    [][\A p \in Present : peers[p].st = "closing" => peers'[p] = Null \/ peers'[p].st = "closing"]_vars

\* Every call of the application returns: Close() once all peers and workers
\* are gone, a synchronous Connect() once it is connected or has failed.  Not
\* among the calls of the run, since they may not return: TerminateSession()
\* with a peer that has not joined, whose assert() fails, and a Connect() that
\* loses its host, or is removed by it, after CONNECT_HOST_OK.
CallsReturn == \A t \in Callers : stack[t] # <<>> ~> stack[t] = <<>>

\* Once Close() has set STATE_CLOSING, the state changes only when it is done.
ClosingStaysClosing == [][state = "closing" => state' \in {"closing", "new"}]_vars

\* While the session is STATE_CONNECTED its host is a peer, or is being
\* destroyed by a thread that will terminate the session.
ConnectedToHost ==
    state = "connected" => \/ \E p \in Present : peers[p].player = host_player_id
                           \/ \E f \in Frames : f.pc = "destroycb" /\ f.arg = host_player_id

\* CONNECT_HOST_OK announces as many other peers as it lists.
HostOkCount == host_ok.count = host_ok.listed
==============================================================================
