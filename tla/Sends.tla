-------------------------------- MODULE Sends --------------------------------
(***************************************************************************)
(* How DirectPlay8Peer gets application messages out: SendTo() queues one  *)
(* SendOp per target peer, worker threads write them (io_peer_send()),     *)
(* CancelAsyncOperation() takes queued ones back, and peer_destroy()       *)
(* flushes what a dying connection still holds.  Every one of them ends in *)
(* the callback of the op, which counts down the targets of the send and   *)
(* raises one DPN_MSGID_SEND_COMPLETE when the count reaches zero.         *)
(*                                                                         *)
(* All of it runs under DirectPlay8Peer::lock, which is released while the *)
(* application handles a message.  `lock' is its owner; `thread' says where *)
(* each thread is.  A thread whose pc ends in "cb" is in the application's *)
(* message handler without the lock.                                       *)
(***************************************************************************)
EXTENDS SendQueue, FiniteSets

CONSTANTS
    NumPeers,       \* peers 1..NumPeers are connected when the model starts
    Workers,        \* threads of the HandleHandlingPool
    Callers,        \* application threads that call into the library
    MaxSends,       \* bound: number of SendTo() calls
    MaxSize,        \* bound: units of data in one message
    Pris,           \* the priorities SendTo() is called with
    Kinds,          \* subset of {"async", "nocomplete", "sync"} to issue
    Targets,        \* subset of {"self", "one", "all"} to send to
    Cancels,        \* subset of {"player", "all", "handle"} to call
    Faults,         \* subset of {"close", "break", "destroy", "shutdown"} to happen
    MaxAcks         \* bound: acks that a connection awaits when the model starts

SendIds == 1..MaxSends

\* A SendOp: the send it belongs to and what SendQueue looks at.
Ops == [send : SendIds, async_handle : SendIds \cup {0}, pri : Priority, left : 0..MaxSize]

ASSUME SendsAssumption ==
    /\ NumPeers \in Nat \ {0}
    /\ MaxSends \in Nat
    /\ MaxSize \in Nat \ {0}
    /\ Pris \subseteq Priority
    /\ Kinds \subseteq {"async", "nocomplete", "sync"}
    /\ Targets \subseteq {"self", "one", "all"}
    /\ Cancels \subseteq {"player", "all", "handle"}
    /\ Faults \subseteq {"close", "break", "destroy", "shutdown"}
    /\ MaxAcks \in Nat
    /\ Workers \cap Callers = {}
    /\ Null \notin Workers \cup Callers \cup Nat \cup Ops

Peers == 1..NumPeers
Threads == Workers \cup Callers

VARIABLES
    lock,       \* owner of DirectPlay8Peer::lock, Null when free
    sq,         \* Peer::sq
    peer,       \* Peer::state: "connected", "closing", or "deleted" (not in `peers')
    acks,       \* how many Peer::pending_acks there are (module Groups has them)
    send_open,  \* Peer::send_open
    recv_busy,  \* Peer::recv_busy
    event,      \* Peer::event, an auto-reset event
    wr,         \* the socket's send side: "ready", "full", "shut", "broken"
    eof,        \* the socket's receive side has ended
    work,       \* work_queue: the loopback deliveries
    work_ready, \* the event of the work queue
    detached,   \* the threads SendTo() starts for a send without targets
    send,       \* the counters shared by the callbacks of one SendTo()
    thread,     \* where each thread is
    wire,       \* history: the messages written to each socket, in order
    flushed,    \* history: the peers whose queue a peer_destroy() has emptied
    late,       \* history: <<send, peer>> of ops queued after that
    orphans     \* history: <<send, peer>> of ops deleted with their Peer

history == <<flushed, late, orphans>>
sockets == <<peer, send_open, recv_busy, wr, eof>>
vars == <<lock, sq, sockets, acks, event, work, work_ready, detached, send, thread, wire,
          history>>

------------------------------------------------------------------------------
(* The counters of a SendTo(), and its completion.                          *)

NewSend == [kind |-> "new", targets |-> {}, pending |-> 0, result |-> "ok",
            indicated |-> 0, returned |-> FALSE]

\* Fault: every callback indicates completion, not only the last.
SettledEach(s, result) ==
    [send EXCEPT ![s].pending = @ - 1,
                 ![s].result = IF @ = "ok" THEN result ELSE @,
                 ![s].indicated = IF send[s].kind = "async" THEN @ + 1 ELSE @]

\* handle_send_complete() and its DPNSEND_SYNC counterpart: the first error
\* wins, the count goes down, and at zero the completion is indicated.
Settled(s, result) ==
    LET last == send[s].pending = 1
    IN  [send EXCEPT ![s].pending = @ - 1,
                     ![s].result = IF @ = "ok" THEN result ELSE @,
                     ![s].indicated = IF last /\ send[s].kind = "async"
                                      THEN @ + 1 ELSE @]

\* The callback releases the lock only around a SEND_COMPLETE indication.
Unlocks(s) == send[s].pending = 1 /\ send[s].kind = "async"

Idle == [pc |-> "idle", peer |-> Null, result |-> Null, send |-> Null, flags |-> {}]
At(pc, p) == [Idle EXCEPT !.pc = pc, !.peer = p]

\* Thread t holds the lock and is about to execute the code named pc.
Holds(t, pc) == lock = t /\ thread[t].pc = pc

\* Thread t returns from the application into code that takes the lock.
Resumes(t, pc) == lock = Null /\ thread[t].pc = pc

\* t goes on at `next' with the lock; or gives the lock up and is idle.
Continue(t, next) == lock' = t /\ thread' = [thread EXCEPT ![t] = next]
Finish(t) == lock' = Null /\ thread' = [thread EXCEPT ![t] = Idle]

\* An op of send s has come to its end in the loop `loop' of thread t: the
\* callback runs, and t is in the application if that indicates completion.
InvokeCallback(t, s, result, loop, cb) ==
    /\ send' = Settled(s, result)
    /\ IF Unlocks(s)
       THEN lock' = Null /\ thread' = [thread EXCEPT ![t].pc = cb]
       ELSE Continue(t, [thread[t] EXCEPT !.pc = loop])

------------------------------------------------------------------------------
(* SendTo()                                                                 *)

\* get_peer_by_player_id() finds the peer until it is erased, a player whose
\* DESTROY_PLAYER is being handled included.
Addressable(p) == peer[p] # "deleted"

PeersOf(target, p) ==
    CASE target = "self" -> {}
      [] target = "one" -> {p}
      [] target = "all" -> {q \in Peers : peer[q] = "connected"}

\* Fault: send() without SetEvent().
EnqueueSilently(s, handle, pri, size, ps) ==
    /\ sq' = [q \in Peers |-> IF q \in ps THEN Push(sq[q], SendOp(s, handle, pri, size))
                              ELSE sq[q]]
    /\ event' = event

\* The sq.send() calls, each of which also signals the event of its queue.
Enqueue(s, handle, pri, size, ps) ==
    /\ sq' = [q \in Peers |-> IF q \in ps THEN Push(sq[q], SendOp(s, handle, pri, size))
                              ELSE sq[q]]
    /\ event' = [q \in Peers |-> event[q] \/ q \in ps]

(***************************************************************************)
(* One call of SendTo().  A synchronous send uses handle 0 and counts its  *)
(* remote targets only; an asynchronous one also counts the loopback       *)
(* delivery, and a detached thread completes it if there is no target.     *)
(***************************************************************************)
SendTo(s, kind, target, p, noloop, pri, size) ==
    /\ lock = Null
    /\ s = 1 + Cardinality({i \in SendIds : send[i].kind # "new"})
    /\ target = "one" => Addressable(p)
    /\ LET ps    == PeersOf(target, p)
           self  == target = "self" \/ (target = "all" /\ ~noloop)
           loop  == self /\ kind # "sync"
           alone == ps = {} /\ ~self /\ kind # "sync"
           count == Cardinality(ps) + (IF loop \/ alone THEN 1 ELSE 0)
       IN  /\ send' = [send EXCEPT ![s] = [NewSend EXCEPT
                           !.kind = kind, !.targets = ps, !.pending = count]]
           /\ Enqueue(s, IF kind = "sync" THEN 0 ELSE s, pri, size, ps)
           /\ work' = IF loop THEN Append(work, s) ELSE work
           /\ work_ready' = (work_ready \/ loop)
           /\ detached' = IF alone THEN detached \cup {s} ELSE detached
           /\ late' = late \cup {<<s, q>> : q \in ps \cap flushed}
    /\ UNCHANGED <<lock, sockets, acks, thread, wire, flushed, orphans>>

\* The tail of a synchronous SendTo(): d_cv.wait() until pending is 0.
SyncReturn(s) ==
    /\ send[s].kind = "sync" /\ send[s].pending = 0 /\ ~send[s].returned
    /\ send' = [send EXCEPT ![s].returned = TRUE]
    /\ UNCHANGED <<lock, sq, sockets, event, work, work_ready, detached, thread, wire, acks, history>>

\* The detached thread of a send that has no target.
DetachedComplete(s) ==
    /\ lock = Null /\ s \in detached
    /\ send' = Settled(s, "ok")
    /\ detached' = detached \ {s}
    /\ UNCHANGED <<lock, sq, sockets, event, work, work_ready, thread, wire, acks, history>>

------------------------------------------------------------------------------
(* The work queue: loopback messages.                                       *)

WakeWork(t) ==
    /\ thread[t] = Idle /\ work_ready
    /\ work_ready' = FALSE
    /\ thread' = [thread EXCEPT ![t].pc = "worktrig"]
    /\ UNCHANGED <<lock, sq, sockets, event, work, detached, send, wire, acks, history>>

\* handle_work(): pop one item, wake another thread if there are more, and
\* run it without the lock; the item starts with the RECEIVE indication.
HandleWork(t) ==
    /\ Resumes(t, "worktrig")
    /\ \/ /\ work = <<>>
          /\ thread' = [thread EXCEPT ![t] = Idle]
          /\ UNCHANGED <<work, work_ready>>
       \/ /\ work # <<>>
          /\ work' = Tail(work)
          /\ work_ready' = (work_ready \/ Tail(work) # <<>>)
          /\ thread' = [thread EXCEPT ![t] = [Idle EXCEPT !.pc = "workcb",
                                                          !.send = Head(work)]]
    /\ UNCHANGED <<lock, sq, sockets, event, detached, send, wire, acks, history>>

\* The rest of the work item, after the application has handled RECEIVE.
WorkReturn(t) ==
    /\ Resumes(t, "workcb")
    /\ send' = Settled(thread[t].send, "ok")
    /\ thread' = [thread EXCEPT ![t] = Idle]
    /\ UNCHANGED <<lock, sq, sockets, event, work, work_ready, detached, wire, acks, history>>

------------------------------------------------------------------------------
(* Socket events: io_peer_triggered(), io_peer_send(), io_peer_recv().      *)

\* The pool picks up the event (HandlePool has the details): it is reset
\* before the callback takes the lock.
Wake(t, p) ==
    /\ thread[t] = Idle /\ event[p] /\ peer[p] # "deleted"
    /\ event' = [event EXCEPT ![p] = FALSE]
    /\ thread' = [thread EXCEPT ![t] = At("trig", p)]
    /\ UNCHANGED <<lock, sq, sockets, work, work_ready, detached, send, wire, acks, history>>

\* io_peer_triggered() up to io_peer_send(), and each later turn of that
\* loop after a callback: the peer is looked up again by its id.
EnterSend(t) ==
    /\ Resumes(t, "trig") \/ Resumes(t, "sendcb")
    /\ IF peer[thread[t].peer] = "deleted"
       THEN Finish(t)
       ELSE Continue(t, At("send", thread[t].peer))
    /\ UNCHANGED <<sq, sockets, event, work, work_ready, detached, send, wire, acks, history>>

\* send() wrote n units of the op, not all of them: the send buffer is full.
SendPartial(t, n) ==
    /\ Holds(t, "send")
    /\ LET p == thread[t].peer
           q == GetPending(sq[p])
       IN  /\ q.current # Null /\ wr[p] = "ready" /\ n < q.current.left
           /\ sq' = [sq EXCEPT ![p] = IncSentData(q, n)]
           /\ wr' = [wr EXCEPT ![p] = "full"]
    /\ UNCHANGED <<lock, peer, send_open, recv_busy, eof, event, work, work_ready, detached, send, thread, wire, acks, history>>

\* send() wrote the rest of the op, and filled the buffer or not.  The next op
\* is made current before the callback runs, and another worker is woken.
SendWhole(t) ==
    /\ Holds(t, "send")
    /\ LET p == thread[t].peer
           q == GetPending(sq[p])
           after == GetPending(PopPending(q))
       IN  /\ q.current # Null /\ wr[p] = "ready"
           /\ \E w \in {"ready", "full"} : wr' = [wr EXCEPT ![p] = w]
           /\ sq' = [sq EXCEPT ![p] = after]
           /\ event' = [event EXCEPT ![p] = @ \/ after.current # Null]
           /\ wire' = [wire EXCEPT ![p] = Append(@, [q.current EXCEPT !.left = 0])]
           /\ InvokeCallback(t, q.current.send, "ok", "send", "sendcb")
    /\ UNCHANGED <<peer, send_open, recv_busy, eof, work, work_ready, detached, acks, history>>

\* send() would block; FD_WRITE will signal the event later.
SendWouldBlock(t) ==
    /\ Holds(t, "send")
    /\ LET p == thread[t].peer
           q == GetPending(sq[p])
       IN  /\ q.current # Null /\ wr[p] = "full"
           /\ sq' = [sq EXCEPT ![p] = q]
           /\ Continue(t, At("recv", p))
    /\ UNCHANGED <<sockets, event, work, work_ready, detached, send, wire, acks, history>>

\* send() fails: peer_destroy(DPNERR_CONNECTIONLOST).
SendError(t) ==
    /\ Holds(t, "send")
    /\ LET p == thread[t].peer
           q == GetPending(sq[p])
       IN  /\ q.current # Null /\ wr[p] \in {"shut", "broken"}
           /\ sq' = [sq EXCEPT ![p] = q]
           /\ Continue(t, [At("flush", p) EXCEPT !.result = "lost"])
    /\ UNCHANGED <<sockets, event, work, work_ready, detached, send, wire, acks, history>>

\* Nothing left to send: a closing peer is shut down gracefully (and is
\* destroyed if shutdown() fails), then io_peer_recv() runs.
SendDrained(t) ==
    /\ Holds(t, "send")
    /\ LET p == thread[t].peer
       IN  /\ GetPending(sq[p]).current = Null
           /\ \/ /\ ~(peer[p] = "closing" /\ send_open[p])
                 /\ Continue(t, At("recv", p))
                 /\ UNCHANGED <<wr, send_open>>
              \/ /\ peer[p] = "closing" /\ send_open[p] /\ wr[p] # "broken"
                 /\ wr' = [wr EXCEPT ![p] = "shut"]
                 /\ send_open' = [send_open EXCEPT ![p] = FALSE]
                 /\ Continue(t, At("recv", p))
              \/ /\ peer[p] = "closing" /\ send_open[p] /\ wr[p] = "broken"
                 /\ Continue(t, [At("flush", p) EXCEPT !.result = "lost"])
                 /\ UNCHANGED <<wr, send_open>>
    /\ UNCHANGED <<sq, peer, recv_busy, eof, event, work, work_ready, detached, send, wire, acks, history>>

\* io_peer_recv() as far as sending is concerned: another thread is reading,
\* there is nothing to read, or the stream has ended and the peer with it.
IoRecv(t) ==
    /\ Holds(t, "recv")
    /\ LET p == thread[t].peer
       IN  \/ /\ recv_busy[p] \/ ~eof[p]
              /\ Finish(t)
              /\ UNCHANGED recv_busy
           \/ /\ ~recv_busy[p] /\ eof[p]
              /\ recv_busy' = [recv_busy EXCEPT ![p] = TRUE]
              /\ Continue(t, [At("flush", p) EXCEPT !.result = "lost"])
    /\ UNCHANGED <<sq, peer, send_open, wr, eof, event, work, work_ready, detached, send, wire, acks, history>>

------------------------------------------------------------------------------
(* peer_destroy() and peer_shutdown()                                       *)

\* A call from another handler (a lost host, DestroyPeer(), Close()...).
CallPeerDestroy(t, p) ==
    /\ thread[t] = Idle /\ lock = Null /\ peer[p] # "deleted"
    /\ Continue(t, [At("flush", p) EXCEPT !.result = "lost"])
    /\ UNCHANGED <<sq, sockets, event, work, work_ready, detached, send, wire, acks, history>>

\* Fault: the flushed op is reported as sent.
FlushOpAsSent(t) ==
    /\ Holds(t, "flush")
    /\ LET p == thread[t].peer
           q == GetPending(sq[p])
       IN  /\ q.current # Null
           /\ sq' = [sq EXCEPT ![p] = PopPending(q)]
           /\ InvokeCallback(t, q.current.send, "ok", "flush", "flushcb")
    /\ UNCHANGED <<sockets, event, work, work_ready, detached, wire, acks, history>>

\* One turn of the flush loop of peer_destroy().
FlushOp(t) ==
    /\ Holds(t, "flush")
    /\ LET p == thread[t].peer
           q == GetPending(sq[p])
       IN  /\ q.current # Null
           /\ sq' = [sq EXCEPT ![p] = PopPending(q)]
           /\ InvokeCallback(t, q.current.send, thread[t].result, "flush", "flushcb")
    /\ UNCHANGED <<sockets, event, work, work_ready, detached, wire, acks, history>>

\* RENEW_PEER_OR_RETURN() after a callback of that loop.
FlushReturn(t) ==
    /\ Resumes(t, "flushcb")
    /\ IF peer[thread[t].peer] = "deleted"
       THEN Finish(t)
       ELSE Continue(t, [thread[t] EXCEPT !.pc = "flush"])
    /\ UNCHANGED <<sq, sockets, event, work, work_ready, detached, send, wire, acks, history>>

\* The queue is empty: on to the acks that the peer still owes.
FlushDone(t) ==
    /\ Holds(t, "flush")
    /\ GetPending(sq[thread[t].peer]).current = Null
    /\ flushed' = flushed \cup {thread[t].peer}
    /\ Continue(t, [thread[t] EXCEPT !.pc = "acks"])
    /\ UNCHANGED <<sq, sockets, acks, event, work, work_ready, detached, send, wire, late, orphans>>

\* One turn of the loop over pending_acks.  The callback of an ack indicates
\* the completion of an operation, without the lock, or does not.
FlushAck(t) ==
    /\ Holds(t, "acks")
    /\ acks[thread[t].peer] > 0
    /\ acks' = [acks EXCEPT ![thread[t].peer] = @ - 1]
    /\ \/ lock' = Null /\ thread' = [thread EXCEPT ![t].pc = "ackscb"]
       \/ UNCHANGED <<lock, thread>>
    /\ UNCHANGED <<sq, sockets, event, work, work_ready, detached, send, wire, history>>

\* RENEW_PEER_OR_RETURN() after a callback of that loop.
FlushAckReturn(t) ==
    /\ Resumes(t, "ackscb")
    /\ IF peer[thread[t].peer] = "deleted"
       THEN Finish(t)
       ELSE Continue(t, [thread[t] EXCEPT !.pc = "acks"])
    /\ UNCHANGED <<sq, sockets, acks, event, work, work_ready, detached, send, wire, history>>

\* The peer is erased and deleted, its queue and the ops in that with it: an
\* op that came after the flush goes without its callback.
Delete(p) ==
    /\ peer' = [peer EXCEPT ![p] = "deleted"]
    /\ sq' = [sq EXCEPT ![p] = EmptyQueue]
    /\ orphans' = orphans \cup {<<op.send, p>> : op \in OpsIn(sq[p])}

\* No ack is left.  A connected peer is indicated as gone first, without the
\* lock; any other is deleted at once.
AcksDone(t) ==
    /\ Holds(t, "acks")
    /\ LET p == thread[t].peer
       IN  /\ acks[p] = 0
           /\ \/ /\ peer[p] = "connected"
                 /\ send_open' = [send_open EXCEPT ![p] = FALSE]
                 /\ peer' = [peer EXCEPT ![p] = "closing"]
                 /\ lock' = Null
                 /\ thread' = [thread EXCEPT ![t] = At("destroycb", p)]
                 /\ UNCHANGED <<sq, orphans>>
              \/ /\ peer[p] # "connected"
                 /\ Delete(p)
                 /\ Finish(t)
                 /\ UNCHANGED send_open
    /\ UNCHANGED <<recv_busy, wr, eof, acks, event, work, work_ready, detached, send, wire, flushed, late>>

\* DESTROY_PLAYER has been handled: delete the peer, unless it has gone.
DestroyReturn(t) ==
    /\ Resumes(t, "destroycb")
    /\ Delete(thread[t].peer)
    /\ Finish(t)
    /\ UNCHANGED <<send_open, recv_busy, wr, eof, acks, event, work, work_ready, detached, send, wire,
                   flushed, late>>

\* peer_shutdown() of a connected peer.  What follows its DESTROY_PLAYER
\* indication does not concern the queue.
PeerShutdown(p) ==
    /\ lock = Null /\ peer[p] = "connected"
    /\ peer' = [peer EXCEPT ![p] = "closing"]
    /\ event' = [event EXCEPT ![p] = TRUE]
    /\ UNCHANGED <<lock, sq, send_open, recv_busy, wr, eof, work, work_ready, detached, send, thread, wire, acks, history>>

------------------------------------------------------------------------------
(* CancelAsyncOperation() for sends.                                        *)

CallCancel(t, what, p, flags) ==
    /\ thread[t] = Idle /\ lock = Null
    /\ what = "player" => peer[p] # "deleted"
    /\ Continue(t, [At(what, p) EXCEPT !.flags = flags])
    /\ UNCHANGED <<sq, sockets, event, work, work_ready, detached, send, wire, acks, history>>

\* One turn of DPNCANCEL_PLAYER_SENDS: the op it takes is in the lowest of
\* the selected priorities that has one.
CancelPlayerTurn(t, pri) ==
    LET p     == thread[t].peer
        below == CASE pri = "low" -> {} [] pri = "medium" -> {"low"}
                   [] pri = "high" -> {"low", "medium"}
    IN  /\ Holds(t, "player")
        /\ peer[p] # "deleted" /\ pri \in thread[t].flags
        /\ Cancellable(sq[p][pri]) # {}
        /\ \A x \in below \cap thread[t].flags : Cancellable(sq[p][x]) = {}
        /\ \E r \in {RemoveQueuedByPriority(sq[p], pri)} :
               /\ sq' = [sq EXCEPT ![p] = r.sq]
               /\ InvokeCallback(t, r.op.send, "cancelled", "player", "playercb")
        /\ UNCHANGED <<sockets, event, work, work_ready, detached, wire, acks, history>>

\* One turn of DPNCANCEL_ALL_OPERATIONS, which starts at the first peer again
\* after every removal.
CancelAllTurn(t, p) ==
    /\ Holds(t, "all")
    /\ peer[p] # "deleted" /\ RemoveQueuedPri(sq[p]) # Null
    /\ \A q \in 1..p-1 : peer[q] = "deleted" \/ RemoveQueuedPri(sq[q]) = Null
    /\ \E r \in {RemoveQueued(sq[p])} :
           /\ sq' = [sq EXCEPT ![p] = r.sq]
           /\ InvokeCallback(t, r.op.send, "cancelled", "all", "allcb")
    /\ UNCHANGED <<sockets, event, work, work_ready, detached, wire, acks, history>>

\* Nothing (more) to cancel: the call returns.
CancelDone(t) ==
    /\ \/ /\ Holds(t, "player")
          /\ LET p == thread[t].peer
             IN  \/ peer[p] = "deleted"
                 \/ \A pri \in thread[t].flags : Cancellable(sq[p][pri]) = {}
       \/ /\ Holds(t, "all")
          /\ \A p \in Peers : peer[p] = "deleted" \/ RemoveQueuedPri(sq[p]) = Null
    /\ Finish(t)
    /\ UNCHANGED <<sq, sockets, event, work, work_ready, detached, send, wire, acks, history>>

CancelReturn(t) ==
    /\ Resumes(t, "playercb") \/ Resumes(t, "allcb")
    /\ Continue(t, [thread[t] EXCEPT !.pc = IF @ = "playercb" THEN "player" ELSE "all"])
    /\ UNCHANGED <<sq, sockets, event, work, work_ready, detached, send, wire, acks, history>>

(***************************************************************************)
(* Cancelling one handle: the peers are searched in order for the first    *)
(* one that has the op queued, or is sending it (DPNERR_CANNOTCANCEL; what *)
(* was removed from that same queue is then dropped without a callback).   *)
(***************************************************************************)
Involved(p, h) ==
    /\ peer[p] # "deleted"
    /\ ByHandlePri(sq[p], h) # Null \/ HandleIsPending(sq[p], h)

\* Fault: the op that is taken out is dropped without its callback.
CancelHandleSilently(h, p) ==
    /\ lock = Null
    /\ Involved(p, h) /\ \A q \in 1..p-1 : ~Involved(q, h)
    /\ \E r \in {RemoveQueuedByHandle(sq[p], h)} :
           r.op # Null /\ sq' = [sq EXCEPT ![p] = r.sq]
    /\ UNCHANGED <<lock, sockets, event, work, work_ready, detached, send, thread, wire, acks, history>>

CancelHandle(h, p) ==
    /\ lock = Null
    /\ Involved(p, h) /\ \A q \in 1..p-1 : ~Involved(q, h)
    /\ \E r \in {RemoveQueuedByHandle(sq[p], h)} :
           /\ r.op # Null
           /\ sq' = [sq EXCEPT ![p] = r.sq]
           /\ send' = IF HandleIsPending(r.sq, h) THEN send ELSE Settled(h, "cancelled")
    /\ UNCHANGED <<lock, sockets, event, work, work_ready, detached, thread, wire, acks, history>>

------------------------------------------------------------------------------
(* The network.                                                             *)

\* The send buffer has room again: FD_WRITE.
Writable(p) ==
    /\ wr[p] = "full"
    /\ wr' = [wr EXCEPT ![p] = "ready"]
    /\ event' = [event EXCEPT ![p] = TRUE]
    /\ UNCHANGED <<lock, sq, peer, send_open, recv_busy, eof, work, work_ready, detached, send, thread, wire, acks, history>>

\* The remote end closes or the connection breaks: FD_CLOSE, unless a reader
\* has disabled it.
RemoteClose(p, broken) ==
    /\ ~eof[p] /\ peer[p] # "deleted"
    /\ eof' = [eof EXCEPT ![p] = TRUE]
    /\ wr' = [wr EXCEPT ![p] = IF broken THEN "broken" ELSE @]
    /\ event' = [event EXCEPT ![p] = @ \/ ~recv_busy[p]]
    /\ UNCHANGED <<lock, sq, peer, send_open, recv_busy, work, work_ready, detached, send, thread, wire, acks, history>>

------------------------------------------------------------------------------
Init ==
    /\ lock = Null
    /\ sq = [p \in Peers |-> EmptyQueue]
    /\ peer = [p \in Peers |-> "connected"]
    /\ send_open = [p \in Peers |-> TRUE]
    /\ recv_busy = [p \in Peers |-> FALSE]
    /\ event = [p \in Peers |-> FALSE]
    /\ wr = [p \in Peers |-> "ready"]
    /\ eof = [p \in Peers |-> FALSE]
    /\ work = <<>> /\ work_ready = FALSE /\ detached = {}
    /\ send = [s \in SendIds |-> NewSend]
    /\ thread = [t \in Threads |-> Idle]
    /\ wire = [p \in Peers |-> <<>>]
    /\ acks \in [Peers -> 0..MaxAcks]
    /\ flushed = {} /\ late = {} /\ orphans = {}

\* What the library does on its own: pool threads serve events, and any
\* thread goes on with what it has begun.
Serve(t) == WakeWork(t) \/ \E p \in Peers : Wake(t, p)

Run(t) ==
    \/ HandleWork(t) \/ WorkReturn(t)
    \/ EnterSend(t) \/ SendWhole(t) \/ SendWouldBlock(t) \/ SendError(t)
    \/ SendDrained(t) \/ IoRecv(t)
    \/ \E n \in 1..MaxSize : SendPartial(t, n)
    \/ FlushOp(t) \/ FlushReturn(t) \/ FlushDone(t)
    \/ FlushAck(t) \/ FlushAckReturn(t) \/ AcksDone(t) \/ DestroyReturn(t)
    \/ \E pri \in Priority : CancelPlayerTurn(t, pri)
    \/ \E p \in Peers : CancelAllTurn(t, p)
    \/ CancelDone(t) \/ CancelReturn(t)

\* Calls of the application.
Call ==
    \/ \E s \in SendIds, kind \in Kinds, target \in Targets, p \in Peers,
          noloop \in BOOLEAN, pri \in Pris, size \in 1..MaxSize :
           /\ target # "one" => p = 1
           /\ target = "all" \/ noloop
           /\ SendTo(s, kind, target, p, noloop, pri, size)
    \/ \E t \in Callers, p \in Peers, flags \in SUBSET Pris \ {{}} :
           \/ "player" \in Cancels /\ CallCancel(t, "player", p, flags)
           \/ "all" \in Cancels /\ p = 1 /\ flags = Pris /\ CallCancel(t, "all", p, flags)
    \/ "handle" \in Cancels /\ \E h \in SendIds, p \in Peers : CancelHandle(h, p)
    \/ "destroy" \in Faults /\ \E t \in Callers, p \in Peers : CallPeerDestroy(t, p)
    \/ "shutdown" \in Faults /\ \E p \in Peers : PeerShutdown(p)

Network ==
    \E p \in Peers :
        \/ Writable(p)
        \/ "close" \in Faults /\ RemoteClose(p, FALSE)
        \/ "break" \in Faults /\ RemoteClose(p, TRUE)

\* No thread is in the library: the application and the network may leave
\* it at that.
Quiescent == (\A t \in Threads : thread[t] = Idle) /\ UNCHANGED vars

Next ==
    \/ \E t \in Threads : Run(t)
    \/ \E t \in Workers : Serve(t)
    \/ \E s \in SendIds : SyncReturn(s) \/ DetachedComplete(s)
    \/ Call
    \/ Network
    \/ Quiescent

Spec == Init /\ [][Next]_vars

(***************************************************************************)
(* Fairness.  The pool serves a signalled event, the application's handler *)
(* returns, and a thread that keeps finding the mutex free gets it in the  *)
(* end.  The application need not call anything and the remote end need    *)
(* not close, but a full socket is drained (or breaks) in the end.         *)
(***************************************************************************)
Fairness ==
    /\ \A t \in Threads : SF_vars(Run(t))
    /\ \A t \in Workers : WF_vars(Serve(t))
    /\ \A s \in SendIds : WF_vars(SyncReturn(s)) /\ SF_vars(DetachedComplete(s))
    /\ \A p \in Peers : WF_vars(Writable(p))

FairSpec == Spec /\ Fairness

------------------------------------------------------------------------------
(* Properties                                                               *)

\* Type invariant: queues hold SendOps, threads are at known places, and no
\* counter leaves the range of the number of targets.
TypeOK ==
    /\ lock \in Threads \cup {Null}
    /\ \A p \in Peers : /\ \A pri \in Priority : sq[p][pri] \in Seq(Ops)
                        /\ sq[p].current \in Ops \cup {Null}
    /\ wire \in [Peers -> Seq(Ops)] /\ acks \in [Peers -> 0..MaxAcks]
    /\ flushed \subseteq Peers /\ late \subseteq SendIds \X Peers /\ orphans \subseteq SendIds \X Peers
    /\ peer \in [Peers -> {"connected", "closing", "deleted"}]
    /\ send_open \in [Peers -> BOOLEAN] /\ recv_busy \in [Peers -> BOOLEAN]
    /\ event \in [Peers -> BOOLEAN] /\ eof \in [Peers -> BOOLEAN]
    /\ wr \in [Peers -> {"ready", "full", "shut", "broken"}]
    /\ work \in Seq(SendIds) /\ work_ready \in BOOLEAN /\ detached \subseteq SendIds
    /\ send \in [SendIds -> [kind : {"new", "async", "nocomplete", "sync"}, targets : SUBSET Peers,
                             pending : 0..NumPeers + 1, result : {"ok", "cancelled", "lost"},
                             indicated : 0..1, returned : BOOLEAN]]
    /\ thread \in [Threads -> [pc : {"idle", "worktrig", "workcb", "trig", "send", "sendcb", "recv",
                                     "flush", "flushcb", "acks", "ackscb", "destroycb",
                                     "player", "playercb", "all", "allcb"},
                               peer : Peers \cup {Null}, result : {"lost", Null},
                               send : SendIds \cup {Null}, flags : SUBSET Pris]]

\* The callbacks of send s that have still to run.
QueuedAt(s) == {p \in Peers : \E op \in OpsIn(sq[p]) : op.send = s}

InWork(s) == \/ s \in ToSet(work)
             \/ \E t \in Threads : thread[t].pc = "workcb" /\ thread[t].send = s

Outstanding(s) == Cardinality(QueuedAt(s)) + (IF InWork(s) THEN 1 ELSE 0)
                                           + (IF s \in detached THEN 1 ELSE 0)

\* The peers with which an op of send s has been deleted that was queued after
\* a peer_destroy() had emptied the queue: no callback of these will ever run.
OrphanedAt(s) == {p \in Peers : <<s, p>> \in orphans \cap late}

\* The counter shared by the callbacks of one SendTo() (SendTo, `pending') is
\* always the number of callbacks still to come plus the number of those that
\* never will: ops deleted with their Peer, which had been flushed when they
\* were queued (see NothingOrphaned).  Nothing else drops an op without its
\* callback, completes it twice or holds it in two places, whatever writers,
\* cancels and peer_destroy() loops interleave.
Accounting ==
    \A s \in SendIds : send[s].pending = Outstanding(s) + Cardinality(OrphanedAt(s))

\* A send that completes with S_OK has been written, whole and once, to every
\* peer it was addressed to; an op on the wire is never one that was cancelled
\* or flushed, so a failed result never stands for a send that reached all.
WrittenTo(s) == {p \in Peers : \E i \in DOMAIN wire[p] : wire[p][i].send = s}

ResultIsTruthful ==
    \A s \in SendIds :
        (send[s].kind # "new" /\ send[s].pending = 0)
            => (send[s].result = "ok" <=> WrittenTo(s) = send[s].targets)

\* Outside of a flush, the byte stream of a connection is a sequence of whole
\* packets: only the op in `current' can be partly written, and no cancel,
\* priority or second worker puts another packet between its pieces.  The flush
\* loop of peer_destroy() is the exception: it gives up a `current' that may be
\* partly written, and while the callback of that op runs, or a later one of
\* the loop, another worker may write the next op behind the truncated packet.
\* What was being written to a Peer that is deleted is lost with its socket.
StreamIntegrity ==
    [][\A p \in Peers :
          sq[p].current # Null /\ sq'[p].current # sq[p].current =>
              \/ sq'[p].current # Null /\ sq'[p].current.send = sq[p].current.send
              \/ Len(wire'[p]) = Len(wire[p]) + 1
              \/ peer'[p] = "deleted"
              \/ \E t \in Threads : lock = t /\ thread[t].pc = "flush" /\ thread[t].peer = p]_vars

\* Within a priority, messages to a peer are written in the order of the
\* SendTo() calls (a cancelled one is missing, never late).
WireOrder ==
    \A p \in Peers : \A i, j \in DOMAIN wire[p] :
        (i < j /\ wire[p][i].pri = wire[p][j].pri) => wire[p][i].send < wire[p][j].send

\* peer_destroy(): "Cancel any outstanding sends and notify the callbacks."
\* Of all that happens to a connection, only this leaves an op without a
\* callback: SendTo() queues it after peer_destroy() has emptied the queue,
\* while the callback of an ack or DESTROY_PLAYER is being handled.
NothingOrphaned == orphans \subseteq late

------------------------------------------------------------------------------
\* What the application has been told about send s.
StatusOf(s) ==
    IF send[s].kind = "new" THEN "new"
    ELSE IF (send[s].kind = "async" /\ send[s].indicated = 0)
            \/ (send[s].kind = "sync" /\ ~send[s].returned)
            \/ (send[s].kind = "nocomplete" /\ send[s].pending > 0)
    THEN "outstanding"
    ELSE send[s].result

Promise == INSTANCE SendCompletion WITH status <- [s \in SendIds |-> StatusOf(s)]

\* Sends implements SendCompletion: every send that SendTo() accepts is
\* completed at most once, with a result that then stands.
PromiseKept == Promise!Spec

\* Under Fairness every accepted send is completed, whatever is cancelled and
\* whichever connections are lost, unless one of its ops is deleted with its
\* Peer (see NothingOrphaned).
EverySendCompletes ==
    \A s \in SendIds :
        (StatusOf(s) = "outstanding") ~>
            (StatusOf(s) \in Promise!Outcome \/ \E p \in Peers : <<s, p>> \in orphans)
==============================================================================
