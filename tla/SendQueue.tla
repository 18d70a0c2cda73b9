------------------------------ MODULE SendQueue ------------------------------
(***************************************************************************)
(* class SendQueue (SendQueue.hpp, SendQueue.cpp): the outgoing messages   *)
(* of one connection.  A queue is three FIFO lists, one per priority, and  *)
(* `current', the SendOp that has been handed to the socket and may have   *)
(* been written in part.  Everything here is called with the lock of the   *)
(* owning DirectPlay8Peer held, so each method is one operator from a      *)
(* queue to a queue; the threads are in module Sends.                      *)
(*                                                                         *)
(* A SendOp is a record.  Its bytes are abstracted to `left', how many     *)
(* units of the packet have not been written yet.                          *)
(***************************************************************************)
EXTENDS Naturals, Sequences, SequencesExt

CONSTANT Null       \* the NULL pointer

\* enum SendPriority; get_pending() serves high before medium before low.
Priority == {"low", "medium", "high"}

EmptyQueue ==
    [low |-> <<>>, medium |-> <<>>, high |-> <<>>, current |-> Null]

\* A SendOp as the constructor leaves it: nothing sent yet.
SendOp(send, handle, pri, size) ==
    [send |-> send, async_handle |-> handle, pri |-> pri, left |-> size]

\* Fault: push_front() for push_back().
PushFront(sq, op) == [sq EXCEPT ![op.pri] = <<op>> \o @]

\* send(): to the back of the list of the priority.  The SetEvent() that
\* follows belongs to the caller's event (see Sends!Enqueue).
Push(sq, op) == [sq EXCEPT ![op.pri] = Append(@, op)]

\* The priority get_pending() takes its next op from.
NextPriority(sq) ==
    IF sq.high # <<>> THEN "high"
    ELSE IF sq.medium # <<>> THEN "medium" ELSE "low"

\* No op is waiting in any of the three lists.
ListsEmpty(sq) == \A pri \in Priority : sq[pri] = <<>>

\* Fault: get_pending() without its test of `current'.
GetPendingAnew(sq) ==
    IF ListsEmpty(sq) THEN sq
    ELSE LET pri == NextPriority(sq)
         IN  [sq EXCEPT !.current = Head(sq[pri]), ![pri] = Tail(@)]

(***************************************************************************)
(* get_pending(): the queue after the call; its result is the `current'    *)
(* field of that queue.  An op in `current' stays there, whatever has been *)
(* queued behind it since.                                                 *)
(***************************************************************************)
GetPending(sq) ==
    IF sq.current # Null \/ ListsEmpty(sq)
    THEN sq
    ELSE LET pri == NextPriority(sq)
         IN  [sq EXCEPT !.current = Head(sq[pri]), ![pri] = Tail(@)]

\* pop_pending(op), asserted to be called with op = current.
PopPending(sq) == [sq EXCEPT !.current = Null]

\* SendOp::inc_sent_data() on the op being sent.
IncSentData(sq, n) == [sq EXCEPT !.current.left = @ - n]

(***************************************************************************)
(* The remove_queued() family looks at the lists only, never at `current', *)
(* and only at ops with a nonzero async_handle.                            *)
(***************************************************************************)
Cancellable(list) == {i \in DOMAIN list : list[i].async_handle # 0}

WithHandle(list, h) == {i \in Cancellable(list) : list[i].async_handle = h}

\* The list in which remove_queued() finds its op, from high to low.
RemoveQueuedPri(sq) ==
    IF Cancellable(sq.high) # {} THEN "high"
    ELSE IF Cancellable(sq.medium) # {} THEN "medium"
    ELSE IF Cancellable(sq.low) # {} THEN "low" ELSE Null

\* The list in which remove_queued_by_handle(h) finds its op, from low to high.
ByHandlePri(sq, h) ==
    IF WithHandle(sq.low, h) # {} THEN "low"
    ELSE IF WithHandle(sq.medium, h) # {} THEN "medium"
    ELSE IF WithHandle(sq.high, h) # {} THEN "high" ELSE Null

\* A removal: the op taken out (Null if none) and the queue that is left.
NothingRemoved(sq) == [op |-> Null, sq |-> sq]

Removal(sq, pri, i) ==
    [op |-> sq[pri][i], sq |-> [sq EXCEPT ![pri] = RemoveAt(@, i)]]

\* remove_queued_by_priority(pri)
RemoveQueuedByPriority(sq, pri) ==
    IF Cancellable(sq[pri]) = {} THEN NothingRemoved(sq)
    ELSE Removal(sq, pri, Min(Cancellable(sq[pri])))

\* remove_queued()
RemoveQueued(sq) ==
    LET pri == RemoveQueuedPri(sq)
    IN  IF pri = Null THEN NothingRemoved(sq)
                      ELSE RemoveQueuedByPriority(sq, pri)

\* remove_queued_by_handle(h)
RemoveQueuedByHandle(sq, h) ==
    LET pri == ByHandlePri(sq, h)
    IN  IF pri = Null THEN NothingRemoved(sq)
                      ELSE Removal(sq, pri, Min(WithHandle(sq[pri], h)))

\* handle_is_pending(h)
HandleIsPending(sq, h) == sq.current # Null /\ sq.current.async_handle = h

\* The ops a queue holds, for the accounting of module Sends.
OpsIn(sq) ==
    (UNION {ToSet(sq[pri]) : pri \in Priority})
        \cup (IF sq.current = Null THEN {} ELSE {sq.current})
==============================================================================
