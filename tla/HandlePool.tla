------------------------------ MODULE HandlePool ------------------------------
(***************************************************************************)
(* class HandleHandlingPool (HandleHandlingPool.hpp/.cpp): worker threads  *)
(* that wait on blocks of event HANDLEs and run the callback of a handle   *)
(* that is signalled.  The array `handles' is cut into blocks that start   *)
(* with spin_workers, each served by threads_per_pool workers.             *)
(*                                                                         *)
(* add_handle() and remove_handle() are writers of the array: they raise   *)
(* pending_writer and signal spin_workers so that every worker lets go of  *)
(* the shared wait_lock, which the writer then takes exclusively.  Each    *)
(* step of a thread below is the code between two operations that can      *)
(* block or be observed by another thread.                                 *)
(*                                                                         *)
(* Events, mutexes and threads are the Win32 and C++ library's; their      *)
(* semantics are part of the actions that use them.                        *)
(***************************************************************************)
EXTENDS Naturals, Sequences, FiniteSets

CONSTANTS
    Handles,            \* the HANDLEs the application registers
    Workers,            \* identities of worker threads, reused after a join
    Callers,            \* threads outside the pool
    ThreadsPerPool,     \* threads_per_pool
    MaxHandlesPerPool,  \* the constructor's max_handles_per_pool
    Failures,           \* subset of {"alloc", "spawn", "wait"} that may happen
    Spin,               \* the handle spin_workers, and its abort() callback
    Null

Threads == Workers \cup Callers

\* The member max_handles_per_pool: one slot of a block is spin_workers.
BlockSize == MaxHandlesPerPool + 1

ASSUME PoolAssumption ==
    /\ ThreadsPerPool \in Nat \ {0} /\ MaxHandlesPerPool \in Nat \ {0}
    /\ Failures \subseteq {"alloc", "spawn", "wait"}
    /\ Spin \notin Handles /\ Null \notin Threads \cup Handles \cup {Spin}
    /\ Null \notin [op : {"add", "remove"}, h : Handles]
    /\ Workers \cap Callers = {}

ASSUME WorkersAssumption == IsFiniteSet(Workers)

VARIABLES
    handles, callbacks,  \* the two vectors; a callback is named by its handle
    signalled,           \* the registered events that are signalled (auto-reset)
    spin_workers,        \* the state of the manual-reset event spin_workers
    stopping,            \* set by the destructor
    pending_writer,
    pending_writer_lock, \* its owner, or Null
    readers, writer,     \* the shared and the exclusive holders of wait_lock
    workers_lock,        \* its owner, or Null
    active_workers, join_worker,
    base_index,          \* Worker::base_index
    pc,                  \* where each thread is
    arg,                 \* the operation and handle of a writer
    got                  \* the handle that woke a worker, and the callback it copied

data == <<handles, callbacks>>
sync == <<spin_workers, stopping, pending_writer, pending_writer_lock, readers, writer, workers_lock>>
pool == <<active_workers, join_worker, base_index>>
vars == <<data, signalled, sync, pool, pc, arg, got>>

\* Program counters: of a worker, of a writer, and of the destructor.
WorkerPC == {"unborn", "top", "await", "cvwait", "lock", "wait", "callback",
             "exit", "join", "dying", "dead"}
WriterPC == {"announce", "signal", "enter", "add", "remove"}
CallerPC == {"idle", "delete", "deleted"}

Goto(t, l) == pc' = [pc EXCEPT ![t] = l]

------------------------------------------------------------------------------
(* Writers: add_handle(h, callback) and remove_handle(h).                   *)

\* A caller, or a callback, begins a writer operation.  Nobody may once the
\* pool is being destroyed.
Begin(t, op, h) ==
    /\ pc[t] \in {"idle", "callback"} /\ ~stopping
    /\ op = "add" => h \notin {handles[i] : i \in DOMAIN handles}
                     /\ \A u \in Threads \ {t} : arg[u] # [op |-> "add", h |-> h]
    /\ arg' = [arg EXCEPT ![t] = [op |-> op, h |-> h]]
    /\ Goto(t, "announce")
    /\ UNCHANGED <<data, signalled, sync, pool, got>>

\* Claim pending_writer_lock and set pending_writer.
Announce(t) ==
    /\ pc[t] = "announce" /\ pending_writer_lock = Null
    /\ pending_writer_lock' = t
    /\ pending_writer' = TRUE
    /\ Goto(t, "signal")
    /\ UNCHANGED <<data, signalled, spin_workers, stopping, readers, writer, workers_lock, pool, arg, got>>

\* SetEvent(spin_workers)
SignalSpin(t) ==
    /\ pc[t] = "signal"
    /\ spin_workers' = TRUE
    /\ Goto(t, "enter")
    /\ UNCHANGED <<data, signalled, stopping, pending_writer, pending_writer_lock, readers, writer, workers_lock, pool, arg, got>>

\* pending_writer_cv.notify_all(): the threads parked there become runnable.
Notified == [t \in Threads |-> IF pc[t] = "cvwait" THEN "await" ELSE pc[t]]

\* Faults: pending_writer is not reset; or wait_lock is not taken exclusively.
EnterKeepsFlag(t) ==
    /\ pc[t] = "enter" /\ readers = {} /\ writer = Null
    /\ writer' = t
    /\ spin_workers' = FALSE
    /\ pending_writer_lock' = Null
    /\ pc' = [IF arg[t].op = "add" THEN Notified ELSE pc EXCEPT ![t] = arg[t].op]
    /\ UNCHANGED <<data, signalled, stopping, pending_writer, readers, workers_lock, pool, arg, got>>

EnterAmongReaders(t) ==
    /\ pc[t] = "enter" /\ writer = Null
    /\ writer' = t
    /\ spin_workers' = FALSE
    /\ pending_writer' = FALSE
    /\ pending_writer_lock' = Null
    /\ pc' = [IF arg[t].op = "add" THEN Notified ELSE pc EXCEPT ![t] = arg[t].op]
    /\ UNCHANGED <<data, signalled, stopping, readers, workers_lock, pool, arg, got>>

\* Take wait_lock, reset the event and the flag, release pending_writer_lock.
\* add_handle() also notifies, before anything can fail.
Enter(t) ==
    /\ pc[t] = "enter" /\ readers = {} /\ writer = Null
    /\ writer' = t
    /\ spin_workers' = FALSE
    /\ pending_writer' = FALSE
    /\ pending_writer_lock' = Null
    /\ pc' = [IF arg[t].op = "add" THEN Notified ELSE pc EXCEPT ![t] = arg[t].op]
    /\ UNCHANGED <<data, signalled, stopping, readers, workers_lock, pool, arg, got>>

\* The writer unlocks wait_lock and returns.
Leave(t) ==
    /\ writer' = Null
    /\ arg' = [arg EXCEPT ![t] = Null]
    /\ UNCHANGED <<signalled, spin_workers, stopping, pending_writer, pending_writer_lock, readers, workers_lock, got>>

ReturnTo(t) == IF t \in Workers THEN "callback" ELSE "idle"

\* add_handle() when the last block has a free slot.
AddToBlock(t) ==
    /\ pc[t] = "add" /\ Len(handles) % BlockSize # 0
    /\ handles' = Append(handles, arg[t].h)
    /\ callbacks' = Append(callbacks, arg[t].h)
    /\ Goto(t, ReturnTo(t))
    /\ Leave(t)
    /\ UNCHANGED pool

\* Fault: the workers left over from an earlier block are not counted.
ThreadsToSpawnAnew == ThreadsPerPool

\* The number of workers a new block at the end of the array still needs.
ThreadsToSpawn ==
    ThreadsPerPool - Cardinality({w \in active_workers : base_index[w] = Len(handles)})

(***************************************************************************)
(* add_handle() when a new block is needed: spin_workers, the handle, and  *)
(* as many new workers W as the block is short of; fewer if std::thread    *)
(* fails for some of them but the first, or if `new Worker' throws, which   *)
(* no handler undoes.                                                      *)
(***************************************************************************)
AddBlock(t, W) ==
    /\ pc[t] = "add" /\ Len(handles) % BlockSize = 0 /\ workers_lock = Null
    /\ \A w \in W : pc[w] = "unborn"
    /\ \/ Cardinality(W) = ThreadsToSpawn
       \/ "spawn" \in Failures /\ Cardinality(W) \in 1..ThreadsToSpawn
       \/ "alloc" \in Failures /\ Cardinality(W) \in 0..ThreadsToSpawn
    /\ handles' = handles \o <<Spin, arg[t].h>>
    /\ callbacks' = callbacks \o <<Spin, arg[t].h>>
    /\ active_workers' = active_workers \cup W
    /\ base_index' = [w \in Workers |-> IF w \in W THEN Len(handles) ELSE base_index[w]]
    /\ pc' = [u \in Threads |-> IF u \in W THEN "top"
                                ELSE IF u = t THEN ReturnTo(t) ELSE pc[u]]
    /\ Leave(t)
    /\ UNCHANGED join_worker

\* add_handle() throws and leaves the vectors as they were: the first worker
\* of a new block cannot be started, or a vector cannot grow.
AddFails(t) ==
    /\ pc[t] = "add"
    /\ \/ "spawn" \in Failures /\ Len(handles) % BlockSize = 0 /\ ThreadsToSpawn > 0
       \/ "alloc" \in Failures
    /\ Goto(t, ReturnTo(t))
    /\ Leave(t)
    /\ UNCHANGED <<data, pool>>

\* add_handle() of a new block throws after callbacks has grown: the handlers
\* take back what was pushed on handles, and only that.  (Bound: not while the
\* vectors already differ.)
AddFailsLate(t) ==
    /\ pc[t] = "add" /\ Len(handles) % BlockSize = 0 /\ "alloc" \in Failures
    /\ Len(callbacks) = Len(handles)
    /\ callbacks' = Append(callbacks, Spin)
    /\ Goto(t, ReturnTo(t))
    /\ Leave(t)
    /\ UNCHANGED <<handles, pool>>

\* s without its last element.
ButLast(s) == SubSeq(s, 1, Len(s) - 1)

\* s after a trailing spin_workers has gone; handles decides for both vectors.
Trimmed(s) == IF handles[Len(handles)] = Spin THEN ButLast(s) ELSE s

\* s with element i replaced by the last one.
SwapRemove(s, i) == ButLast([s EXCEPT ![i] = s[Len(s)]])

\* remove_handle() of a handle that is not in the array.
RemoveMissing(t) ==
    /\ pc[t] = "remove" /\ \A i \in DOMAIN handles : handles[i] # arg[t].h
    /\ Goto(t, ReturnTo(t))
    /\ Leave(t)
    /\ UNCHANGED <<data, pool>>

\* Fault: the last callback is dropped, not moved.
RemoveFoundUnmoved(t, i) ==
    /\ pc[t] = "remove" /\ i \in DOMAIN handles /\ handles[i] = arg[t].h
    /\ handles' = SwapRemove(Trimmed(handles), i)
    /\ callbacks' = ButLast(Trimmed(callbacks))
    /\ pc' = [Notified EXCEPT ![t] = ReturnTo(t)]
    /\ Leave(t)
    /\ UNCHANGED pool

\* remove_handle() of the handle at index i.
RemoveFound(t, i) ==
    /\ pc[t] = "remove" /\ i \in DOMAIN handles /\ handles[i] = arg[t].h
    /\ handles' = SwapRemove(Trimmed(handles), i)
    /\ callbacks' = SwapRemove(Trimmed(callbacks), i)
    /\ pc' = [Notified EXCEPT ![t] = ReturnTo(t)]
    /\ Leave(t)
    /\ UNCHANGED pool

------------------------------------------------------------------------------
(* Workers: worker_main() and worker_exit().                                *)

\* Fault: pending_writer is not looked at.
TopUnheeding(w) ==
    /\ pc[w] = "top"
    /\ Goto(w, "lock")
    /\ UNCHANGED <<data, signalled, sync, pool, arg, got>>

\* The top of the loop: look at pending_writer without a lock.
Top(w) ==
    /\ pc[w] = "top"
    /\ Goto(w, IF pending_writer THEN "await" ELSE "lock")
    /\ UNCHANGED <<data, signalled, sync, pool, arg, got>>

\* Lock pending_writer_lock and wait on the condition variable for a false
\* pending_writer; the lock is only held within this step.
Await(w) ==
    /\ pc[w] = "await" /\ pending_writer_lock = Null
    /\ Goto(w, IF pending_writer THEN "cvwait" ELSE "lock")
    /\ UNCHANGED <<data, signalled, sync, pool, arg, got>>

\* Take wait_lock shared; leave if the block is gone.
LockShared(w) ==
    /\ pc[w] = "lock" /\ writer = Null
    /\ readers' = readers \cup {w}
    /\ Goto(w, IF Len(handles) <= base_index[w] THEN "exit" ELSE "wait")
    /\ UNCHANGED <<data, signalled, spin_workers, stopping, pending_writer, pending_writer_lock, writer, workers_lock, pool, arg, got>>

\* The indices WaitForMultipleObjects() is given, without that of spin_workers.
Waited(w) == {i \in DOMAIN handles : base_index[w] + 1 < i /\ i <= base_index[w] + BlockSize}

Ready(w) == {i \in Waited(w) : handles[i] \in signalled}

\* Fault: `stopping' is not looked at.
WokenBySpinUnheeding(w) ==
    /\ pc[w] = "wait" /\ spin_workers
    /\ Goto(w, "top") /\ readers' = readers \ {w}
    /\ UNCHANGED <<data, signalled, spin_workers, stopping, pending_writer, pending_writer_lock, writer, workers_lock, pool, arg, got>>

\* The wait ends with spin_workers, the first handle of the block: go round
\* the loop, or exit if the pool is stopping.
WokenBySpin(w) ==
    /\ pc[w] = "wait" /\ spin_workers
    /\ IF stopping
       THEN Goto(w, "exit") /\ UNCHANGED readers
       ELSE Goto(w, "top") /\ readers' = readers \ {w}
    /\ UNCHANGED <<data, signalled, spin_workers, stopping, pending_writer, pending_writer_lock, writer, workers_lock, pool, arg, got>>

\* The wait ends with the lowest signalled handle, which is reset; its
\* callback is copied, and run without wait_lock.
WokenByHandle(w, i) ==
    /\ pc[w] = "wait" /\ ~spin_workers
    /\ i \in Ready(w) /\ \A j \in Ready(w) : i <= j
    /\ signalled' = signalled \ {handles[i]}
    /\ IF stopping
       THEN Goto(w, "exit") /\ UNCHANGED <<readers, got>>
       ELSE /\ Goto(w, "callback")
            /\ readers' = readers \ {w}
            /\ got' = [got EXCEPT ![w] = [handle |-> handles[i], callback |-> callbacks[i]]]
    /\ UNCHANGED <<data, spin_workers, stopping, pending_writer, pending_writer_lock, writer, workers_lock, pool, arg>>

\* WAIT_FAILED: the worker goes quietly.
WaitFailed(w) ==
    /\ pc[w] = "wait" /\ "wait" \in Failures
    /\ Goto(w, "exit")
    /\ UNCHANGED <<data, signalled, sync, pool, arg, got>>

CallbackReturns(w) ==
    /\ pc[w] = "callback"
    /\ Goto(w, "top")
    /\ got' = [got EXCEPT ![w] = Null]
    /\ UNCHANGED <<data, signalled, sync, pool, arg>>

\* worker_exit(), with wait_lock still held shared: lock workers_lock ...
Exit(w) ==
    /\ pc[w] = "exit" /\ workers_lock = Null
    /\ workers_lock' = w
    /\ Goto(w, "join")
    /\ UNCHANGED <<data, signalled, spin_workers, stopping, pending_writer, pending_writer_lock, readers, writer, pool, arg, got>>

\* ... reap the previous zombie, take its place, leave active_workers.
JoinPrevious(w) ==
    /\ pc[w] = "join"
    /\ join_worker # Null => pc[join_worker] = "dead"
    /\ pc' = [u \in Threads |-> IF u = w THEN "dying"
                                ELSE IF u = join_worker THEN "unborn" ELSE pc[u]]
    /\ join_worker' = w
    /\ active_workers' = active_workers \ {w}
    /\ workers_lock' = Null
    /\ UNCHANGED <<data, signalled, spin_workers, stopping, pending_writer, pending_writer_lock, readers, writer, base_index, arg, got>>

\* The thread returns from worker_main(), which releases wait_lock, and ends.
Die(w) ==
    /\ pc[w] = "dying"
    /\ readers' = readers \ {w}
    /\ Goto(w, "dead")
    /\ UNCHANGED <<data, signalled, spin_workers, stopping, pending_writer, pending_writer_lock, writer, workers_lock, pool, arg, got>>

------------------------------------------------------------------------------
(* The destructor.  Its callers have removed what they use the pool for:    *)
(* no writer is in progress and none starts any more.                       *)

Destroy(c) ==
    /\ pc[c] = "idle" /\ ~stopping
    /\ \A t \in Threads : pc[t] \notin WriterPC
    /\ stopping' = TRUE
    /\ spin_workers' = TRUE
    /\ Goto(c, "delete")
    /\ UNCHANGED <<data, signalled, pending_writer, pending_writer_lock, readers, writer, workers_lock, pool, arg, got>>

\* Fault: the destructor does not wait for the active workers.
ReapEarly(c) ==
    /\ pc[c] = "delete" /\ workers_lock = Null
    /\ join_worker # Null => pc[join_worker] = "dead"
    /\ pc' = [u \in Threads |-> IF u = c THEN "deleted"
                                ELSE IF u = join_worker THEN "unborn" ELSE pc[u]]
    /\ join_worker' = Null
    /\ UNCHANGED <<data, signalled, sync, active_workers, base_index, arg, got>>

\* No worker is active any more: reap the last one.
Reap(c) ==
    /\ pc[c] = "delete" /\ workers_lock = Null /\ active_workers = {}
    /\ join_worker # Null => pc[join_worker] = "dead"
    /\ pc' = [u \in Threads |-> IF u = c THEN "deleted"
                                ELSE IF u = join_worker THEN "unborn" ELSE pc[u]]
    /\ join_worker' = Null
    /\ UNCHANGED <<data, signalled, sync, active_workers, base_index, arg, got>>

\* The outside world signals an event.
Signal(h) ==
    /\ h \notin signalled
    /\ signalled' = signalled \cup {h}
    /\ UNCHANGED <<data, sync, pool, pc, arg, got>>

------------------------------------------------------------------------------
Init ==
    /\ handles = <<>> /\ callbacks = <<>> /\ signalled = {}
    /\ spin_workers = FALSE /\ stopping = FALSE
    /\ pending_writer \in BOOLEAN     \* the constructor does not set it
    /\ pending_writer_lock = Null /\ readers = {} /\ writer = Null /\ workers_lock = Null
    /\ active_workers = {} /\ join_worker = Null /\ base_index = [w \in Workers |-> 0]
    /\ pc = [t \in Threads |-> IF t \in Workers THEN "unborn" ELSE "idle"]
    /\ arg = [t \in Threads |-> Null] /\ got = [w \in Workers |-> Null]

Write(t) ==
    \/ Announce(t) \/ SignalSpin(t) \/ Enter(t)
    \/ AddToBlock(t) \/ \E W \in SUBSET Workers : AddBlock(t, W)
    \/ AddFails(t) \/ AddFailsLate(t)
    \/ RemoveMissing(t) \/ \E i \in DOMAIN handles : RemoveFound(t, i)

Work(w) ==
    \/ Top(w) \/ Await(w) \/ LockShared(w)
    \/ WokenBySpin(w) \/ \E i \in DOMAIN handles : WokenByHandle(w, i)
    \/ CallbackReturns(w)
    \/ Exit(w) \/ JoinPrevious(w) \/ Die(w)

\* The pool is gone.
Gone == (\E c \in Callers : pc[c] = "deleted") /\ UNCHANGED vars

Next ==
    \/ \E t \in Threads, op \in {"add", "remove"}, h \in Handles : Begin(t, op, h)
    \/ \E t \in Threads : Write(t)
    \/ \E w \in Workers : Work(w) \/ WaitFailed(w)
    \/ \E c \in Callers : Destroy(c) \/ Reap(c)
    \/ \E h \in Handles : Signal(h)
    \/ Gone

Spec == Init /\ [][Next]_vars

(***************************************************************************)
(* Fairness.  Every thread that can go on does, and a mutex that stays     *)
(* free is taken.  A callback returns when no writer is in progress: it    *)
(* may need a lock (DirectPlay8Peer::lock) that the writer's caller holds. *)
(* Nothing else is assumed of the locks: that no writer waits for ever     *)
(* behind the workers is what pending_writer is for.                       *)
(***************************************************************************)
Fairness ==
    /\ \A t \in Threads : WF_vars(Write(t))
    /\ \A w \in Workers : WF_vars(pc[w] # "callback" /\ Work(w))
    /\ \A w \in Workers : WF_vars((\A t \in Threads : pc[t] \notin WriterPC) /\ CallbackReturns(w))
    /\ \A c \in Callers : WF_vars(Reap(c))

FairSpec == Spec /\ Fairness

------------------------------------------------------------------------------
(* Properties                                                               *)

\* Type invariant.
TypeOK ==
    /\ handles \in Seq(Handles \cup {Spin}) /\ callbacks \in Seq(Handles \cup {Spin})
    /\ signalled \subseteq Handles
    /\ spin_workers \in BOOLEAN /\ stopping \in BOOLEAN /\ pending_writer \in BOOLEAN
    /\ pending_writer_lock \in Threads \cup {Null}
    /\ readers \subseteq Workers /\ writer \in Threads \cup {Null}
    /\ workers_lock \in Workers \cup {Null}
    /\ active_workers \subseteq Workers /\ join_worker \in Workers \cup {Null}
    /\ base_index \in [Workers -> Nat]
    /\ pc \in [Threads -> WorkerPC \cup WriterPC \cup CallerPC]
    /\ arg \in [Threads -> [op : {"add", "remove"}, h : Handles] \cup {Null}]
    /\ got \in [Workers -> [handle : Handles \cup {Spin}, callback : Handles \cup {Spin}] \cup {Null}]

\* The workers of the block that starts at array offset b (base_index == b).
Served(b) == {w \in active_workers : base_index[w] = b}

\* "For up to every max_handles_per_pool HANDLEs ... threads_per_pool worker
\* threads will be created to wait on them": until the pool is destroyed every
\* block has all its workers, also one that was dropped and made again while
\* workers of its predecessor were still in a callback.  If std::thread can
\* fail a block has at least one; and no block ever has too many.
Coverage ==
    ~stopping =>
        /\ \A i \in DOMAIN handles : handles[i] = Spin =>
               Cardinality(Served(i - 1)) >= (IF Failures = {} THEN ThreadsPerPool ELSE 1)
        /\ \A w \in active_workers : Cardinality(Served(base_index[w])) <= ThreadsPerPool

\* A worker runs the callback of the handle that woke it, never that of a
\* handle moved into its place and never the one of a spin_workers slot.
RightCallback ==
    \A w \in Workers : got[w] # Null =>
        got[w].callback = got[w].handle /\ got[w].callback # Spin

\* No worker ever sleeps on pending_writer_cv: whoever gets pending_writer_lock
\* finds pending_writer false, so it does not matter that remove_handle() does
\* not notify when the handle is missing, nor that the flag starts undefined.
NeverParked == \A w \in Workers : pc[w] # "cvwait"

\* A writer has the array to itself: while one is changing it no worker holds
\* wait_lock, is waiting on the handles, or is leaving active_workers.
WriterAlone ==
    \A t \in Threads : pc[t] \in {"add", "remove"} =>
        \A u \in Threads \ {t} : pc[u] \notin {"add", "remove", "wait", "exit", "join", "dying"}

\* "We can only ever have one zombie thread at a time": the threads that have
\* left active_workers and are not joined are at most the one in join_worker.
OneZombie ==
    \A w \in Workers : pc[w] \in {"dying", "dead"} => join_worker = w

\* "All threads have been joined before our destructor returns."
AllJoined ==
    (\E c \in Callers : pc[c] = "deleted") => \A w \in Workers : pc[w] = "unborn"

\* Workers cannot starve a writer: one that has announced itself gets in.
WriterGetsIn ==
    \A t \in Threads : pc[t] = "signal" ~> pc[t] \in {"add", "remove"}

\* The destructor ends: every worker, wherever it was, sees `stopping'.
DestructorReturns ==
    \A c \in Callers : pc[c] = "delete" ~> pc[c] = "deleted"
===============================================================================
