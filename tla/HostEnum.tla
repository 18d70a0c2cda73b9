------------------------------- MODULE HostEnum -------------------------------
(***************************************************************************)
(* EnumHosts(): one HostEnumerator per call, each with a thread, a socket, *)
(* an auto-reset event and a timer; the host that answers; cancellation;   *)
(* and Close(), which waits for every enumeration.                         *)
(*                                                                         *)
(* GetTickCount() and the times computed from it are DWORDs.  Here they    *)
(* are numbers modulo Ticks, and INFINITE is Ticks - 1, so that the clock  *)
(* goes round within a run.  Time passes in every callback; outside of     *)
(* callbacks a thread that can run does so before the next tick.           *)
(***************************************************************************)
EXTENDS Integers

CONSTANTS
    Enums,      \* the calls of EnumHosts(), each made at most once
    Ticks,      \* number of values of a DWORD
    Starts,     \* the values of GetTickCount() at the start
    Requests,   \* arguments of EnumHosts(): records with kind ("sync" or "async"),
                \* dwEnumCount, dwRetryInterval and dwTimeOut
    DEFAULT_ENUM_COUNT, DEFAULT_ENUM_INTERVAL, DEFAULT_ENUM_TIMEOUT,
    MaxAnswers  \* bound: queries the host handles per enumeration

DWORD == 0..Ticks - 1
INFINITE == Ticks - 1

ASSUME HostEnumAssumption ==
    /\ Ticks \in Nat \ {0, 1} /\ MaxAnswers \in Nat
    /\ Starts \subseteq DWORD
    /\ Requests \subseteq [kind : {"sync", "async"}, dwEnumCount : DWORD, dwRetryInterval : DWORD,
                           dwTimeOut : DWORD]
    /\ {DEFAULT_ENUM_COUNT, DEFAULT_ENUM_INTERVAL, DEFAULT_ENUM_TIMEOUT} \subseteq DWORD \ {0}

VARIABLES
    clock,      \* GetTickCount()
    en,         \* en[e]: the HostEnumerator of e
    query,      \* query[e]: the host is in ENUM_HOSTS_QUERY for e, or a reply is under way
    asked,      \* asked[e]: queries so far
    hosting,    \* the host is in STATE_HOSTING
    peer        \* "open", "closing" and "joining" (in Close()), "new" (after it)

vars == <<clock, en, query, asked, hosting, peer>>
host == <<query, asked, hosting>>

Plus(x, y) == (x + y) % Ticks
Minus(x, y) == (x - y) % Ticks  \* as a DWORD
Least(x, y) == IF x < y THEN x ELSE y

\* at: "none"; in main() at the "top" of the loop, in ENUM_HOSTS_RESPONSE ("indicate"),
\* before the "check" for the end, in "wait"; in complete_cb ("ending"); complete_cb has
\* returned to a thread that is about to be erased or joined ("ended"); "gone".
NoEnum ==
    [at |-> "none", kind |-> "async", count |-> 0, tx_remain |-> 0, tx_interval |-> 0, rx_timeout |-> 0,
     next_tx_at |-> 0, stop_at |-> 0, now |-> 0, left |-> 0, signal |-> FALSE, req_cancel |-> FALSE,
     inbox |-> 0,
     \* history: requests sent, ticks since the last one (as far as they matter), the result, begun during Close()
     sent |-> 0, since |-> 0, result |-> "none", late |-> FALSE]

Running(e) == en[e].at \in {"top", "indicate", "check", "wait"}
Exists(e) == en[e].at \notin {"none", "gone"}

------------------------------------------------------------------------------
(* EnumHosts(), CancelAsyncOperation() and Close().                         *)

Given(x, default) == IF x = 0 THEN default ELSE x

\* EnumHosts() is refused only in STATE_NEW.  stop_at is not initialised.
EnumHosts(e, q, garbage) ==
    /\ en[e].at = "none" /\ peer # "new"
    /\ en' = [en EXCEPT ![e] = [NoEnum EXCEPT
                 !.at = "top", !.kind = q.kind,
                 !.count = Given(q.dwEnumCount, DEFAULT_ENUM_COUNT),
                 !.tx_remain = Given(q.dwEnumCount, DEFAULT_ENUM_COUNT),
                 !.tx_interval = Given(q.dwRetryInterval, DEFAULT_ENUM_INTERVAL),
                 !.rx_timeout = Given(q.dwTimeOut, DEFAULT_ENUM_TIMEOUT),
                 !.stop_at = garbage, !.late = (peer # "open")]]
    /\ UNCHANGED <<clock, host, peer>>

\* cancel() of every enumeration in S.
Cancelled(S) == [e \in Enums |-> IF e \in S THEN [en[e] EXCEPT !.req_cancel = TRUE, !.signal = TRUE]
                                   ELSE en[e]]

\* The enumerations in async_host_enums.
Async == {e \in Enums : Exists(e) /\ en[e].kind = "async"}

CancelAsyncOperation(e) ==
    /\ e \in Async
    /\ en' = Cancelled({e})
    /\ UNCHANGED <<clock, host, peer>>

CancelAll ==
    /\ Async # {}
    /\ en' = Cancelled(Async)
    /\ UNCHANGED <<clock, host, peer>>

\* Fault: Close() waits for the enumerations without cancelling them.
CloseTargetsNone == {}

\* Close() cancels the asynchronous enumerations; nothing cancels the others.
CloseTargets == Async

CloseBegins ==
    /\ peer = "open"
    /\ peer' = "closing"
    /\ en' = Cancelled(CloseTargets)
    /\ UNCHANGED <<clock, host>>

\* host_enum_completed.wait().
AllDrained == \A e \in Enums : ~Exists(e)

\* The worker pool is deleted with the lock released.
CloseDrains ==
    /\ peer = "closing" /\ AllDrained
    /\ peer' = "joining"
    /\ UNCHANGED <<clock, en, host>>

CloseReturns ==
    /\ peer = "joining"
    /\ peer' = "new"
    /\ UNCHANGED <<clock, en, host>>

------------------------------------------------------------------------------
(* HostEnumerator::main().                                                  *)

StopAt(x) == IF x.rx_timeout = INFINITE THEN x.stop_at ELSE Plus(clock, x.rx_timeout)

NextTxAt(x) == Plus(clock, x.tx_interval)

Due(x) == x.tx_remain > 0 /\ clock >= x.next_tx_at

\* tx_remain counts down also when it was INFINITE.
Sent(x) ==
    [x EXCEPT !.next_tx_at = NextTxAt(x), !.tx_remain = @ - 1, !.stop_at = StopAt(x),
              !.sent = @ + 1, !.since = 0]

\* The top of the loop: a request if one is due, and one packet from the socket.
\* Sockets signal again when there is more to read.
Loop(e) ==
    LET x == [en[e] EXCEPT !.now = clock]
        y == IF Due(en[e]) THEN Sent(x) ELSE x
    IN /\ en[e].at = "top" /\ ~en[e].req_cancel
       /\ en' = [en EXCEPT ![e] = IF y.inbox = 0 THEN [y EXCEPT !.at = "check"]
                    ELSE [y EXCEPT !.at = "indicate", !.inbox = @ - 1, !.signal = @ \/ y.inbox > 1]]
       /\ UNCHANGED <<clock, host, peer>>

\* ENUM_HOSTS_RESPONSE has returned; the lock is not held in it.
Indicated(e) ==
    /\ en[e].at = "indicate"
    /\ en' = [en EXCEPT ![e].at = "check"]
    /\ UNCHANGED <<clock, host, peer>>

\* Fault: the enumeration ends when the answers to any request are overdue.
OverEarly(x) == x.stop_at > 0 /\ x.now >= x.stop_at

Over(x) == x.tx_remain = 0 /\ x.stop_at > 0 /\ x.now >= x.stop_at

\* Fault: a stop_at in the past is waited for no longer than the next request.
TimeoutOfLast(x) == IF x.tx_remain > 0 THEN Minus(x.next_tx_at, x.now) ELSE INFINITE

\* The time to wait, from the time read at the top of the loop.
Timeout(x) ==
    Least(IF x.tx_remain > 0 THEN Minus(x.next_tx_at, x.now) ELSE INFINITE,
          IF x.stop_at > 0 THEN Minus(x.stop_at, x.now) ELSE INFINITE)

Ending(x) == [x EXCEPT !.at = "ending", !.result = IF x.req_cancel THEN "cancelled" ELSE "ok"]

\* now is not used again after the wait; it is kept while the timeout is 0 for Rests.
Check(e) ==
    /\ en[e].at = "check"
    /\ en' = [en EXCEPT ![e] = IF Over(@) THEN Ending(@)
                                 ELSE [@ EXCEPT !.at = "wait", !.left = Timeout(en[e]),
                                              !.now = IF Timeout(en[e]) = 0 THEN en[e].now ELSE 0]]
    /\ UNCHANGED <<clock, host, peer>>

\* WaitForSingleObject() returns; left is INFINITE when there is no timeout.
Wake(e) ==
    /\ en[e].at = "wait" /\ (en[e].signal \/ en[e].left = 0)
    /\ en' = [en EXCEPT ![e].at = "top", ![e].signal = FALSE, ![e].now = 0, ![e].left = 0]
    /\ UNCHANGED <<clock, host, peer>>

\* The loop ends because of cancel().
Stop(e) ==
    /\ en[e].at = "top" /\ en[e].req_cancel
    /\ en' = [en EXCEPT ![e] = Ending(@)]
    /\ UNCHANGED <<clock, host, peer>>

\* complete_cb: ASYNC_OP_COMPLETE has returned, or the result is stored.
Completed(e) ==
    /\ en[e].at = "ending"
    /\ en' = [en EXCEPT ![e].at = "ended"]
    /\ UNCHANGED <<clock, host, peer>>

\* The enumerator is erased, by its own thread or by EnumHosts() after it has joined
\* that thread, and host_enum_completed is notified.
Erase(e) ==
    /\ en[e].at = "ended"
    /\ en' = [en EXCEPT ![e] = [NoEnum EXCEPT !.at = "gone", !.late = en[e].late]]
    /\ UNCHANGED <<clock, host, peer>>

------------------------------------------------------------------------------
(* The host.  The network may lose, delay and repeat datagrams: any query   *)
(* may follow a request, at any time.                                       *)

\* handle_host_enum_request() up to ENUM_HOSTS_QUERY.
Query(e) ==
    /\ hosting /\ ~query[e] /\ asked[e] < MaxAnswers
    /\ en[e].sent > 0
    /\ query' = [query EXCEPT ![e] = TRUE]
    /\ asked' = [asked EXCEPT ![e] = @ + 1]
    /\ UNCHANGED <<clock, en, hosting, peer>>

\* The state is looked at again after the callbacks.
MayAnswer == hosting

\* The socket of e, which is not closed while e exists, receives a reply.
Replied(e) == [en EXCEPT ![e].inbox = @ + 1, ![e].signal = TRUE]

\* ... and after ENUM_HOSTS_QUERY and RETURN_BUFFER.  Without a reply the application
\* has refused, or the reply is lost.
Answer(e) ==
    /\ query[e]
    /\ query' = [query EXCEPT ![e] = FALSE]
    /\ en' = en \/ (MayAnswer /\ Running(e) /\ en' = Replied(e))
    /\ UNCHANGED <<clock, asked, hosting, peer>>

\* With no query under way this is the same as no further query.
HostCloses ==
    /\ hosting /\ \E e \in Enums : query[e]
    /\ hosting' = FALSE
    /\ UNCHANGED <<clock, en, query, asked, peer>>

------------------------------------------------------------------------------
(* Time.                                                                    *)

\* A thread runs before the next tick unless it is in a callback or waits; one whose
\* timeout is 0 looks at the clock at least once in a tick.
Rests(x) ==
    \/ x.at \notin {"top", "check", "wait"}
    \/ x.at = "wait" /\ ~x.signal /\ (x.left > 0 \/ x.now = clock)

Aged(x) ==
    [x EXCEPT !.left = IF x.at = "wait" /\ @ \notin {0, INFINITE} THEN @ - 1 ELSE @,
              !.since = IF x.sent > 0 /\ x.result = "none" /\ (@ < x.tx_interval \/ @ < x.rx_timeout) THEN @ + 1 ELSE @]

Tick ==
    /\ \E e \in Enums : Exists(e)
    /\ \A e \in Enums : Rests(en[e])
    /\ clock' = Plus(clock, 1)
    /\ en' = [e \in Enums |-> Aged(en[e])]
    /\ UNCHANGED <<host, peer>>

------------------------------------------------------------------------------

Init ==
    /\ clock \in Starts
    /\ en = [e \in Enums |-> NoEnum]
    /\ query = [e \in Enums |-> FALSE]
    /\ asked = [e \in Enums |-> 0]
    /\ hosting = TRUE
    /\ peer = "open"

Thread(e) ==
    Loop(e) \/ Indicated(e) \/ Check(e) \/ Wake(e) \/ Stop(e) \/ Completed(e) \/ Erase(e)

Call(e) ==
    \/ \E q \in Requests, garbage \in DWORD :
          /\ Given(q.dwTimeOut, DEFAULT_ENUM_TIMEOUT) # INFINITE => garbage = 0   \* never read
          /\ EnumHosts(e, q, garbage)
    \/ CancelAsyncOperation(e)

\* Nothing is left to happen.
Finished == peer = "new" /\ AllDrained /\ UNCHANGED vars

Next ==
    \/ \E e \in Enums : Call(e) \/ Thread(e) \/ Query(e) \/ Answer(e)
    \/ CancelAll \/ CloseBegins \/ CloseDrains \/ CloseReturns
    \/ HostCloses \/ Tick \/ Finished

Spec == Init /\ [][Next]_vars

\* Threads run, callbacks return, Close() goes on, and time passes.
FairSpec ==
    /\ Spec
    /\ \A e \in Enums : WF_vars(Thread(e))
    /\ WF_vars(CloseDrains) /\ WF_vars(CloseReturns)
    /\ SF_vars(Tick)

------------------------------------------------------------------------------
(* Properties.                                                              *)

Enumerators ==
    [at : {"none", "top", "indicate", "check", "wait", "ending", "ended", "gone"},
     kind : {"sync", "async"}, count : DWORD, tx_remain : DWORD, tx_interval : DWORD,
     rx_timeout : DWORD, next_tx_at : DWORD, stop_at : DWORD, now : DWORD, left : DWORD,
     signal : BOOLEAN, req_cancel : BOOLEAN, inbox : 0..MaxAnswers, sent : 0..Ticks, since : 0..Ticks,
     result : {"none", "ok", "cancelled"}, late : BOOLEAN]

\* Every member of a HostEnumerator has its type; in particular tx_remain is not
\* counted down past zero.
TypeOK ==
    /\ clock \in DWORD
    /\ en \in [Enums -> Enumerators]
    /\ query \in [Enums -> BOOLEAN] /\ asked \in [Enums -> 0..MaxAnswers]
    /\ hosting \in BOOLEAN
    /\ peer \in {"open", "closing", "joining", "new"}

\* An enumeration that completes with S_OK has sent as many requests as were asked
\* for (INFINITE is the largest number of them) and has waited rx_timeout after the
\* last one, unless stop_at went round (main()).
Patience ==
    \A e \in Enums :
       LET x == en[e]
       IN x.result = "ok" =>
             /\ x.sent = x.count
             /\ x.rx_timeout # INFINITE => x.since >= x.rx_timeout \/ x.stop_at < x.rx_timeout

\* An enumeration that nothing will end: it waits without a timeout, because stop_at is
\* 0, which means none, or because what it waits for (stop_at, next_tx_at) is the last
\* tick before the clock goes round and was missed by one: the difference is INFINITE.
Endless(e) ==
    /\ en[e].at = "wait" /\ en[e].left = INFINITE /\ ~en[e].req_cancel
    /\ en[e].stop_at \in {0, Ticks - 1}
    /\ en[e].tx_remain = 0 \/ en[e].next_tx_at = Ticks - 1

\* Every enumeration completes, wherever the clock stood, unless it is endless.
EnumEnds == \A e \in Enums : Exists(e) ~> en[e].at = "gone" \/ Endless(e)

\* Close() returns, unless it waits for an endless enumeration: a synchronous one, or
\* one that was begun during Close() and is not cancelled.
CloseEnds == peer = "closing" ~> peer = "new"
                \/ \E e \in Enums : Endless(e) /\ (en[e].kind = "sync" \/ en[e].late)
==============================================================================
