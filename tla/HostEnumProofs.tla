---------------------------- MODULE HostEnumProofs ----------------------------
(***************************************************************************)
(* An enumeration of hosts that completes with S_OK has been patient, for  *)
(* any number of concurrent enumerations, any width of the clock, any time *)
(* at the start, any arguments and any behaviour of the network.           *)
(*                                                                         *)
(* Patience is about the moment of completion.  What makes it inductive is *)
(* what holds before: the requests that are left and those that were sent  *)
(* add up; the clock stands where stop_at says it should, for as long as   *)
(* the answers to the last request are not overdue; and the time read at   *)
(* the top of the loop, which is old when ENUM_HOSTS_RESPONSE returns, was *)
(* beyond stop_at only if the answers were overdue already then.           *)
(***************************************************************************)
EXTENDS HostEnum, TLAPS

\* Every request is either sent or left to be sent, and one is asked for at least.
Counted(x) ==
    /\ x.tx_remain + x.sent = x.count
    /\ x.at \notin {"none", "gone"} => x.count > 0

\* stop_at is meant to be used and did not go round when it was computed.
Timed(x) == x.sent > 0 /\ x.rx_timeout # INFINITE /\ x.stop_at >= x.rx_timeout

\* stop_at - rx_timeout is the time of the last request.  Until the answers to it are
\* overdue the clock does not go round.
Punctual(x, c) ==
    x.result = "none" /\ Timed(x) =>
       x.since >= x.rx_timeout \/ c + x.rx_timeout = x.stop_at + x.since

\* now, once read, tells whether the answers are overdue.
ReadInTime(x) ==
    x.at \in {"indicate", "check"} /\ Timed(x) /\ x.now >= x.stop_at => x.since >= x.rx_timeout

\* Only the end of the loop sets the result, and Patience holds of it.
Ended(x) ==
    /\ x.result # "none" => x.at \in {"ending", "ended"}
    /\ x.result = "ok" =>
          /\ x.sent = x.count
          /\ x.rx_timeout # INFINITE => x.since >= x.rx_timeout \/ x.stop_at < x.rx_timeout

\* What holds of an enumerator at time c.
Good(x, c) ==
    x \in Enumerators /\ Counted(x) /\ Punctual(x, c) /\ ReadInTime(x) /\ Ended(x)

\* Every packet in the socket of e, and the one the host may be about to send,
\* answers a query of its own.
Answered(e) == en[e].inbox + (IF query[e] THEN 1 ELSE 0) <= asked[e]

HostEnumInv ==
    /\ TypeOK
    /\ \A e \in Enums : Good(en[e], clock)
    /\ \A e \in Enums : Answered(e)

-------------------------------------------------------------------------------
(* DWORD arithmetic.                                                         *)

\* Sums and differences of DWORDs are DWORDs.
LEMMA WrapTyping ==
    ASSUME NEW a \in DWORD, NEW b \in DWORD
    PROVE  Plus(a, b) \in DWORD /\ Minus(a, b) \in DWORD
<1>1. \A z \in Int : z % Ticks \in 0..Ticks - 1
  BY HostEnumAssumption
<1> QED
  BY <1>1, HostEnumAssumption DEF Plus, Minus, DWORD

\* A sum that is not below one of its terms did not go round.
LEMMA PlusUnwrapped ==
    ASSUME NEW a \in DWORD, NEW b \in DWORD, Plus(a, b) >= b
    PROVE  Plus(a, b) = a + b
<1> USE HostEnumAssumption DEF DWORD
<1>1. CASE a + b < Ticks
  <2>1. (a + b) % Ticks = a + b
    BY <1>1
  <2> QED
    BY <2>1 DEF Plus
<1>2. CASE a + b >= Ticks
  <2>1. (a + b) % Ticks = a + b - Ticks
    <3>1. a + b - Ticks \in 0..Ticks - 1 /\ a + b = (a + b - Ticks) + 1 * Ticks
      BY <1>2
    <3> QED
      BY <3>1
  <2> QED
    BY <2>1 DEF Plus
<1> QED
  BY <1>1, <1>2

\* The clock goes on by one unless it is at its last value.
LEMMA PlusOne ==
    ASSUME NEW c \in DWORD, c < Ticks - 1
    PROVE  Plus(c, 1) = c + 1
<1>1. c + 1 \in 0..Ticks - 1
  BY HostEnumAssumption DEF DWORD
<1> QED
  BY <1>1, HostEnumAssumption DEF Plus, DWORD

-------------------------------------------------------------------------------
(* What the steps make of one enumerator.                                    *)

\* Two enumerators that agree but for what `Good' does not look at.
LEMMA GoodIfSame ==
    ASSUME NEW c \in DWORD, NEW x, NEW y, Good(x, c), y \in Enumerators,
           /\ y.tx_remain = x.tx_remain /\ y.sent = x.sent /\ y.count = x.count
           /\ y.rx_timeout = x.rx_timeout /\ y.stop_at = x.stop_at /\ y.since = x.since /\ y.result = x.result,
           x.at \in {"none", "gone"} => y.at = x.at,
           y.result # "none" => y.at \in {"ending", "ended"},
           y.at \in {"indicate", "check"} => x.at \in {"indicate", "check"} /\ y.now = x.now
    PROVE  Good(y, c)
<1>1. Counted(y)
  BY DEF Good, Counted
<1>2. Punctual(y, c)
  BY DEF Good, Punctual, Timed
<1>3. ReadInTime(y)
  BY DEF Good, ReadInTime, Timed
<1>4. Ended(y)
  BY DEF Good, Ended
<1> QED
  BY <1>1, <1>2, <1>3, <1>4 DEF Good

\* A new enumerator has done nothing yet, and one that is erased has nothing left.
LEMMA NoEnumTyped == NoEnum \in Enumerators
<1>1. 0 \in DWORD /\ 0 \in 0..MaxAnswers /\ 0 \in 0..Ticks
  BY HostEnumAssumption DEF DWORD
<1> HIDE DEF DWORD
<1> QED
  BY <1>1 DEF NoEnum, Enumerators

\* ... which is a good state to be in.
LEMMA GoodNew ==
    ASSUME NEW c \in DWORD, NEW l \in BOOLEAN
    PROVE  Good([NoEnum EXCEPT !.at = "gone", !.late = l], c)
<1> DEFINE y == [NoEnum EXCEPT !.at = "gone", !.late = l]
<1>3. y \in Enumerators
  BY NoEnumTyped DEF Enumerators
<1>4. y.at = "gone" /\ y.tx_remain = 0 /\ y.sent = 0 /\ y.count = 0 /\ y.result = "none"
  BY DEF NoEnum
<1> HIDE DEF y
<1>5. Good(y, c)
  BY <1>3, <1>4 DEF Good, Counted, Punctual, Timed, ReadInTime, Ended
<1> QED
  BY <1>5 DEF y

\* EnumHosts().
LEMMA GoodBegun ==
    ASSUME NEW c \in DWORD, NEW q \in Requests, NEW garbage \in DWORD, NEW l \in BOOLEAN
    PROVE  Good([NoEnum EXCEPT
                    !.at = "top", !.kind = q.kind,
                    !.count = Given(q.dwEnumCount, DEFAULT_ENUM_COUNT),
                    !.tx_remain = Given(q.dwEnumCount, DEFAULT_ENUM_COUNT),
                    !.tx_interval = Given(q.dwRetryInterval, DEFAULT_ENUM_INTERVAL),
                    !.rx_timeout = Given(q.dwTimeOut, DEFAULT_ENUM_TIMEOUT),
                    !.stop_at = garbage, !.late = l], c)
<1>1. DWORD \subseteq Nat
  BY HostEnumAssumption DEF DWORD
<1>2. /\ q.kind \in {"sync", "async"}
      /\ Given(q.dwEnumCount, DEFAULT_ENUM_COUNT) \in DWORD \ {0}
      /\ Given(q.dwRetryInterval, DEFAULT_ENUM_INTERVAL) \in DWORD
      /\ Given(q.dwTimeOut, DEFAULT_ENUM_TIMEOUT) \in DWORD
  BY HostEnumAssumption DEF Given
<1>3. ASSUME NEW k \in {"sync", "async"}, NEW n \in DWORD \ {0}, NEW i \in DWORD, NEW t \in DWORD
      PROVE  Good([NoEnum EXCEPT !.at = "top", !.kind = k, !.count = n, !.tx_remain = n, !.tx_interval = i,
                                 !.rx_timeout = t, !.stop_at = garbage, !.late = l], c)
  <2> DEFINE y == [NoEnum EXCEPT !.at = "top", !.kind = k, !.count = n, !.tx_remain = n, !.tx_interval = i,
                                 !.rx_timeout = t, !.stop_at = garbage, !.late = l]
  <2>1. y \in Enumerators
    BY <1>3, NoEnumTyped DEF Enumerators
  <2>2. y.at = "top" /\ y.tx_remain = n /\ y.sent = 0 /\ y.count = n /\ y.result = "none"
    BY DEF NoEnum
  <2>3. n \in Nat /\ n > 0
    BY <1>1, <1>3
  <2> HIDE DEF y
  <2>4. Good(y, c)
    BY <2>1, <2>2, <2>3 DEF Good, Counted, Punctual, Timed, ReadInTime, Ended
  <2> QED
    BY <2>4 DEF y
<1> QED
  BY <1>2, <1>3

\* cancel().
LEMMA GoodCancelled ==
    ASSUME NEW c \in DWORD, NEW x, Good(x, c)
    PROVE  Good([x EXCEPT !.req_cancel = TRUE, !.signal = TRUE], c)
<1> DEFINE y == [x EXCEPT !.req_cancel = TRUE, !.signal = TRUE]
<1>1. y \in Enumerators
  BY DEF Good, Enumerators
<1>2. /\ y.tx_remain = x.tx_remain /\ y.sent = x.sent /\ y.count = x.count
      /\ y.rx_timeout = x.rx_timeout /\ y.stop_at = x.stop_at /\ y.since = x.since /\ y.result = x.result
      /\ y.at = x.at /\ y.now = x.now
  BY DEF Good, Enumerators
<1>3. x.result # "none" => x.at \in {"ending", "ended"}
  BY DEF Good, Ended
<1> HIDE DEF y
<1>4. Good(y, c)
  BY <1>1, <1>2, <1>3, GoodIfSame
<1> QED
  BY <1>4 DEF y

\* The top of the loop up to the socket: a request is sent if one is due.
LEMMA GoodTop ==
    ASSUME NEW x, Good(x, clock), clock \in DWORD, x.at = "top"
    PROVE  LET y == IF Due(x) THEN Sent([x EXCEPT !.now = clock]) ELSE [x EXCEPT !.now = clock]
           IN  /\ y \in Enumerators /\ Counted(y) /\ Punctual(y, clock) /\ Ended(y)
               /\ y.at = "top" /\ y.result = "none" /\ y.inbox = x.inbox
               /\ Timed(y) /\ y.now >= y.stop_at => y.since >= y.rx_timeout
<1>1. /\ x \in Enumerators /\ x.result = "none" /\ DWORD \subseteq Int /\ Ticks \in Nat
      /\ x.tx_remain \in DWORD /\ x.count \in DWORD /\ x.rx_timeout \in DWORD /\ x.stop_at \in DWORD
      /\ x.since \in 0..Ticks /\ x.sent \in 0..Ticks /\ x.tx_interval \in DWORD
      /\ x.tx_remain + x.sent = x.count /\ x.count > 0
  BY HostEnumAssumption DEF Good, Ended, Counted, Enumerators, DWORD
<1>2. CASE ~Due(x)
  <2> DEFINE y == [x EXCEPT !.now = clock]
  <2>1. y \in Enumerators
    BY <1>1 DEF Enumerators
  <2>2. /\ y.at = x.at /\ y.tx_remain = x.tx_remain /\ y.sent = x.sent /\ y.count = x.count
        /\ y.rx_timeout = x.rx_timeout /\ y.stop_at = x.stop_at /\ y.since = x.since /\ y.result = x.result
        /\ y.now = clock /\ y.inbox = x.inbox
    BY <1>1 DEF Enumerators
  <2> HIDE DEF y
  <2>3. Good(y, clock)
    BY <1>1, <2>1, <2>2, GoodIfSame
  <2>4. Timed(y) /\ y.now >= y.stop_at => y.since >= y.rx_timeout
    BY <1>1, <2>2, <2>3 DEF Good, Punctual, DWORD
  <2> QED
    BY <1>1, <1>2, <2>2, <2>3, <2>4 DEF Good, y
<1>3. CASE Due(x)
  <2> DEFINE w == [x EXCEPT !.now = clock]
             y == Sent(w)
  <2>1. /\ w \in Enumerators /\ w.at = x.at /\ w.tx_remain = x.tx_remain /\ w.sent = x.sent /\ w.count = x.count
        /\ w.rx_timeout = x.rx_timeout /\ w.stop_at = x.stop_at /\ w.result = x.result /\ w.tx_interval = x.tx_interval
        /\ w.now = clock /\ w.inbox = x.inbox
    BY <1>1 DEF Enumerators
  <2> HIDE DEF w
  <2>2. NextTxAt(w) \in DWORD /\ StopAt(w) \in DWORD
    BY <1>1, <2>1, WrapTyping DEF NextTxAt, StopAt
  <2>3. x.tx_remain - 1 \in DWORD /\ x.sent + 1 \in 0..Ticks /\ 0 \in 0..Ticks /\ x.sent + 1 > 0
        /\ (x.tx_remain - 1) + (x.sent + 1) = x.count
    BY <1>1, <1>3 DEF Due, DWORD
  <2> DEFINE n == NextTxAt(w)
             r == x.tx_remain - 1
             s == StopAt(w)
             m == x.sent + 1
  <2>4. y = [w EXCEPT !.next_tx_at = n, !.tx_remain = r, !.stop_at = s, !.sent = m, !.since = 0]
    BY <2>1 DEF Sent
  <2> HIDE DEF y
  <2>5. /\ y \in Enumerators
        /\ y.at = w.at /\ y.tx_remain = r /\ y.sent = m /\ y.count = w.count /\ y.rx_timeout = w.rx_timeout
        /\ y.stop_at = s /\ y.since = 0 /\ y.result = w.result /\ y.now = w.now /\ y.inbox = w.inbox
    <3>1. n \in DWORD /\ r \in DWORD /\ s \in DWORD /\ m \in 0..Ticks /\ 0 \in 0..Ticks
      BY <2>2, <2>3
    <3> HIDE DEF n, r, s, m
    <3> QED BY <2>1, <2>4, <3>1 DEF Enumerators
  <2>6. /\ y \in Enumerators
        /\ y.at = "top" /\ y.tx_remain = x.tx_remain - 1 /\ y.sent = x.sent + 1 /\ y.count = x.count
        /\ y.rx_timeout = x.rx_timeout /\ y.stop_at = StopAt(w) /\ y.since = 0 /\ y.result = "none"
        /\ y.now = clock /\ y.inbox = x.inbox
    BY <1>1, <2>1, <2>5
  <2>7. Counted(y)
    BY <1>1, <2>3, <2>6 DEF Counted
  <2>8. Timed(y) => y.stop_at = clock + y.rx_timeout
    BY <1>1, <2>1, <2>6, PlusUnwrapped DEF Timed, StopAt
  <2>9. Punctual(y, clock)
    BY <1>1, <2>6, <2>8 DEF Punctual, DWORD
  <2>10. Ended(y)
    BY <2>6 DEF Ended
  <2>11. Timed(y) /\ y.now >= y.stop_at => y.since >= y.rx_timeout
    BY <1>1, <2>6, <2>8 DEF DWORD
  <2> QED
    BY <1>3, <2>6, <2>7, <2>9, <2>10, <2>11 DEF y, w
<1> QED
  BY <1>2, <1>3

\* The answer from the socket, if there is one, goes to the application.
LEMMA GoodReceived ==
    ASSUME NEW c \in DWORD, NEW y, y \in Enumerators, Counted(y), Punctual(y, c), Ended(y),
           y.at = "top", y.result = "none",
           Timed(y) /\ y.now >= y.stop_at => y.since >= y.rx_timeout,
           NEW z, z = IF y.inbox = 0 THEN [y EXCEPT !.at = "check"]
                      ELSE [y EXCEPT !.at = "indicate", !.inbox = @ - 1, !.signal = @ \/ y.inbox > 1]
    PROVE  Good(z, c) /\ z.inbox <= y.inbox
<1>1. y.inbox \in 0..MaxAnswers /\ MaxAnswers \in Nat /\ y.signal \in BOOLEAN
  BY HostEnumAssumption DEF Enumerators
<1>2. ASSUME NEW a \in {"check", "indicate"}, NEW i \in 0..MaxAnswers, NEW s \in BOOLEAN,
             z = [y EXCEPT !.at = a, !.inbox = i, !.signal = s]
      PROVE  Good(z, c) /\ z.inbox = i
  <2>1. /\ z \in Enumerators /\ z.at = a /\ z.tx_remain = y.tx_remain /\ z.sent = y.sent /\ z.count = y.count
        /\ z.rx_timeout = y.rx_timeout /\ z.stop_at = y.stop_at /\ z.since = y.since /\ z.result = y.result
        /\ z.now = y.now /\ z.inbox = i
    BY <1>2 DEF Enumerators
  <2>2. Good(z, c)
    BY <2>1 DEF Good, Counted, Punctual, ReadInTime, Ended, Timed
  <2> QED
    BY <2>1, <2>2
<1>3. CASE y.inbox = 0
  <2>1. z = [y EXCEPT !.at = "check", !.inbox = y.inbox, !.signal = y.signal]
    BY <1>3 DEF Enumerators
  <2> DEFINE i == y.inbox
             s == y.signal
  <2>2. i \in 0..MaxAnswers /\ s \in BOOLEAN /\ i <= y.inbox
    BY <1>1
  <2>3. z = [y EXCEPT !.at = "check", !.inbox = i, !.signal = s]
    BY <2>1
  <2> HIDE DEF i, s
  <2> QED
    BY <1>2, <2>2, <2>3
<1>4. CASE y.inbox # 0
  <2> DEFINE i == y.inbox - 1
             s == y.signal \/ y.inbox > 1
  <2>1. i \in 0..MaxAnswers /\ s \in BOOLEAN /\ i <= y.inbox
    BY <1>1, <1>4
  <2>2. z = [y EXCEPT !.at = "indicate", !.inbox = i, !.signal = s]
    BY <1>4
  <2> HIDE DEF i, s
  <2> QED
    BY <1>2, <2>1, <2>2
<1> QED
  BY <1>3, <1>4

\* Ending the loop: Ending() of an enumerator that is over or cancelled.
LEMMA GoodEnding ==
    ASSUME NEW c \in DWORD, NEW x, Good(x, c),
           \/ x.at = "check" /\ Over(x)
           \/ x.at = "top" /\ x.req_cancel
    PROVE  Good(Ending(x), c) /\ Ending(x).inbox = x.inbox
<1> DEFINE r == IF x.req_cancel THEN "cancelled" ELSE "ok"
           y == Ending(x)
<1>1. r \in {"cancelled", "ok"} /\ (r = "ok" => x.at = "check" /\ Over(x))
  OBVIOUS
<1>2. y = [x EXCEPT !.at = "ending", !.result = r]
  BY DEF Ending
<1> HIDE DEF r, y
<1>3. /\ y \in Enumerators /\ y.at = "ending" /\ y.tx_remain = x.tx_remain /\ y.sent = x.sent /\ y.count = x.count
      /\ y.rx_timeout = x.rx_timeout /\ y.stop_at = x.stop_at /\ y.since = x.since /\ y.result = r
      /\ y.inbox = x.inbox
  BY <1>1, <1>2 DEF Good, Enumerators
<1>4. Counted(y) /\ Punctual(y, c) /\ ReadInTime(y)
  BY <1>1, <1>3 DEF Good, Counted, Punctual, ReadInTime
<1>5. Ended(y)
  <2> SUFFICES ASSUME y.result = "ok"
               PROVE  /\ y.sent = y.count
                      /\ y.rx_timeout # INFINITE => y.since >= y.rx_timeout \/ y.stop_at < y.rx_timeout
    BY <1>3 DEF Ended
  <2>1. x.at = "check" /\ x.tx_remain = 0 /\ x.now >= x.stop_at
    BY <1>1, <1>3 DEF Over
  <2>2. /\ x.sent \in Int /\ x.count \in Int /\ x.stop_at \in Int /\ x.rx_timeout \in Int
        /\ x.tx_remain + x.sent = x.count /\ x.count > 0
    BY <2>1, HostEnumAssumption DEF Good, Counted, Enumerators, DWORD
  <2>3. x.sent = x.count /\ x.sent > 0
    BY <2>1, <2>2
  <2>4. x.rx_timeout # INFINITE /\ x.stop_at >= x.rx_timeout => x.since >= x.rx_timeout
    BY <2>1, <2>3 DEF Good, ReadInTime, Timed
  <2> QED
    BY <1>3, <2>2, <2>3, <2>4
<1> QED
  BY <1>3, <1>4, <1>5 DEF Good, y

\* The check at the end of the loop.
LEMMA GoodChecked ==
    ASSUME NEW c \in DWORD, NEW x, Good(x, c), x.at = "check", NEW y,
           y = IF Over(x) THEN Ending(x)
               ELSE [x EXCEPT !.at = "wait", !.left = Timeout(x), !.now = IF Timeout(x) = 0 THEN @ ELSE 0]
    PROVE  Good(y, c) /\ y.inbox = x.inbox
<1>1. CASE Over(x)
  BY <1>1, GoodEnding
<1>2. CASE ~Over(x)
  <2> DEFINE t == Timeout(x)
             n == IF t = 0 THEN x.now ELSE 0
  <2>1. x \in Enumerators /\ 0 \in DWORD /\ INFINITE \in DWORD
    BY HostEnumAssumption DEF Good, DWORD, INFINITE
  <2>2. x.now \in DWORD /\ x.next_tx_at \in DWORD /\ x.stop_at \in DWORD
    BY <2>1 DEF Enumerators
  <2>3. t \in DWORD /\ n \in DWORD
    BY <2>1, <2>2, WrapTyping DEF Timeout, Least
  <2>4. y = [x EXCEPT !.at = "wait", !.left = t, !.now = n]
    BY <1>2
  <2> HIDE DEF t, n
  <2>5. /\ y \in Enumerators /\ y.at = "wait" /\ y.tx_remain = x.tx_remain /\ y.sent = x.sent /\ y.count = x.count
        /\ y.rx_timeout = x.rx_timeout /\ y.stop_at = x.stop_at /\ y.since = x.since /\ y.result = x.result
        /\ y.inbox = x.inbox
    BY <2>1, <2>3, <2>4, ZenonT(60) DEF Enumerators
  <2>6. y.result = "none"
    BY <2>5 DEF Good, Ended
  <2> QED
    BY <2>5, <2>6 DEF Good, Counted, Punctual, ReadInTime, Ended, Timed
<1> QED
  BY <1>1, <1>2

\* The steps that only move on: a callback returns, or the wait is over.
LEMMA GoodMoved ==
    ASSUME NEW c \in DWORD, NEW x, Good(x, c), NEW y,
           \/ x.at = "indicate" /\ y = [x EXCEPT !.at = "check"]
           \/ x.at = "wait" /\ y = [x EXCEPT !.at = "top", !.signal = FALSE, !.now = 0, !.left = 0]
           \/ x.at = "ending" /\ y = [x EXCEPT !.at = "ended"]
    PROVE  Good(y, c) /\ y.inbox = x.inbox
<1>1. 0 \in DWORD /\ x \in Enumerators
  BY HostEnumAssumption DEF DWORD, Good
<1>2. y \in Enumerators /\ y.inbox = x.inbox
  BY <1>1, ZenonT(60) DEF Enumerators
<1>3. /\ y.tx_remain = x.tx_remain /\ y.sent = x.sent /\ y.count = x.count
      /\ y.rx_timeout = x.rx_timeout /\ y.stop_at = x.stop_at /\ y.since = x.since /\ y.result = x.result
  BY <1>1 DEF Enumerators
<1>4. \/ x.at = "indicate" /\ y.at = "check" /\ y.now = x.now
      \/ x.at = "wait" /\ y.at = "top"
      \/ x.at = "ending" /\ y.at = "ended"
  BY <1>1 DEF Enumerators
<1>5. x.result # "none" => x.at \in {"ending", "ended"}
  BY DEF Good, Ended
<1> QED
  BY <1>2, <1>3, <1>4, <1>5, GoodIfSame

\* A reply reaches the socket.
LEMMA GoodReplied ==
    ASSUME NEW c \in DWORD, NEW x, Good(x, c), x.inbox + 1 <= MaxAnswers, NEW y,
           y = [x EXCEPT !.inbox = @ + 1, !.signal = TRUE]
    PROVE  Good(y, c) /\ y.inbox = x.inbox + 1
<1> DEFINE i == x.inbox + 1
<1>1. x \in Enumerators /\ i \in 0..MaxAnswers
  BY HostEnumAssumption DEF Good, Enumerators
<1>2. y = [x EXCEPT !.inbox = i, !.signal = TRUE]
  OBVIOUS
<1> HIDE DEF i
<1>3. /\ y \in Enumerators /\ y.at = x.at /\ y.tx_remain = x.tx_remain /\ y.sent = x.sent /\ y.count = x.count
      /\ y.rx_timeout = x.rx_timeout /\ y.stop_at = x.stop_at /\ y.since = x.since /\ y.result = x.result
      /\ y.now = x.now /\ y.inbox = i
  BY <1>1, <1>2 DEF Enumerators
<1>4. x.result # "none" => x.at \in {"ending", "ended"}
  BY DEF Good, Ended
<1> QED
  BY <1>3, <1>4, GoodIfSame, ZenonT(60) DEF i

\* Time passes for every enumerator and for the clock at once.
LEMMA GoodAged ==
    ASSUME NEW c \in DWORD, NEW x, Good(x, c)
    PROVE  Good(Aged(x), Plus(c, 1)) /\ Aged(x).inbox = x.inbox
<1> DEFINE l == IF x.at = "wait" /\ x.left \notin {0, INFINITE} THEN x.left - 1 ELSE x.left
           ages == x.sent > 0 /\ x.result = "none" /\ (x.since < x.tx_interval \/ x.since < x.rx_timeout)
           s == IF ages THEN x.since + 1 ELSE x.since
           y == Aged(x)
<1>1. /\ x \in Enumerators /\ Ticks \in Nat /\ c \in 0..Ticks - 1
      /\ x.left \in 0..Ticks - 1 /\ x.since \in 0..Ticks /\ x.tx_interval \in 0..Ticks - 1
      /\ x.rx_timeout \in 0..Ticks - 1 /\ x.stop_at \in 0..Ticks - 1
  BY HostEnumAssumption DEF Good, Enumerators, DWORD
<1>2. l \in DWORD
  BY <1>1 DEF DWORD
<1>3. s \in 0..Ticks /\ s >= x.since
  BY <1>1
<1>4. y = [x EXCEPT !.left = l, !.since = s]
  BY DEF Aged
<1>5. x.result # "none" => s = x.since
  OBVIOUS
<1>6. x.result = "none" /\ x.sent > 0 /\ x.since < x.rx_timeout => s = x.since + 1
  OBVIOUS
<1> HIDE DEF l, s, y, ages
<1>7. /\ y \in Enumerators /\ y.at = x.at /\ y.tx_remain = x.tx_remain /\ y.sent = x.sent /\ y.count = x.count
      /\ y.rx_timeout = x.rx_timeout /\ y.stop_at = x.stop_at /\ y.since = s /\ y.result = x.result
      /\ y.now = x.now /\ y.inbox = x.inbox
  BY <1>1, <1>2, <1>3, <1>4 DEF Enumerators
<1>8. Counted(y)
  BY <1>7 DEF Good, Counted
<1>9. Punctual(y, Plus(c, 1))
  <2> SUFFICES ASSUME y.result = "none", Timed(y), ~(s >= x.rx_timeout)
               PROVE  Plus(c, 1) + x.rx_timeout = x.stop_at + s
    BY <1>7 DEF Punctual
  <2>1. x.result = "none" /\ Timed(x) /\ x.sent > 0
    BY <1>7 DEF Timed
  <2>2. x.since < x.rx_timeout /\ s = x.since + 1
    BY <1>1, <1>3, <1>6, <2>1
  <2>3. c + x.rx_timeout = x.stop_at + x.since
    BY <1>1, <2>1, <2>2 DEF Good, Punctual
  <2>4. Plus(c, 1) = c + 1
    BY <1>1, <2>2, <2>3, PlusOne DEF DWORD
  <2> QED
    BY <1>1, <2>2, <2>3, <2>4
<1>10. ReadInTime(y)
  <2>1. x.since >= x.rx_timeout => s >= x.rx_timeout
    BY <1>1, <1>3
  <2> QED
    BY <1>7, <2>1 DEF Good, ReadInTime, Timed
<1>11. Ended(y)
  BY <1>5, <1>7 DEF Good, Ended
<1> QED
  BY <1>7, <1>8, <1>9, <1>10, <1>11 DEF Good, y

-------------------------------------------------------------------------------
(* The system.                                                               *)

\* A step of one enumeration, seen from the others.
LEMMA OneStep ==
    ASSUME HostEnumInv, NEW e \in Enums, NEW y,
           en' = [en EXCEPT ![e] = y], Good(y, clock), y.inbox <= en[e].inbox,
           UNCHANGED <<clock, query, asked, hosting, peer>>
    PROVE  HostEnumInv'
<1>1. \A d \in Enums : en'[d] = IF d = e THEN y ELSE en[d]
  BY DEF HostEnumInv, TypeOK
<1>2. \A d \in Enums : Good(en'[d], clock')
  BY <1>1 DEF HostEnumInv
<1>3. TypeOK'
  <2>1. en' \in [Enums -> Enumerators]
    BY DEF HostEnumInv, TypeOK, Good
  <2> QED
    BY <2>1 DEF HostEnumInv, TypeOK
<1>4. \A d \in Enums : Answered(d)'
  <2> TAKE d \in Enums
  <2>1. en'[d].inbox <= en[d].inbox
    <3>1. \A i \in 0..MaxAnswers : i <= i
      BY HostEnumAssumption
    <3>2. en[d].inbox \in 0..MaxAnswers
      BY DEF HostEnumInv, TypeOK, Enumerators
    <3> QED
      BY <1>1, <3>1, <3>2
  <2>2. en'[d].inbox \in Int /\ en[d].inbox \in Int /\ asked[d] \in Int
    BY <1>3, HostEnumAssumption DEF HostEnumInv, TypeOK, Enumerators
  <2> QED
    BY <2>1, <2>2 DEF HostEnumInv, Answered
<1> QED
  BY <1>2, <1>3, <1>4 DEF HostEnumInv

\* cancel() of any set of enumerations.
LEMMA CancelStep ==
    ASSUME HostEnumInv, NEW S, en' = Cancelled(S), UNCHANGED <<clock, query, asked, hosting>>,
           peer' \in {"open", "closing", "joining", "new"}
    PROVE  HostEnumInv'
<1>1. ASSUME NEW d \in Enums PROVE Good(en'[d], clock') /\ en'[d].inbox = en[d].inbox
  <2>1. Good(en[d], clock) /\ clock \in DWORD /\ en[d] \in Enumerators
    BY DEF HostEnumInv, TypeOK
  <2> DEFINE y == [en[d] EXCEPT !.req_cancel = TRUE, !.signal = TRUE]
  <2>2. Good(y, clock) /\ y.inbox = en[d].inbox
    <3>1. y.inbox = en[d].inbox
      BY <2>1 DEF Enumerators
    <3> QED
      BY <2>1, <3>1, GoodCancelled
  <2>3. en'[d] = IF d \in S THEN y ELSE en[d]
    BY DEF Cancelled
  <2> HIDE DEF y
  <2> QED
    BY <2>1, <2>2, <2>3
<1>2. TypeOK'
  <2>1. en' \in [Enums -> Enumerators]
    <3>1. en' = [d \in Enums |-> en'[d]]
      BY DEF Cancelled
    <3> QED
      BY <1>1, <3>1 DEF Good
  <2> QED
    BY <2>1 DEF HostEnumInv, TypeOK
<1>3. \A d \in Enums : Answered(d)'
  BY <1>1 DEF HostEnumInv, Answered
<1> QED
  BY <1>1, <1>2, <1>3 DEF HostEnumInv

\* Time passes.
LEMMA TickStep ==
    ASSUME HostEnumInv, Tick
    PROVE  HostEnumInv'
<1>1. clock \in DWORD /\ clock' = Plus(clock, 1) /\ en' = [d \in Enums |-> Aged(en[d])]
      /\ UNCHANGED <<query, asked, hosting, peer>>
  BY DEF HostEnumInv, TypeOK, Tick, host
<1>2. clock' \in DWORD
  <2>1. 1 \in DWORD
    BY HostEnumAssumption DEF DWORD
  <2> QED
    BY <1>1, <2>1, WrapTyping
<1>3. ASSUME NEW d \in Enums PROVE Good(en'[d], clock') /\ en'[d].inbox = en[d].inbox
  <2>1. Good(en[d], clock)
    BY DEF HostEnumInv
  <2> QED
    BY <1>1, <2>1, GoodAged
<1>4. TypeOK'
  <2>1. en' \in [Enums -> Enumerators]
    <3>1. en' = [d \in Enums |-> en'[d]]
      BY <1>1
    <3> QED
      BY <1>3, <3>1 DEF Good
  <2> QED
    BY <1>1, <1>2, <2>1 DEF HostEnumInv, TypeOK
<1>5. \A d \in Enums : Answered(d)'
  BY <1>1, <1>3 DEF HostEnumInv, Answered
<1> QED
  BY <1>3, <1>4, <1>5 DEF HostEnumInv

\* The host takes up a query, and answers it.
LEMMA HostStep ==
    ASSUME HostEnumInv, NEW e \in Enums, Query(e) \/ Answer(e)
    PROVE  HostEnumInv'
<1>0. /\ clock \in DWORD /\ en \in [Enums -> Enumerators] /\ query \in [Enums -> BOOLEAN]
      /\ asked \in [Enums -> 0..MaxAnswers] /\ MaxAnswers \in Nat
      /\ \A d \in Enums : en[d].inbox \in 0..MaxAnswers
  BY HostEnumAssumption DEF HostEnumInv, TypeOK, Enumerators
<1>1. CASE Query(e)
  <2>1. /\ en' = en /\ clock' = clock /\ ~query[e] /\ asked[e] < MaxAnswers
        /\ query' = [query EXCEPT ![e] = TRUE] /\ asked' = [asked EXCEPT ![e] = asked[e] + 1]
    BY <1>1 DEF Query
  <2>2. TypeOK'
    <3>1. asked[e] + 1 \in 0..MaxAnswers
      BY <1>0, <2>1
    <3> QED
      BY <1>0, <1>1, <2>1, <3>1 DEF HostEnumInv, TypeOK, Query
  <2>3. ASSUME NEW d \in Enums PROVE Answered(d)'
    <3>1. CASE d = e
      BY <1>0, <2>1, <3>1 DEF HostEnumInv, Answered
    <3>2. CASE d # e
      BY <1>0, <2>1, <3>2 DEF HostEnumInv, Answered
    <3> QED BY <3>1, <3>2
  <2> QED
    BY <2>1, <2>2, <2>3 DEF HostEnumInv
<1>2. CASE Answer(e) /\ en' = en
  <2>1. /\ clock' = clock /\ query[e] /\ asked' = asked /\ query' = [query EXCEPT ![e] = FALSE]
    BY <1>2 DEF Answer
  <2>2. TypeOK'
    BY <1>0, <1>2, <2>1 DEF HostEnumInv, TypeOK, Answer
  <2>3. ASSUME NEW d \in Enums PROVE Answered(d)'
    <3>1. CASE d = e
      BY <1>0, <1>2, <2>1, <3>1 DEF HostEnumInv, Answered
    <3>2. CASE d # e
      BY <1>0, <1>2, <2>1, <3>2 DEF HostEnumInv, Answered
    <3> QED BY <3>1, <3>2
  <2> QED
    BY <1>2, <2>1, <2>2, <2>3 DEF HostEnumInv
<1>3. CASE Answer(e) /\ en' = Replied(e)
  <2> DEFINE y == [en[e] EXCEPT !.inbox = @ + 1, !.signal = TRUE]
  <2>1. /\ clock' = clock /\ query[e] /\ asked' = asked /\ query' = [query EXCEPT ![e] = FALSE]
        /\ hosting' = hosting /\ peer' = peer
    BY <1>3 DEF Answer
  <2>2. en' = [en EXCEPT ![e] = y]
    BY <1>0, <1>3 DEF Replied
  <2>3. en[e].inbox + 1 <= asked[e] /\ en[e].inbox + 1 <= MaxAnswers
    BY <1>0, <2>1 DEF HostEnumInv, Answered
  <2>4. Good(y, clock) /\ y.inbox = en[e].inbox + 1
    BY <1>0, <2>3, GoodReplied DEF HostEnumInv
  <2> HIDE DEF y
  <2>5. \A d \in Enums : en'[d] = IF d = e THEN y ELSE en[d]
    BY <1>0, <2>2
  <2>6. TypeOK'
    BY <1>0, <2>1, <2>2, <2>4 DEF HostEnumInv, TypeOK, Good
  <2>7. ASSUME NEW d \in Enums PROVE Answered(d)'
    <3>1. CASE d = e
      BY <1>0, <2>1, <2>3, <2>4, <2>5, <3>1 DEF HostEnumInv, Answered
    <3>2. CASE d # e
      BY <1>0, <2>1, <2>5, <3>2 DEF HostEnumInv, Answered
    <3> QED BY <3>1, <3>2
  <2>8. \A d \in Enums : Good(en'[d], clock')
    BY <2>1, <2>4, <2>5 DEF HostEnumInv
  <2> QED
    BY <2>6, <2>7, <2>8 DEF HostEnumInv
<1> QED
  BY <1>1, <1>2, <1>3 DEF Answer

\* EnumHosts() begins an enumeration.
LEMMA BeginStep ==
    ASSUME HostEnumInv, NEW e \in Enums, NEW q \in Requests, NEW garbage \in DWORD, EnumHosts(e, q, garbage)
    PROVE  HostEnumInv'
<1> DEFINE l == (peer # "open")
           y == [NoEnum EXCEPT
                    !.at = "top", !.kind = q.kind,
                    !.count = Given(q.dwEnumCount, DEFAULT_ENUM_COUNT),
                    !.tx_remain = Given(q.dwEnumCount, DEFAULT_ENUM_COUNT),
                    !.tx_interval = Given(q.dwRetryInterval, DEFAULT_ENUM_INTERVAL),
                    !.rx_timeout = Given(q.dwTimeOut, DEFAULT_ENUM_TIMEOUT),
                    !.stop_at = garbage, !.late = l]
<1>1. en' = [en EXCEPT ![e] = y] /\ UNCHANGED <<clock, query, asked, hosting, peer>>
  BY DEF EnumHosts, host
<1>2. y.inbox = 0
  BY DEF NoEnum
<1>3. l \in BOOLEAN /\ clock \in DWORD /\ en[e].inbox \in 0..MaxAnswers /\ MaxAnswers \in Nat
  BY HostEnumAssumption DEF HostEnumInv, TypeOK, Enumerators
<1> HIDE DEF l
<1>4. Good(y, clock)
  BY <1>3, GoodBegun
<1> HIDE DEF y
<1>5. y.inbox <= en[e].inbox
  BY <1>2, <1>3
<1> QED
  BY <1>1, <1>4, <1>5, OneStep

\* The steps of the thread of an enumeration.
LEMMA ThreadStep ==
    ASSUME HostEnumInv, NEW e \in Enums, Thread(e)
    PROVE  HostEnumInv'
<1> DEFINE x == en[e]
<1>0. /\ Good(x, clock) /\ clock \in DWORD /\ x \in Enumerators
      /\ x.inbox \in 0..MaxAnswers /\ MaxAnswers \in Nat /\ x.late \in BOOLEAN
  BY HostEnumAssumption DEF HostEnumInv, TypeOK, Enumerators
<1>1. CASE Loop(e)
  <2> DEFINE y == IF Due(x) THEN Sent([x EXCEPT !.now = clock]) ELSE [x EXCEPT !.now = clock]
             z == IF y.inbox = 0 THEN [y EXCEPT !.at = "check"]
                  ELSE [y EXCEPT !.at = "indicate", !.inbox = @ - 1, !.signal = @ \/ y.inbox > 1]
  <2>1. en' = [en EXCEPT ![e] = z] /\ UNCHANGED <<clock, query, asked, hosting, peer>> /\ x.at = "top"
    BY <1>1 DEF Loop, host
  <2>2. /\ y \in Enumerators /\ Counted(y) /\ Punctual(y, clock) /\ Ended(y)
        /\ y.at = "top" /\ y.result = "none" /\ y.inbox = x.inbox
        /\ Timed(y) /\ y.now >= y.stop_at => y.since >= y.rx_timeout
    <3> HIDE DEF x
    <3> QED BY <1>0, <2>1, GoodTop
  <2> HIDE DEF y
  <2>3. Good(z, clock) /\ z.inbox <= y.inbox
    BY <1>0, <2>2, GoodReceived
  <2> HIDE DEF z
  <2> QED
    BY <2>1, <2>2, <2>3, OneStep
<1>2. CASE Indicated(e) \/ Wake(e) \/ Completed(e)
  <2>1. PICK y : /\ en' = [en EXCEPT ![e] = y]
                 /\ \/ x.at = "indicate" /\ y = [x EXCEPT !.at = "check"]
                    \/ x.at = "wait" /\ y = [x EXCEPT !.at = "top", !.signal = FALSE, !.now = 0, !.left = 0]
                    \/ x.at = "ending" /\ y = [x EXCEPT !.at = "ended"]
    <3>1. CASE Indicated(e)
      BY <3>1 DEF Indicated, HostEnumInv, TypeOK
    <3>2. CASE Wake(e)
      BY <3>2 DEF Wake, HostEnumInv, TypeOK
    <3>3. CASE Completed(e)
      BY <3>3 DEF Completed, HostEnumInv, TypeOK
    <3> QED BY <1>2, <3>1, <3>2, <3>3
  <2>2. UNCHANGED <<clock, query, asked, hosting, peer>>
    BY <1>2 DEF Indicated, Wake, Completed, host
  <2>3. Good(y, clock) /\ y.inbox = x.inbox
    <3> HIDE DEF x
    <3> QED BY <1>0, <2>1, GoodMoved
  <2>4. y.inbox <= x.inbox
    BY <1>0, <2>3
  <2> QED
    BY <2>1, <2>2, <2>3, <2>4, OneStep
<1>3. CASE Check(e)
  <2> DEFINE y == IF Over(x) THEN Ending(x)
                  ELSE [x EXCEPT !.at = "wait", !.left = Timeout(x), !.now = IF Timeout(x) = 0 THEN @ ELSE 0]
  <2>1. en' = [en EXCEPT ![e] = y] /\ UNCHANGED <<clock, query, asked, hosting, peer>> /\ x.at = "check"
    <3>1. en' = [en EXCEPT ![e] = y]
      BY <1>3 DEF Check
    <3> QED
      BY <1>3, <3>1 DEF Check, host
  <2>2. Good(y, clock) /\ y.inbox = x.inbox
    <3> HIDE DEF x
    <3> QED BY <1>0, <2>1, GoodChecked
  <2> HIDE DEF y
  <2>3. y.inbox <= x.inbox
    BY <1>0, <2>2
  <2> QED
    BY <2>1, <2>2, <2>3, OneStep
<1>4. CASE Stop(e)
  <2>1. en' = [en EXCEPT ![e] = Ending(x)] /\ UNCHANGED <<clock, query, asked, hosting, peer>>
        /\ x.at = "top" /\ x.req_cancel
    BY <1>4 DEF Stop, host, HostEnumInv, TypeOK
  <2>2. Good(Ending(x), clock) /\ Ending(x).inbox = x.inbox
    <3> HIDE DEF x
    <3> QED BY <1>0, <2>1, GoodEnding
  <2>3. Ending(x).inbox <= x.inbox
    BY <1>0, <2>2
  <2> QED
    BY <2>1, <2>2, <2>3, OneStep
<1>5. CASE Erase(e)
  <2> DEFINE y == [NoEnum EXCEPT !.at = "gone", !.late = x.late]
  <2>1. en' = [en EXCEPT ![e] = y] /\ UNCHANGED <<clock, query, asked, hosting, peer>>
    BY <1>5 DEF Erase, host
  <2>2. y.inbox = 0
    BY DEF NoEnum
  <2>3. Good(y, clock)
    <3> HIDE DEF x
    <3> QED BY <1>0, GoodNew
  <2> HIDE DEF y
  <2>4. y.inbox <= x.inbox
    BY <1>0, <2>2
  <2> QED
    BY <2>1, <2>3, <2>4, OneStep
<1> QED
  BY <1>1, <1>2, <1>3, <1>4, <1>5 DEF Thread

\* The first state.
LEMMA HostEnumInvInit ==
    ASSUME Init
    PROVE  HostEnumInv
<1>1. clock \in DWORD /\ MaxAnswers \in Nat /\ 0 \in 0..MaxAnswers
  BY HostEnumAssumption DEF Init
<1>2. NoEnum.at = "none" /\ NoEnum.tx_remain = 0 /\ NoEnum.sent = 0 /\ NoEnum.count = 0
      /\ NoEnum.result = "none" /\ NoEnum.inbox = 0
  BY DEF NoEnum
<1>3. Good(NoEnum, clock)
  BY <1>2, NoEnumTyped DEF Good, Counted, Punctual, Timed, ReadInTime, Ended
<1>4. TypeOK
  BY <1>1, NoEnumTyped DEF Init, TypeOK
<1>5. \A e \in Enums : Good(en[e], clock) /\ Answered(e)
  <2> TAKE e \in Enums
  <2>1. en[e] = NoEnum /\ query[e] = FALSE /\ asked[e] = 0
    BY DEF Init
  <2> QED
    BY <1>2, <1>3, <2>1 DEF Answered
<1> QED
  BY <1>4, <1>5 DEF HostEnumInv

\* The invariant, for any number of enumerations and any width of a DWORD.
THEOREM HostEnumInvariant == Spec => []HostEnumInv
<1>1. Init => HostEnumInv
  BY HostEnumInvInit
<1>2. HostEnumInv /\ [Next]_vars => HostEnumInv'
  <2> SUFFICES ASSUME HostEnumInv, [Next]_vars PROVE HostEnumInv'
    OBVIOUS
  <2>1. CASE \E e \in Enums : Call(e)
    <3>1. PICK e \in Enums : Call(e)
      BY <2>1
    <3>2. CASE CancelAsyncOperation(e)
      BY <3>2, CancelStep DEF CancelAsyncOperation, host, HostEnumInv, TypeOK
    <3>3. CASE ~CancelAsyncOperation(e)
      BY <3>1, <3>3, BeginStep DEF Call
    <3> QED BY <3>2, <3>3
  <2>2. CASE \E e \in Enums : Thread(e)
    BY <2>2, ThreadStep
  <2>3. CASE \E e \in Enums : Query(e) \/ Answer(e)
    BY <2>3, HostStep
  <2>4. CASE CancelAll
    BY <2>4, CancelStep DEF CancelAll, host, HostEnumInv, TypeOK
  <2>5. CASE CloseBegins
    BY <2>5, CancelStep DEF CloseBegins, host
  <2>6. CASE CloseDrains \/ CloseReturns
    BY <2>6 DEF CloseDrains, CloseReturns, host, HostEnumInv, TypeOK, Answered
  <2>7. CASE HostCloses
    BY <2>7 DEF HostCloses, HostEnumInv, TypeOK, Answered
  <2>8. CASE Tick
    BY <2>8, TickStep
  <2>9. CASE UNCHANGED vars
    BY <2>9 DEF vars, HostEnumInv, TypeOK, Answered
  <2> QED
    BY <2>1, <2>2, <2>3, <2>4, <2>5, <2>6, <2>7, <2>8, <2>9 DEF Next, Finished
<1> QED
  BY <1>1, <1>2, PTL DEF Spec

\* No member of a HostEnumerator leaves its type: tx_remain is not counted down past
\* zero (main()), also when it was INFINITE.
THEOREM HostEnumTypeOK == Spec => []TypeOK
<1>1. HostEnumInv => TypeOK
  BY DEF HostEnumInv
<1> QED
  BY <1>1, HostEnumInvariant, PTL

\* An enumeration that completes with S_OK has sent every request and has waited
\* rx_timeout after the last one, unless stop_at went round (main()).
THEOREM EnumsArePatient == Spec => []Patience
<1>1. HostEnumInv => Patience
  BY DEF HostEnumInv, Good, Ended, Patience
<1> QED
  BY <1>1, HostEnumInvariant, PTL
===============================================================================
