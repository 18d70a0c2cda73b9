------------------------------ MODULE MCHostEnum ------------------------------
(* Instance of HostEnum for TLC.                                             *)
EXTENDS HostEnum

Request(kind, count, interval, timeout) ==
    [kind |-> kind, dwEnumCount |-> count, dwRetryInterval |-> interval, dwTimeOut |-> timeout]

\* The defaults; answers awaited for a shorter time than the interval; INFINITE.
SmallRequests ==
    {Request("async", 0, 0, 0), Request("sync", 2, 3, 1),
     Request("async", INFINITE, 1, 1), Request("sync", 1, 1, INFINITE)}
==============================================================================
