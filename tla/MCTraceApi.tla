----------------------------- MODULE MCTraceApi -----------------------------
(* TLC instance of TraceApi.                                               *)
EXTENDS TraceApi

(* The first request works and is watched as the code has it.  The later   *)
(* ones are there to take up room in the store: such a request records one *)
(* event, its last, and nobody opens a stream on it.                       *)
LaterOnesFillTheStore ==
    \A t \in TraceId : t > 1 =>
        /\ log'[t] \notin {log[t], <<>>} => task'[t] = "done"
        /\ \A c \in Client : watched'[c] # t

FillingSpec == Init /\ [][Next /\ LaterOnesFillTheStore]_vars /\ Fairness
=============================================================================
