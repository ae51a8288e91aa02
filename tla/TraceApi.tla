------------------------------ MODULE TraceApi ------------------------------
(***************************************************************************)
(* The traced requests of the HTTP service (app/api/main.py) on top of the *)
(* trace store: POST /v1/traces starts a background task that answers a    *)
(* question and records its stages; GET /v1/traces/{id} reads a snapshot;  *)
(* GET /v1/traces/{id}/events streams the events as server-sent events.    *)
(*                                                                         *)
(* A coroutine runs undisturbed between two awaits, so one action is such  *)
(* a segment.  Retrieval emits from a worker thread, hence single emits    *)
(* interleave with everything else.                                        *)
(***************************************************************************)
EXTENDS TraceStore

CONSTANT Client   \* the HTTP clients that watch traces

VARIABLES
    task,      \* task[t]: progress of the background task of trace t
    conn,      \* conn[c]: progress of the event stream serving client c
    watched,   \* watched[c]: the trace c watches or watched last, 0 at first
    cursor,    \* cursor[c]: last_seq of the stream
    batch,     \* batch[c]: seq of the last event of the batch being sent
    wire,      \* wire[c]: seqs yielded by the stream and not yet received
    seen       \* seen[c]: seqs received by c for the watched trace, in order

taskVars == <<task>>
streamVars == <<conn, watched, cursor, batch, wire, seen>>
vars == <<storeVars, taskVars, streamVars>>

TaskState == {"none", "answering", "raised", "done"}

(* "poll": about to ask the store; "send": yielding a batch; "ended": the  *)
(* generator returned; "lost": it died of a KeyError; "off": no stream.    *)
ConnState == {"off", "poll", "send", "ended", "lost"}

(* Faulty: a failed trace is not taken for a closed one.                   *)
TerminalIfCompleted(t) == status[t] = "completed"

Terminal(t) == status[t] \in {"completed", "failed"}

Init ==
    /\ StoreInit
    /\ task = [t \in TraceId |-> "none"]
    /\ conn = [c \in Client |-> "off"]
    /\ watched = [c \in Client |-> 0]
    /\ cursor = [c \in Client |-> 0]
    /\ batch = [c \in Client |-> 0]
    /\ wire = [c \in Client |-> <<>>]
    /\ seen = [c \in Client |-> <<>>]

-----------------------------------------------------------------------------
(* POST /v1/traces: store the trace and schedule its task.                 *)
CreateTrace ==
    /\ Create
    /\ task' = [task EXCEPT ![created + 1] = "answering"]
    /\ UNCHANGED streamVars

(* A stage of the pipeline records an event.  A strategy may record a      *)
(* draft "response" and then go on, as Self-RAG does.                      *)
Emit(t) ==
    /\ task[t] = "answering"
    /\ \E kind \in {"stage", "response"} : AppendEvent(t, kind)
    /\ UNCHANGED <<task, streamVars>>

(* The pipeline raises: a dependency failed or timed out, or the store     *)
(* refused an event, whose exception emit_trace lets through.              *)
PipelineRaises(t) ==
    /\ task[t] = "answering"
    /\ task' = [task EXCEPT ![t] = "raised"]
    /\ UNCHANGED <<storeVars, streamVars>>

(* Faulty: the trace is completed with the response event, and the request *)
(* goes on.                                                                *)
AnsweredTooEarly(t) ==
    /\ task[t] = "answering"
    /\ ~AppendRaises(t)
    /\ log' = [log EXCEPT ![t] = Append(@, "response")]
    /\ status' = [status EXCEPT ![t] = "completed"]
    /\ age' = [age EXCEPT ![t] = 0]
    /\ UNCHANGED <<created, task, streamVars>>

(* answer() returns: its last event and store.complete are one segment.    *)
Answered(t) ==
    /\ task[t] = "answering"
    /\ ~AppendRaises(t)
    /\ \E kind \in {"stage", "response"} :
        /\ log' = [log EXCEPT ![t] = Append(@, kind)]
        /\ \E i \in DOMAIN log'[t] : log'[t][i] = "response"
    /\ status' = [status EXCEPT ![t] = "completed"]
    /\ age' = [age EXCEPT ![t] = 0]
    /\ task' = [task EXCEPT ![t] = "done"]
    /\ UNCHANGED <<created, streamVars>>

(* Faulty: the failure event is forgotten.                                 *)
FailureLogWithoutEvent(t) == log[t]

FailureLog(t) == Append(log[t], "failed")

(* Faulty: the except clause forgets store.fail.                           *)
HandleFailureOpen(t) ==
    /\ task[t] = "raised"
    /\ task' = [task EXCEPT ![t] = "done"]
    /\ IF AppendRaises(t) THEN UNCHANGED storeVars ELSE AppendEvent(t, "failed")
    /\ UNCHANGED streamVars

(* Faulty: the except clause answers once more.                            *)
HandleFailureByRetry(t) ==
    /\ task[t] = "raised"
    /\ task' = [task EXCEPT ![t] = "answering"]
    /\ UNCHANGED <<storeVars, streamVars>>

(* The except clause of run_trace: emit request.failed, then store.fail.   *)
(* When the emit itself raises, fail is never reached and the task dies.   *)
HandleFailure(t) ==
    /\ task[t] = "raised"
    /\ task' = [task EXCEPT ![t] = "done"]
    /\ IF AppendRaises(t)
          THEN UNCHANGED storeVars
          ELSE /\ log' = [log EXCEPT ![t] = FailureLog(t)]
               /\ status' = [status EXCEPT ![t] = "failed"]
               /\ age' = [age EXCEPT ![t] = 0]
               /\ UNCHANGED created
    /\ UNCHANGED streamVars

-----------------------------------------------------------------------------
(* GET /v1/traces/{id}, and an events request answered with 404: both only *)
(* expire traces.                                                          *)
Snapshot ==
    /\ Get
    /\ UNCHANGED <<taskVars, streamVars>>

(* Faulty: a stream resumes where the server had stopped sending.          *)
ResumeAtCursor(c) == cursor[c]

(* The last-event-id a client sends: the last id it has received.          *)
LastEventId(c) == IF seen[c] = <<>> THEN 0 ELSE seen[c][Len(seen[c])]

(* GET /v1/traces/{id}/events of a stored trace.  A client may resume with *)
(* the last id it received, which the endpoint reads, or start over        *)
(* without one; the trace console opens a stream once.  The end of a       *)
(* connection is read after the events sent on it.                         *)
OpenStream(c, t) ==
    /\ conn[c] \notin {"poll", "send"} /\ wire[c] = <<>>
    /\ t \in Unexpired
    /\ Get
    /\ \E resume \in {r \in BOOLEAN : r => watched[c] = t} :
        /\ seen' = [seen EXCEPT ![c] = IF resume THEN @ ELSE <<>>]
        /\ cursor' = [cursor EXCEPT ![c] = IF resume THEN LastEventId(c) ELSE 0]
    /\ watched' = [watched EXCEPT ![c] = t]
    /\ conn' = [conn EXCEPT ![c] = "poll"]
    /\ batch' = [batch EXCEPT ![c] = 0]
    /\ UNCHANGED <<taskVars, wire>>

(* Faulty: the stream does not care whether the last batch was empty.      *)
DrainedAlways(c) == TRUE

(* events_after returned no events.                                        *)
Drained(c) == LastSeq(watched[c]) <= cursor[c]

(* One turn of event_stream up to its first yield or its break.  With      *)
(* nothing new on a running trace it sleeps and asks again.                *)
Poll(c) ==
    /\ conn[c] = "poll"
    /\ watched[c] \in Live
    /\ \/ /\ LastSeq(watched[c]) > cursor[c]
          /\ conn' = [conn EXCEPT ![c] = "send"]
          /\ batch' = [batch EXCEPT ![c] = LastSeq(watched[c])]
       \/ /\ Drained(c)
          /\ Terminal(watched[c])
          /\ conn' = [conn EXCEPT ![c] = "ended"]
          /\ UNCHANGED batch
    /\ UNCHANGED <<storeVars, taskVars, watched, cursor, wire, seen>>

(* events_after raises KeyError for a trace that is gone: nobody catches   *)
(* it and the stream breaks off.                                           *)
PollGone(c) ==
    /\ conn[c] = "poll"
    /\ watched[c] \notin Live
    /\ conn' = [conn EXCEPT ![c] = "lost"]
    /\ UNCHANGED <<storeVars, taskVars, watched, cursor, batch, wire, seen>>

(* The stream yields the next event of its batch.                          *)
Yield(c) ==
    /\ conn[c] = "send"
    /\ cursor' = [cursor EXCEPT ![c] = @ + 1]
    /\ wire' = [wire EXCEPT ![c] = Append(@, cursor[c] + 1)]
    /\ conn' = [conn EXCEPT ![c] =
                  IF cursor[c] + 1 = batch[c] THEN "poll" ELSE "send"]
    /\ UNCHANGED <<storeVars, taskVars, watched, batch, seen>>

(* The client receives an event: connections deliver in order.             *)
Receive(c) ==
    /\ wire[c] # <<>>
    /\ seen' = [seen EXCEPT ![c] = Append(@, Head(wire[c]))]
    /\ wire' = [wire EXCEPT ![c] = Tail(@)]
    /\ UNCHANGED <<storeVars, taskVars, conn, watched, cursor, batch>>

(* The connection breaks and what was on its way is lost.                  *)
Disconnect(c) ==
    /\ conn[c] # "off"
    /\ conn' = [conn EXCEPT ![c] = "off"]
    /\ wire' = [wire EXCEPT ![c] = <<>>]
    /\ UNCHANGED <<storeVars, taskVars, watched, cursor, batch, seen>>

-----------------------------------------------------------------------------
TimePasses ==
    /\ Tick
    /\ UNCHANGED <<taskVars, streamVars>>

TaskStep(t) ==
    Emit(t) \/ PipelineRaises(t) \/ Answered(t) \/ HandleFailure(t)

StreamStep(c) == Poll(c) \/ PollGone(c) \/ Yield(c)

Next ==
    \/ CreateTrace
    \/ \E t \in TraceId : TaskStep(t)
    \/ Snapshot
    \/ \E c \in Client, t \in TraceId : OpenStream(c, t)
    \/ \E c \in Client : StreamStep(c) \/ Receive(c) \/ Disconnect(c)
    \/ TimePasses

Spec == Init /\ [][Next]_vars

(* The event loop runs every ready coroutine, and every await of a request *)
(* ends: model calls run to their end, provider calls have timeouts.       *)
Fairness ==
    /\ \A t \in TraceId : WF_vars(TaskStep(t))
    /\ \A c \in Client : WF_vars(StreamStep(c)) /\ WF_vars(Receive(c))

-----------------------------------------------------------------------------
(* The state is well formed: a trace has a task exactly when it was        *)
(* created, and streams hold sequences of event numbers.                   *)
TypeOK ==
    /\ StoreTypeOK
    /\ task \in [TraceId -> TaskState]
    /\ conn \in [Client -> ConnState]
    /\ watched \in [Client -> 0..MaxRequests]
    /\ cursor \in [Client -> 0..MaxEvents]
    /\ batch \in [Client -> 0..MaxEvents]
    /\ wire \in [Client -> Seq(1..MaxEvents)]
    /\ seen \in [Client -> Seq(1..MaxEvents)]
    /\ \A t \in TraceId : task[t] = "none" <=> t > created

(* Whatever connections break, events are lost on the way and streams      *)
(* are resumed, a client receives the events 1, 2, 3, ... of its trace:    *)
(* none missing, none twice, none out of order (event_stream and the       *)
(* last-event-id header, main.py:171-196).                                 *)
InOrderOnce == \A c \in Client : \A i \in DOMAIN seen[c] : seen[c][i] = i

(* A stream that ends by itself has sent everything: the trace is closed   *)
(* and every event it holds was received or is on its way.  The status and *)
(* the events come from one locked read, so the last events cannot slip in *)
(* between (main.py:184-193).                                              *)
EndedStreamIsComplete ==
    \A c \in Client :
        conn[c] = "ended" /\ watched[c] \in Live =>
            /\ Terminal(watched[c])
            /\ Len(seen[c]) + Len(wire[c]) = LastSeq(watched[c])

(* The status of a stored trace and its events tell the same story: a      *)
(* completed trace has a response and no failure, a failed one ends with   *)
(* its failure event, and a running one has none.                          *)
StatusMatchesLog ==
    \A t \in Live :
        LET Has(kind) == \E i \in DOMAIN log[t] : log[t][i] = kind IN
        /\ status[t] = "completed" => Has("response") /\ ~Has("failed")
        /\ status[t] = "failed" => log[t] # <<>> /\ log[t][LastSeq(t)] = "failed"
        /\ status[t] = "running" => ~Has("failed")

(* A request that is over leaves a stored trace running only when the      *)
(* trace is full: then the failure handler's own emit raised and fail()    *)
(* was never called (main.py:141-148).                                     *)
OnlyFullTracesStick ==
    \A t \in Live :
        task[t] = "done" /\ status[t] = "running" => LastSeq(t) >= MaxEvents

(* What main.py:141 says of its except clause, "expose failed pipeline     *)
(* stage in trace": a request that is over has not left its stored trace   *)
(* running.                                                                *)
FailureIsExposed ==
    \A t \in Live : task[t] = "done" => status[t] # "running"

(* A closed trace is final: neither its status nor its events change any   *)
(* more while it is stored, so a stream may stop and a snapshot is final.  *)
ClosedIsFinal ==
    [][\A t \in Live \cap Live' :
         Terminal(t) => status'[t] = status[t] /\ log'[t] = log[t]]_vars

-----------------------------------------------------------------------------
(* Every traced request comes to an end, whatever becomes of its trace.    *)
RequestEnds == \A t \in TraceId : task[t] = "answering" ~> task[t] = "done"

Stuck(t) == t \in Live /\ status[t] = "running" /\ task[t] = "done"

(* An open stream does not hang: it ends, breaks off, or its client leaves *)
(* -- unless its trace is stuck, the case of OnlyFullTracesStick, where    *)
(* event_stream polls until somebody's lookup expires the trace.           *)
StreamEnds ==
    \A c \in Client :
        conn[c] \in {"poll", "send"} ~>
            \/ conn[c] \notin {"poll", "send"}
            \/ watched[c] # 0 /\ Stuck(watched[c])

(* A client that stays connected to a closed trace receives all of it: the *)
(* tail of the log, the outcome of the request, is not left unsent.        *)
TailIsDelivered ==
    \A c \in Client :
        conn[c] \in {"poll", "send"} /\ Terminal(watched[c]) ~>
            \/ conn[c] \in {"off", "lost"}
            \/ watched[c] \notin Live
            \/ Len(seen[c]) = LastSeq(watched[c])
=============================================================================
