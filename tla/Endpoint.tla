------------------------------ MODULE Endpoint ------------------------------
(***************************************************************************)
(* One AxtpEndpoint with its AxtpCore, PendingCallTable and BasicBroker    *)
(* (src/axtp_runtime/endpoint.py, core.py, broker.py).                     *)
(*                                                                         *)
(* Two threads use an endpoint.  The transport's thread calls on_bytes();  *)
(* every message it completes goes to on_control, on_rpc or on_stream.     *)
(* The application's thread calls poll() and send_rpc_request(), whose     *)
(* loops pop one queue entry per step, so that messages arrive between any *)
(* two of them.  A poll moves the work down the pipeline                   *)
(*                                                                         *)
(*    events --> tasks --> results --> outbound --> wire                   *)
(*                                                                         *)
(* and ends early when a stream handler raises or a message cannot be      *)
(* fragmented.                                                             *)
(*                                                                         *)
(* The codec is below this module: a message is what PayloadEncoder and    *)
(* PayloadDecoder agree on, a record with                                  *)
(*    kind   what it is                                                    *)
(*    sid    the session id: 0 in every message that came over a wire      *)
(*    rid    the request id                                                *)
(*    tag    the rest of the payload, as far as a handler looks at it      *)
(***************************************************************************)
EXTENDS Integers, Sequences

CONSTANTS
    MaxTasks,      \* tasks handled by one poll
    StreamHandler, \* whether a stream handler is registered
    Unbound,       \* the tags of requests without a handler
    Failing,       \* the tags of requests whose handler raises
    Huge           \* the tags of payloads needing more than 255 fragments

VARIABLES
    events,      \* AxtpCore._events
    tasks,       \* BasicBroker._tasks
    results,     \* BasicBroker._results
    outbound,    \* AxtpCore._outbound_bytes
    wire,        \* what was passed to send_bytes() and is not yet delivered
    attached,    \* a transport is attached
    controlOpen, \* ControlSession._open
    pending,     \* PendingCallTable._pending: <<session, request>> keys
    resolved,    \* PendingCallTable._resolved: <<key, response>> pairs
    phase,       \* where the application thread is
    budget,      \* tasks the running poll may still handle
    sending      \* the request send_rpc_request() is about to write

queues == <<events, tasks, results, outbound, wire>>
table == <<pending, resolved>>
thread == <<phase, budget, sending>>
epVars == <<events, tasks, results, outbound, wire, attached, controlOpen,
            pending, resolved, phase, budget, sending>>

NoMessage == [kind |-> "none", sid |-> 0, rid |-> 0, tag |-> 0]

InitEndpoint ==
    /\ events = <<>> /\ tasks = <<>> /\ results = <<>>
    /\ outbound = <<>> /\ wire = <<>>
    /\ attached = TRUE
    /\ controlOpen = FALSE
    /\ pending = {} /\ resolved = {}
    /\ phase = "idle" /\ budget = 0 /\ sending = NoMessage

-----------------------------------------------------------------------------
(* PendingCallTable: every operation holds the lock, so each is one step.  *)

Key(m) == <<m.sid, m.rid>>
ResolvedKeys == {r[1] : r \in resolved}

ExpectKey(key) ==
    /\ pending' = pending \cup {key}
    /\ UNCHANGED resolved

\* Wrong form of ResolveIfPending: the key stays pending.
ResolveAndStay(m) ==
    IF Key(m) \in pending
    THEN /\ resolved' = {r \in resolved : r[1] # Key(m)} \cup {<<Key(m), m>>}
         /\ UNCHANGED pending
    ELSE UNCHANGED table

\* resolve_if_pending(): _resolved[key] = payload replaces what was there.
ResolveIfPending(m) ==
    IF Key(m) \in pending
    THEN /\ pending' = pending \ {Key(m)}
         /\ resolved' = {r \in resolved : r[1] # Key(m)} \cup {<<Key(m), m>>}
    ELSE UNCHANGED table

\* The entry try_take_resolved(rid) pops when the session is omitted: the only
\* one with this request id, whatever its session.
Takable(rid) == {r \in resolved : r[1][2] = rid}

TakeResolved(r) ==
    /\ resolved' = resolved \ {r}
    /\ UNCHANGED pending

-----------------------------------------------------------------------------
(* The transport's thread: one message that on_bytes() completed.           *)

Replies == [open |-> "accept", ping |-> "pong", close |-> "closeAck"]

\* on_control: the answer is written at once, ahead of any queued result, and
\* waits for the application thread to flush it.
OnControl(m) ==
    /\ m.kind \in {"open", "ping", "close", "accept", "pong", "closeAck"}
    /\ controlOpen' = CASE m.kind = "open"  -> TRUE
                        [] m.kind = "close" -> FALSE
                        [] OTHER            -> controlOpen
    /\ outbound' = IF m.kind \in DOMAIN Replies
                   THEN Append(outbound, [m EXCEPT !.kind = Replies[m.kind]])
                   ELSE outbound
    /\ UNCHANGED <<events, tasks, results, wire, attached, table, thread>>

\* on_rpc for requests and events, on_stream.
OnWork(m) ==
    /\ m.kind \in {"request", "event", "stream"}
    /\ events' = Append(events, m)
    /\ UNCHANGED <<tasks, results, outbound, wire, attached, controlOpen, table, thread>>

\* on_rpc for responses: one that nobody expects is dropped.
OnResponse(m) ==
    /\ m.kind = "response"
    /\ ResolveIfPending(m)
    /\ UNCHANGED <<queues, attached, controlOpen, thread>>

OnMessage(m) == OnControl(m) \/ OnWork(m) \/ OnResponse(m)

-----------------------------------------------------------------------------
(* The application's thread: poll()                                         *)

BeginPoll ==
    /\ phase = "idle"
    /\ phase' = "events"
    /\ budget' = MaxTasks
    /\ UNCHANGED <<queues, attached, controlOpen, table, sending>>

\* _drain_core_events: until there is no event left.
DrainEvent ==
    /\ phase = "events"
    /\ IF events = <<>>
       THEN phase' = "tasks" /\ UNCHANGED <<events, tasks>>
       ELSE /\ tasks' = Append(tasks, Head(events))
            /\ events' = Tail(events)
            /\ UNCHANGED phase
    /\ UNCHANGED <<results, outbound, wire, attached, controlOpen, table, budget, sending>>

\* Wrong form of TaskReady: max_tasks is not looked at.
TaskReadyUnlimited == phase = "tasks" /\ tasks # <<>>

TaskReady == phase = "tasks" /\ tasks # <<>> /\ budget > 0

\* The end of BasicBroker.poll: no task left, or max_tasks handled.
TasksDone ==
    /\ phase = "tasks"
    /\ tasks = <<>> \/ budget = 0
    /\ phase' = "results"
    /\ UNCHANGED <<queues, attached, controlOpen, table, budget, sending>>

\* handle_rpc_request and the result type BasicBroker.poll gives its response: a
\* request without a handler, or whose handler raises, is answered all the same.
Status(m) == CASE m.tag \in Unbound -> "notSupported"
               [] m.tag \in Failing -> "executionFailed"
               [] OTHER             -> "success"

ResponseTo(m) == [kind |-> "response", sid |-> m.sid, rid |-> m.rid, tag |-> m.tag,
                  status |-> Status(m)]

\* Wrong form of HandleRequest: the newest task is taken, not the oldest.
HandleNewestRequest ==
    LET last == tasks[Len(tasks)] IN
    /\ TaskReady
    /\ last.kind = "request"
    /\ tasks' = SubSeq(tasks, 1, Len(tasks) - 1)
    /\ results' = Append(results, ResponseTo(last))
    /\ budget' = budget - 1
    /\ UNCHANGED <<events, outbound, wire, attached, controlOpen, table, phase, sending>>

\* Wrong form of HandleRequest: an exception of the handler loses the request.
HandleRequestOrFail ==
    /\ TaskReady
    /\ Head(tasks).kind = "request"
    /\ tasks' = Tail(tasks)
    /\ IF Status(Head(tasks)) = "executionFailed"
       THEN phase' = "idle" /\ UNCHANGED results
       ELSE results' = Append(results, ResponseTo(Head(tasks))) /\ UNCHANGED phase
    /\ budget' = budget - 1
    /\ UNCHANGED <<events, outbound, wire, attached, controlOpen, table, sending>>

HandleRequest ==
    /\ TaskReady
    /\ Head(tasks).kind = "request"
    /\ tasks' = Tail(tasks)
    /\ results' = Append(results, ResponseTo(Head(tasks)))
    /\ budget' = budget - 1
    /\ UNCHANGED <<events, outbound, wire, attached, controlOpen, table, phase, sending>>

\* An event has no handler: the broker returns it as its own result.
HandleEvent ==
    /\ TaskReady
    /\ Head(tasks).kind = "event"
    /\ tasks' = Tail(tasks)
    /\ results' = Append(results, Head(tasks))
    /\ budget' = budget - 1
    /\ UNCHANGED <<events, outbound, wire, attached, controlOpen, table, phase, sending>>

\* Stream data without a handler becomes a result the core ignores; a handler
\* returns no result, or raises, which ends the whole poll with the task gone.
HandleStream ==
    /\ TaskReady
    /\ Head(tasks).kind = "stream"
    /\ tasks' = Tail(tasks)
    /\ budget' = budget - 1
    /\ IF StreamHandler
       THEN phase' \in {phase, "idle"} /\ UNCHANGED results
       ELSE results' = Append(results, Head(tasks)) /\ UNCHANGED phase
    /\ UNCHANGED <<events, outbound, wire, attached, controlOpen, table, sending>>

\* _drain_broker_results and handle_broker_result.  A result is popped before it
\* is sent, so the ValueError of a message too long to fragment loses it and ends
\* the poll.
DrainResult ==
    /\ phase = "results"
    /\ IF results = <<>>
       THEN phase' = "flush" /\ UNCHANGED <<results, outbound>>
       ELSE /\ results' = Tail(results)
            /\ outbound' = IF Head(results).kind = "stream" \/ Head(results).tag \in Huge
                           THEN outbound ELSE Append(outbound, Head(results))
            /\ phase' = IF Head(results).kind # "stream" /\ Head(results).tag \in Huge
                        THEN "idle" ELSE phase
    /\ UNCHANGED <<events, tasks, wire, attached, controlOpen, table, budget, sending>>

\* What PayloadEncoder leaves of a message: the session id is not on the wire.
OnWire(m) == [m EXCEPT !.sid = 0]

\* Wrong form of Flush: what cannot be sent without a transport is dropped.
FlushDiscards ==
    /\ phase = "flush"
    /\ IF outbound = <<>>
       THEN phase' = "idle" /\ UNCHANGED <<outbound, wire>>
       ELSE /\ outbound' = Tail(outbound)
            /\ wire' = IF attached THEN Append(wire, OnWire(Head(outbound))) ELSE wire
            /\ UNCHANGED phase
    /\ UNCHANGED <<events, tasks, results, attached, controlOpen, table, budget, sending>>

\* flush_outbound, which returns at once without a transport.
Flush ==
    /\ phase = "flush"
    /\ IF outbound = <<>> \/ ~ attached
       THEN phase' = "idle" /\ UNCHANGED <<outbound, wire>>
       ELSE /\ outbound' = Tail(outbound)
            /\ wire' = Append(wire, OnWire(Head(outbound)))
            /\ UNCHANGED phase
    /\ UNCHANGED <<events, tasks, results, attached, controlOpen, table, budget, sending>>

-----------------------------------------------------------------------------
(* The application's thread: send_rpc_request()                             *)

\* Wrong form of BeginSend: nothing is expected before the request is out.
BeginSendUnexpected(m) ==
    /\ phase = "idle"
    /\ phase' = "write"
    /\ sending' = m
    /\ UNCHANGED <<queues, attached, controlOpen, table, budget>>

\* The response is expected before the request is written.
BeginSend(m) ==
    /\ phase = "idle"
    /\ ExpectKey(Key(m))
    /\ phase' = "write"
    /\ sending' = m
    /\ UNCHANGED <<queues, attached, controlOpen, budget>>

\* A request too long to fragment raises, and stays expected.
WriteRequest ==
    /\ phase = "write"
    /\ sending' = NoMessage
    /\ IF sending.tag \in Huge
       THEN phase' = "idle" /\ UNCHANGED outbound
       ELSE outbound' = Append(outbound, sending) /\ phase' = "flush"
    /\ UNCHANGED <<events, tasks, results, wire, attached, controlOpen, table, budget>>

\* attach_transport and detach_transport; the queues survive both.
SetAttached(b) ==
    /\ phase = "idle"
    /\ attached # b
    /\ attached' = b
    /\ UNCHANGED <<queues, controlOpen, table, thread>>

\* A new AxtpEndpoint over the same broker, whose queues stay as they are; what is
\* on the way is up to the connection.
NewEndpoint ==
    /\ phase = "idle"
    /\ events' = <<>> /\ outbound' = <<>>
    /\ controlOpen' = FALSE
    /\ pending' = {} /\ resolved' = {}
    /\ UNCHANGED <<tasks, results, attached, thread>>

HandleTask == HandleRequest \/ HandleEvent \/ HandleStream
PollStep == DrainEvent \/ HandleTask \/ TasksDone \/ DrainResult \/ Flush
ThreadStep == PollStep \/ WriteRequest
=============================================================================
