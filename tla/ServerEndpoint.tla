--------------------------- MODULE ServerEndpoint ---------------------------
(***************************************************************************)
(* An Endpoint that serves a peer (AxtpServer, src/axtp_runtime/sdk.py):   *)
(* the peer's messages arrive at any time on the transport's thread while  *)
(* the application polls, and the transport is detached and attached again *)
(* between polls.                                                          *)
(*                                                                         *)
(* The peer numbers its messages: the request id of the n-th one is n.     *)
(* What is sent stays on the wire, so the wire is also the history of the  *)
(* answers.                                                                *)
(***************************************************************************)
EXTENDS Endpoint, FiniteSets

CONSTANTS
    Offers,       \* the messages the peer may send: <<kind, tag>> pairs
    MaxArrivals,  \* bound on the messages that arrive
    MaxDetaches   \* bound on the times the transport is detached

ASSUME ServerAssumption ==
    /\ MaxTasks \in Nat \ {0} /\ MaxArrivals \in Nat /\ MaxDetaches \in Nat
    /\ \A o \in Offers : o[1] \in {"request", "event", "stream", "open", "ping", "close"}

VARIABLES
    arrived,   \* the messages that arrived, in order (history)
    detaches   \* how often the transport was detached (history)

vars == <<epVars, arrived, detaches>>

Init == InitEndpoint /\ arrived = <<>> /\ detaches = 0

Arrive(kind, tag) ==
    LET m == [kind |-> kind, sid |-> 0, rid |-> Len(arrived) + 1, tag |-> tag] IN
    /\ Len(arrived) < MaxArrivals
    /\ OnMessage(m)
    /\ arrived' = Append(arrived, m)
    /\ UNCHANGED detaches

Poll == (BeginPoll \/ PollStep) /\ UNCHANGED <<arrived, detaches>>

Detach ==
    /\ detaches < MaxDetaches
    /\ SetAttached(FALSE)
    /\ detaches' = detaches + 1
    /\ UNCHANGED arrived

Attach == SetAttached(TRUE) /\ UNCHANGED <<arrived, detaches>>

Next ==
    \/ \E o \in Offers : Arrive(o[1], o[2])
    \/ Poll
    \/ Detach
    \/ Attach

\* A server is polled in a loop, and a transport that went away comes back at
\* the end of some poll.
Spec == Init /\ [][Next]_vars /\ WF_vars(Poll) /\ SF_vars(Attach)
-----------------------------------------------------------------------------
(* Properties *)

Kinds == {o[1] : o \in Offers}
Tags == {o[2] : o \in Offers}
Message == [kind : Kinds \cup {"accept", "pong", "closeAck"}, sid : {0},
            rid : 1..MaxArrivals, tag : Tags]
Response == [kind : {"response"}, sid : {0}, rid : 1..MaxArrivals, tag : Tags,
             status : {"success", "notSupported", "executionFailed"}]

\* Type correctness, and what may be in which queue.
TypeOK ==
    /\ arrived \in Seq(Message) /\ events \in Seq(Message) /\ tasks \in Seq(Message)
    /\ \A q \in {results, outbound, wire} : q \in Seq(Message \cup Response)
    /\ attached \in BOOLEAN /\ controlOpen \in BOOLEAN
    /\ pending = {} /\ resolved = {} /\ sending = NoMessage
    /\ phase \in {"idle", "events", "tasks", "results", "flush"}
    /\ budget \in 0..MaxTasks

\* All the endpoint holds or has sent, oldest first.
Pipeline == wire \o outbound \o results \o tasks \o events

Occurrences(n) == Cardinality({i \in 1..Len(Pipeline) : Pipeline[i].rid = n})

\* Every request, and every control message that has an answer, is held or
\* answered exactly once at any time, whichever polls were cut short by a stream
\* handler or by another payload, while it can be fragmented
\* (broker.py:145-162, endpoint.py:26-30).
HeldOrAnsweredOnce ==
    \A n \in 1..Len(arrived) :
        /\ arrived[n].kind \notin {"event", "stream"}
        /\ arrived[n].kind = "request" => arrived[n].tag \notin Huge
        => Occurrences(n) = 1

\* Requests and events are answered in the order they arrived: no later one
\* overtakes in any queue (the lists popped at 0 in broker.py and core.py).
AnsweredInOrder ==
    \A i, j \in 1..Len(Pipeline) :
        /\ i < j
        /\ {Pipeline[i].kind, Pipeline[j].kind} \cap {"accept", "pong", "closeAck"} = {}
        => Pipeline[i].rid < Pipeline[j].rid

Answered(n) == \E i \in 1..Len(wire) : wire[i].rid = n

\* Every request that can be answered is answered in the end, however the polls
\* are cut short and the transport comes and goes (endpoint.py:26-30).
RequestsAnswered ==
    \A n \in 1..MaxArrivals :
        n <= Len(arrived) /\ arrived[n].kind # "stream" /\ arrived[n].tag \notin Huge
            ~> Answered(n)
=============================================================================
