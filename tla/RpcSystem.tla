------------------------------ MODULE RpcSystem ------------------------------
(***************************************************************************)
(* A client and a server (AxtpClient and AxtpServer, src/axtp_runtime/     *)
(* sdk.py), each on an Endpoint of its own, over a connection that keeps   *)
(* the order of messages and may lose some: a message is lost when one of  *)
(* its frames is.                                                          *)
(*                                                                         *)
(* The client's application thread issues calls (send_json), polls, takes  *)
(* responses (try_take_json_response), gives calls up (call_json past its  *)
(* deadline) and attaches another transport, in any order, with several    *)
(* calls open at once, under request ids taken from the client or chosen   *)
(* by the application.  Calls are numbered; the tag of a request and of    *)
(* its response is the number of the call, standing for the body.          *)
(***************************************************************************)
EXTENDS Integers, Sequences, FiniteSets

CONSTANTS
    MaxRequestId,  \* largest request id; 0xFFFFFFFF in the code
    MaxTasks,      \* tasks handled by one poll
    MaxCalls,      \* bound on the calls issued
    MaxChosen,     \* bound on the calls under a request id the application chose
    MaxAttaches,   \* bound on the transports attached after the first
    MaxGiveUps,    \* bound on the calls given up
    MaxLosses      \* bound on the messages lost

ASSUME RpcAssumption ==
    /\ MaxRequestId \in Nat \ {0} /\ MaxTasks \in Nat \ {0}
    /\ {MaxCalls, MaxChosen, MaxAttaches} \subseteq Nat /\ MaxGiveUps \in Nat /\ MaxLosses \in Nat

VARIABLES
    cEvents, cTasks, cResults, cOutbound, cWire, cAttached, cControlOpen,
    cPending, cResolved, cPhase, cBudget, cSending,
    sEvents, sTasks, sResults, sOutbound, sWire, sAttached, sControlOpen,
    sPending, sResolved, sPhase, sBudget, sSending,
    nextRequestId,  \* AxtpClient._next_request_id
    calls,          \* the calls issued: request id, whether it was chosen, state,
                    \* call answered (history)
    attaches,       \* transports attached so far (history)
    before,         \* the calls issued before the last of them (history)
    served,         \* the calls whose handler ran, in order (history)
    losses          \* messages lost so far (history)

clientVars == <<cEvents, cTasks, cResults, cOutbound, cWire, cAttached,
                cControlOpen, cPending, cResolved, cPhase, cBudget, cSending>>
serverVars == <<sEvents, sTasks, sResults, sOutbound, sWire, sAttached,
                sControlOpen, sPending, sResolved, sPhase, sBudget, sSending>>
callVars == <<nextRequestId, calls, attaches, before>>
vars == <<clientVars, serverVars, callVars, served, losses>>

Client == INSTANCE Endpoint WITH
    StreamHandler <- FALSE, Unbound <- {}, Failing <- {}, Huge <- {},
    events <- cEvents, tasks <- cTasks, results <- cResults,
    outbound <- cOutbound, wire <- cWire, attached <- cAttached,
    controlOpen <- cControlOpen, pending <- cPending, resolved <- cResolved,
    phase <- cPhase, budget <- cBudget, sending <- cSending

Server == INSTANCE Endpoint WITH
    StreamHandler <- FALSE, Unbound <- {}, Failing <- {}, Huge <- {},
    events <- sEvents, tasks <- sTasks, results <- sResults,
    outbound <- sOutbound, wire <- sWire, attached <- sAttached,
    controlOpen <- sControlOpen, pending <- sPending, resolved <- sResolved,
    phase <- sPhase, budget <- sBudget, sending <- sSending

Init ==
    /\ Client!InitEndpoint
    /\ Server!InitEndpoint
    /\ nextRequestId = 1
    /\ calls = <<>>
    /\ attaches = 0 /\ before = 0
    /\ served = <<>>
    /\ losses = 0

-----------------------------------------------------------------------------
(* The client's application thread                                          *)

\* Wrong form of NextRequestId: the ids wrap one too early.
NextRequestIdEarly(id) == IF id + 1 >= MaxRequestId THEN 1 ELSE id + 1

\* Wrong form of NextRequestId: the ids never wrap.
NextRequestIdNoWrap(id) == id + 1

\* What _take_request_id leaves behind.
NextRequestId(id) == IF id + 1 > MaxRequestId THEN 1 ELSE id + 1

Request(n, rid) == [kind |-> "request", sid |-> 0, rid |-> rid, tag |-> n]

\* send_json: the response is expected; the request is written and flushed by the
\* steps that follow.
Send(rid, chosen) ==
    /\ Len(calls) < MaxCalls
    /\ Client!BeginSend(Request(Len(calls) + 1, rid))
    /\ calls' = Append(calls, [rid |-> rid, chosen |-> chosen, state |-> "open", answer |-> 0])
    /\ UNCHANGED <<serverVars, attaches, before, served, losses>>

Call ==
    /\ Send(nextRequestId, FALSE)
    /\ nextRequestId' = NextRequestId(nextRequestId)

\* The application passes a request_id of its own; 0 counts as none.
CallWith(rid) ==
    /\ Cardinality({n \in 1..Len(calls) : calls[n].chosen}) < MaxChosen
    /\ Send(rid, TRUE)
    /\ UNCHANGED nextRequestId

\* attach_transport of a client that has one: a new endpoint, over the old broker
\* and with the old ids.  What is on the way still arrives, ahead of what is sent
\* from now on, or is gone with the old transport.
Reattach ==
    /\ attaches < MaxAttaches
    /\ Client!NewEndpoint
    /\ cWire' \in {cWire, <<>>} /\ sWire' \in {sWire, <<>>}
    /\ attaches' = attaches + 1 /\ before' = Len(calls)
    /\ UNCHANGED <<sEvents, sTasks, sResults, sOutbound, sAttached, sControlOpen,
                   sPending, sResolved, sPhase, sBudget, sSending,
                   nextRequestId, calls, served, losses>>

\* One step of poll() or send_rpc_request().  A poll that would find every queue
\* empty changes nothing and is left out, here and on the server.
ClientSteps ==
    /\ cPhase # "idle" \/ cEvents # <<>> \/ cTasks # <<>> \/ cOutbound # <<>>
    /\ Client!BeginPoll \/ Client!ThreadStep
    /\ UNCHANGED <<serverVars, callVars, served, losses>>

\* Wrong form of TakeResponse: any response is taken for the call.
TakeAnyResponse(n) ==
    \E r \in cResolved :
        /\ cPhase = "idle"
        /\ calls[n].state = "open"
        /\ Client!TakeResolved(r)
        /\ calls' = [calls EXCEPT ![n].state = "answered", ![n].answer = r[2].tag]
        /\ UNCHANGED <<cEvents, cTasks, cResults, cOutbound, cWire, cAttached,
                       cControlOpen, cPhase, cBudget, cSending,
                       serverVars, nextRequestId, attaches, before, served, losses>>

\* try_take_json_response, with the session omitted as call_json does: the one
\* response resolved under the call's request id.
TakeResponse(n) ==
    \E r \in Client!Takable(calls[n].rid) :
        /\ cPhase = "idle"
        /\ calls[n].state = "open"
        /\ Client!Takable(calls[n].rid) = {r}
        /\ Client!TakeResolved(r)
        /\ calls' = [calls EXCEPT ![n].state = "answered", ![n].answer = r[2].tag]
        /\ UNCHANGED <<cEvents, cTasks, cResults, cOutbound, cWire, cAttached,
                       cControlOpen, cPhase, cBudget, cSending,
                       serverVars, nextRequestId, attaches, before, served, losses>>

\* call_json past its deadline: the call stays in the pending table.
GiveUp(n) ==
    /\ cPhase = "idle"
    /\ calls[n].state = "open"
    /\ Cardinality({k \in 1..Len(calls) : calls[k].state = "givenUp"}) < MaxGiveUps
    /\ calls' = [calls EXCEPT ![n].state = "givenUp"]
    /\ UNCHANGED <<clientVars, serverVars, nextRequestId, attaches, before, served, losses>>

-----------------------------------------------------------------------------
(* The server's application thread                                          *)

ServerSteps ==
    /\ sPhase # "idle" \/ sEvents # <<>> \/ sTasks # <<>> \/ sOutbound # <<>>
    /\ \/ /\ Server!HandleRequest
          /\ served' = Append(served, sResults'[Len(sResults')].tag)
       \/ /\ Server!BeginPoll \/ Server!ThreadStep
          /\ ~ Server!TaskReady
          /\ UNCHANGED served
    /\ UNCHANGED <<clientVars, callVars, losses>>

-----------------------------------------------------------------------------
(* The connection and the transports' threads                               *)

DeliverToServer ==
    /\ cWire # <<>>
    /\ Server!OnMessage(Head(cWire))
    /\ cWire' = Tail(cWire)
    /\ UNCHANGED <<cEvents, cTasks, cResults, cOutbound, cAttached, cControlOpen,
                   cPending, cResolved, cPhase, cBudget, cSending,
                   callVars, served, losses>>

DeliverToClient ==
    /\ sWire # <<>>
    /\ Client!OnMessage(Head(sWire))
    /\ sWire' = Tail(sWire)
    /\ UNCHANGED <<sEvents, sTasks, sResults, sOutbound, sAttached, sControlOpen,
                   sPending, sResolved, sPhase, sBudget, sSending,
                   callVars, served, losses>>

Lose ==
    /\ losses < MaxLosses
    /\ losses' = losses + 1
    /\ \/ /\ cWire # <<>> /\ cWire' = Tail(cWire) /\ UNCHANGED sWire
       \/ /\ sWire # <<>> /\ sWire' = Tail(sWire) /\ UNCHANGED cWire
    /\ UNCHANGED <<cEvents, cTasks, cResults, cOutbound, cAttached, cControlOpen,
                   cPending, cResolved, cPhase, cBudget, cSending,
                   sEvents, sTasks, sResults, sOutbound, sAttached, sControlOpen,
                   sPending, sResolved, sPhase, sBudget, sSending,
                   callVars, served>>

Next ==
    \/ Call
    \/ \E rid \in 1..MaxRequestId : CallWith(rid)
    \/ Reattach
    \/ ClientSteps
    \/ \E n \in 1..Len(calls) : TakeResponse(n) \/ GiveUp(n)
    \/ ServerSteps
    \/ DeliverToServer
    \/ DeliverToClient
    \/ Lose

\* Both applications poll in a loop, the client asks for the response of each
\* call it has not given up, and the transports deliver what they do not lose.
\* Nothing obliges the client to issue a call or to give one up.
Fairness ==
    /\ WF_vars(ClientSteps)
    /\ \A n \in 1..MaxCalls : SF_vars(n <= Len(calls) /\ TakeResponse(n))
    /\ WF_vars(ServerSteps)
    /\ WF_vars(DeliverToServer)
    /\ WF_vars(DeliverToClient)

Spec == Init /\ [][Next]_vars /\ Fairness
-----------------------------------------------------------------------------
(* Properties *)

TypeOK ==
    /\ nextRequestId \in 1..MaxRequestId
    /\ calls \in Seq([rid : 1..MaxRequestId, chosen : BOOLEAN,
                      state : {"open", "answered", "givenUp"}, answer : 0..MaxCalls])
    /\ attaches \in 0..MaxAttaches /\ before \in 0..Len(calls)
    /\ served \in Seq(1..MaxCalls)
    /\ losses \in 0..MaxLosses
    /\ cPending \subseteq {0} \X (1..MaxRequestId)
    /\ cPhase \in {"idle", "events", "tasks", "results", "flush", "write"}
    /\ sPhase \in {"idle", "events", "tasks", "results", "flush"}
    /\ sPending = {} /\ sResolved = {}

\* The answer a call ends with is its own, or that of a call under the same request
\* id: one of the two was chosen by the application, or they are a whole id space
\* apart; a response that arrives late, over an earlier transport or to a call given
\* up, goes to nobody else (_take_request_id, sdk.py:102; attach_transport, sdk.py:27;
\* resolve_if_pending, core.py:42).
OwnAnswerUnlessShared ==
    \A n \in 1..Len(calls) : calls[n].state = "answered" =>
        LET k == calls[n].answer IN
        k # n => /\ calls[k].rid = calls[n].rid
                 /\ \/ calls[k].chosen \/ calls[n].chosen
                    \/ k - n >= MaxRequestId \/ n - k >= MaxRequestId

\* The handler of a call runs at most once, and those of two calls in the order
\* of the calls (broker.py:147, endpoint.py:56).
ServedOnceInOrder ==
    \A i, j \in 1..Len(served) : i < j => served[i] < served[j]

\* What the queues and the connection hold of calls, from the client's wire to the
\* answer's arrival.
Travelling == cWire \o sEvents \o sTasks \o sResults \o sOutbound \o sWire

\* No request id was used twice, by wrapping or by choice.
IdsUsedOnce == \A i, j \in 1..Len(calls) : calls[i].rid = calls[j].rid => i = j

\* Until an id is used twice, each call travels at most once at any time, as a
\* request or as a response, and one of the attached transport is pending at the
\* client as long as it does: no response is dropped because it came before it was
\* expected (send_rpc_request, endpoint.py:38-41).
ResponseIsExpected ==
    IdsUsedOnce =>
        \A i \in 1..Len(Travelling) :
            /\ Travelling[i].tag > before => <<Travelling[i].sid, Travelling[i].rid>> \in cPending
            /\ \A j \in 1..Len(Travelling) : Travelling[j].rid = Travelling[i].rid => i = j

\* Until an id is used twice, the calls of the attached transport without an answer
\* hold exactly one entry of the table each, expected or resolved, and nothing else
\* does: giving a call up, or losing a message, never frees its entry (call_json,
\* sdk.py:99), attaching a transport frees all (sdk.py:30).  Afterwards calls share
\* entries and the table only stays as small.
TableHoldsUnanswered ==
    LET unanswered == {n \in (before + 1)..Len(calls) : calls[n].state # "answered"} IN
    /\ Cardinality(cPending) + Cardinality(cResolved) <= Cardinality(unanswered)
    /\ IdsUsedOnce =>
          /\ cPending \cap Client!ResolvedKeys = {}
          /\ cPending \cup Client!ResolvedKeys = {<<0, calls[n].rid>> : n \in unanswered}

IsOpen(n) == n <= Len(calls) /\ calls[n].state = "open"

\* As long as no message is lost and no id is used twice, every call is answered
\* unless it is given up or another transport is attached (call_json, sdk.py:86).
Answered ==
    [](losses = 0 /\ IdsUsedOnce) =>
        \A n \in 1..MaxCalls : IsOpen(n) ~> ~ IsOpen(n) \/ n <= before

\* The mapping of the system's state to that of the service.
Service == INSTANCE RpcService WITH
    Calls <- 1..MaxCalls,
    issued <- Len(calls),
    open <- {n \in 1..Len(calls) : calls[n].state = "open"},
    served <- {served[i] : i \in 1..Len(served)},
    answers <- {<<n, calls[n].answer>> :
                   n \in {k \in 1..Len(calls) : calls[k].state = "answered"}}

\* As long as no id is used twice (MaxCalls <= MaxRequestId, none is chosen), the
\* system does what RpcService promises: each call is served at most once, after it
\* was issued, and ends with its own answer, whatever transports the client attaches
\* (sdk.py, core.py, endpoint.py, broker.py together).
ImplementsService == Service!ServiceSpec
=============================================================================
