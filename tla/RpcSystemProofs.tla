-------------------------- MODULE RpcSystemProofs --------------------------
(***************************************************************************)
(* What the client and the server do together, for any number of calls,    *)
(* any range of request ids and any losses and reattachments.              *)
(*                                                                         *)
(* The argument: a message of a call stands in one of eight places, from   *)
(* the request about to be written to the answer on its way to the client. *)
(* Every step moves one message one place on, adds a new request behind    *)
(* all others, or loses some; so the calls stay in order over all places   *)
(* (Ordered), and what holds of a call is found again wherever its         *)
(* message is.                                                             *)
(***************************************************************************)
EXTENDS RpcSystem, FiniteSetTheorems, SequenceTheorems, TLAPS

-----------------------------------------------------------------------------
(* The inductive invariant                                                  *)

RequestMessage == [kind : {"request"}, sid : {0}, rid : 1..MaxRequestId, tag : 1..MaxCalls]
ResponseMessage == [kind : {"response"}, sid : {0}, rid : 1..MaxRequestId,
                    tag : 1..MaxCalls, status : {"success"}]

\* What may be in which queue: the client is never asked and the server never asks.
QueuesOK ==
    /\ cOutbound \in Seq(RequestMessage) /\ cWire \in Seq(RequestMessage)
    /\ sEvents \in Seq(RequestMessage) /\ sTasks \in Seq(RequestMessage)
    /\ sResults \in Seq(ResponseMessage) /\ sOutbound \in Seq(ResponseMessage)
    /\ sWire \in Seq(ResponseMessage)
    /\ cEvents = <<>> /\ cTasks = <<>> /\ cResults = <<>>
    /\ cSending \in (IF cPhase = "write" THEN RequestMessage ELSE {Client!NoMessage})
    /\ cResolved \subseteq {<<<<0, m.rid>>, m>> : m \in ResponseMessage}
    /\ \A r1, r2 \in cResolved : r1[1] = r2[1] => r1 = r2

TypeInv == TypeOK /\ QueuesOK

-----------------------------------------------------------------------------
(* Types                                                                    *)

LEMMA MoveTyped ==
    ASSUME NEW S, NEW p \in Seq(S), NEW q \in Seq(S), q # <<>>
    PROVE  Append(p, Head(q)) \in Seq(S) /\ Tail(q) \in Seq(S) /\ Head(q) \in S
  BY AppendProperties, HeadTailProperties

LEMMA TypeInit == Init => TypeInv
  BY RpcAssumption DEF Init, TypeInv, TypeOK, QueuesOK, Client!InitEndpoint, Server!InitEndpoint

CallRecord == [rid : 1..MaxRequestId, chosen : BOOLEAN,
               state : {"open", "answered", "givenUp"}, answer : 0..MaxCalls]

LEMMA CallsTyped == TypeInv => calls \in Seq(CallRecord) /\ \A n \in 1..Len(calls) : calls[n] \in CallRecord
  <1>1. TypeInv => calls \in Seq(CallRecord)
    BY DEF TypeInv, TypeOK, CallRecord
  <1> QED BY <1>1, ElementOfSeq

\* What send_json changes.
LEMMA SendEffect ==
    ASSUME TypeInv, NEW rid \in 1..MaxRequestId, NEW chosen \in BOOLEAN, Send(rid, chosen)
    PROVE  LET c == [rid |-> rid, chosen |-> chosen, state |-> "open", answer |-> 0]
               m == Request(Len(calls) + 1, rid)
           IN  /\ Len(calls) < MaxCalls
               /\ cPhase = "idle" /\ cPhase' = "write"
               /\ m \in RequestMessage /\ cSending' = m
               /\ cPending' = cPending \cup {<<0, rid>>}
               /\ c \in CallRecord /\ calls' = Append(calls, c)
               /\ UNCHANGED <<cEvents, cTasks, cResults, cOutbound, cWire, cAttached, cControlOpen,
                              cResolved, cBudget, attaches, before, served, losses>>
               /\ UNCHANGED <<sEvents, sTasks, sResults, sOutbound, sWire, sAttached, sControlOpen,
                              sPending, sResolved, sPhase, sBudget, sSending>>
  <1>1. Len(calls) \in Nat /\ MaxCalls \in Nat
    BY RpcAssumption DEF TypeInv, TypeOK
  <1>2. Len(calls) < MaxCalls
    BY DEF Send
  <1>3. Request(Len(calls) + 1, rid) \in RequestMessage
    BY <1>1, <1>2 DEF Request, RequestMessage
  <1>4. [rid |-> rid, chosen |-> chosen, state |-> "open", answer |-> 0] \in CallRecord
    BY <1>1 DEF CallRecord
  <1> QED
    BY <1>2, <1>3, <1>4 DEF Send, Client!BeginSend, Client!ExpectKey, Client!Key, Client!queues, Request, serverVars

LEMMA TypeSend ==
    ASSUME TypeInv, NEW rid \in 1..MaxRequestId, NEW chosen \in BOOLEAN, Send(rid, chosen),
           nextRequestId' \in 1..MaxRequestId
    PROVE  TypeInv'
  <1>1. calls \in Seq(CallRecord)
    BY DEF TypeInv, TypeOK, CallRecord
  <1>2. PICK c \in CallRecord : calls' = Append(calls, c)
    BY SendEffect
  <1>3. calls' \in Seq(CallRecord) /\ Len(calls') = Len(calls) + 1
    BY <1>1, <1>2, AppendProperties
  <1>4. TypeOK'
    <2>1. /\ nextRequestId' \in 1..MaxRequestId
          /\ attaches' \in 0..MaxAttaches /\ served' \in Seq(1..MaxCalls) /\ losses' \in 0..MaxLosses
          /\ sPhase' \in {"idle", "events", "tasks", "results", "flush"}
          /\ sPending' = {} /\ sResolved' = {}
      BY SendEffect DEF TypeInv, TypeOK
    <2>2. before' \in 0..Len(calls')
      <3>1. before \in 0..Len(calls) /\ Len(calls) \in Nat
        BY DEF TypeInv, TypeOK
      <3>2. before' = before
        BY SendEffect
      <3> QED BY <1>3, <3>1, <3>2
    <2>3. cPending' \subseteq {0} \X (1..MaxRequestId)
      <3>1. cPending \subseteq {0} \X (1..MaxRequestId)
        BY DEF TypeInv, TypeOK
      <3>2. cPending' = cPending \cup {<<0, rid>>}
        BY SendEffect
      <3> QED BY <3>1, <3>2
    <2>4. cPhase' = "write"
      BY SendEffect
    <2> QED BY <1>3, <2>1, <2>2, <2>3, <2>4 DEF TypeOK, CallRecord
  <1>5. QueuesOK'
    BY SendEffect DEF TypeInv, TypeOK, QueuesOK
  <1> QED BY <1>4, <1>5 DEF TypeInv

LEMMA TypeReattach == TypeInv /\ Reattach => TypeInv'
  <1> SUFFICES ASSUME TypeInv, Reattach PROVE TypeInv'
    OBVIOUS
  <1> USE DEF TypeInv, Reattach, Client!NewEndpoint, Client!table, Client!thread
  <1>1. TypeOK'
    <2>1. before' = Len(calls) /\ calls' = calls /\ attaches' = attaches + 1
      OBVIOUS
    <2>2. attaches' \in 0..MaxAttaches /\ before' \in 0..Len(calls')
      BY <2>1, RpcAssumption DEF TypeOK
    <2> QED BY <2>1, <2>2 DEF TypeOK
  <1>2. QueuesOK'
    <2>1. cWire' \in Seq(RequestMessage) /\ sWire' \in Seq(ResponseMessage)
      <3>1. cWire' = cWire \/ cWire' = <<>>
        OBVIOUS
      <3>2. sWire' = sWire \/ sWire' = <<>>
        OBVIOUS
      <3>3. cWire \in Seq(RequestMessage) /\ sWire \in Seq(ResponseMessage)
        BY DEF QueuesOK
      <3>4. \A S : <<>> \in Seq(S)
        BY EmptySeq
      <3>5. cWire' \in Seq(RequestMessage)
        BY <3>1, <3>3, <3>4
      <3>6. sWire' \in Seq(ResponseMessage)
        BY <3>2, <3>3, <3>4
      <3> QED BY <3>5, <3>6
    <2>2. /\ cOutbound' = <<>> /\ cResolved' = {} /\ cEvents' = <<>>
          /\ UNCHANGED <<sEvents, sTasks, sResults, sOutbound, cTasks, cResults, cPhase, cSending>>
      OBVIOUS
    <2> QED BY <2>1, <2>2 DEF QueuesOK
  <1> QED BY <1>1, <1>2

\* What a step of the client's thread changes: at most the request it writes or
\* flushes moves on.
LEMMA ClientEffect ==
    ASSUME TypeInv, ClientSteps
    PROVE  /\ UNCHANGED <<cEvents, cTasks, cResults, cPending, cResolved>>
           /\ UNCHANGED <<sEvents, sTasks, sResults, sOutbound, sWire, sPending, sResolved, sPhase>>
           /\ UNCHANGED <<nextRequestId, calls, attaches, before, served, losses>>
           /\ cPhase' \in {"idle", "events", "tasks", "results", "flush"}
           /\ \/ cPhase # "write" /\ UNCHANGED <<cSending, cOutbound, cWire>>
              \/ /\ cPhase = "write" /\ cSending' = Client!NoMessage
                 /\ cOutbound' = Append(cOutbound, cSending) /\ UNCHANGED cWire
              \/ /\ cPhase = "flush" /\ cOutbound # <<>> /\ UNCHANGED cSending
                 /\ cWire' = Append(cWire, Head(cOutbound)) /\ cOutbound' = Tail(cOutbound)
  <1>1. /\ UNCHANGED <<sEvents, sTasks, sResults, sOutbound, sWire, sPending, sResolved, sPhase>>
        /\ UNCHANGED <<nextRequestId, calls, attaches, before, served, losses>>
    BY DEF ClientSteps, serverVars, callVars
  <1>2. cEvents = <<>> /\ cTasks = <<>> /\ cResults = <<>>
    BY DEF TypeInv, QueuesOK
  <1>3. CASE Client!BeginPoll
    BY <1>1, <1>3 DEF Client!BeginPoll, Client!queues, Client!table
  <1>4. CASE Client!DrainEvent
    BY <1>1, <1>2, <1>4 DEF Client!DrainEvent, Client!table
  <1>5. CASE Client!HandleTask
    BY <1>2, <1>5 DEF Client!HandleTask, Client!HandleRequest, Client!HandleEvent,
       Client!HandleStream, Client!TaskReady
  <1>6. CASE Client!TasksDone
    BY <1>1, <1>6 DEF Client!TasksDone, Client!queues, Client!table
  <1>7. CASE Client!DrainResult
    BY <1>1, <1>2, <1>7 DEF Client!DrainResult, Client!table
  <1>8. CASE Client!Flush
    <2>1. CASE UNCHANGED <<cOutbound, cWire>> /\ cPhase' = "idle"
      BY <1>1, <1>8, <2>1 DEF Client!Flush, Client!table
    <2>2. CASE cOutbound # <<>> /\ cOutbound' = Tail(cOutbound)
               /\ cWire' = Append(cWire, Client!OnWire(Head(cOutbound))) /\ UNCHANGED cPhase
      <3>1. Head(cOutbound) \in RequestMessage
        BY <2>2 DEF TypeInv, QueuesOK
      <3>2. Client!OnWire(Head(cOutbound)) = Head(cOutbound)
        BY <3>1 DEF Client!OnWire, RequestMessage
      <3> QED BY <1>1, <1>8, <2>2, <3>2 DEF Client!Flush, Client!table
    <2> QED BY <1>8, <2>1, <2>2 DEF Client!Flush
  <1>9. CASE Client!WriteRequest
    BY <1>1, <1>9 DEF Client!WriteRequest, Client!table
  <1> QED
    BY <1>3, <1>4, <1>5, <1>6, <1>7, <1>8, <1>9 DEF ClientSteps, Client!ThreadStep, Client!PollStep

LEMMA TypeClient == TypeInv /\ ClientSteps => TypeInv'
  <1> SUFFICES ASSUME TypeInv, ClientSteps PROVE TypeInv'
    OBVIOUS
  <1>1. TypeOK'
    BY ClientEffect DEF TypeInv, TypeOK
  <1>2. QueuesOK'
    <2>1. CASE cPhase # "write" /\ UNCHANGED <<cSending, cOutbound, cWire>>
      BY <2>1, ClientEffect DEF TypeInv, QueuesOK
    <2>2. CASE /\ cPhase = "write" /\ cSending' = Client!NoMessage
               /\ cOutbound' = Append(cOutbound, cSending) /\ UNCHANGED cWire
      <3>1. cSending \in RequestMessage /\ cOutbound' \in Seq(RequestMessage)
        BY <2>2 DEF TypeInv, QueuesOK
      <3> QED BY <2>2, <3>1, ClientEffect DEF TypeInv, QueuesOK
    <2>3. CASE /\ cPhase = "flush" /\ cOutbound # <<>> /\ UNCHANGED cSending
               /\ cWire' = Append(cWire, Head(cOutbound)) /\ cOutbound' = Tail(cOutbound)
      <3>1. cWire' \in Seq(RequestMessage) /\ cOutbound' \in Seq(RequestMessage)
        BY <2>3 DEF TypeInv, QueuesOK
      <3> QED BY <2>3, <3>1, ClientEffect DEF TypeInv, QueuesOK
    <2> QED BY <2>1, <2>2, <2>3, ClientEffect
  <1> QED BY <1>1, <1>2 DEF TypeInv

\* What a step of the server's thread changes: at most one message moves on, and the
\* handler of a request runs as the request becomes a response.
LEMMA ServerEffect ==
    ASSUME TypeInv, ServerSteps
    PROVE  /\ UNCHANGED <<cEvents, cTasks, cResults, cOutbound, cWire, cPending, cResolved, cPhase,
                          cSending, sPending, sResolved>>
           /\ UNCHANGED <<nextRequestId, calls, attaches, before, losses>>
           /\ sPhase' \in {"idle", "events", "tasks", "results", "flush"}
           /\ \/ UNCHANGED <<sEvents, sTasks, sResults, sOutbound, sWire, served>>
              \/ /\ sEvents # <<>> /\ UNCHANGED <<sResults, sOutbound, sWire, served>>
                 /\ sTasks' = Append(sTasks, Head(sEvents)) /\ sEvents' = Tail(sEvents)
              \/ /\ sTasks # <<>> /\ UNCHANGED <<sEvents, sOutbound, sWire>>
                 /\ sResults' = Append(sResults, Server!ResponseTo(Head(sTasks)))
                 /\ sTasks' = Tail(sTasks) /\ served' = Append(served, Head(sTasks).tag)
              \/ /\ sResults # <<>> /\ UNCHANGED <<sEvents, sTasks, sWire, served>>
                 /\ sOutbound' = Append(sOutbound, Head(sResults)) /\ sResults' = Tail(sResults)
              \/ /\ sOutbound # <<>> /\ UNCHANGED <<sEvents, sTasks, sResults, served>>
                 /\ sWire' = Append(sWire, Head(sOutbound)) /\ sOutbound' = Tail(sOutbound)
  <1>1. /\ UNCHANGED <<cEvents, cTasks, cResults, cOutbound, cWire, cPending, cResolved, cPhase,
                       cSending>>
        /\ UNCHANGED <<nextRequestId, calls, attaches, before, losses>>
    BY DEF ServerSteps, clientVars, callVars
  <1>2. CASE Server!HandleRequest /\ served' = Append(served, sResults'[Len(sResults')].tag)
    <2>1. /\ sTasks # <<>> /\ sTasks' = Tail(sTasks)
          /\ sResults' = Append(sResults, Server!ResponseTo(Head(sTasks)))
          /\ UNCHANGED <<sEvents, sOutbound, sWire, sPending, sResolved, sPhase>>
      BY <1>2 DEF Server!HandleRequest, Server!TaskReady, Server!table
    <2>2. sResults \in Seq(ResponseMessage)
      BY DEF TypeInv, QueuesOK
    <2>3. sResults'[Len(sResults')] = Server!ResponseTo(Head(sTasks))
      BY <2>1, <2>2
    <2>4. served' = Append(served, Head(sTasks).tag)
      BY <1>2, <2>3 DEF Server!ResponseTo
    <2>5. sPhase \in {"idle", "events", "tasks", "results", "flush"}
      BY DEF TypeInv, TypeOK
    <2> QED BY <1>1, <2>1, <2>4, <2>5
  <1>3. CASE (Server!BeginPoll \/ Server!ThreadStep) /\ ~ Server!TaskReady /\ UNCHANGED served
    <2>1. CASE Server!BeginPoll
      BY <1>1, <1>3, <2>1 DEF Server!BeginPoll, Server!queues, Server!table
    <2>2. CASE Server!DrainEvent
      BY <1>1, <1>3, <2>2 DEF Server!DrainEvent, Server!table
    <2>3. CASE Server!HandleTask
      BY <1>3, <2>3 DEF Server!HandleTask, Server!HandleRequest, Server!HandleEvent,
         Server!HandleStream
    <2>4. CASE Server!TasksDone
      BY <1>1, <1>3, <2>4 DEF Server!TasksDone, Server!queues, Server!table
    <2>5. CASE Server!DrainResult
      <3>1. CASE sResults = <<>> /\ sPhase' = "flush" /\ UNCHANGED <<sResults, sOutbound>>
        BY <1>1, <1>3, <2>5, <3>1 DEF Server!DrainResult, Server!table
      <3>2. CASE sResults # <<>>
        <4>1. Head(sResults) \in ResponseMessage
          BY <3>2 DEF TypeInv, QueuesOK
        <4>2. Head(sResults).kind # "stream"
          BY <4>1 DEF ResponseMessage
        <4> QED BY <1>1, <1>3, <2>5, <3>2, <4>2 DEF Server!DrainResult, Server!table
      <3> QED BY <2>5, <3>1, <3>2 DEF Server!DrainResult
    <2>6. CASE Server!Flush
      <3>1. CASE UNCHANGED <<sOutbound, sWire>> /\ sPhase' = "idle"
        BY <1>1, <1>3, <2>6, <3>1 DEF Server!Flush, Server!table
      <3>2. CASE sOutbound # <<>> /\ sOutbound' = Tail(sOutbound)
                 /\ sWire' = Append(sWire, Server!OnWire(Head(sOutbound))) /\ UNCHANGED sPhase
        <4>1. Head(sOutbound) \in ResponseMessage
          BY <3>2 DEF TypeInv, QueuesOK
        <4>2. Server!OnWire(Head(sOutbound)) = Head(sOutbound)
          BY <4>1 DEF Server!OnWire, ResponseMessage
        <4> QED BY <1>1, <1>3, <2>6, <3>2, <4>2 DEF Server!Flush, Server!table
      <3> QED BY <2>6, <3>1, <3>2 DEF Server!Flush
    <2>7. CASE Server!WriteRequest
      BY <2>7 DEF Server!WriteRequest, TypeInv, TypeOK
    <2> QED
      BY <1>3, <2>1, <2>2, <2>3, <2>4, <2>5, <2>6, <2>7 DEF Server!ThreadStep, Server!PollStep
  <1> QED BY <1>2, <1>3 DEF ServerSteps

LEMMA ResponseIsTyped ==
    ASSUME NEW m \in RequestMessage
    PROVE  /\ Server!ResponseTo(m) \in ResponseMessage
           /\ Server!ResponseTo(m).tag = m.tag /\ Server!ResponseTo(m).rid = m.rid
  BY DEF Server!ResponseTo, Server!Status, RequestMessage, ResponseMessage

LEMMA TypeServer == TypeInv /\ ServerSteps => TypeInv'
  <1> SUFFICES ASSUME TypeInv, ServerSteps PROVE TypeInv'
    OBVIOUS
  <1>1. served' \in Seq(1..MaxCalls)
    <2>1. CASE UNCHANGED served
      BY <2>1 DEF TypeInv, TypeOK
    <2>2. CASE sTasks # <<>> /\ served' = Append(served, Head(sTasks).tag)
      <3>1. Head(sTasks) \in RequestMessage
        BY <2>2 DEF TypeInv, QueuesOK
      <3>2. Head(sTasks).tag \in 1..MaxCalls /\ served \in Seq(1..MaxCalls)
        BY <3>1 DEF RequestMessage, TypeInv, TypeOK
      <3> QED BY <2>2, <3>2, AppendProperties
    <2> QED BY <2>1, <2>2, ServerEffect
  <1>2. TypeOK'
    BY <1>1, ServerEffect DEF TypeInv, TypeOK
  <1>3. /\ sEvents' \in Seq(RequestMessage) /\ sTasks' \in Seq(RequestMessage)
        /\ sResults' \in Seq(ResponseMessage) /\ sOutbound' \in Seq(ResponseMessage)
        /\ sWire' \in Seq(ResponseMessage)
    <2> USE DEF TypeInv, QueuesOK
    <2>1. CASE UNCHANGED <<sEvents, sTasks, sResults, sOutbound, sWire, served>>
      BY <2>1
    <2>2. CASE /\ sEvents # <<>> /\ UNCHANGED <<sResults, sOutbound, sWire, served>>
               /\ sTasks' = Append(sTasks, Head(sEvents)) /\ sEvents' = Tail(sEvents)
      BY <2>2
    <2>3. CASE /\ sTasks # <<>> /\ UNCHANGED <<sEvents, sOutbound, sWire>>
               /\ sResults' = Append(sResults, Server!ResponseTo(Head(sTasks)))
               /\ sTasks' = Tail(sTasks) /\ served' = Append(served, Head(sTasks).tag)
      <3>1. Head(sTasks) \in RequestMessage
        BY <2>3
      <3>2. Server!ResponseTo(Head(sTasks)) \in ResponseMessage
        BY <3>1, ResponseIsTyped
      <3> QED BY <2>3, <3>2
    <2>4. CASE /\ sResults # <<>> /\ UNCHANGED <<sEvents, sTasks, sWire, served>>
               /\ sOutbound' = Append(sOutbound, Head(sResults)) /\ sResults' = Tail(sResults)
      BY <2>4
    <2>5. CASE /\ sOutbound # <<>> /\ UNCHANGED <<sEvents, sTasks, sResults, served>>
               /\ sWire' = Append(sWire, Head(sOutbound)) /\ sOutbound' = Tail(sOutbound)
      BY <2>5
    <2> QED BY <2>1, <2>2, <2>3, <2>4, <2>5, ServerEffect
  <1>4. QueuesOK'
    BY <1>3, ServerEffect DEF TypeInv, QueuesOK
  <1> QED BY <1>2, <1>4 DEF TypeInv

\* What taking a response changes.
LEMMA TakeEffect ==
    ASSUME TypeInv, NEW n \in 1..Len(calls), TakeResponse(n)
    PROVE  \E r \in cResolved :
              /\ r[1] = <<0, calls[n].rid>> /\ r[1] = <<0, r[2].rid>> /\ r[2] \in ResponseMessage
              /\ calls[n].state = "open"
              /\ cResolved' = cResolved \ {r}
              /\ calls' = [calls EXCEPT ![n] = [@ EXCEPT !.state = "answered", !.answer = r[2].tag]]
              /\ UNCHANGED <<cEvents, cTasks, cResults, cOutbound, cWire, cPending, cPhase, cSending>>
              /\ UNCHANGED <<sEvents, sTasks, sResults, sOutbound, sWire, sPending, sResolved, sPhase>>
              /\ UNCHANGED <<nextRequestId, attaches, before, served, losses>>
  <1>1. PICK r \in Client!Takable(calls[n].rid) :
           /\ calls[n].state = "open"
           /\ Client!TakeResolved(r)
           /\ calls' = [calls EXCEPT ![n].state = "answered", ![n].answer = r[2].tag]
           /\ UNCHANGED <<cEvents, cTasks, cResults, cOutbound, cWire, cAttached,
                          cControlOpen, cPhase, cBudget, cSending,
                          serverVars, nextRequestId, attaches, before, served, losses>>
    BY DEF TakeResponse
  <1>2. r \in cResolved /\ r[1][2] = calls[n].rid
    BY DEF Client!Takable
  <1>3. PICK m \in ResponseMessage : r = <<<<0, m.rid>>, m>>
    BY <1>2 DEF TypeInv, QueuesOK
  <1>4. r[1] = <<0, calls[n].rid>> /\ r[1] = <<0, r[2].rid>> /\ r[2] \in ResponseMessage
    BY <1>2, <1>3
  <1>5. calls' = [calls EXCEPT ![n] = [@ EXCEPT !.state = "answered", !.answer = r[2].tag]]
    BY <1>1
  <1> QED BY <1>1, <1>2, <1>4, <1>5 DEF Client!TakeResolved, serverVars

LEMMA TypeTake ==
    ASSUME TypeInv, NEW n \in 1..Len(calls), TakeResponse(n)
    PROVE  TypeInv' /\ Len(calls') = Len(calls)
  <1>1. PICK r \in cResolved :
           /\ r[1] = <<0, calls[n].rid>> /\ r[1] = <<0, r[2].rid>> /\ r[2] \in ResponseMessage
           /\ calls[n].state = "open"
           /\ cResolved' = cResolved \ {r}
           /\ calls' = [calls EXCEPT ![n] = [@ EXCEPT !.state = "answered", !.answer = r[2].tag]]
           /\ UNCHANGED <<cEvents, cTasks, cResults, cOutbound, cWire, cPending, cPhase, cSending>>
           /\ UNCHANGED <<sEvents, sTasks, sResults, sOutbound, sWire, sPending, sResolved, sPhase>>
           /\ UNCHANGED <<nextRequestId, attaches, before, served, losses>>
    BY TakeEffect
  <1>2. calls \in Seq(CallRecord) /\ calls[n] \in CallRecord
    BY CallsTyped
  <1>3. r[2].tag \in 0..MaxCalls
    BY <1>1 DEF ResponseMessage
  <1>4. [calls[n] EXCEPT !.state = "answered", !.answer = r[2].tag] \in CallRecord
    BY <1>2, <1>3 DEF CallRecord
  <1>5. calls' \in Seq(CallRecord) /\ Len(calls') = Len(calls)
    BY <1>1, <1>2, <1>4, ExceptSeq
  <1>6. TypeOK'
    BY <1>1, <1>5 DEF TypeInv, TypeOK, CallRecord
  <1>7. QueuesOK'
    BY <1>1 DEF TypeInv, QueuesOK
  <1> QED BY <1>5, <1>6, <1>7 DEF TypeInv

LEMMA TypeGiveUp ==
    ASSUME TypeInv, NEW n \in 1..Len(calls), GiveUp(n)
    PROVE  TypeInv' /\ Len(calls') = Len(calls)
  <1>1. /\ calls' = [calls EXCEPT ![n] = [@ EXCEPT !.state = "givenUp"]]
        /\ UNCHANGED <<cEvents, cTasks, cResults, cOutbound, cWire, cPending, cResolved, cPhase, cSending>>
        /\ UNCHANGED <<sEvents, sTasks, sResults, sOutbound, sWire, sPending, sResolved, sPhase>>
        /\ UNCHANGED <<nextRequestId, attaches, before, served, losses>>
    BY DEF GiveUp, clientVars, serverVars
  <1>2. calls \in Seq(CallRecord) /\ calls[n] \in CallRecord
    BY CallsTyped
  <1>3. [calls[n] EXCEPT !.state = "givenUp"] \in CallRecord
    BY <1>2 DEF CallRecord
  <1>4. calls' \in Seq(CallRecord) /\ Len(calls') = Len(calls)
    BY <1>1, <1>2, <1>3, ExceptSeq
  <1>5. TypeOK'
    BY <1>1, <1>4 DEF TypeInv, TypeOK, CallRecord
  <1>6. QueuesOK'
    BY <1>1 DEF TypeInv, QueuesOK
  <1> QED BY <1>4, <1>5, <1>6 DEF TypeInv

\* What a delivery changes: a request becomes an event of the server, a response is
\* resolved if its key is pending and dropped otherwise.
LEMMA DeliverToServerEffect ==
    ASSUME TypeInv, DeliverToServer
    PROVE  /\ cWire # <<>> /\ sEvents' = Append(sEvents, Head(cWire)) /\ cWire' = Tail(cWire)
           /\ UNCHANGED <<cEvents, cTasks, cResults, cOutbound, cPending, cResolved, cPhase, cSending>>
           /\ UNCHANGED <<sTasks, sResults, sOutbound, sWire, sPending, sResolved, sPhase>>
           /\ UNCHANGED <<nextRequestId, calls, attaches, before, served, losses>>
  <1>1. Head(cWire) \in RequestMessage
    BY DEF DeliverToServer, TypeInv, QueuesOK
  <1>2. Head(cWire).kind = "request"
    BY <1>1 DEF RequestMessage
  <1>3. Server!OnWork(Head(cWire))
    BY <1>2 DEF DeliverToServer, Server!OnMessage, Server!OnControl, Server!OnResponse
  <1> QED BY <1>3 DEF DeliverToServer, Server!OnWork, Server!table, Server!thread, callVars

LEMMA DeliverToClientEffect ==
    ASSUME TypeInv, DeliverToClient
    PROVE  LET m == Head(sWire)
               key == <<0, m.rid>>
           IN  /\ sWire # <<>> /\ sWire' = Tail(sWire) /\ m \in ResponseMessage
               /\ IF key \in cPending
                  THEN /\ cPending' = cPending \ {key}
                       /\ cResolved' = {r \in cResolved : r[1] # key} \cup {<<key, m>>}
                  ELSE UNCHANGED <<cPending, cResolved>>
               /\ UNCHANGED <<cEvents, cTasks, cResults, cOutbound, cWire, cPhase, cSending>>
               /\ UNCHANGED <<sEvents, sTasks, sResults, sOutbound, sPending, sResolved, sPhase>>
               /\ UNCHANGED <<nextRequestId, calls, attaches, before, served, losses>>
  <1>1. Head(sWire) \in ResponseMessage
    BY DEF DeliverToClient, TypeInv, QueuesOK
  <1>2. Head(sWire).kind = "response" /\ Client!Key(Head(sWire)) = <<0, Head(sWire).rid>>
    BY <1>1 DEF ResponseMessage, Client!Key
  <1>3. Client!OnResponse(Head(sWire))
    BY <1>2 DEF DeliverToClient, Client!OnMessage, Client!OnControl, Client!OnWork
  <1> QED
    BY <1>1, <1>2, <1>3 DEF DeliverToClient, Client!OnResponse, Client!ResolveIfPending,
       Client!table, Client!queues, Client!thread, callVars

LEMMA TypeDeliverToServer == TypeInv /\ DeliverToServer => TypeInv'
  <1> SUFFICES ASSUME TypeInv, DeliverToServer PROVE TypeInv'
    OBVIOUS
  <1>1. cWire' \in Seq(RequestMessage) /\ sEvents' \in Seq(RequestMessage)
    <2>1. cWire \in Seq(RequestMessage) /\ sEvents \in Seq(RequestMessage)
      BY DEF TypeInv, QueuesOK
    <2> QED BY <2>1, DeliverToServerEffect, MoveTyped
  <1>2. TypeOK'
    BY DeliverToServerEffect DEF TypeInv, TypeOK
  <1>3. QueuesOK'
    BY <1>1, DeliverToServerEffect DEF TypeInv, QueuesOK
  <1> QED BY <1>2, <1>3 DEF TypeInv

LEMMA TypeDeliverToClient == TypeInv /\ DeliverToClient => TypeInv'
  <1> SUFFICES ASSUME TypeInv, DeliverToClient PROVE TypeInv'
    OBVIOUS
  <1> DEFINE m == Head(sWire)
             key == <<0, m.rid>>
  <1>1. /\ sWire # <<>> /\ sWire' = Tail(sWire) /\ m \in ResponseMessage
        /\ \/ /\ cPending' = cPending \ {key}
              /\ cResolved' = {r \in cResolved : r[1] # key} \cup {<<key, m>>}
           \/ UNCHANGED <<cPending, cResolved>>
    BY DeliverToClientEffect
  <1>2. TypeOK'
    <2>1. cPending' \subseteq {0} \X (1..MaxRequestId)
      BY <1>1 DEF TypeInv, TypeOK
    <2> QED BY <2>1, DeliverToClientEffect DEF TypeInv, TypeOK
  <1>3. sWire' \in Seq(ResponseMessage)
    BY <1>1 DEF TypeInv, QueuesOK
  <1> HIDE DEF m
  <1>4. /\ cResolved' \subseteq {<<<<0, k.rid>>, k>> : k \in ResponseMessage}
        /\ \A r1, r2 \in cResolved' : r1[1] = r2[1] => r1 = r2
    <2>1. /\ cResolved \subseteq {<<<<0, k.rid>>, k>> : k \in ResponseMessage}
          /\ \A r1, r2 \in cResolved : r1[1] = r2[1] => r1 = r2
      BY DEF TypeInv, QueuesOK
    <2>2. CASE UNCHANGED <<cPending, cResolved>>
      BY <2>1, <2>2
    <2>3. CASE cResolved' = {r \in cResolved : r[1] # key} \cup {<<key, m>>}
      <3>1. <<key, m>> \in {<<<<0, k.rid>>, k>> : k \in ResponseMessage}
        BY <1>1
      <3>2. cResolved' \subseteq {<<<<0, k.rid>>, k>> : k \in ResponseMessage}
        BY <2>1, <2>3, <3>1
      <3>3. <<key, m>>[1] = key
        OBVIOUS
      <3>4. \A r1, r2 \in cResolved' : r1[1] = r2[1] => r1 = r2
        BY <2>1, <2>3, <3>3
      <3> QED BY <3>2, <3>4
    <2> QED BY <1>1, <2>2, <2>3
  <1>5. QueuesOK'
    BY <1>3, <1>4, DeliverToClientEffect DEF TypeInv, QueuesOK
  <1> QED BY <1>2, <1>5 DEF TypeInv

LEMMA LoseEffect ==
    ASSUME TypeInv, Lose
    PROVE  /\ UNCHANGED <<cEvents, cTasks, cResults, cOutbound, cPending, cResolved, cPhase, cSending>>
           /\ UNCHANGED <<sEvents, sTasks, sResults, sOutbound, sPending, sResolved, sPhase>>
           /\ UNCHANGED <<nextRequestId, calls, attaches, before, served>>
           /\ losses' \in 0..MaxLosses
           /\ \/ cWire # <<>> /\ cWire' = Tail(cWire) /\ UNCHANGED sWire
              \/ sWire # <<>> /\ sWire' = Tail(sWire) /\ UNCHANGED cWire
  BY RpcAssumption DEF Lose, callVars, TypeInv, TypeOK

LEMMA TypeLose == TypeInv /\ Lose => TypeInv'
  <1> SUFFICES ASSUME TypeInv, Lose PROVE TypeInv'
    OBVIOUS
  <1>1. cWire' \in Seq(RequestMessage) /\ sWire' \in Seq(ResponseMessage)
    <2>1. cWire \in Seq(RequestMessage) /\ sWire \in Seq(ResponseMessage)
      BY DEF TypeInv, QueuesOK
    <2> QED BY <2>1, LoseEffect, MoveTyped
  <1>2. TypeOK'
    BY LoseEffect DEF TypeInv, TypeOK
  <1>3. QueuesOK'
    BY <1>1, LoseEffect DEF TypeInv, QueuesOK
  <1> QED BY <1>2, <1>3 DEF TypeInv

LEMMA NextRequestIdTyped ==
    ASSUME NEW id \in 1..MaxRequestId
    PROVE  NextRequestId(id) \in 1..MaxRequestId
  BY RpcAssumption DEF NextRequestId

LEMMA TypeNext == TypeInv /\ [Next]_vars => TypeInv'
  <1> SUFFICES ASSUME TypeInv, [Next]_vars PROVE TypeInv'
    OBVIOUS
  <1>1. CASE Call
    <2>1. nextRequestId \in 1..MaxRequestId
      BY DEF TypeInv, TypeOK
    <2> QED BY <1>1, <2>1, TypeSend, NextRequestIdTyped DEF Call
  <1>2. ASSUME NEW rid \in 1..MaxRequestId, CallWith(rid) PROVE TypeInv'
    <2>1. nextRequestId' \in 1..MaxRequestId
      BY <1>2 DEF TypeInv, TypeOK, CallWith
    <2> QED BY <1>2, <2>1, TypeSend DEF CallWith
  <1>3. CASE Reattach
    BY <1>3, TypeReattach
  <1>4. CASE ClientSteps
    BY <1>4, TypeClient
  <1>5. ASSUME NEW n \in 1..Len(calls), TakeResponse(n) \/ GiveUp(n) PROVE TypeInv'
    BY <1>5, TypeTake, TypeGiveUp
  <1>6. CASE ServerSteps
    BY <1>6, TypeServer
  <1>7. CASE DeliverToServer
    BY <1>7, TypeDeliverToServer
  <1>8. CASE DeliverToClient
    BY <1>8, TypeDeliverToClient
  <1>9. CASE Lose
    BY <1>9, TypeLose
  <1>10. CASE UNCHANGED vars
    BY <1>10 DEF vars, clientVars, serverVars, callVars, TypeInv, TypeOK, QueuesOK
  <1> QED
    BY <1>1, <1>2, <1>3, <1>4, <1>5, <1>6, <1>7, <1>8, <1>9, <1>10 DEF Next

\* Ids, calls, counters, phases and the table stay within their bounds, and the
\* server never expects a response (TypeOK), for any bounds of the constants.
THEOREM TypeCorrect == Spec => []TypeOK
  <1>1. TypeInv => TypeOK
    BY DEF TypeInv
  <1> QED BY <1>1, TypeInit, TypeNext, PTL DEF Spec

-----------------------------------------------------------------------------
(* The places a message of a call is in, the answers first, and how a step  *)
(* changes what they hold.  Q and R are what the places hold before and     *)
(* after a step.                                                            *)

Message == RequestMessage \cup ResponseMessage

Places == 1..8

Held == <<sWire, sOutbound, sResults, sTasks, sEvents, cWire, cOutbound,
          IF cPhase = "write" THEN <<cSending>> ELSE <<>>>>

\* The first message of place a + 1 becomes the last of place a, as m.
MovesOn(Q, R, a, m) ==
    /\ Q[a + 1] # <<>>
    /\ m \in Message /\ m.tag = Head(Q[a + 1]).tag /\ m.rid = Head(Q[a + 1]).rid
    /\ R[a] = Append(Q[a], m) /\ R[a + 1] = Tail(Q[a + 1])
    /\ \A b \in Places \ {a, a + 1} : R[b] = Q[b]

\* The first message of place a is gone: delivered or lost.
Leaves(Q, R, a) ==
    /\ Q[a] # <<>> /\ R[a] = Tail(Q[a])
    /\ \A b \in Places \ {a} : R[b] = Q[b]

\* Some places are emptied.
Empties(Q, R) == \A a \in Places : R[a] = Q[a] \/ R[a] = <<>>

\* A new request stands behind all others.
Joins(Q, R, m) ==
    /\ Q[8] = <<>> /\ R[8] = <<m>> /\ m \in Message
    /\ \A b \in Places \ {8} : R[b] = Q[b]

Typed(Q) == \A a \in Places : Q[a] \in Seq(Message)

InOrder(Q) ==
    \A a, b \in Places : \A i \in 1..Len(Q[a]), j \in 1..Len(Q[b]) :
        a < b \/ (a = b /\ i < j) => Q[a][i].tag < Q[b][j].tag

LEMMA HeldTyped == TypeInv => Typed(Held)
  <1> SUFFICES ASSUME TypeInv, NEW a \in Places PROVE Held[a] \in Seq(Message)
    BY DEF Typed
  <1>1. /\ \A q \in Seq(RequestMessage) : q \in Seq(Message)
        /\ \A q \in Seq(ResponseMessage) : q \in Seq(Message)
    BY SeqMonotonic DEF Message
  <1>2. (IF cPhase = "write" THEN <<cSending>> ELSE <<>>) \in Seq(RequestMessage)
    BY DEF TypeInv, QueuesOK
  <1>3. /\ sWire \in Seq(Message) /\ sOutbound \in Seq(Message) /\ sResults \in Seq(Message)
        /\ sTasks \in Seq(Message) /\ sEvents \in Seq(Message) /\ cWire \in Seq(Message)
        /\ cOutbound \in Seq(Message)
        /\ (IF cPhase = "write" THEN <<cSending>> ELSE <<>>) \in Seq(Message)
    BY <1>1, <1>2 DEF TypeInv, QueuesOK
  <1>4. a \in {1, 2, 3, 4, 5, 6, 7, 8}
    BY DEF Places
  <1>5. /\ Held[1] = sWire /\ Held[2] = sOutbound /\ Held[3] = sResults /\ Held[4] = sTasks
        /\ Held[5] = sEvents /\ Held[6] = cWire /\ Held[7] = cOutbound
        /\ Held[8] = IF cPhase = "write" THEN <<cSending>> ELSE <<>>
    BY DEF Held
  <1> QED BY <1>3, <1>4, <1>5

LEMMA TypedLength == ASSUME NEW Q, Typed(Q) PROVE \A a \in Places : Len(Q[a]) \in Nat
  BY LenProperties DEF Typed

\* Where the messages of R come from.
MovedFrom(Q, R, a, m) ==
    /\ Len(R[a]) = Len(Q[a]) + 1 /\ Len(R[a + 1]) = Len(Q[a + 1]) - 1
    /\ Len(Q[a + 1]) \in Nat \ {0} /\ Len(Q[a]) \in Nat
    /\ \A i \in 1..Len(Q[a]) : R[a][i] = Q[a][i]
    /\ R[a][Len(Q[a]) + 1] = m
    /\ m.tag = Q[a + 1][1].tag /\ m.rid = Q[a + 1][1].rid
    /\ \A i \in 1..Len(R[a + 1]) : R[a + 1][i] = Q[a + 1][i + 1]
    /\ \A b \in Places \ {a, a + 1} : R[b] = Q[b]

LEMMA MovesOnFrom ==
    ASSUME NEW Q, NEW R, NEW a \in 1..7, NEW m, Typed(Q), MovesOn(Q, R, a, m)
    PROVE  Typed(R) /\ MovedFrom(Q, R, a, m)
  <1>0. a \in Places /\ a + 1 \in Places
    BY DEF Places
  <1>1. Q[a] \in Seq(Message) /\ Q[a + 1] \in Seq(Message) /\ m \in Message /\ Q[a + 1] # <<>>
    BY <1>0 DEF Typed, MovesOn
  <1>2. /\ R[a] = Append(Q[a], m) /\ R[a + 1] = Tail(Q[a + 1])
        /\ m.tag = Head(Q[a + 1]).tag /\ m.rid = Head(Q[a + 1]).rid
        /\ \A b \in Places \ {a, a + 1} : R[b] = Q[b]
    BY DEF MovesOn
  <1>3. /\ R[a] \in Seq(Message) /\ Len(R[a]) = Len(Q[a]) + 1
        /\ \A i \in 1..Len(Q[a]) : R[a][i] = Q[a][i]
        /\ R[a][Len(Q[a]) + 1] = m
    BY <1>1, <1>2, AppendProperties
  <1>4. /\ R[a + 1] \in Seq(Message) /\ Len(R[a + 1]) = Len(Q[a + 1]) - 1
        /\ \A i \in 1..Len(R[a + 1]) : R[a + 1][i] = Q[a + 1][i + 1]
    BY <1>1, <1>2, HeadTailProperties
  <1>5. Len(Q[a + 1]) \in Nat \ {0} /\ Len(Q[a]) \in Nat /\ Head(Q[a + 1]) = Q[a + 1][1]
    BY <1>1
  <1>6. Typed(R)
    BY <1>2, <1>3, <1>4 DEF Typed, Places
  <1> QED BY <1>2, <1>3, <1>4, <1>5, <1>6 DEF MovedFrom

LEMMA LeavesFrom ==
    ASSUME NEW Q, NEW R, NEW a \in Places, Typed(Q), Leaves(Q, R, a)
    PROVE  /\ Typed(R)
           /\ Len(R[a]) = Len(Q[a]) - 1 /\ Len(Q[a]) \in Nat \ {0}
           /\ \A i \in 1..Len(R[a]) : R[a][i] = Q[a][i + 1]
           /\ \A b \in Places \ {a} : R[b] = Q[b]
  <1>1. Q[a] \in Seq(Message) /\ Q[a] # <<>> /\ R[a] = Tail(Q[a])
        /\ \A b \in Places \ {a} : R[b] = Q[b]
    BY DEF Typed, Leaves
  <1>2. /\ R[a] \in Seq(Message) /\ Len(R[a]) = Len(Q[a]) - 1
        /\ \A i \in 1..Len(R[a]) : R[a][i] = Q[a][i + 1]
    BY <1>1, HeadTailProperties
  <1>3. Len(Q[a]) \in Nat \ {0}
    BY <1>1
  <1> QED BY <1>1, <1>2, <1>3 DEF Typed

\* The order of the calls survives each of these.
LEMMA MovesOnInOrder ==
    ASSUME NEW Q, NEW R, NEW a \in 1..7, NEW m, Typed(Q), InOrder(Q), MovesOn(Q, R, a, m)
    PROVE  InOrder(R)
  <1> SUFFICES ASSUME NEW b \in Places, NEW c \in Places,
                      NEW i \in 1..Len(R[b]), NEW j \in 1..Len(R[c]), b < c \/ (b = c /\ i < j)
               PROVE  R[b][i].tag < R[c][j].tag
    BY DEF InOrder
  <1>0. /\ Len(R[a]) = Len(Q[a]) + 1 /\ Len(R[a + 1]) = Len(Q[a + 1]) - 1
        /\ \A k \in 1..Len(Q[a]) : R[a][k] = Q[a][k]
        /\ R[a][Len(Q[a]) + 1].tag = Q[a + 1][1].tag
        /\ \A k \in 1..Len(R[a + 1]) : R[a + 1][k] = Q[a + 1][k + 1]
        /\ \A d \in Places \ {a, a + 1} : R[d] = Q[d]
    <2>1. MovedFrom(Q, R, a, m)
      BY MovesOnFrom
    <2> QED BY <2>1 DEF MovedFrom
  <1>1. /\ \A d \in Places : Len(R[d]) \in Nat /\ Len(Q[d]) \in Nat
        /\ a + 1 \in Places /\ a \in Places
    <2>1. Typed(R)
      BY MovesOnFrom
    <2>2. a + 1 \in Places /\ a \in Places
      BY DEF Places
    <2> QED BY <2>1, <2>2, TypedLength
  <1> DEFINE Place(d, k) == IF d = a /\ k = Len(Q[a]) + 1 THEN a + 1 ELSE d
             Index(d, k) == IF d = a /\ k = Len(Q[a]) + 1 THEN 1 ELSE IF d = a + 1 THEN k + 1 ELSE k
  <1>2. ASSUME NEW d \in Places, NEW k \in 1..Len(R[d])
        PROVE  /\ Place(d, k) \in Places /\ Index(d, k) \in 1..Len(Q[Place(d, k)])
               /\ R[d][k].tag = Q[Place(d, k)][Index(d, k)].tag
    <2>1. CASE d = a /\ k = Len(Q[a]) + 1
      <3>1. Place(d, k) = a + 1 /\ Index(d, k) = 1
        BY <2>1
      <3> QED BY <1>1, <2>1, <3>1, <1>0
    <2>2. CASE d = a /\ k # Len(Q[a]) + 1
      <3>1. k \in 1..Len(Q[a]) /\ Place(d, k) = a /\ Index(d, k) = k
        BY <1>1, <1>2, <2>2, <1>0
      <3> QED BY <1>1, <2>2, <3>1, <1>0
    <2>3. CASE d = a + 1
      <3>1. Place(d, k) = a + 1 /\ Index(d, k) = k + 1
        BY <2>3
      <3>2. k \in 1..Len(R[a + 1]) /\ k + 1 \in 1..Len(Q[a + 1])
        BY <1>0, <1>1, <1>2, <2>3
      <3>3. R[d][k] = Q[a + 1][k + 1]
        BY <1>0, <2>3, <3>2
      <3> HIDE DEF Place, Index
      <3> QED BY <1>1, <3>1, <3>2, <3>3
    <2>4. CASE d \notin {a, a + 1}
      <3>1. Place(d, k) = d /\ Index(d, k) = k /\ R[d] = Q[d]
        BY <2>4, <1>0
      <3> QED BY <3>1
    <2> QED BY <2>1, <2>2, <2>3, <2>4
  <1>3. \/ Place(b, i) < Place(c, j)
        \/ Place(b, i) = Place(c, j) /\ Index(b, i) < Index(c, j)
    <2>1. b \in Int /\ c \in Int /\ i \in Int /\ j \in Int /\ a \in Int
      BY DEF Places
    <2>2. c = a => j <= Len(Q[a]) + 1
      BY <1>1, <1>0
    <2> QED BY <1>1, <2>1, <2>2
  <1> HIDE DEF Place, Index
  <1> QED BY <1>2, <1>3 DEF InOrder

LEMMA LeavesInOrder ==
    ASSUME NEW Q, NEW R, NEW a \in Places, Typed(Q), InOrder(Q), Leaves(Q, R, a)
    PROVE  InOrder(R)
  <1> SUFFICES ASSUME NEW b \in Places, NEW c \in Places,
                      NEW i \in 1..Len(R[b]), NEW j \in 1..Len(R[c]), b < c \/ (b = c /\ i < j)
               PROVE  R[b][i].tag < R[c][j].tag
    BY DEF InOrder
  <1>1. \A d \in Places : Len(R[d]) \in Nat /\ Len(Q[d]) \in Nat
    <2>1. Typed(R)
      BY LeavesFrom
    <2> QED BY <2>1, TypedLength
  <1> DEFINE From(d, k) == IF d = a THEN k + 1 ELSE k
  <1>2. \A d \in Places : \A k \in 1..Len(R[d]) :
           From(d, k) \in 1..Len(Q[d]) /\ R[d][k] = Q[d][From(d, k)]
    BY <1>1, LeavesFrom
  <1>3. b < c \/ (b = c /\ From(b, i) < From(c, j))
    BY <1>1
  <1> HIDE DEF From
  <1> QED BY <1>2, <1>3 DEF InOrder

LEMMA EmptiesInOrder ==
    ASSUME NEW Q, NEW R, InOrder(Q), Empties(Q, R)
    PROVE  InOrder(R)
  <1>1. \A b \in Places : \A i \in 1..Len(R[b]) : i \in 1..Len(Q[b]) /\ R[b][i] = Q[b][i]
    BY DEF Empties
  <1> QED BY <1>1 DEF InOrder

LEMMA JoinsInOrder ==
    ASSUME NEW Q, NEW R, NEW m, Typed(Q), InOrder(Q), Joins(Q, R, m),
           \A a \in Places : \A i \in 1..Len(Q[a]) : Q[a][i].tag < m.tag
    PROVE  InOrder(R)
  <1> SUFFICES ASSUME NEW b \in Places, NEW c \in Places,
                      NEW i \in 1..Len(R[b]), NEW j \in 1..Len(R[c]), b < c \/ (b = c /\ i < j)
               PROVE  R[b][i].tag < R[c][j].tag
    BY DEF InOrder
  <1>1. Len(R[8]) = 1 /\ R[8][1] = m
    BY DEF Joins
  <1>2. b # 8
    <2> SUFFICES ASSUME b = 8 PROVE FALSE
      OBVIOUS
    <2>1. c = 8
      BY DEF Places
    <2>2. i \in 1..1 /\ j \in 1..1
      BY <1>1, <2>1
    <2> QED BY <2>1, <2>2
  <1>3. R[b] = Q[b]
    BY <1>2 DEF Joins
  <1>4. CASE c = 8
    <2>1. j \in 1..1
      BY <1>1, <1>4
    <2>2. R[c][j] = m
      BY <1>1, <1>4, <2>1
    <2> QED BY <1>3, <2>2
  <1>5. CASE c # 8
    <2>1. R[c] = Q[c]
      BY <1>5 DEF Joins
    <2> QED BY <1>3, <2>1 DEF InOrder
  <1> QED BY <1>4, <1>5

-----------------------------------------------------------------------------
(* What each action does to the places                                      *)

Writing == IF cPhase = "write" THEN <<cSending>> ELSE <<>>

LEMMA HeldIs ==
    /\ Held[1] = sWire /\ Held[2] = sOutbound /\ Held[3] = sResults /\ Held[4] = sTasks
    /\ Held[5] = sEvents /\ Held[6] = cWire /\ Held[7] = cOutbound /\ Held[8] = Writing
    /\ Held'[1] = sWire' /\ Held'[2] = sOutbound' /\ Held'[3] = sResults' /\ Held'[4] = sTasks'
    /\ Held'[5] = sEvents' /\ Held'[6] = cWire' /\ Held'[7] = cOutbound' /\ Held'[8] = Writing'
    /\ Places = {1, 2, 3, 4, 5, 6, 7, 8}
  BY DEF Held, Writing, Places

LEMMA HeldClient ==
    ASSUME TypeInv, ClientSteps
    PROVE  \/ Held' = Held
           \/ MovesOn(Held, Held', 7, cSending)
           \/ MovesOn(Held, Held', 6, Head(cOutbound))
  <1>1. CASE cPhase # "write" /\ UNCHANGED <<cSending, cOutbound, cWire>>
    BY <1>1, ClientEffect DEF Held
  <1>2. CASE /\ cPhase = "write" /\ cSending' = Client!NoMessage
             /\ cOutbound' = Append(cOutbound, cSending) /\ UNCHANGED cWire
    <2>1. cSending \in Message
      BY <1>2 DEF TypeInv, QueuesOK, Message
    <2>2. Writing = <<cSending>> /\ Writing' = <<>>
      BY <1>2, ClientEffect DEF Writing
    <2>3. Writing # <<>> /\ Head(Writing) = cSending /\ Tail(Writing) = <<>>
      BY <2>2
    <2>4. UNCHANGED <<sWire, sOutbound, sResults, sTasks, sEvents, cWire>>
      BY <1>2, ClientEffect
    <2>5. 7 + 1 = 8 /\ Held[8] # <<>>
      BY <1>2, <2>1, <2>2, <2>3, <2>4, HeldIs
    <2>6. cSending.tag = Head(Held[8]).tag /\ cSending.rid = Head(Held[8]).rid
      BY <1>2, <2>1, <2>2, <2>3, <2>4, HeldIs
    <2>7. Held'[7] = Append(Held[7], cSending) /\ Held'[8] = Tail(Held[8])
      BY <1>2, <2>1, <2>2, <2>3, <2>4, HeldIs
    <2>8. \A b \in Places \ {7, 8} : Held'[b] = Held[b]
      BY <1>2, <2>1, <2>2, <2>3, <2>4, HeldIs
    <2>9. MovesOn(Held, Held', 7, cSending)
      BY <2>1, <2>5, <2>6, <2>7, <2>8 DEF MovesOn
    <2> QED BY <2>9
  <1>3. CASE /\ cPhase = "flush" /\ cOutbound # <<>> /\ UNCHANGED cSending
             /\ cWire' = Append(cWire, Head(cOutbound)) /\ cOutbound' = Tail(cOutbound)
    <2>1. Head(cOutbound) \in Message
      BY <1>3, MoveTyped DEF TypeInv, QueuesOK, Message
    <2>2. Writing = <<>> /\ Writing' = <<>>
      BY <1>3, ClientEffect DEF Writing
    <2>3. UNCHANGED <<sWire, sOutbound, sResults, sTasks, sEvents>>
      BY ClientEffect
    <2>4. 6 + 1 = 7 /\ Held[7] # <<>>
      BY <1>3, <2>1, <2>2, <2>3, HeldIs
    <2>5. Head(cOutbound).tag = Head(Held[7]).tag /\ Head(cOutbound).rid = Head(Held[7]).rid
      BY <1>3, <2>1, <2>2, <2>3, HeldIs
    <2>6. Held'[6] = Append(Held[6], Head(cOutbound)) /\ Held'[7] = Tail(Held[7])
      BY <1>3, <2>1, <2>2, <2>3, HeldIs
    <2>7. \A b \in Places \ {6, 7} : Held'[b] = Held[b]
      BY <1>3, <2>1, <2>2, <2>3, HeldIs
    <2>8. MovesOn(Held, Held', 6, Head(cOutbound))
      BY <2>1, <2>4, <2>5, <2>6, <2>7 DEF MovesOn
    <2> QED BY <2>8
  <1> QED BY <1>1, <1>2, <1>3, ClientEffect

LEMMA HeldServer ==
    ASSUME TypeInv, ServerSteps
    PROVE  \/ Held' = Held /\ UNCHANGED served
           \/ MovesOn(Held, Held', 4, Head(sEvents)) /\ UNCHANGED served
           \/ /\ MovesOn(Held, Held', 3, Server!ResponseTo(Head(sTasks)))
              /\ served' = Append(served, Held[4][1].tag)
           \/ MovesOn(Held, Held', 2, Head(sResults)) /\ UNCHANGED served
           \/ MovesOn(Held, Held', 1, Head(sOutbound)) /\ UNCHANGED served
  <1>1. UNCHANGED <<cWire, cOutbound, Writing>>
    BY ServerEffect DEF Writing
  <1>2. CASE UNCHANGED <<sEvents, sTasks, sResults, sOutbound, sWire, served>>
    BY <1>1, <1>2, ServerEffect DEF Held
  <1>3. CASE /\ sEvents # <<>> /\ UNCHANGED <<sResults, sOutbound, sWire, served>>
             /\ sTasks' = Append(sTasks, Head(sEvents)) /\ sEvents' = Tail(sEvents)
    <2>1. Head(sEvents) \in Message
      BY <1>3, MoveTyped DEF TypeInv, QueuesOK, Message
    <2>2. 4 + 1 = 5 /\ Held[5] # <<>>
      BY <1>1, <1>3, HeldIs
    <2>3. Head(sEvents).tag = Head(Held[5]).tag /\ Head(sEvents).rid = Head(Held[5]).rid
      BY <1>1, <1>3, HeldIs
    <2>4. Held'[4] = Append(Held[4], Head(sEvents)) /\ Held'[5] = Tail(Held[5])
      BY <1>1, <1>3, HeldIs
    <2>5. \A b \in Places \ {4, 5} : Held'[b] = Held[b]
      BY <1>1, <1>3, HeldIs
    <2>6. MovesOn(Held, Held', 4, Head(sEvents))
      BY <2>1, <2>2, <2>3, <2>4, <2>5 DEF MovesOn
    <2> QED BY <1>3, <2>6
  <1>4. CASE /\ sTasks # <<>> /\ UNCHANGED <<sEvents, sOutbound, sWire>>
             /\ sResults' = Append(sResults, Server!ResponseTo(Head(sTasks)))
             /\ sTasks' = Tail(sTasks) /\ served' = Append(served, Head(sTasks).tag)
    <2>0. Head(sTasks) \in RequestMessage
      BY <1>4, MoveTyped DEF TypeInv, QueuesOK
    <2>1. Server!ResponseTo(Head(sTasks)) \in Message
      BY <1>4, <2>0, ResponseIsTyped DEF Message
    <2>2. 3 + 1 = 4 /\ Held[4] # <<>>
      BY <1>1, <1>4, <2>0, ResponseIsTyped, HeldIs
    <2>3. Server!ResponseTo(Head(sTasks)).tag = Head(Held[4]).tag /\ Server!ResponseTo(Head(sTasks)).rid = Head(Held[4]).rid
      BY <1>1, <1>4, <2>0, ResponseIsTyped, HeldIs
    <2>4. Held'[3] = Append(Held[3], Server!ResponseTo(Head(sTasks))) /\ Held'[4] = Tail(Held[4])
      BY <1>1, <1>4, <2>0, ResponseIsTyped, HeldIs
    <2>5. \A b \in Places \ {3, 4} : Held'[b] = Held[b]
      BY <1>1, <1>4, <2>0, ResponseIsTyped, HeldIs
    <2>6. MovesOn(Held, Held', 3, Server!ResponseTo(Head(sTasks)))
      BY <2>1, <2>2, <2>3, <2>4, <2>5 DEF MovesOn
    <2>7. Head(sTasks) = Held[4][1]
      BY <1>4, HeldIs DEF TypeInv, QueuesOK
    <2> QED BY <1>4, <2>6, <2>7
  <1>5. CASE /\ sResults # <<>> /\ UNCHANGED <<sEvents, sTasks, sWire, served>>
             /\ sOutbound' = Append(sOutbound, Head(sResults)) /\ sResults' = Tail(sResults)
    <2>1. Head(sResults) \in Message
      BY <1>5, MoveTyped DEF TypeInv, QueuesOK, Message
    <2>2. 2 + 1 = 3 /\ Held[3] # <<>>
      BY <1>1, <1>5, HeldIs
    <2>3. Head(sResults).tag = Head(Held[3]).tag /\ Head(sResults).rid = Head(Held[3]).rid
      BY <1>1, <1>5, HeldIs
    <2>4. Held'[2] = Append(Held[2], Head(sResults)) /\ Held'[3] = Tail(Held[3])
      BY <1>1, <1>5, HeldIs
    <2>5. \A b \in Places \ {2, 3} : Held'[b] = Held[b]
      BY <1>1, <1>5, HeldIs
    <2>6. MovesOn(Held, Held', 2, Head(sResults))
      BY <2>1, <2>2, <2>3, <2>4, <2>5 DEF MovesOn
    <2> QED BY <1>5, <2>6
  <1>6. CASE /\ sOutbound # <<>> /\ UNCHANGED <<sEvents, sTasks, sResults, served>>
             /\ sWire' = Append(sWire, Head(sOutbound)) /\ sOutbound' = Tail(sOutbound)
    <2>1. Head(sOutbound) \in Message
      BY <1>6, MoveTyped DEF TypeInv, QueuesOK, Message
    <2>2. 1 + 1 = 2 /\ Held[2] # <<>>
      BY <1>1, <1>6, HeldIs
    <2>3. Head(sOutbound).tag = Head(Held[2]).tag /\ Head(sOutbound).rid = Head(Held[2]).rid
      BY <1>1, <1>6, HeldIs
    <2>4. Held'[1] = Append(Held[1], Head(sOutbound)) /\ Held'[2] = Tail(Held[2])
      BY <1>1, <1>6, HeldIs
    <2>5. \A b \in Places \ {1, 2} : Held'[b] = Held[b]
      BY <1>1, <1>6, HeldIs
    <2>6. MovesOn(Held, Held', 1, Head(sOutbound))
      BY <2>1, <2>2, <2>3, <2>4, <2>5 DEF MovesOn
    <2> QED BY <1>6, <2>6
  <1> QED BY <1>2, <1>3, <1>4, <1>5, <1>6, ServerEffect

LEMMA HeldDeliverToServer ==
    ASSUME TypeInv, DeliverToServer
    PROVE  MovesOn(Held, Held', 5, Head(cWire))
  <1>1. UNCHANGED <<sWire, sOutbound, sResults, sTasks, cOutbound, Writing>> /\ cWire # <<>>
        /\ sEvents' = Append(sEvents, Head(cWire)) /\ cWire' = Tail(cWire)
    BY DeliverToServerEffect DEF Writing
  <1>2. Head(cWire) \in Message
    BY <1>1, MoveTyped DEF TypeInv, QueuesOK, Message
  <1>3. 5 + 1 = 6 /\ Held[6] # <<>>
    BY <1>1, HeldIs
  <1>4. Head(cWire).tag = Head(Held[6]).tag /\ Head(cWire).rid = Head(Held[6]).rid
    BY <1>1, HeldIs
  <1>5. Held'[5] = Append(Held[5], Head(cWire)) /\ Held'[6] = Tail(Held[6])
    BY <1>1, HeldIs
  <1>6. \A b \in Places \ {5, 6} : Held'[b] = Held[b]
    BY <1>1, HeldIs
  <1> QED BY <1>2, <1>3, <1>4, <1>5, <1>6 DEF MovesOn

LEMMA HeldDeliverToClient ==
    ASSUME TypeInv, DeliverToClient
    PROVE  Leaves(Held, Held', 1) /\ Head(sWire) = Held[1][1]
  <1>1. UNCHANGED <<sOutbound, sResults, sTasks, sEvents, cWire, cOutbound, Writing>>
        /\ sWire # <<>> /\ sWire' = Tail(sWire)
    BY DeliverToClientEffect DEF Writing
  <1>2. Held[1] # <<>> /\ Held'[1] = Tail(Held[1])
    BY <1>1, HeldIs
  <1>3. \A b \in Places \ {1} : Held'[b] = Held[b]
    BY <1>1, HeldIs
  <1>4. Head(sWire) = Held[1][1]
    BY <1>1, HeldIs DEF TypeInv, QueuesOK
  <1> QED BY <1>2, <1>3, <1>4 DEF Leaves

LEMMA HeldLose ==
    ASSUME TypeInv, Lose
    PROVE  Leaves(Held, Held', 6) \/ Leaves(Held, Held', 1)
  <1>1. UNCHANGED <<sOutbound, sResults, sTasks, sEvents, cOutbound, Writing>>
    BY LoseEffect DEF Writing
  <1>2. CASE cWire # <<>> /\ cWire' = Tail(cWire) /\ UNCHANGED sWire
    <2>1. Held[6] # <<>> /\ Held'[6] = Tail(Held[6])
      BY <1>2, HeldIs
    <2>2. \A b \in Places \ {6} : Held'[b] = Held[b]
      BY <1>1, <1>2, HeldIs
    <2> QED BY <2>1, <2>2 DEF Leaves
  <1>3. CASE sWire # <<>> /\ sWire' = Tail(sWire) /\ UNCHANGED cWire
    <2>1. Held[1] # <<>> /\ Held'[1] = Tail(Held[1])
      BY <1>3, HeldIs
    <2>2. \A b \in Places \ {1} : Held'[b] = Held[b]
      BY <1>1, <1>3, HeldIs
    <2> QED BY <2>1, <2>2 DEF Leaves
  <1> QED BY <1>2, <1>3, LoseEffect

LEMMA HeldSend ==
    ASSUME TypeInv, NEW rid \in 1..MaxRequestId, NEW chosen \in BOOLEAN, Send(rid, chosen)
    PROVE  Joins(Held, Held', Request(Len(calls) + 1, rid))
  <1>1. UNCHANGED <<sWire, sOutbound, sResults, sTasks, sEvents, cWire, cOutbound>>
    BY SendEffect
  <1>2. Writing = <<>> /\ Writing' = <<Request(Len(calls) + 1, rid)>>
    BY SendEffect DEF Writing
  <1>3. Request(Len(calls) + 1, rid) \in Message
    BY SendEffect DEF Message
  <1>4. \A b \in Places \ {8} : Held'[b] = Held[b]
    BY <1>1, HeldIs
  <1>5. Held[8] = <<>> /\ Held'[8] = <<Request(Len(calls) + 1, rid)>>
    BY <1>2, HeldIs
  <1> QED BY <1>3, <1>4, <1>5 DEF Joins

LEMMA ReattachEffect ==
    ASSUME TypeInv, Reattach
    PROVE  /\ Empties(Held, Held')
           /\ cPending' = {} /\ cResolved' = {} /\ before' = Len(calls)
           /\ UNCHANGED <<nextRequestId, calls, served>>
  <1> USE DEF Reattach, Client!NewEndpoint, Client!thread
  <1>1. /\ cWire' = cWire \/ cWire' = <<>>
        /\ sWire' = sWire \/ sWire' = <<>>
        /\ cOutbound' = <<>>
    OBVIOUS
  <1>2. UNCHANGED <<sOutbound, sResults, sTasks, sEvents, Writing>>
    BY DEF Writing
  <1>3. Empties(Held, Held')
    BY <1>1, <1>2, HeldIs DEF Empties
  <1>4. cPending' = {} /\ cResolved' = {} /\ before' = Len(calls)
        /\ UNCHANGED <<nextRequestId, calls, served>>
    OBVIOUS
  <1> QED BY <1>3, <1>4

LEMMA HeldStays ==
    ASSUME UNCHANGED <<sEvents, sTasks, sResults, sOutbound, sWire, cWire, cOutbound, cPhase, cSending>>
    PROVE  Held' = Held
  BY DEF Held

-----------------------------------------------------------------------------
(* What holds of every message in some of the places                        *)

\* The messages in the places P carry the tags and request ids of G.
Within(Q, P, G) ==
    \A a \in P : \A i \in 1..Len(Q[a]) : <<Q[a][i].tag, Q[a][i].rid>> \in G

LEMMA MovesOnWithin ==
    ASSUME NEW Q, NEW R, NEW a \in 1..7, NEW m, Typed(Q), MovesOn(Q, R, a, m),
           NEW P \in SUBSET Places, NEW G, Within(Q, P, G), a \in P => <<m.tag, m.rid>> \in G
    PROVE  Within(R, P, G)
  <1> SUFFICES ASSUME NEW b \in P, NEW i \in 1..Len(R[b])
               PROVE  <<R[b][i].tag, R[b][i].rid>> \in G
    BY DEF Within
  <1>1. MovedFrom(Q, R, a, m) /\ Typed(R)
    BY MovesOnFrom
  <1>2. CASE b = a
    <2>1. \/ i \in 1..Len(Q[a]) /\ R[a][i] = Q[a][i]
          \/ R[a][i] = m
      BY <1>1, <1>2 DEF MovedFrom
    <2> QED BY <1>2, <2>1 DEF Within
  <1>3. CASE b = a + 1
    <2>1. i + 1 \in 1..Len(Q[a + 1]) /\ R[a + 1][i] = Q[a + 1][i + 1]
      BY <1>1, <1>3 DEF MovedFrom
    <2> QED BY <1>3, <2>1 DEF Within
  <1>4. CASE b \notin {a, a + 1}
    <2>1. R[b] = Q[b]
      BY <1>1, <1>4 DEF MovedFrom
    <2> QED BY <2>1 DEF Within
  <1> QED BY <1>2, <1>3, <1>4

LEMMA LeavesWithin ==
    ASSUME NEW Q, NEW R, NEW a \in Places, Typed(Q), Leaves(Q, R, a),
           NEW P \in SUBSET Places, NEW G, Within(Q, P, G)
    PROVE  Within(R, P, G)
  <1> SUFFICES ASSUME NEW b \in P, NEW i \in 1..Len(R[b])
               PROVE  <<R[b][i].tag, R[b][i].rid>> \in G
    BY DEF Within
  <1>1. /\ Len(R[a]) = Len(Q[a]) - 1 /\ Len(Q[a]) \in Nat \ {0}
        /\ \A k \in 1..Len(R[a]) : R[a][k] = Q[a][k + 1]
        /\ \A c \in Places \ {a} : R[c] = Q[c]
    BY LeavesFrom
  <1>2. CASE b = a
    <2>1. i + 1 \in 1..Len(Q[a]) /\ R[a][i] = Q[a][i + 1]
      BY <1>1, <1>2
    <2> QED BY <1>2, <2>1 DEF Within
  <1>3. CASE b # a
    <2>1. R[b] = Q[b]
      BY <1>1, <1>3
    <2> QED BY <2>1 DEF Within
  <1> QED BY <1>2, <1>3

LEMMA EmptiesWithin ==
    ASSUME NEW Q, NEW R, Empties(Q, R), NEW P \in SUBSET Places, NEW G, Within(Q, P, G)
    PROVE  Within(R, P, G)
  <1>1. \A b \in P : \A i \in 1..Len(R[b]) : i \in 1..Len(Q[b]) /\ R[b][i] = Q[b][i]
    BY DEF Empties
  <1> QED BY <1>1 DEF Within

LEMMA JoinsWithin ==
    ASSUME NEW Q, NEW R, NEW m, Joins(Q, R, m), NEW P \in SUBSET Places, NEW G, Within(Q, P, G),
           <<m.tag, m.rid>> \in G
    PROVE  Within(R, P, G)
  <1> SUFFICES ASSUME NEW b \in P, NEW i \in 1..Len(R[b])
               PROVE  <<R[b][i].tag, R[b][i].rid>> \in G
    BY DEF Within
  <1>1. CASE b = 8
    <2>1. R[b] = <<m>>
      BY <1>1 DEF Joins
    <2>2. R[b][i] = m
      BY <2>1
    <2> QED BY <2>2
  <1>2. CASE b # 8
    <2>1. R[b] = Q[b]
      BY <1>2 DEF Joins
    <2> QED BY <2>1 DEF Within
  <1> QED BY <1>1, <1>2

LEMMA WithinLarger ==
    ASSUME NEW Q, NEW P, NEW G, NEW H, Within(Q, P, G), G \subseteq H
    PROVE  Within(Q, P, H)
  BY DEF Within

\* The message that moves has the tag and the request id of the one it was.
LEMMA MovesOnSame ==
    ASSUME NEW Q, NEW R, NEW a \in 1..7, NEW m, Typed(Q), MovesOn(Q, R, a, m),
           NEW P, NEW G, Within(Q, P, G), a + 1 \in P
    PROVE  <<m.tag, m.rid>> \in G
  <1>1. MovedFrom(Q, R, a, m)
    BY MovesOnFrom
  <1>2. /\ Len(Q[a + 1]) \in Nat \ {0}
        /\ m.tag = Q[a + 1][1].tag /\ m.rid = Q[a + 1][1].rid
    BY <1>1 DEF MovedFrom
  <1>3. 1 \in 1..Len(Q[a + 1])
    BY <1>2
  <1> QED BY <1>2, <1>3 DEF Within

-----------------------------------------------------------------------------
(* The order of the calls and what their messages carry                     *)

\* The calls issued: number and request id.
Issued == {<<n, calls[n].rid>> : n \in 1..Len(calls)}

\* Every message is of a call that was issued, and carries its request id.
BelongToCalls ==
    /\ Within(Held, Places, Issued)
    /\ \A r \in cResolved : <<r[2].tag, r[2].rid>> \in Issued

\* The messages of the calls are in the order of the calls, over all places.
Ordered == InOrder(Held)

\* What a step leaves of the calls issued before it.
LEMMA CallsKept ==
    TypeInv /\ [Next]_vars =>
        /\ Len(calls) \in Nat /\ Len(calls') \in Nat
        /\ Len(calls) <= Len(calls')
        /\ \A n \in 1..Len(calls) : /\ calls'[n].rid = calls[n].rid
                                    /\ calls'[n].chosen = calls[n].chosen
  <1> SUFFICES ASSUME TypeInv, [Next]_vars
               PROVE  /\ Len(calls) \in Nat /\ Len(calls') \in Nat
                      /\ Len(calls) <= Len(calls')
                      /\ \A n \in 1..Len(calls) : /\ calls'[n].rid = calls[n].rid
                                                  /\ calls'[n].chosen = calls[n].chosen
    OBVIOUS
  <1>1. calls \in Seq(CallRecord) /\ Len(calls) \in Nat
    BY CallsTyped, LenProperties
  <1>2. CASE UNCHANGED calls
    BY <1>1, <1>2
  <1>3. ASSUME NEW rid \in 1..MaxRequestId, NEW chosen \in BOOLEAN, Send(rid, chosen)
        PROVE  /\ Len(calls') = Len(calls) + 1
               /\ \A n \in 1..Len(calls) : calls'[n] = calls[n]
    <2>1. PICK c \in CallRecord : calls' = Append(calls, c)
      BY <1>3, SendEffect
    <2> QED BY <1>1, <2>1, AppendProperties
  <1>4. ASSUME NEW n \in 1..Len(calls), TakeResponse(n) \/ GiveUp(n)
        PROVE  /\ Len(calls') = Len(calls)
               /\ \A k \in 1..Len(calls) : /\ calls'[k].rid = calls[k].rid
                                           /\ calls'[k].chosen = calls[k].chosen
    <2>1. Len(calls') = Len(calls)
      BY <1>4, TypeTake, TypeGiveUp
    <2>2. PICK c : /\ calls' = [calls EXCEPT ![n] = c]
                   /\ c.rid = calls[n].rid /\ c.chosen = calls[n].chosen
      <3>1. calls[n] \in CallRecord
        BY CallsTyped
      <3>2. CASE TakeResponse(n)
        <4>1. PICK r \in cResolved :
                 calls' = [calls EXCEPT ![n] = [@ EXCEPT !.state = "answered", !.answer = r[2].tag]]
          BY <3>2, TakeEffect
        <4> DEFINE c == [calls[n] EXCEPT !.state = "answered", !.answer = r[2].tag]
        <4>2. c.rid = calls[n].rid /\ c.chosen = calls[n].chosen
          BY <3>1 DEF CallRecord
        <4>3. calls' = [calls EXCEPT ![n] = c]
          BY <4>1
        <4> QED BY <4>2, <4>3
      <3>3. CASE GiveUp(n)
        <4>1. calls' = [calls EXCEPT ![n] = [@ EXCEPT !.state = "givenUp"]]
          BY <3>3 DEF GiveUp
        <4> DEFINE c == [calls[n] EXCEPT !.state = "givenUp"]
        <4>2. c.rid = calls[n].rid /\ c.chosen = calls[n].chosen
          BY <3>1 DEF CallRecord
        <4>3. calls' = [calls EXCEPT ![n] = c]
          BY <4>1
        <4> QED BY <4>2, <4>3
      <3> QED BY <1>4, <3>2, <3>3
    <2> QED BY <1>1, <2>1, <2>2
  <1>5. CASE Call
    <2>1. nextRequestId \in 1..MaxRequestId
      BY DEF TypeInv, TypeOK
    <2>2. /\ Len(calls') = Len(calls) + 1
          /\ \A n \in 1..Len(calls) : calls'[n] = calls[n]
      BY <1>3, <1>5, <2>1 DEF Call
    <2> QED BY <1>1, <2>2
  <1>6. ASSUME NEW rid \in 1..MaxRequestId, CallWith(rid)
        PROVE  /\ Len(calls') = Len(calls) + 1
               /\ \A n \in 1..Len(calls) : calls'[n] = calls[n]
    BY <1>3, <1>6 DEF CallWith
  <1>7. CASE ClientSteps \/ ServerSteps \/ Reattach \/ DeliverToServer \/ DeliverToClient \/ Lose
             \/ UNCHANGED vars
    <2>1. UNCHANGED calls
      BY <1>7 DEF ClientSteps, ServerSteps, Reattach, DeliverToServer, DeliverToClient, Lose, vars,
         callVars
    <2> QED BY <1>2, <2>1
  <1> QED BY <1>1, <1>4, <1>5, <1>6, <1>7 DEF Next

LEMMA IssuedKept == TypeInv /\ [Next]_vars => Issued \subseteq Issued'
  <1> SUFFICES ASSUME TypeInv, [Next]_vars, NEW n \in 1..Len(calls)
               PROVE  <<n, calls[n].rid>> \in Issued'
    BY DEF Issued
  <1>1. n \in 1..Len(calls') /\ calls'[n].rid = calls[n].rid
    BY CallsKept
  <1> QED BY <1>1 DEF Issued

\* The request a call is issued with.
LEMMA IssueEffect ==
    ASSUME TypeInv, NEW rid \in 1..MaxRequestId, NEW chosen \in BOOLEAN, Send(rid, chosen)
    PROVE  /\ Len(calls) \in Nat /\ Len(calls') = Len(calls) + 1
           /\ \A n \in 1..Len(calls) : calls'[n] = calls[n]
           /\ calls'[Len(calls) + 1] = [rid |-> rid, chosen |-> chosen, state |-> "open", answer |-> 0]
  <1>1. calls \in Seq(CallRecord) /\ Len(calls) \in Nat
    BY CallsTyped, LenProperties
  <1> DEFINE c == [rid |-> rid, chosen |-> chosen, state |-> "open", answer |-> 0]
  <1>2. c \in CallRecord /\ calls' = Append(calls, c)
    BY SendEffect
  <1> QED BY <1>1, <1>2, AppendProperties

\* A step of the system is one of these, as far as the places are concerned.
LEMMA HeldStep ==
    ASSUME TypeInv, [Next]_vars
    PROVE  \/ Held' = Held /\ UNCHANGED served
           \/ \E a \in 1..7 \ {3} : \E m : MovesOn(Held, Held', a, m) /\ UNCHANGED served
           \/ \E m : /\ MovesOn(Held, Held', 3, m) /\ UNCHANGED <<calls, cResolved>>
                    /\ served' = Append(served, Held[4][1].tag)
           \/ \E a \in Places : Leaves(Held, Held', a) /\ UNCHANGED served
           \/ Empties(Held, Held') /\ UNCHANGED served
           \/ \E rid \in 1..MaxRequestId :
                 /\ Joins(Held, Held', Request(Len(calls) + 1, rid)) /\ UNCHANGED served
                 /\ <<Len(calls) + 1, rid>> \in Issued'
  <1>1. ASSUME NEW rid \in 1..MaxRequestId, NEW chosen \in BOOLEAN, Send(rid, chosen)
        PROVE  /\ Joins(Held, Held', Request(Len(calls) + 1, rid)) /\ UNCHANGED served
               /\ <<Len(calls) + 1, rid>> \in Issued'
    <2>1. Joins(Held, Held', Request(Len(calls) + 1, rid)) /\ UNCHANGED served
      BY <1>1, HeldSend, SendEffect
    <2>2. /\ Len(calls) \in Nat /\ Len(calls') = Len(calls) + 1
          /\ calls'[Len(calls) + 1] = [rid |-> rid, chosen |-> chosen, state |-> "open", answer |-> 0]
      BY <1>1, IssueEffect
    <2> QED BY <2>1, <2>2 DEF Issued
  <1>2. CASE Call
    <2>1. nextRequestId \in 1..MaxRequestId
      BY DEF TypeInv, TypeOK
    <2>2. Send(nextRequestId, FALSE)
      BY <1>2 DEF Call
    <2> QED BY <1>1, <2>1, <2>2
  <1>3. ASSUME NEW rid \in 1..MaxRequestId, CallWith(rid)
        PROVE  /\ Joins(Held, Held', Request(Len(calls) + 1, rid)) /\ UNCHANGED served
               /\ <<Len(calls) + 1, rid>> \in Issued'
    <2>1. Send(rid, TRUE)
      BY <1>3 DEF CallWith
    <2> QED BY <1>1, <2>1
  <1>4. CASE Reattach
    BY <1>4, ReattachEffect
  <1>5. CASE ClientSteps
    BY <1>5, HeldClient, ClientEffect
  <1>6. ASSUME NEW n \in 1..Len(calls), TakeResponse(n) \/ GiveUp(n) PROVE Held' = Held /\ UNCHANGED served
    <2>1. CASE TakeResponse(n)
      BY <2>1, TakeEffect, HeldStays
    <2>2. CASE GiveUp(n)
      BY <2>2, HeldStays DEF GiveUp, clientVars, serverVars
    <2> QED BY <1>6, <2>1, <2>2
  <1>7. CASE ServerSteps
    BY <1>7, HeldServer, ServerEffect
  <1>8. CASE DeliverToServer
    BY <1>8, HeldDeliverToServer, DeliverToServerEffect
  <1>9. CASE DeliverToClient
    BY <1>9, HeldDeliverToClient, DeliverToClientEffect DEF Places
  <1>10. CASE Lose
    BY <1>10, HeldLose, LoseEffect DEF Places
  <1>11. CASE UNCHANGED vars
    BY <1>11, HeldStays DEF vars, clientVars, serverVars
  <1> QED
    BY <1>2, <1>3, <1>4, <1>5, <1>6, <1>7, <1>8, <1>9, <1>10, <1>11 DEF Next

\* A response is resolved as it leaves the last place.
LEMMA ResolvedFrom ==
    ASSUME TypeInv, [Next]_vars, NEW r \in cResolved', r \notin cResolved
    PROVE  /\ DeliverToClient
           /\ r[2] = Held[1][1] /\ 1 \in 1..Len(Held[1]) /\ 1 \in Places
  <1>1. CASE DeliverToClient
    <2>1. r[2] = Held[1][1] /\ Held[1] # <<>> /\ 1 \in Places
      BY <1>1, DeliverToClientEffect, HeldDeliverToClient DEF Leaves, Places
    <2>2. 1 \in 1..Len(Held[1])
      BY <2>1, HeldTyped DEF Typed
    <2> QED BY <1>1, <2>1, <2>2
  <1>2. CASE ~ DeliverToClient
    <2>1. ASSUME NEW n \in 1..Len(calls), TakeResponse(n) PROVE cResolved' \subseteq cResolved
      BY <2>1, TakeEffect
    <2>2. ASSUME NEW rid \in 1..MaxRequestId, CallWith(rid) PROVE cResolved' = cResolved
      BY <2>2, SendEffect DEF CallWith
    <2>3. Call => cResolved' = cResolved
      BY SendEffect DEF Call, TypeInv, TypeOK
    <2>4. /\ ClientSteps => cResolved' = cResolved
          /\ ServerSteps => cResolved' = cResolved
          /\ DeliverToServer => cResolved' = cResolved
          /\ Lose => cResolved' = cResolved
          /\ Reattach => cResolved' = {}
      BY ClientEffect, ServerEffect, DeliverToServerEffect, LoseEffect, ReattachEffect
    <2>5. \A n : GiveUp(n) => cResolved' = cResolved
      BY DEF GiveUp, clientVars
    <2>6. UNCHANGED vars => cResolved' = cResolved
      BY DEF vars, clientVars
    <2> QED BY <1>2, <2>1, <2>2, <2>3, <2>4, <2>5, <2>6 DEF Next
  <1> QED BY <1>1, <1>2

LEMMA BelongNext == TypeInv /\ BelongToCalls /\ [Next]_vars => BelongToCalls'
  <1> SUFFICES ASSUME TypeInv, BelongToCalls, [Next]_vars PROVE BelongToCalls'
    OBVIOUS
  <1>1. Typed(Held) /\ Within(Held, Places, Issued)
    BY HeldTyped DEF BelongToCalls
  <1>2. Within(Held, Places, Issued')
    BY <1>1, IssuedKept, WithinLarger
  <1>3. Within(Held', Places, Issued')
    <2>1. ASSUME NEW a \in 1..7, NEW m, MovesOn(Held, Held', a, m) PROVE Within(Held', Places, Issued')
      <3>1. a + 1 \in Places
        BY DEF Places
      <3>2. <<m.tag, m.rid>> \in Issued'
        BY <1>1, <1>2, <2>1, <3>1, MovesOnSame
      <3> QED BY <1>1, <1>2, <2>1, <3>2, MovesOnWithin
    <2>2. ASSUME NEW rid \in 1..MaxRequestId, Joins(Held, Held', Request(Len(calls) + 1, rid)),
                 <<Len(calls) + 1, rid>> \in Issued'
          PROVE  Within(Held', Places, Issued')
      BY <1>2, <2>2, JoinsWithin DEF Request
    <2>3. 3 \in 1..7
      OBVIOUS
    <2> QED BY <1>1, <1>2, <2>1, <2>2, <2>3, HeldStep, LeavesWithin, EmptiesWithin
  <1>4. \A r \in cResolved' : <<r[2].tag, r[2].rid>> \in Issued'
    <2> SUFFICES ASSUME NEW r \in cResolved', r \notin cResolved
                 PROVE  <<r[2].tag, r[2].rid>> \in Issued'
      BY IssuedKept DEF BelongToCalls
    <2> QED BY <1>2, ResolvedFrom DEF Within
  <1> QED BY <1>3, <1>4 DEF BelongToCalls

LEMMA OrderNext == TypeInv /\ BelongToCalls /\ Ordered /\ [Next]_vars => Ordered'
  <1> SUFFICES ASSUME TypeInv, BelongToCalls, Ordered, [Next]_vars PROVE InOrder(Held')
    BY DEF Ordered
  <1>1. Typed(Held) /\ InOrder(Held)
    BY HeldTyped DEF Ordered
  <1>2. ASSUME NEW rid, Joins(Held, Held', Request(Len(calls) + 1, rid)) PROVE InOrder(Held')
    <2>1. \A a \in Places : \A i \in 1..Len(Held[a]) : Held[a][i].tag < Len(calls) + 1
      BY CallsKept DEF BelongToCalls, Within, Issued
    <2> QED BY <1>1, <1>2, <2>1, JoinsInOrder DEF Request
  <1>3. 3 \in 1..7
    OBVIOUS
  <1> QED BY <1>1, <1>2, <1>3, HeldStep, MovesOnInOrder, LeavesInOrder, EmptiesInOrder

-----------------------------------------------------------------------------
(* Handlers run once, in the order of the calls                             *)

Tickets == (1..MaxCalls) \X (1..MaxRequestId)

\* The calls whose handlers ran, and those that follow all of them.
WasServed == {p \in Tickets : \E k \in 1..Len(served) : served[k] = p[1]}
AfterServed == {p \in Tickets : \A k \in 1..Len(served) : served[k] < p[1]}

\* Up to the server's tasks, a message is of a call after all that were served; from
\* the server's results on, of a call that was.
ServedSplit ==
    /\ ServedOnceInOrder
    /\ Within(Held, 4..8, AfterServed)
    /\ Within(Held, 1..3, WasServed)
    /\ \A r \in cResolved : <<r[2].tag, r[2].rid>> \in WasServed
    /\ \A k \in 1..Len(served) : served[k] <= Len(calls)

LEMMA ServedTyped == TypeInv => \A k \in 1..Len(served) : served[k] \in Nat
  <1> SUFFICES ASSUME TypeInv, NEW k \in 1..Len(served) PROVE served[k] \in Nat
    OBVIOUS
  <1>1. served \in Seq(1..MaxCalls)
    BY DEF TypeInv, TypeOK
  <1>2. served[k] \in 1..MaxCalls
    BY <1>1, ElementOfSeq
  <1> QED BY <1>2

LEMMA HeldTickets == TypeInv => Within(Held, Places, Tickets)
  <1> SUFFICES ASSUME TypeInv, NEW a \in Places, NEW i \in 1..Len(Held[a])
               PROVE  <<Held[a][i].tag, Held[a][i].rid>> \in Tickets
    BY DEF Within
  <1>1. Held[a] \in Seq(Message)
    BY HeldTyped DEF Typed
  <1>2. Held[a][i] \in Message
    BY <1>1, ElementOfSeq
  <1> QED BY <1>2 DEF Message, RequestMessage, ResponseMessage, Tickets

\* The handler runs of the request at the head of the tasks: it is the oldest one.
LEMMA ServeSplit ==
    ASSUME TypeInv, Ordered, ServedSplit, NEW m, MovesOn(Held, Held', 3, m),
           served' = Append(served, Held[4][1].tag),
           Ordered', UNCHANGED <<calls, cResolved>>, BelongToCalls
    PROVE  ServedSplit'
  <1> DEFINE n == Held[4][1].tag
  <1>1. /\ MovedFrom(Held, Held', 3, m) /\ Typed(Held) /\ Typed(Held')
        /\ Held[4] \in Seq(Message) /\ Held[4] # <<>> /\ 4 \in 4..8 /\ 3 \in 1..7
    <2>1. Typed(Held) /\ 3 \in 1..7 /\ 4 \in 4..8 /\ 4 \in Places
      BY HeldTyped DEF Places
    <2>2. MovedFrom(Held, Held', 3, m) /\ Typed(Held')
      BY <2>1, MovesOnFrom
    <2>3. Held[4] # <<>>
      BY DEF MovesOn
    <2> QED BY <2>1, <2>2, <2>3 DEF Typed
  <1>2. Len(Held[4]) \in Nat /\ 1 \in 1..Len(Held[4])
    BY <1>1
  <1>3. <<n, Held[4][1].rid>> \in AfterServed
    BY <1>2, <1>1 DEF ServedSplit, Within
  <1>4. served \in Seq(1..MaxCalls) /\ n \in 1..MaxCalls
    BY <1>3 DEF AfterServed, Tickets, TypeInv, TypeOK
  <1>5. /\ Len(served') = Len(served) + 1 /\ Len(served) \in Nat
        /\ \A k \in 1..Len(served) : served'[k] = served[k]
        /\ served'[Len(served) + 1] = n
    BY <1>4, AppendProperties
  <1>6. \A k \in 1..Len(served) : served[k] < n
    BY <1>3 DEF AfterServed
  <1>7. ServedOnceInOrder'
    <2> SUFFICES ASSUME NEW i \in 1..Len(served'), NEW j \in 1..Len(served'), i < j
                 PROVE  served'[i] < served'[j]
      BY DEF ServedOnceInOrder
    <2>1. i \in 1..Len(served) /\ served'[i] = served[i]
      BY <1>5
    <2>2. CASE j = Len(served) + 1
      BY <1>5, <1>6, <2>1, <2>2
    <2>3. CASE j # Len(served) + 1
      <3>1. j \in 1..Len(served) /\ served'[j] = served[j]
        BY <1>5, <2>3
      <3> QED BY <2>1, <3>1 DEF ServedSplit, ServedOnceInOrder
    <2> QED BY <2>2, <2>3
  <1>8. WasServed \subseteq WasServed'
    BY <1>5 DEF WasServed
  <1>9. m.tag = n /\ m.rid = Held[4][1].rid
    BY <1>1 DEF MovedFrom
  <1>10. <<m.tag, m.rid>> \in WasServed'
    <2>1. <<m.tag, m.rid>> \in Tickets
      BY <1>3, <1>9 DEF AfterServed
    <2>2. Len(served) + 1 \in 1..Len(served') /\ served'[Len(served) + 1] = m.tag
      BY <1>5, <1>9
    <2> QED BY <2>1, <2>2 DEF WasServed
  <1>11. Within(Held', 1..3, WasServed')
    <2>1. Within(Held, 1..3, WasServed')
      BY <1>8, WithinLarger DEF ServedSplit
    <2>2. 1..3 \in SUBSET Places
      BY DEF Places
    <2>3. MovesOn(Held, Held', 3, m) /\ Typed(Held) /\ 3 \in 1..7
      BY <1>1
    <2>4. 3 \in 1..3 => <<m.tag, m.rid>> \in WasServed'
      BY <1>10
    <2> QED BY <2>1, <2>2, <2>3, <2>4, MovesOnWithin
  <1>12. Within(Held', 4..8, AfterServed')
    <2>1. Within(Held', 4..8, AfterServed)
      <3>1. 4..8 \in SUBSET Places /\ 3 \notin 4..8
        BY DEF Places
      <3>2. Within(Held, 4..8, AfterServed)
        BY DEF ServedSplit
      <3> QED BY <1>1, <3>1, <3>2, MovesOnWithin
    <2>2. Len(Held[3]) + 1 \in 1..Len(Held'[3]) /\ Held'[3][Len(Held[3]) + 1] = m
      BY <1>1 DEF MovedFrom
    <2>3. \A a \in 4..8 : \A i \in 1..Len(Held'[a]) : n < Held'[a][i].tag
      <3> SUFFICES ASSUME NEW a \in 4..8, NEW i \in 1..Len(Held'[a]) PROVE n < Held'[a][i].tag
        OBVIOUS
      <3>1. a \in Places /\ 3 \in Places /\ 3 < a
        BY DEF Places
      <3> QED BY <1>9, <2>2, <3>1 DEF Ordered, InOrder
    <2> SUFFICES ASSUME NEW a \in 4..8, NEW i \in 1..Len(Held'[a])
                 PROVE  <<Held'[a][i].tag, Held'[a][i].rid>> \in AfterServed'
      BY DEF Within
    <2>4. <<Held'[a][i].tag, Held'[a][i].rid>> \in AfterServed
      BY <2>1 DEF Within
    <2>5. \A k \in 1..Len(served') : served'[k] < Held'[a][i].tag
      BY <1>5, <2>3, <2>4 DEF AfterServed
    <2> QED BY <2>4, <2>5 DEF AfterServed
  <1>13. \A r \in cResolved' : <<r[2].tag, r[2].rid>> \in WasServed'
    BY <1>8 DEF ServedSplit
  <1>14. \A k \in 1..Len(served') : served'[k] <= Len(calls')
    <2>1. n \in 1..Len(calls)
      BY <1>2 DEF BelongToCalls, Within, Issued, Places
    <2> QED BY <1>5, <2>1 DEF ServedSplit
  <1> QED BY <1>7, <1>11, <1>12, <1>13, <1>14 DEF ServedSplit

LEMMA ServedNext ==
    TypeInv /\ BelongToCalls /\ Ordered /\ ServedSplit /\ [Next]_vars => ServedSplit'
  <1> SUFFICES ASSUME TypeInv, BelongToCalls, Ordered, ServedSplit, [Next]_vars
               PROVE  ServedSplit'
    OBVIOUS
  <1>1. /\ Typed(Held) /\ 4..8 \in SUBSET Places /\ 1..3 \in SUBSET Places
        /\ Within(Held, 4..8, AfterServed) /\ Within(Held, 1..3, WasServed)
    BY HeldTyped DEF Places, ServedSplit
  <1>2. CASE \E m : /\ MovesOn(Held, Held', 3, m) /\ UNCHANGED <<calls, cResolved>>
                    /\ served' = Append(served, Held[4][1].tag)
    BY <1>2, ServeSplit, OrderNext
  <1>3. CASE UNCHANGED served /\ Within(Held', 4..8, AfterServed) /\ Within(Held', 1..3, WasServed)
    <2>1. AfterServed' = AfterServed /\ WasServed' = WasServed
      BY <1>3 DEF AfterServed, WasServed
    <2>2. \A r \in cResolved' : <<r[2].tag, r[2].rid>> \in WasServed
      <3> SUFFICES ASSUME NEW r \in cResolved', r \notin cResolved
                   PROVE  <<r[2].tag, r[2].rid>> \in WasServed
        BY DEF ServedSplit
      <3>1. r[2] = Held[1][1] /\ 1 \in 1..Len(Held[1]) /\ 1 \in 1..3
        BY ResolvedFrom
      <3> QED BY <1>1, <3>1 DEF Within
    <2>3. ServedOnceInOrder'
      BY <1>3 DEF ServedSplit, ServedOnceInOrder
    <2>4. \A k \in 1..Len(served') : served'[k] <= Len(calls')
      <3>1. Len(calls) <= Len(calls') /\ Len(calls) \in Nat /\ Len(calls') \in Nat
        BY CallsKept
      <3>2. \A k \in 1..Len(served) : served[k] \in Nat /\ served[k] <= Len(calls)
        BY ServedTyped DEF ServedSplit
      <3> QED BY <1>3, <3>1, <3>2
    <2> QED BY <1>3, <2>1, <2>2, <2>3, <2>4 DEF ServedSplit
  <1>4. ASSUME NEW a \in 1..7 \ {3}, NEW m, MovesOn(Held, Held', a, m)
        PROVE  Within(Held', 4..8, AfterServed) /\ Within(Held', 1..3, WasServed)
    <2>1. a \in 4..8 => <<m.tag, m.rid>> \in AfterServed
      <3>1. a \in 4..8 => a + 1 \in 4..8
        OBVIOUS
      <3> QED BY <1>1, <1>4, <3>1, MovesOnSame
    <2>2. a \in 1..3 => <<m.tag, m.rid>> \in WasServed
      <3>1. a \in 1..3 => a + 1 \in 1..3
        OBVIOUS
      <3> QED BY <1>1, <1>4, <3>1, MovesOnSame
    <2> QED BY <1>1, <1>4, <2>1, <2>2, MovesOnWithin
  <1>5. ASSUME NEW rid \in 1..MaxRequestId, Joins(Held, Held', Request(Len(calls) + 1, rid)),
               <<Len(calls) + 1, rid>> \in Issued'
        PROVE  Within(Held', 4..8, AfterServed) /\ Within(Held', 1..3, WasServed)
    <2>1. <<Len(calls) + 1, rid>> \in AfterServed
      <3>1. Request(Len(calls) + 1, rid) \in Message
        BY <1>5 DEF Joins
      <3>2. <<Len(calls) + 1, rid>> \in Tickets
        BY <3>1 DEF Message, RequestMessage, ResponseMessage, Request, Tickets
      <3>3. \A k \in 1..Len(served) : served[k] < Len(calls) + 1
        <4>1. Len(calls) \in Nat /\ \A k \in 1..Len(served) : served[k] \in Nat
          BY CallsKept, ServedTyped
        <4> QED BY <4>1 DEF ServedSplit
      <3> QED BY <3>2, <3>3 DEF AfterServed
    <2>2. Within(Held', 4..8, AfterServed)
      BY <1>1, <1>5, <2>1, JoinsWithin DEF Request
    <2>3. \A a \in 1..3 : Held'[a] = Held[a]
      BY <1>5 DEF Joins, Places
    <2>4. Within(Held', 1..3, WasServed)
      BY <1>1, <2>3 DEF Within
    <2> QED BY <2>2, <2>4
  <1>6. ASSUME NEW a \in Places, Leaves(Held, Held', a)
        PROVE  Within(Held', 4..8, AfterServed) /\ Within(Held', 1..3, WasServed)
    BY <1>1, <1>6, LeavesWithin
  <1>7. ASSUME Empties(Held, Held')
        PROVE  Within(Held', 4..8, AfterServed) /\ Within(Held', 1..3, WasServed)
    BY <1>1, <1>7, EmptiesWithin
  <1> QED BY <1>1, <1>2, <1>3, <1>4, <1>5, <1>6, <1>7, HeldStep

LEMMA OrderInit == Init => Ordered /\ BelongToCalls /\ ServedSplit
  <1> SUFFICES ASSUME Init PROVE Ordered /\ BelongToCalls /\ ServedSplit
    OBVIOUS
  <1>1. /\ sWire = <<>> /\ sOutbound = <<>> /\ sResults = <<>> /\ sTasks = <<>> /\ sEvents = <<>>
        /\ cWire = <<>> /\ cOutbound = <<>> /\ Writing = <<>> /\ cResolved = {} /\ served = <<>>
    BY DEF Init, Client!InitEndpoint, Server!InitEndpoint, Writing
  <1>2. \A a \in Places : Len(Held[a]) = 0
    BY <1>1, HeldIs
  <1>3. \A P \in SUBSET Places : \A G : Within(Held, P, G)
    BY <1>2 DEF Within
  <1>4. Places \in SUBSET Places /\ 4..8 \in SUBSET Places /\ 1..3 \in SUBSET Places
    BY DEF Places
  <1>5. Ordered
    BY <1>2 DEF Ordered, InOrder
  <1>6. ServedOnceInOrder
    BY <1>1 DEF ServedOnceInOrder
  <1> QED BY <1>1, <1>3, <1>4, <1>5, <1>6 DEF BelongToCalls, ServedSplit

OrderInv == TypeInv /\ BelongToCalls /\ Ordered /\ ServedSplit

LEMMA OrderInvNext == OrderInv /\ [Next]_vars => OrderInv'
  BY TypeNext, BelongNext, OrderNext, ServedNext DEF OrderInv

LEMMA OrderInvariant == Spec => []OrderInv
  <1>1. Init => OrderInv
    BY TypeInit, OrderInit DEF OrderInv
  <1> QED BY <1>1, OrderInvNext, PTL DEF Spec

\* Whatever is lost, given up or reattached, the handler of a call runs at most once
\* and the handlers run in the order of the calls (ServedOnceInOrder).
THEOREM AtMostOnce == Spec => []ServedOnceInOrder
  <1>1. OrderInv => ServedOnceInOrder
    BY DEF OrderInv, ServedSplit
  <1> QED BY <1>1, OrderInvariant, PTL

-----------------------------------------------------------------------------
(* Request ids and answers                                                  *)

\* How many ids _take_request_id hands out until it hands out id again.
Distance(next, id) == IF next > id THEN next - id ELSE next - id + MaxRequestId

\* Ids are taken in turn: a call under an id the client took is as far back as the ids
\* handed out since, so two of them under one id are a whole id space apart.
IdsSpread ==
    /\ \A n \in 1..Len(calls) :
          calls[n].chosen \/ Distance(nextRequestId, calls[n].rid) <= Len(calls) + 1 - n
    /\ \A i, j \in 1..Len(calls) :
          i < j /\ ~ calls[i].chosen /\ ~ calls[j].chosen /\ calls[i].rid = calls[j].rid
              => j - i >= MaxRequestId

\* A call is answered with a response to a request under its id whose handler ran.
AnswersFit ==
    \A n \in 1..Len(calls) : calls[n].state = "answered" =>
        <<calls[n].answer, calls[n].rid>> \in Issued \cap WasServed

LEMMA DistanceNext ==
    ASSUME NEW next \in 1..MaxRequestId, NEW id \in 1..MaxRequestId
    PROVE  /\ Distance(NextRequestId(next), id) <= Distance(next, id) + 1
           /\ Distance(NextRequestId(next), next) = 1
           /\ Distance(next, next) = MaxRequestId
           /\ Distance(next, id) \in Nat /\ Distance(NextRequestId(next), id) \in Nat
  BY RpcAssumption DEF Distance, NextRequestId

LEMMA CallsStep ==
    ASSUME TypeInv, [Next]_vars
    PROVE  \/ \E rid \in 1..MaxRequestId, chosen \in BOOLEAN :
                 /\ Send(rid, chosen)
                 /\ \/ chosen /\ nextRequestId' = nextRequestId
                    \/ ~ chosen /\ rid = nextRequestId /\ nextRequestId' = NextRequestId(nextRequestId)
           \/ Len(calls') = Len(calls) /\ nextRequestId' = nextRequestId
  <1>1. nextRequestId \in 1..MaxRequestId
    BY DEF TypeInv, TypeOK
  <1>2. CASE Call
    BY <1>1, <1>2 DEF Call
  <1>3. ASSUME NEW rid \in 1..MaxRequestId, CallWith(rid)
        PROVE  Send(rid, TRUE) /\ nextRequestId' = nextRequestId
    BY <1>3 DEF CallWith
  <1>4. ASSUME NEW n \in 1..Len(calls), TakeResponse(n) \/ GiveUp(n)
        PROVE  Len(calls') = Len(calls) /\ nextRequestId' = nextRequestId
    BY <1>4, TypeTake, TypeGiveUp DEF TakeResponse, GiveUp
  <1>5. CASE ClientSteps \/ ServerSteps \/ Reattach \/ DeliverToServer \/ DeliverToClient \/ Lose
             \/ UNCHANGED vars
    BY <1>5 DEF ClientSteps, ServerSteps, Reattach, DeliverToServer, DeliverToClient, Lose, vars,
       callVars
  <1> QED BY <1>2, <1>3, <1>4, <1>5 DEF Next

LEMMA SpreadNext == TypeInv /\ IdsSpread /\ [Next]_vars => IdsSpread'
  <1> SUFFICES ASSUME TypeInv, IdsSpread, [Next]_vars PROVE IdsSpread'
    OBVIOUS
  <1>1. /\ nextRequestId \in 1..MaxRequestId /\ MaxRequestId \in Nat \ {0} /\ Len(calls) \in Nat
        /\ \A n \in 1..Len(calls) : calls[n].rid \in 1..MaxRequestId
    <2>1. \A n \in 1..Len(calls) : calls[n] \in CallRecord
      BY CallsTyped
    <2> QED BY <2>1, CallsKept, RpcAssumption DEF TypeInv, TypeOK, CallRecord
  <1>2. CASE Len(calls') = Len(calls) /\ nextRequestId' = nextRequestId
    BY <1>2, CallsKept DEF IdsSpread
  <1>3. ASSUME NEW rid \in 1..MaxRequestId, NEW chosen \in BOOLEAN, Send(rid, chosen),
               \/ chosen /\ nextRequestId' = nextRequestId
               \/ ~ chosen /\ rid = nextRequestId /\ nextRequestId' = NextRequestId(nextRequestId)
        PROVE  IdsSpread'
    <2>1. /\ Len(calls') = Len(calls) + 1
          /\ \A n \in 1..Len(calls) : calls'[n] = calls[n]
          /\ calls'[Len(calls) + 1].rid = rid /\ calls'[Len(calls) + 1].chosen = chosen
      <3>1. /\ Len(calls') = Len(calls) + 1
            /\ \A n \in 1..Len(calls) : calls'[n] = calls[n]
            /\ calls'[Len(calls) + 1]
                  = [rid |-> rid, chosen |-> chosen, state |-> "open", answer |-> 0]
        BY <1>3, IssueEffect
      <3> QED BY <3>1
    <2>2. ASSUME NEW n \in 1..Len(calls'), ~ calls'[n].chosen
          PROVE  Distance(nextRequestId', calls'[n].rid) <= Len(calls') + 1 - n
      <3>1. CASE n = Len(calls) + 1
        <4>1. ~ chosen /\ calls'[n].rid = nextRequestId
              /\ nextRequestId' = NextRequestId(nextRequestId)
          BY <1>3, <2>1, <2>2, <3>1
        <4>2. Distance(nextRequestId', calls'[n].rid) = 1
          BY <1>1, <4>1, DistanceNext
        <4> QED BY <1>1, <2>1, <3>1, <4>2
      <3>2. CASE n # Len(calls) + 1
        <4>1. n \in 1..Len(calls) /\ calls'[n] = calls[n]
          BY <1>1, <2>1, <3>2
        <4>2. Distance(nextRequestId, calls[n].rid) <= Len(calls) + 1 - n
          BY <2>2, <4>1 DEF IdsSpread
        <4>3. /\ Distance(nextRequestId, calls[n].rid) \in Nat
              /\ Distance(NextRequestId(nextRequestId), calls[n].rid) \in Nat
              /\ Distance(NextRequestId(nextRequestId), calls[n].rid)
                    <= Distance(nextRequestId, calls[n].rid) + 1
          BY <1>1, <4>1, DistanceNext
        <4>4. \/ nextRequestId' = nextRequestId
              \/ nextRequestId' = NextRequestId(nextRequestId)
          BY <1>3
        <4>5. CASE nextRequestId' = nextRequestId
          BY <1>1, <2>1, <4>1, <4>2, <4>3, <4>5
        <4>6. CASE nextRequestId' = NextRequestId(nextRequestId)
          BY <1>1, <2>1, <4>1, <4>2, <4>3, <4>6
        <4> QED BY <4>4, <4>5, <4>6
      <3> QED BY <3>1, <3>2
    <2>3. ASSUME NEW i \in 1..Len(calls'), NEW j \in 1..Len(calls'), i < j,
                 ~ calls'[i].chosen, ~ calls'[j].chosen, calls'[i].rid = calls'[j].rid
          PROVE  j - i >= MaxRequestId
      <3>1. i \in 1..Len(calls) /\ calls'[i] = calls[i]
        BY <1>1, <2>1, <2>3
      <3>2. CASE j = Len(calls) + 1
        <4>1. ~ chosen /\ calls[i].rid = nextRequestId
          BY <1>3, <2>1, <2>3, <3>1, <3>2
        <4>2. Distance(nextRequestId, calls[i].rid) <= Len(calls) + 1 - i
          BY <2>3, <3>1 DEF IdsSpread
        <4>3. Distance(nextRequestId, calls[i].rid) = MaxRequestId
          BY <1>1, <4>1, DistanceNext
        <4> QED BY <1>1, <3>1, <3>2, <4>2, <4>3
      <3>3. CASE j # Len(calls) + 1
        <4>1. j \in 1..Len(calls) /\ calls'[j] = calls[j]
          BY <1>1, <2>1, <3>3
        <4> QED BY <2>3, <3>1, <4>1 DEF IdsSpread
      <3> QED BY <3>2, <3>3
    <2> QED BY <2>2, <2>3 DEF IdsSpread
  <1> QED BY <1>2, <1>3, CallsStep

LEMMA WasServedKept == TypeInv /\ [Next]_vars => WasServed \subseteq WasServed'
  <1> SUFFICES ASSUME TypeInv, [Next]_vars PROVE WasServed \subseteq WasServed'
    OBVIOUS
  <1>1. UNCHANGED served \/ served' = Append(served, Held[4][1].tag)
    BY HeldStep
  <1>2. CASE UNCHANGED served
    BY <1>2 DEF WasServed
  <1>3. CASE served' = Append(served, Held[4][1].tag)
    <2>1. served \in Seq(1..MaxCalls)
      BY DEF TypeInv, TypeOK
    <2>2. \A k \in 1..Len(served) : k \in 1..Len(served') /\ served'[k] = served[k]
      BY <1>3, <2>1
    <2> QED BY <2>2 DEF WasServed
  <1> QED BY <1>1, <1>2, <1>3

LEMMA AnswersNext ==
    TypeInv /\ BelongToCalls /\ ServedSplit /\ AnswersFit /\ [Next]_vars => AnswersFit'
  <1> SUFFICES ASSUME TypeInv, BelongToCalls, ServedSplit, AnswersFit, [Next]_vars,
                      NEW n \in 1..Len(calls'), calls'[n].state = "answered"
               PROVE  <<calls'[n].answer, calls'[n].rid>> \in Issued' \cap WasServed'
    BY DEF AnswersFit
  <1>1. Issued \subseteq Issued' /\ WasServed \subseteq WasServed'
    BY IssuedKept, WasServedKept
  <1>2. ASSUME n \in 1..Len(calls), calls'[n] = calls[n]
        PROVE  <<calls'[n].answer, calls'[n].rid>> \in Issued' \cap WasServed'
    BY <1>1, <1>2 DEF AnswersFit
  <1>3. ASSUME NEW rid \in 1..MaxRequestId, NEW chosen \in BOOLEAN, Send(rid, chosen)
        PROVE  n \in 1..Len(calls) /\ calls'[n] = calls[n]
    <2>1. /\ Len(calls) \in Nat /\ Len(calls') = Len(calls) + 1
          /\ \A k \in 1..Len(calls) : calls'[k] = calls[k]
          /\ calls'[Len(calls) + 1] = [rid |-> rid, chosen |-> chosen, state |-> "open", answer |-> 0]
      BY <1>3, IssueEffect
    <2>2. n # Len(calls) + 1
      BY <2>1
    <2> QED BY <2>1, <2>2
  <1>4. ASSUME NEW k \in 1..Len(calls), TakeResponse(k)
        PROVE  <<calls'[n].answer, calls'[n].rid>> \in Issued' \cap WasServed'
    <2>1. calls \in Seq(CallRecord) /\ calls[k] \in CallRecord
      BY CallsTyped
    <2>2. PICK r \in cResolved :
             /\ r[1] = <<0, calls[k].rid>> /\ r[1] = <<0, r[2].rid>>
             /\ calls' = [calls EXCEPT ![k] = [@ EXCEPT !.state = "answered", !.answer = r[2].tag]]
      BY <1>4, TakeEffect
    <2>3. Len(calls') = Len(calls)
      BY <1>4, TypeTake
    <2>4. CASE n = k
      <3> DEFINE c == [calls[k] EXCEPT !.state = "answered", !.answer = r[2].tag]
      <3>1. c.answer = r[2].tag /\ c.rid = calls[k].rid
        BY <2>1 DEF CallRecord
      <3>a. calls' = [calls EXCEPT ![k] = c]
        BY <2>2
      <3> HIDE DEF c
      <3>b. calls'[k] = c
        BY <2>1, <3>a
      <3>2. calls'[n].answer = r[2].tag /\ calls'[n].rid = calls[k].rid
        BY <2>4, <3>1, <3>b
      <3>3. r[2].rid = calls[k].rid
        BY <2>2
      <3>4. <<r[2].tag, r[2].rid>> \in Issued \cap WasServed
        BY DEF BelongToCalls, ServedSplit
      <3> QED BY <1>1, <3>2, <3>3, <3>4
    <2>5. CASE n # k
      <3>1. n \in 1..Len(calls) /\ calls'[n] = calls[n]
        BY <2>1, <2>2, <2>3, <2>5
      <3> QED BY <1>2, <3>1
    <2> QED BY <2>4, <2>5
  <1>5. ASSUME NEW k \in 1..Len(calls), GiveUp(k)
        PROVE  n \in 1..Len(calls) /\ calls'[n] = calls[n]
    <2>1. calls \in Seq(CallRecord) /\ calls[k] \in CallRecord
      BY CallsTyped
    <2>2. calls' = [calls EXCEPT ![k] = [@ EXCEPT !.state = "givenUp"]] /\ Len(calls') = Len(calls)
      BY <1>5, TypeGiveUp DEF GiveUp
    <2>3. n # k
      <3> SUFFICES ASSUME n = k PROVE FALSE
        OBVIOUS
      <3>1. calls'[n] = [calls[k] EXCEPT !.state = "givenUp"]
        BY <2>1, <2>2
      <3> QED BY <2>1, <3>1 DEF CallRecord
    <2> QED BY <2>1, <2>2, <2>3
  <1>6. CASE ClientSteps \/ ServerSteps \/ Reattach \/ DeliverToServer \/ DeliverToClient \/ Lose
             \/ UNCHANGED vars
    <2>1. UNCHANGED calls
      BY <1>6 DEF ClientSteps, ServerSteps, Reattach, DeliverToServer, DeliverToClient, Lose, vars,
         callVars
    <2> QED BY <1>2, <2>1
  <1>7. CASE \/ \E rid \in 1..MaxRequestId, chosen \in BOOLEAN : Send(rid, chosen)
             \/ \E k \in 1..Len(calls) : TakeResponse(k) \/ GiveUp(k)
    BY <1>2, <1>3, <1>4, <1>5, <1>7
  <1>8. (Call \/ \E rid \in 1..MaxRequestId : CallWith(rid))
            => \E rid \in 1..MaxRequestId, chosen \in BOOLEAN : Send(rid, chosen)
    BY DEF Call, CallWith, TypeInv, TypeOK
  <1> QED BY <1>6, <1>7, <1>8 DEF Next

AnswerInv == OrderInv /\ IdsSpread /\ AnswersFit

LEMMA AnswerInvNext == AnswerInv /\ [Next]_vars => AnswerInv'
  BY OrderInvNext, SpreadNext, AnswersNext DEF AnswerInv, OrderInv

LEMMA AnswerInvariant == Spec => []AnswerInv
  <1>1. Init => AnswerInv
    <2> SUFFICES ASSUME Init PROVE AnswerInv
      OBVIOUS
    <2>1. OrderInv
      BY TypeInit, OrderInit DEF OrderInv
    <2>2. calls = <<>>
      BY DEF Init
    <2>3. 1..Len(calls) = {}
      BY <2>2
    <2> QED BY <2>1, <2>3 DEF AnswerInv, IdsSpread, AnswersFit
  <1> QED BY <1>1, AnswerInvNext, PTL DEF Spec

\* Unless an id was used again, a call ends with its own answer.
LEMMA OwnAnswer == AnswerInv => OwnAnswerUnlessShared
  <1> SUFFICES ASSUME AnswerInv, NEW n \in 1..Len(calls), calls[n].state = "answered",
                      NEW k, k = calls[n].answer, k # n
               PROVE  /\ calls[k].rid = calls[n].rid
                      /\ \/ calls[k].chosen \/ calls[n].chosen
                         \/ k - n >= MaxRequestId \/ n - k >= MaxRequestId
    BY DEF OwnAnswerUnlessShared
  <1>1. k \in 1..Len(calls) /\ calls[k].rid = calls[n].rid
    BY DEF AnswerInv, AnswersFit, Issued
  <1>2. CASE ~ calls[k].chosen /\ ~ calls[n].chosen
    <2>1. \A i, j \in 1..Len(calls) :
             i < j /\ ~ calls[i].chosen /\ ~ calls[j].chosen /\ calls[i].rid = calls[j].rid
                => j - i >= MaxRequestId
      BY DEF AnswerInv, IdsSpread
    <2>2. CASE k < n
      BY <1>1, <1>2, <2>1, <2>2
    <2>3. CASE n < k
      BY <1>1, <1>2, <2>1, <2>3
    <2> QED BY <1>1, <2>2, <2>3
  <1> QED BY <1>1, <1>2

\* The answer a call ends with is its own, or that of a call under the same request id
\* that the application chose or that is a whole id space away (OwnAnswerUnlessShared):
\* late, lost and reattached responses included.
THEOREM OwnAnswers == Spec => []OwnAnswerUnlessShared
  BY AnswerInvariant, OwnAnswer, PTL

-----------------------------------------------------------------------------
(* The service the system implements                                        *)

\* No more calls than the bound allows, and none under an id of the application's when
\* it may choose none: the ids of two calls then differ.
ServiceInv ==
    /\ AnswerInv
    /\ Len(calls) <= MaxCalls
    /\ \A n \in 1..Len(calls) : ~ calls[n].chosen

LEMMA NoneChosen ==
    ASSUME MaxChosen = 0, ServiceInv, [Next]_vars
    PROVE  ServiceInv'
  <1>1. AnswerInv' /\ TypeInv
    BY AnswerInvNext DEF ServiceInv, AnswerInv, OrderInv
  <1>2. CASE Len(calls') = Len(calls) /\ nextRequestId' = nextRequestId
    BY <1>1, <1>2, CallsKept DEF ServiceInv
  <1>3. ASSUME NEW rid \in 1..MaxRequestId, CallWith(rid)
        PROVE  FALSE
    <2> DEFINE chosen == {n \in 1..Len(calls) : calls[n].chosen}
    <2>1. Len(calls) \in Nat
      BY <1>1, CallsKept
    <2>2. IsFiniteSet(1..Len(calls)) /\ chosen \subseteq 1..Len(calls)
      BY <2>1, FS_Interval
    <2>3. Cardinality(chosen) \in Nat
      BY <2>2, FS_Subset, FS_CardinalityType
    <2>4. Cardinality(chosen) < MaxChosen
      BY <1>3 DEF CallWith
    <2> HIDE DEF chosen
    <2> QED BY <2>3, <2>4
  <1>4. ASSUME Send(nextRequestId, FALSE)
        PROVE  ServiceInv'
    <2>1. nextRequestId \in 1..MaxRequestId
      BY <1>1 DEF TypeInv, TypeOK
    <2>2. Len(calls) < MaxCalls
      BY <1>4 DEF Send
    <2>3. /\ Len(calls) \in Nat /\ Len(calls') = Len(calls) + 1
          /\ \A n \in 1..Len(calls) : calls'[n] = calls[n]
          /\ calls'[Len(calls) + 1]
                = [rid |-> nextRequestId, chosen |-> FALSE, state |-> "open", answer |-> 0]
      BY <1>1, <1>4, <2>1, IssueEffect
    <2>4. MaxCalls \in Nat
      BY RpcAssumption
    <2>5. Len(calls') <= MaxCalls
      BY <2>2, <2>3, <2>4
    <2>6. ASSUME NEW n \in 1..Len(calls')
          PROVE  ~ calls'[n].chosen
      <3>1. CASE n \in 1..Len(calls)
        BY <2>3, <3>1 DEF ServiceInv
      <3>2. CASE n = Len(calls) + 1
        BY <2>3, <3>2
      <3> QED BY <2>3, <3>1, <3>2
    <2> QED BY <1>1, <2>5, <2>6 DEF ServiceInv
  <1>5. (\E rid \in 1..MaxRequestId : CallWith(rid)) \/ Send(nextRequestId, FALSE)
           \/ (Len(calls') = Len(calls) /\ nextRequestId' = nextRequestId)
    <2>1. CASE Call
      BY <2>1 DEF Call
    <2>2. ASSUME NEW k \in 1..Len(calls), TakeResponse(k) \/ GiveUp(k)
          PROVE  Len(calls') = Len(calls) /\ nextRequestId' = nextRequestId
      BY <1>1, <2>2, TypeTake, TypeGiveUp DEF TakeResponse, GiveUp
    <2>3. CASE ClientSteps \/ ServerSteps \/ Reattach \/ DeliverToServer \/ DeliverToClient
                  \/ Lose \/ UNCHANGED vars
      BY <2>3 DEF ClientSteps, ServerSteps, Reattach, DeliverToServer, DeliverToClient, Lose,
         vars, callVars
    <2> QED BY <2>1, <2>2, <2>3 DEF Next
  <1> QED BY <1>2, <1>3, <1>4, <1>5

LEMMA NoIdTwice ==
    ASSUME MaxCalls <= MaxRequestId, ServiceInv
    PROVE  IdsUsedOnce
  <1> SUFFICES ASSUME NEW i \in 1..Len(calls), NEW j \in 1..Len(calls), i < j,
                      calls[i].rid = calls[j].rid
               PROVE  FALSE
    <2>1. (\A i, j \in 1..Len(calls) : i < j => calls[i].rid # calls[j].rid) => IdsUsedOnce
      BY DEF IdsUsedOnce
    <2> QED BY <2>1
  <1>1. ~ calls[i].chosen /\ ~ calls[j].chosen
    BY DEF ServiceInv
  <1>2. j - i >= MaxRequestId
    BY <1>1 DEF ServiceInv, AnswerInv, IdsSpread
  <1>3. Len(calls) <= MaxCalls /\ MaxCalls \in Nat /\ MaxRequestId \in Nat
    BY RpcAssumption DEF ServiceInv
  <1>4. Len(calls) \in Nat
    BY CallsTyped, LenProperties DEF ServiceInv, AnswerInv, OrderInv
  <1> QED BY <1>2, <1>3, <1>4

WasOpen == {n \in 1..Len(calls) : calls[n].state = "open"}
HandlersRan == {served[i] : i \in 1..Len(served)}
AnswersGiven == {<<n, calls[n].answer>> : n \in {k \in 1..Len(calls) : calls[k].state = "answered"}}

\* Nothing of the service changes.
Unseen ==
    /\ Len(calls') = Len(calls) /\ WasOpen' = WasOpen
    /\ HandlersRan' = HandlersRan /\ AnswersGiven' = AnswersGiven

LEMMA UnseenStutters == Unseen => UNCHANGED Service!serviceVars
  BY DEF Unseen, WasOpen, HandlersRan, AnswersGiven, Service!serviceVars

LEMMA SendIssues ==
    ASSUME ServiceInv, NEW rid \in 1..MaxRequestId, NEW chosen \in BOOLEAN, Send(rid, chosen)
    PROVE  Service!Issue
  <1>1. TypeInv /\ MaxCalls \in Nat
    BY RpcAssumption DEF ServiceInv, AnswerInv, OrderInv
  <1>2. Len(calls) < MaxCalls /\ UNCHANGED served
    BY DEF Send
  <1>3. /\ Len(calls) \in Nat /\ Len(calls') = Len(calls) + 1
        /\ \A n \in 1..Len(calls) : calls'[n] = calls[n]
        /\ calls'[Len(calls) + 1] = [rid |-> rid, chosen |-> chosen, state |-> "open", answer |-> 0]
    BY <1>1, IssueEffect
  <1>4. Len(calls) + 1 \in 1..MaxCalls
    BY <1>1, <1>2, <1>3
  <1>5. 1..Len(calls') = (1..Len(calls)) \cup {Len(calls) + 1}
    BY <1>3
  <1>6. calls'[Len(calls) + 1].state = "open"
    BY <1>3
  <1>7. WasOpen' = WasOpen \cup {Len(calls) + 1}
    BY <1>3, <1>5, <1>6 DEF WasOpen
  <1>8. {k \in 1..Len(calls') : calls'[k].state = "answered"}
           = {k \in 1..Len(calls) : calls[k].state = "answered"}
    BY <1>3, <1>5, <1>6
  <1>9. AnswersGiven' = AnswersGiven
    BY <1>3, <1>8 DEF AnswersGiven
  <1>10. HandlersRan' = HandlersRan
    BY <1>2 DEF HandlersRan
  <1> QED BY <1>3, <1>4, <1>7, <1>9, <1>10
      DEF Service!Issue, WasOpen, AnswersGiven, HandlersRan

LEMMA GiveUpGivesUp ==
    ASSUME ServiceInv, NEW n \in 1..Len(calls), GiveUp(n)
    PROVE  Service!GiveUp(n)
  <1>1. calls \in Seq(CallRecord) /\ calls[n] \in CallRecord
    BY CallsTyped DEF ServiceInv, AnswerInv, OrderInv
  <1> DEFINE c == [calls[n] EXCEPT !.state = "givenUp"]
  <1>2. calls' = [calls EXCEPT ![n] = c] /\ UNCHANGED served /\ calls[n].state = "open"
    BY DEF GiveUp
  <1>3. c.state = "givenUp"
    BY <1>1 DEF CallRecord
  <1> HIDE DEF c
  <1>4. Len(calls') = Len(calls) /\ calls'[n] = c
        /\ \A k \in 1..Len(calls) : k # n => calls'[k] = calls[k]
    BY <1>1, <1>2
  <1>5. WasOpen' = WasOpen \ {n} /\ n \in WasOpen
    BY <1>2, <1>3, <1>4 DEF WasOpen
  <1>6. {k \in 1..Len(calls') : calls'[k].state = "answered"}
           = {k \in 1..Len(calls) : calls[k].state = "answered"}
    BY <1>2, <1>3, <1>4
  <1>7. \A k \in {k \in 1..Len(calls) : calls[k].state = "answered"} : calls'[k] = calls[k]
    BY <1>2, <1>4
  <1>8. AnswersGiven' = AnswersGiven
    BY <1>6, <1>7 DEF AnswersGiven
  <1>9. HandlersRan' = HandlersRan
    BY <1>2 DEF HandlersRan
  <1> QED BY <1>4, <1>5, <1>8, <1>9 DEF Service!GiveUp, WasOpen, AnswersGiven, HandlersRan

LEMMA TakeFinishes ==
    ASSUME MaxCalls <= MaxRequestId, ServiceInv, NEW n \in 1..Len(calls), TakeResponse(n)
    PROVE  Service!Finish(n)
  <1>1. TypeInv
    BY DEF ServiceInv, AnswerInv, OrderInv
  <1>2. calls \in Seq(CallRecord) /\ calls[n] \in CallRecord
    BY <1>1, CallsTyped
  <1>3. PICK r \in cResolved :
           /\ r[1] = <<0, calls[n].rid>> /\ r[1] = <<0, r[2].rid>>
           /\ calls[n].state = "open" /\ UNCHANGED served
           /\ calls' = [calls EXCEPT ![n] = [@ EXCEPT !.state = "answered", !.answer = r[2].tag]]
    BY <1>1, TakeEffect
  <1>4. <<r[2].tag, r[2].rid>> \in Issued \cap WasServed
    BY DEF ServiceInv, AnswerInv, OrderInv, BelongToCalls, ServedSplit
  <1>5. r[2].rid = calls[n].rid
    BY <1>3
  <1>6. r[2].tag \in 1..Len(calls) /\ calls[r[2].tag].rid = calls[n].rid
    BY <1>4, <1>5 DEF Issued
  <1>7. r[2].tag = n
    BY <1>6, NoIdTwice DEF IdsUsedOnce
  <1>8. n \in HandlersRan
    BY <1>4, <1>7 DEF WasServed, HandlersRan
  <1> DEFINE c == [calls[n] EXCEPT !.state = "answered", !.answer = n]
  <1>9. c.state = "answered" /\ c.answer = n
    BY <1>2 DEF CallRecord
  <1>10. calls' = [calls EXCEPT ![n] = c]
    BY <1>3, <1>7
  <1> HIDE DEF c
  <1>11. Len(calls') = Len(calls) /\ calls'[n] = c
         /\ \A k \in 1..Len(calls) : k # n => calls'[k] = calls[k]
    BY <1>2, <1>10
  <1>12. WasOpen' = WasOpen \ {n} /\ n \in WasOpen
    BY <1>3, <1>9, <1>11 DEF WasOpen
  <1> DEFINE had == {k \in 1..Len(calls) : calls[k].state = "answered"}
  <1>13. {k \in 1..Len(calls') : calls'[k].state = "answered"} = had \cup {n}
         /\ n \notin had /\ \A k \in had : calls'[k].answer = calls[k].answer
    BY <1>3, <1>9, <1>11
  <1>14. AnswersGiven' = {<<k, calls'[k].answer>> : k \in had \cup {n}}
         /\ AnswersGiven = {<<k, calls[k].answer>> : k \in had}
    BY <1>13 DEF AnswersGiven
  <1> HIDE DEF had
  <1>15. AnswersGiven' = AnswersGiven \cup {<<n, n>>}
    BY <1>9, <1>11, <1>13, <1>14
  <1>16. HandlersRan' = HandlersRan
    BY <1>3 DEF HandlersRan
  <1> QED BY <1>8, <1>11, <1>12, <1>15, <1>16 DEF Service!Finish, WasOpen, AnswersGiven, HandlersRan

LEMMA ServeServes ==
    ASSUME ServiceInv, ServerSteps
    PROVE  Unseen \/ \E n \in 1..Len(calls) : Service!Serve(n)
  <1>1. TypeInv
    BY DEF ServiceInv, AnswerInv, OrderInv
  <1>2. UNCHANGED calls
    BY <1>1, ServerEffect
  <1>3. WasOpen' = WasOpen /\ AnswersGiven' = AnswersGiven /\ Len(calls') = Len(calls)
    BY <1>2 DEF WasOpen, AnswersGiven
  <1>4. CASE UNCHANGED served
    BY <1>3, <1>4 DEF Unseen, HandlersRan
  <1>5. ASSUME NEW m, MovesOn(Held, Held', 3, m), served' = Append(served, Held[4][1].tag)
        PROVE  \E n \in 1..Len(calls) : Service!Serve(n)
    <2> DEFINE n == Held[4][1].tag
    <2>1. Typed(Held) /\ 3 + 1 = 4 /\ 4 \in Places /\ 4 \in 4..8
      BY <1>1, HeldTyped DEF Places
    <2>2. Held[4] # <<>>
      BY <1>5, <2>1 DEF MovesOn
    <2>3. Held[4] \in Seq(Message)
      BY <2>1 DEF Typed
    <2>4. 1 \in 1..Len(Held[4])
      BY <2>2, <2>3, EmptySeq, LenProperties
    <2>5. <<n, Held[4][1].rid>> \in Issued /\ <<n, Held[4][1].rid>> \in AfterServed
      BY <2>1, <2>4 DEF ServiceInv, AnswerInv, OrderInv, BelongToCalls, ServedSplit, Within
    <2>6. n \in 1..Len(calls) /\ \A k \in 1..Len(served) : served[k] < n
      BY <2>5 DEF Issued, AfterServed
    <2> HIDE DEF n
    <2>7. served \in Seq(1..MaxCalls) /\ Len(calls) \in Nat
      BY <1>1, CallsTyped, LenProperties DEF TypeInv, TypeOK
    <2>8. served' = Append(served, n)
      BY <1>5 DEF n
    <2>9. Len(served') = Len(served) + 1 /\ served'[Len(served) + 1] = n /\ Len(served) \in Nat
          /\ \A k \in 1..Len(served) : served'[k] = served[k]
      BY <2>7, <2>8
    <2>10. 1..Len(served') = (1..Len(served)) \cup {Len(served) + 1}
      BY <2>9
    <2>11. HandlersRan' = HandlersRan \cup {n}
      BY <2>9, <2>10 DEF HandlersRan
    <2>12. \A k \in 1..Len(served) : served[k] # n
      BY <2>6, <2>7, LenProperties, ElementOfSeq
    <2>13. n \notin HandlersRan
      BY <2>12 DEF HandlersRan
    <2> QED BY <1>3, <2>6, <2>11, <2>13 DEF Service!Serve, WasOpen, AnswersGiven, HandlersRan
  <1> QED BY <1>1, <1>4, <1>5, HeldServer

LEMMA RestUnseen ==
    ASSUME \/ ClientSteps \/ Reattach \/ DeliverToServer \/ DeliverToClient \/ Lose
           \/ UNCHANGED vars
    PROVE  Unseen
  <1>1. UNCHANGED <<calls, served>>
    BY DEF ClientSteps, Reattach, DeliverToServer, DeliverToClient, Lose, vars, callVars
  <1> QED BY <1>1 DEF Unseen, WasOpen, HandlersRan, AnswersGiven

LEMMA StepServes ==
    ASSUME MaxCalls <= MaxRequestId, ServiceInv, [Next]_vars
    PROVE  [Service!ServiceNext]_Service!serviceVars
  <1>1. /\ nextRequestId \in 1..MaxRequestId /\ Len(calls) \in Nat /\ MaxCalls \in Nat
        /\ Len(calls) <= MaxCalls
    BY RpcAssumption, CallsTyped, LenProperties DEF ServiceInv, AnswerInv, OrderInv, TypeInv, TypeOK
  <1>2. 1..Len(calls) \subseteq 1..MaxCalls
    BY <1>1
  <1>3. ASSUME NEW rid \in 1..MaxRequestId, NEW chosen \in BOOLEAN, Send(rid, chosen)
        PROVE  Service!ServiceNext
    BY <1>3, SendIssues DEF Service!ServiceNext
  <1>4. ASSUME NEW n \in 1..Len(calls), TakeResponse(n) \/ GiveUp(n)
        PROVE  Service!ServiceNext
    <2>1. n \in 1..MaxCalls
      BY <1>2
    <2>2. Service!Finish(n) \/ Service!GiveUp(n)
      BY <1>4, TakeFinishes, GiveUpGivesUp
    <2> QED BY <2>1, <2>2 DEF Service!ServiceNext
  <1>5. CASE ServerSteps
    <2>1. Unseen \/ \E n \in 1..MaxCalls : Service!Serve(n)
      BY <1>2, <1>5, ServeServes
    <2> QED BY <2>1, UnseenStutters DEF Service!ServiceNext
  <1>6. CASE ClientSteps \/ Reattach \/ DeliverToServer \/ DeliverToClient \/ Lose \/ UNCHANGED vars
    BY <1>6, RestUnseen, UnseenStutters
  <1>7. CASE Call \/ \E rid \in 1..MaxRequestId : CallWith(rid)
    BY <1>1, <1>3, <1>7 DEF Call, CallWith
  <1> QED BY <1>3, <1>4, <1>5, <1>6, <1>7 DEF Next

\* As long as there are no more calls than request ids and the application chooses none,
\* every step of the client, the server and the connection is a step of the service that
\* serves each call at most once and ends it with its own answer, or none at all
\* (ImplementsService): losses, calls given up and new transports included.
THEOREM Implements ==
    ASSUME MaxCalls <= MaxRequestId, MaxChosen = 0
    PROVE  Spec => ImplementsService
  <1>1. Init => ServiceInv /\ Service!ServiceInit
    <2> SUFFICES ASSUME Init PROVE ServiceInv /\ Service!ServiceInit
      OBVIOUS
    <2>1. calls = <<>> /\ served = <<>>
      BY DEF Init
    <2>2. Len(calls) = 0 /\ 1..Len(calls) = {} /\ Len(served) = 0 /\ 1..Len(served) = {}
      BY <2>1
    <2>3. OrderInv
      BY TypeInit, OrderInit DEF OrderInv
    <2>4. AnswerInv
      BY <2>2, <2>3 DEF AnswerInv, IdsSpread, AnswersFit
    <2>5. Len(calls) <= MaxCalls
      BY <2>2, RpcAssumption
    <2>6. ServiceInv
      BY <2>2, <2>4, <2>5 DEF ServiceInv
    <2>7. Service!ServiceInit
      BY <2>2 DEF Service!ServiceInit
    <2> QED BY <2>6, <2>7
  <1>2. ServiceInv /\ [Next]_vars => ServiceInv'
    BY NoneChosen
  <1>3. ServiceInv /\ [Next]_vars => [Service!ServiceNext]_Service!serviceVars
    BY StepServes
  <1> QED BY <1>1, <1>2, <1>3, PTL DEF Spec, ImplementsService, Service!ServiceSpec

-----------------------------------------------------------------------------
(* A response is expected when it arrives                                   *)

\* The calls whose response the client's table is ready for.
Expected == {p \in Tickets : p[1] > before => <<0, p[2]>> \in cPending}

\* Every message there is, in the client's own queues too, is expected.
AllExpected == IdsUsedOnce => Within(Held, Places, Expected)

LEMMA OnceBefore == TypeInv /\ [Next]_vars /\ IdsUsedOnce' => IdsUsedOnce
  <1> SUFFICES ASSUME TypeInv, [Next]_vars, IdsUsedOnce',
                      NEW i \in 1..Len(calls), NEW j \in 1..Len(calls), calls[i].rid = calls[j].rid
               PROVE  i = j
    BY DEF IdsUsedOnce
  <1>1. i \in 1..Len(calls') /\ j \in 1..Len(calls') /\ calls'[i].rid = calls'[j].rid
    BY CallsKept
  <1> QED BY <1>1 DEF IdsUsedOnce

\* Unless a call is issued, no message appears that was not there.
LEMMA KeepsWithin ==
    ASSUME TypeInv, [Next]_vars, Len(calls') = Len(calls), NEW G, Within(Held, Places, G)
    PROVE  Within(Held', Places, G)
  <1>1. Typed(Held) /\ Len(calls) \in Nat
    BY HeldTyped, CallsKept
  <1>2. ASSUME NEW a \in 1..7, NEW m, MovesOn(Held, Held', a, m) PROVE Within(Held', Places, G)
    <2>1. a + 1 \in Places
      BY DEF Places
    <2>2. <<m.tag, m.rid>> \in G
      BY <1>1, <1>2, <2>1, MovesOnSame
    <2> QED BY <1>1, <1>2, <2>2, MovesOnWithin
  <1>3. \A rid : <<Len(calls) + 1, rid>> \notin Issued'
    BY <1>1 DEF Issued
  <1>4. 3 \in 1..7
    OBVIOUS
  <1> QED BY <1>1, <1>2, <1>3, <1>4, HeldStep, LeavesWithin, EmptiesWithin

\* The message that arrives at the client takes its request id with it.
LEMMA OthersRemain ==
    ASSUME TypeInv, BelongToCalls, Ordered, IdsUsedOnce, NEW R, Leaves(Held, R, 1)
    PROVE  Within(R, Places, {p \in Tickets : p[2] # Held[1][1].rid})
  <1>1. Typed(Held) /\ 1 \in Places
    BY HeldTyped DEF Places
  <1>2. /\ Len(R[1]) = Len(Held[1]) - 1 /\ Len(Held[1]) \in Nat \ {0}
        /\ \A i \in 1..Len(R[1]) : R[1][i] = Held[1][i + 1]
        /\ \A b \in Places \ {1} : R[b] = Held[b]
    BY <1>1, LeavesFrom
  <1>3. Within(Held, Places, Tickets) /\ Within(Held, Places, Issued)
    BY HeldTickets DEF BelongToCalls
  <1>4. ASSUME NEW b \in Places, NEW j \in 1..Len(Held[b]), b # 1 \/ 1 < j
        PROVE  <<Held[b][j].tag, Held[b][j].rid>> \in {p \in Tickets : p[2] # Held[1][1].rid}
    <2>1. 1 \in 1..Len(Held[1])
      BY <1>2
    <2>2. 1 < b \/ (1 = b /\ 1 < j)
      BY <1>4 DEF Places
    <2>3. Held[1][1].tag < Held[b][j].tag
      BY <1>1, <2>1, <2>2 DEF Ordered, InOrder
    <2>4. <<Held[1][1].tag, Held[1][1].rid>> \in Issued
          /\ <<Held[b][j].tag, Held[b][j].rid>> \in Issued
          /\ <<Held[b][j].tag, Held[b][j].rid>> \in Tickets
          /\ <<Held[1][1].tag, Held[1][1].rid>> \in Tickets
      BY <1>1, <1>3, <2>1 DEF Within
    <2>5. Held[1][1].tag # Held[b][j].tag
      BY <2>3, <2>4 DEF Tickets
    <2>6. Held[b][j].rid # Held[1][1].rid
      BY <2>4, <2>5 DEF Issued, IdsUsedOnce
    <2> QED BY <2>4, <2>6
  <1>5. ASSUME NEW b \in Places, NEW i \in 1..Len(R[b])
        PROVE  <<R[b][i].tag, R[b][i].rid>> \in {p \in Tickets : p[2] # Held[1][1].rid}
    <2>1. CASE b = 1
      <3>1. i + 1 \in 1..Len(Held[1]) /\ 1 < i + 1 /\ R[b][i] = Held[1][i + 1]
        BY <1>2, <2>1
      <3> QED BY <1>1, <1>4, <3>1
    <2>2. CASE b # 1
      <3>1. R[b] = Held[b]
        BY <1>2, <2>2
      <3> QED BY <1>4, <2>2, <3>1
    <2> QED BY <2>1, <2>2
  <1> QED BY <1>5 DEF Within

LEMMA ExpectedNext ==
    TypeInv /\ BelongToCalls /\ Ordered /\ AllExpected /\ [Next]_vars => AllExpected'
  <1> SUFFICES ASSUME TypeInv, BelongToCalls, Ordered, AllExpected, [Next]_vars, IdsUsedOnce'
               PROVE  Within(Held', Places, Expected')
    BY DEF AllExpected
  <1>1. IdsUsedOnce /\ Within(Held, Places, Expected) /\ Within(Held, Places, Tickets)
        /\ Within(Held, Places, Issued) /\ Typed(Held) /\ Len(calls) \in Nat
    BY OnceBefore, HeldTickets, HeldTyped, CallsKept DEF AllExpected, BelongToCalls
  <1>2. Tickets' = Tickets
    BY DEF Tickets
  <1>3. CASE Len(calls') = Len(calls) /\ UNCHANGED <<cPending, before>>
    <2>1. Expected' = Expected
      BY <1>2, <1>3 DEF Expected
    <2> QED BY <1>1, <1>3, <2>1, KeepsWithin
  <1>4. ASSUME NEW rid \in 1..MaxRequestId, NEW chosen \in BOOLEAN, Send(rid, chosen)
        PROVE  Within(Held', Places, Expected')
    <2> DEFINE m == Request(Len(calls) + 1, rid)
    <2>1. cPending' = cPending \cup {<<0, rid>>} /\ before' = before /\ Len(calls) < MaxCalls
      BY <1>4, SendEffect
    <2>2. Expected \subseteq Expected'
      BY <2>1 DEF Expected
    <2>3. Joins(Held, Held', m)
      BY <1>4, HeldSend
    <2>4. m.tag = Len(calls) + 1 /\ m.rid = rid
      BY DEF Request
    <2>5. MaxCalls \in Nat
      BY RpcAssumption
    <2>6. <<m.tag, m.rid>> \in Tickets
      BY <1>1, <2>1, <2>4, <2>5 DEF Tickets
    <2>7. <<m.tag, m.rid>> \in Expected'
      BY <1>2, <2>1, <2>4, <2>6 DEF Expected
    <2> HIDE DEF m
    <2>8. Within(Held, Places, Expected')
      BY <1>1, <2>2, WithinLarger
    <2> QED BY <2>3, <2>7, <2>8, JoinsWithin
  <1>5. CASE DeliverToClient
    <2> DEFINE m == Held[1][1]
               G == Expected \cap {p \in Tickets : p[2] # m.rid}
    <2>1. Leaves(Held, Held', 1) /\ Head(sWire) = m
      BY <1>5, HeldDeliverToClient
    <2>2. UNCHANGED before /\ cPending \ {<<0, m.rid>>} \subseteq cPending' /\ Len(calls') = Len(calls)
      BY <1>5, <2>1, DeliverToClientEffect
    <2>3. Within(Held', Places, {p \in Tickets : p[2] # m.rid})
      BY <1>1, <2>1, OthersRemain
    <2>4. Within(Held', Places, Expected)
      BY <1>1, <2>2, KeepsWithin
    <2>5. Within(Held', Places, G)
      BY <2>3, <2>4 DEF Within
    <2>6. ASSUME NEW p \in G PROVE p \in Expected'
      <3>1. p \in Tickets /\ p[2] # m.rid /\ (p[1] > before => <<0, p[2]>> \in cPending)
        BY <2>6 DEF Expected
      <3>2. p[1] > before => <<0, p[2]>> \in cPending'
        BY <2>2, <3>1
      <3> QED BY <1>2, <2>2, <3>1, <3>2 DEF Expected
    <2> HIDE DEF G
    <2>7. G \subseteq Expected'
      BY <2>6
    <2> QED BY <2>5, <2>7, WithinLarger
  <1>6. CASE Reattach
    <2> DEFINE G == Tickets \cap Issued
    <2>1. before' = Len(calls) /\ UNCHANGED calls
      BY <1>6, ReattachEffect
    <2>2. Within(Held, Places, G)
      BY <1>1 DEF Within
    <2>3. G \subseteq Expected'
      BY <1>1, <1>2, <2>1 DEF Expected, Issued
    <2> HIDE DEF G
    <2>4. Within(Held', Places, G)
      BY <2>1, <2>2, KeepsWithin
    <2> QED BY <2>3, <2>4, WithinLarger
  <1>7. CASE Call \/ \E rid \in 1..MaxRequestId : CallWith(rid)
    BY <1>4, <1>7 DEF Call, CallWith, TypeInv, TypeOK
  <1>8. CASE \E n \in 1..Len(calls) : TakeResponse(n) \/ GiveUp(n)
    <2> PICK n \in 1..Len(calls) : TakeResponse(n) \/ GiveUp(n)
      BY <1>8
    <2>1. UNCHANGED <<cPending, before>>
      BY TakeEffect DEF GiveUp, clientVars
    <2> QED BY <1>3, <2>1, TypeTake, TypeGiveUp
  <1>9. CASE ClientSteps \/ ServerSteps \/ DeliverToServer \/ Lose \/ UNCHANGED vars
    <2>1. UNCHANGED <<calls, cPending, before>>
      BY <1>9, ClientEffect, ServerEffect, DeliverToServerEffect, LoseEffect
         DEF vars, callVars, clientVars
    <2> QED BY <1>3, <2>1
  <1> QED BY <1>5, <1>6, <1>7, <1>8, <1>9 DEF Next

\* What the queues of the property are, put one behind the other.
Distinct(s) == \A i, j \in 1..Len(s) : s[i].tag = s[j].tag => i = j
Apart(s, t) == \A i \in 1..Len(s), j \in 1..Len(t) : s[i].tag # t[j].tag
Carries(s, G) == \A i \in 1..Len(s) : <<s[i].tag, s[i].rid>> \in G

LEMMA Joined ==
    ASSUME NEW S, NEW s \in Seq(S), NEW t \in Seq(S)
    PROVE  /\ s \o t \in Seq(S)
           /\ Distinct(s) /\ Distinct(t) /\ Apart(s, t) => Distinct(s \o t)
           /\ \A G : Carries(s, G) /\ Carries(t, G) => Carries(s \o t, G)
           /\ \A u : Apart(s, u) /\ Apart(t, u) => Apart(s \o t, u)
  <1> DEFINE st == s \o t
  <1>1. /\ st \in Seq(S) /\ Len(st) = Len(s) + Len(t) /\ Len(s) \in Nat /\ Len(t) \in Nat
        /\ \A i \in 1..Len(s) + Len(t) : st[i] = IF i <= Len(s) THEN s[i] ELSE t[i - Len(s)]
    BY ConcatProperties, LenProperties
  <1> HIDE DEF st
  <1>2. \A i \in 1..Len(st) : \/ i \in 1..Len(s) /\ st[i] = s[i]
                              \/ /\ i - Len(s) \in 1..Len(t) /\ st[i] = t[i - Len(s)]
    BY <1>1
  <1>3. ASSUME Distinct(s), Distinct(t), Apart(s, t), NEW i \in 1..Len(st), NEW j \in 1..Len(st),
               st[i].tag = st[j].tag
        PROVE  i = j
    <2>1. ASSUME i \in 1..Len(s), st[i] = s[i], j \in 1..Len(s), st[j] = s[j] PROVE i = j
      BY <1>3, <2>1 DEF Distinct
    <2>2. ASSUME i - Len(s) \in 1..Len(t), st[i] = t[i - Len(s)],
                 j - Len(s) \in 1..Len(t), st[j] = t[j - Len(s)]
          PROVE  i = j
      <3>1. i - Len(s) = j - Len(s)
        BY <1>3, <2>2 DEF Distinct
      <3> QED BY <1>1, <3>1
    <2>3. ASSUME i \in 1..Len(s), st[i] = s[i], j - Len(s) \in 1..Len(t), st[j] = t[j - Len(s)]
          PROVE  FALSE
      BY <1>3, <2>3 DEF Apart
    <2>4. ASSUME j \in 1..Len(s), st[j] = s[j], i - Len(s) \in 1..Len(t), st[i] = t[i - Len(s)]
          PROVE  FALSE
      BY <1>3, <2>4 DEF Apart
    <2> QED BY <1>2, <2>1, <2>2, <2>3, <2>4
  <1>4. ASSUME NEW G, Carries(s, G), Carries(t, G) PROVE Carries(st, G)
    BY <1>2, <1>4 DEF Carries
  <1>5. ASSUME NEW u, Apart(s, u), Apart(t, u) PROVE Apart(st, u)
    BY <1>2, <1>5 DEF Apart
  <1>6. st = s \o t
    BY DEF st
  <1> QED BY <1>1, <1>3, <1>4, <1>5, <1>6 DEF Distinct

LEMMA PlacesApart ==
    ASSUME TypeInv, Ordered
    PROVE  /\ \A a \in Places : Distinct(Held[a])
           /\ \A a, b \in Places : a # b => Apart(Held[a], Held[b])
  <1>1. Typed(Held) /\ Within(Held, Places, Tickets)
    BY HeldTyped, HeldTickets
  <1>2. ASSUME NEW a \in Places, NEW i \in 1..Len(Held[a]) PROVE Held[a][i].tag \in Nat
    <2>1. <<Held[a][i].tag, Held[a][i].rid>> \in (1..MaxCalls) \X (1..MaxRequestId)
      BY <1>1 DEF Within, Tickets
    <2> QED BY <2>1
  <1>3. \A a \in Places : Len(Held[a]) \in Nat
    BY <1>1, TypedLength
  <1>4. ASSUME NEW a \in Places, NEW i \in 1..Len(Held[a]), NEW j \in 1..Len(Held[a]),
               Held[a][i].tag = Held[a][j].tag
        PROVE  i = j
    <2>1. ~ (i < j) /\ ~ (j < i)
      BY <1>2, <1>4 DEF Ordered, InOrder
    <2> QED BY <2>1
  <1>5. ASSUME NEW a \in Places, NEW b \in Places, a # b, NEW i \in 1..Len(Held[a]),
               NEW j \in 1..Len(Held[b])
        PROVE  Held[a][i].tag # Held[b][j].tag
    <2>1. a < b \/ b < a
      BY <1>5 DEF Places
    <2> QED BY <1>2, <2>1 DEF Ordered, InOrder
  <1> QED BY <1>4, <1>5 DEF Distinct, Apart

LEMMA TravellingIs ==
    ASSUME TypeInv, Ordered, NEW G, Within(Held, Places, G)
    PROVE  Distinct(Travelling) /\ Carries(Travelling, G)
  <1>1. /\ sWire \in Seq(Message) /\ sOutbound \in Seq(Message) /\ sResults \in Seq(Message)
        /\ sTasks \in Seq(Message) /\ sEvents \in Seq(Message) /\ cWire \in Seq(Message)
    BY HeldTyped, HeldIs DEF Typed
  <1>2. /\ Distinct(sWire) /\ Distinct(sOutbound) /\ Distinct(sResults) /\ Distinct(sTasks)
        /\ Distinct(sEvents) /\ Distinct(cWire)
        /\ Apart(cWire, sEvents) /\ Apart(cWire, sTasks) /\ Apart(cWire, sResults)
        /\ Apart(cWire, sOutbound) /\ Apart(cWire, sWire)
        /\ Apart(sEvents, sTasks) /\ Apart(sEvents, sResults) /\ Apart(sEvents, sOutbound)
        /\ Apart(sEvents, sWire)
        /\ Apart(sTasks, sResults) /\ Apart(sTasks, sOutbound) /\ Apart(sTasks, sWire)
        /\ Apart(sResults, sOutbound) /\ Apart(sResults, sWire) /\ Apart(sOutbound, sWire)
    BY PlacesApart, HeldIs
  <1>3. /\ Carries(sWire, G) /\ Carries(sOutbound, G) /\ Carries(sResults, G) /\ Carries(sTasks, G)
        /\ Carries(sEvents, G) /\ Carries(cWire, G)
    BY HeldIs DEF Within, Carries
  <1> DEFINE p2 == cWire \o sEvents
             p3 == p2 \o sTasks
             p4 == p3 \o sResults
             p5 == p4 \o sOutbound
             p6 == p5 \o sWire
  <1>4. /\ p2 \in Seq(Message) /\ Distinct(p2) /\ Carries(p2, G)
        /\ Apart(p2, sTasks) /\ Apart(p2, sResults) /\ Apart(p2, sOutbound) /\ Apart(p2, sWire)
    BY <1>1, <1>2, <1>3, Joined
  <1> HIDE DEF p2
  <1>5. /\ p3 \in Seq(Message) /\ Distinct(p3) /\ Carries(p3, G)
        /\ Apart(p3, sResults) /\ Apart(p3, sOutbound) /\ Apart(p3, sWire)
    BY <1>1, <1>2, <1>3, <1>4, Joined
  <1> HIDE DEF p3
  <1>6. /\ p4 \in Seq(Message) /\ Distinct(p4) /\ Carries(p4, G)
        /\ Apart(p4, sOutbound) /\ Apart(p4, sWire)
    BY <1>1, <1>2, <1>3, <1>5, Joined
  <1> HIDE DEF p4
  <1>7. p5 \in Seq(Message) /\ Distinct(p5) /\ Carries(p5, G) /\ Apart(p5, sWire)
    BY <1>1, <1>2, <1>3, <1>6, Joined
  <1> HIDE DEF p5
  <1>8. Distinct(p6) /\ Carries(p6, G)
    BY <1>1, <1>2, <1>3, <1>7, Joined
  <1>9. p6 = Travelling
    BY DEF p2, p3, p4, p5, p6, Travelling
  <1> HIDE DEF p6
  <1> QED BY <1>8, <1>9

\* Every message on the way is a client's, of session 0.
LEMMA SessionZero == TypeInv => \A i \in 1..Len(Travelling) : Travelling[i].sid = 0
  <1> SUFFICES ASSUME TypeInv PROVE \A i \in 1..Len(Travelling) : Travelling[i].sid = 0
    OBVIOUS
  <1>1. /\ sWire \in Seq(Message) /\ sOutbound \in Seq(Message) /\ sResults \in Seq(Message)
        /\ sTasks \in Seq(Message) /\ sEvents \in Seq(Message) /\ cWire \in Seq(Message)
    BY HeldTyped, HeldIs DEF Typed
  <1>2. Travelling \in Seq(Message)
    BY <1>1, ConcatProperties DEF Travelling
  <1>3. \A m \in Message : m.sid = 0
    BY DEF Message, RequestMessage, ResponseMessage
  <1> QED BY <1>2, <1>3, ElementOfSeq

ExpectedInv == OrderInv /\ AllExpected

LEMMA InvExpects == ExpectedInv => ResponseIsExpected
  <1> SUFFICES ASSUME ExpectedInv, IdsUsedOnce, NEW i \in 1..Len(Travelling)
               PROVE  /\ Travelling[i].tag > before
                            => <<Travelling[i].sid, Travelling[i].rid>> \in cPending
                      /\ \A j \in 1..Len(Travelling) :
                            Travelling[j].rid = Travelling[i].rid => i = j
    BY DEF ResponseIsExpected
  <1>1. TypeInv /\ Ordered /\ Within(Held, Places, Expected) /\ Within(Held, Places, Issued)
    BY DEF ExpectedInv, OrderInv, AllExpected, BelongToCalls
  <1>2. Distinct(Travelling) /\ Carries(Travelling, Expected) /\ Carries(Travelling, Issued)
    BY <1>1, TravellingIs
  <1>3. Travelling[i].sid = 0
    BY <1>1, SessionZero
  <1>4. Travelling[i].tag > before => <<0, Travelling[i].rid>> \in cPending
    BY <1>2 DEF Carries, Expected
  <1>5. ASSUME NEW j \in 1..Len(Travelling), Travelling[j].rid = Travelling[i].rid
        PROVE  i = j
    <2>1. <<Travelling[i].tag, Travelling[i].rid>> \in Issued
          /\ <<Travelling[j].tag, Travelling[j].rid>> \in Issued
      BY <1>2 DEF Carries
    <2>2. Travelling[i].tag = Travelling[j].tag
      BY <1>5, <2>1 DEF Issued, IdsUsedOnce
    <2> QED BY <1>2, <2>2 DEF Distinct
  <1> QED BY <1>3, <1>4, <1>5

\* Until an id is used twice, every call is on its way at most once, as a request or as
\* a response, and the table expects it as long as it is (ResponseIsExpected).
THEOREM ResponsesExpected == Spec => []ResponseIsExpected
  <1>1. Init => ExpectedInv
    <2> SUFFICES ASSUME Init PROVE ExpectedInv
      OBVIOUS
    <2>1. Ordered /\ BelongToCalls /\ OrderInv
      BY TypeInit, OrderInit DEF OrderInv
    <2>2. calls = <<>>
      BY DEF Init
    <2>3. Issued = {}
      BY <2>2 DEF Issued
    <2>4. Within(Held, Places, Expected)
      BY <2>1, <2>3 DEF BelongToCalls, Within
    <2> QED BY <2>1, <2>4 DEF ExpectedInv, AllExpected
  <1>2. ExpectedInv /\ [Next]_vars => ExpectedInv'
    BY OrderInvNext, ExpectedNext DEF ExpectedInv, OrderInv
  <1> QED BY <1>1, <1>2, InvExpects, PTL DEF Spec

-----------------------------------------------------------------------------
(* The table holds the calls without an answer                              *)

Unanswered == {n \in (before + 1)..Len(calls) : calls[n].state # "answered"}

\* What a step does to the table and to the calls it stands for.
Rests == UNCHANGED <<cPending, cResolved>> /\ Unanswered' = Unanswered
Expects(rid) ==
    /\ cPending' = cPending \cup {<<0, rid>>} /\ UNCHANGED cResolved
    /\ Unanswered' = Unanswered \cup {Len(calls) + 1}
    /\ Len(calls') = Len(calls) + 1 /\ calls'[Len(calls) + 1].rid = rid
Resolves(key, m) ==
    /\ key \in cPending /\ cPending' = cPending \ {key}
    /\ cResolved' = {r \in cResolved : r[1] # key} \cup {<<key, m>>}
    /\ Unanswered' = Unanswered
Takes(n, r) ==
    /\ r \in cResolved /\ r[1] = <<0, calls[n].rid>>
    /\ UNCHANGED cPending /\ cResolved' = cResolved \ {r}
    /\ Unanswered' = Unanswered \ {n}
Clears == cPending' = {} /\ cResolved' = {} /\ Unanswered' = {}

LEMMA SendExpects ==
    ASSUME TypeInv, NEW rid \in 1..MaxRequestId, NEW chosen \in BOOLEAN, Send(rid, chosen)
    PROVE  Expects(rid)
  <1>1. /\ Len(calls) \in Nat /\ Len(calls') = Len(calls) + 1
        /\ \A n \in 1..Len(calls) : calls'[n] = calls[n]
        /\ calls'[Len(calls) + 1] = [rid |-> rid, chosen |-> chosen, state |-> "open", answer |-> 0]
    BY IssueEffect
  <1>2. /\ cPending' = cPending \cup {<<0, rid>>} /\ UNCHANGED <<cResolved, before>>
    BY SendEffect
  <1>3. before \in 0..Len(calls)
    BY DEF TypeInv, TypeOK
  <1>4. calls'[Len(calls) + 1].state = "open" /\ calls'[Len(calls) + 1].rid = rid
    BY <1>1
  <1>5. (before + 1)..Len(calls') = ((before + 1)..Len(calls)) \cup {Len(calls) + 1}
        /\ (before + 1)..Len(calls) \subseteq 1..Len(calls)
    BY <1>1, <1>3
  <1>6. Unanswered' = Unanswered \cup {Len(calls) + 1}
    BY <1>1, <1>2, <1>4, <1>5 DEF Unanswered
  <1> QED BY <1>1, <1>2, <1>4, <1>6 DEF Expects

LEMMA TakeTakes ==
    ASSUME TypeInv, NEW n \in 1..Len(calls), TakeResponse(n)
    PROVE  \E r \in cResolved : Takes(n, r)
  <1>1. calls \in Seq(CallRecord) /\ calls[n] \in CallRecord
    BY CallsTyped
  <1>2. PICK r \in cResolved :
           /\ r[1] = <<0, calls[n].rid>> /\ cResolved' = cResolved \ {r}
           /\ calls' = [calls EXCEPT ![n] = [@ EXCEPT !.state = "answered", !.answer = r[2].tag]]
           /\ UNCHANGED <<cPending, before>>
    BY TakeEffect
  <1> DEFINE c == [calls[n] EXCEPT !.state = "answered", !.answer = r[2].tag]
  <1>3. c.state = "answered" /\ calls' = [calls EXCEPT ![n] = c]
    BY <1>1, <1>2 DEF CallRecord
  <1> HIDE DEF c
  <1>4. /\ Len(calls') = Len(calls) /\ Len(calls) \in Nat /\ calls'[n] = c
        /\ \A k \in 1..Len(calls) : k # n => calls'[k] = calls[k]
    BY <1>1, <1>3
  <1>5. (before + 1)..Len(calls) \subseteq 1..Len(calls)
    BY <1>4 DEF TypeInv, TypeOK
  <1>6. Unanswered' = Unanswered \ {n}
    BY <1>2, <1>3, <1>4, <1>5 DEF Unanswered
  <1> QED BY <1>2, <1>6 DEF Takes

LEMMA GiveUpRests ==
    ASSUME TypeInv, NEW n \in 1..Len(calls), GiveUp(n)
    PROVE  Rests
  <1>1. calls \in Seq(CallRecord) /\ calls[n] \in CallRecord
    BY CallsTyped
  <1> DEFINE c == [calls[n] EXCEPT !.state = "givenUp"]
  <1>2. calls' = [calls EXCEPT ![n] = c] /\ calls[n].state = "open"
        /\ UNCHANGED <<cPending, cResolved, before>>
    BY DEF GiveUp, clientVars
  <1>3. c.state = "givenUp"
    BY <1>1 DEF CallRecord
  <1> HIDE DEF c
  <1>4. /\ Len(calls') = Len(calls) /\ Len(calls) \in Nat /\ calls'[n] = c
        /\ \A k \in 1..Len(calls) : k # n => calls'[k] = calls[k]
    BY <1>1, <1>2
  <1>5. (before + 1)..Len(calls) \subseteq 1..Len(calls)
    BY <1>4 DEF TypeInv, TypeOK
  <1>6. Unanswered' = Unanswered
    BY <1>2, <1>3, <1>4, <1>5 DEF Unanswered
  <1> QED BY <1>2, <1>6 DEF Rests

LEMMA TableStep ==
    ASSUME TypeInv, [Next]_vars
    PROVE  \/ Rests
           \/ \E rid \in 1..MaxRequestId : Expects(rid)
           \/ \E key, m : Resolves(key, m)
           \/ \E n \in 1..Len(calls), r \in cResolved : Takes(n, r)
           \/ Clears
  <1>1. CASE Call \/ \E rid \in 1..MaxRequestId : CallWith(rid)
    BY <1>1, SendExpects DEF Call, CallWith, TypeInv, TypeOK
  <1>2. CASE \E n \in 1..Len(calls) : TakeResponse(n) \/ GiveUp(n)
    BY <1>2, TakeTakes, GiveUpRests
  <1>3. CASE Reattach
    <2>1. cPending' = {} /\ cResolved' = {} /\ before' = Len(calls) /\ UNCHANGED calls
      BY <1>3, ReattachEffect
    <2>2. Len(calls) \in Nat
      BY CallsTyped, LenProperties
    <2>3. Unanswered' = {}
      BY <2>1, <2>2 DEF Unanswered
    <2> QED BY <2>1, <2>3 DEF Clears
  <1>4. CASE DeliverToClient
    <2>1. UNCHANGED <<calls, before>>
      BY <1>4, DeliverToClientEffect
    <2>2. Unanswered' = Unanswered
      BY <2>1 DEF Unanswered
    <2> DEFINE key == <<0, Head(sWire).rid>>
    <2>3. CASE key \in cPending
      <3>1. cPending' = cPending \ {key}
            /\ cResolved' = {r \in cResolved : r[1] # key} \cup {<<key, Head(sWire)>>}
        BY <1>4, <2>3, DeliverToClientEffect
      <3>2. Resolves(key, Head(sWire))
        BY <2>2, <2>3, <3>1 DEF Resolves
      <3> QED BY <3>2
    <2>4. CASE key \notin cPending
      <3>1. UNCHANGED <<cPending, cResolved>>
        BY <1>4, <2>4, DeliverToClientEffect
      <3> QED BY <2>2, <3>1 DEF Rests
    <2> QED BY <2>3, <2>4
  <1>5. CASE ClientSteps \/ ServerSteps \/ DeliverToServer \/ Lose \/ UNCHANGED vars
    <2>1. UNCHANGED <<calls, before, cPending, cResolved>>
      BY <1>5, ClientEffect, ServerEffect, DeliverToServerEffect, LoseEffect
         DEF vars, callVars, clientVars
    <2> QED BY <2>1 DEF Rests, Unanswered
  <1> QED BY <1>1, <1>2, <1>3, <1>4, <1>5 DEF Next

\* The sizes, for calls that may share an entry.
TableBound ==
    /\ IsFiniteSet(cResolved)
    /\ Cardinality(cPending) + Cardinality(cResolved) <= Cardinality(Unanswered)

LEMMA TableFinite ==
    TypeInv => /\ IsFiniteSet(cPending) /\ IsFiniteSet(Unanswered)
               /\ Cardinality(cPending) \in Nat /\ Cardinality(Unanswered) \in Nat
  <1> SUFFICES ASSUME TypeInv
               PROVE  IsFiniteSet(cPending) /\ IsFiniteSet(Unanswered)
    BY FS_CardinalityType
  <1>1. IsFiniteSet(cPending)
    <2>1. IsFiniteSet({0} \X (1..MaxRequestId))
      <3>1. IsFiniteSet({0}) /\ MaxRequestId \in Int /\ 1 \in Int
        BY RpcAssumption, FS_Singleton
      <3>2. IsFiniteSet(1..MaxRequestId)
        BY <3>1, FS_Interval
      <3> QED BY <3>1, <3>2, FS_Product
    <2> QED BY <2>1, FS_Subset DEF TypeInv, TypeOK
  <1>2. IsFiniteSet(Unanswered)
    <2>1. Len(calls) \in Nat /\ before \in Nat
      BY CallsTyped, LenProperties DEF TypeInv, TypeOK
    <2>2. IsFiniteSet((before + 1)..Len(calls))
      BY <2>1, FS_Interval
    <2> QED BY <2>2, FS_Subset DEF Unanswered
  <1> QED BY <1>1, <1>2

LEMMA BoundNext == TypeInv /\ TableBound /\ [Next]_vars => TableBound'
  <1> SUFFICES ASSUME TypeInv, TableBound, [Next]_vars PROVE TableBound'
    OBVIOUS
  <1>1. /\ IsFiniteSet(cPending) /\ IsFiniteSet(cResolved) /\ IsFiniteSet(Unanswered)
        /\ Cardinality(cPending) \in Nat /\ Cardinality(cResolved) \in Nat
        /\ Cardinality(Unanswered) \in Nat
        /\ Cardinality(cPending) + Cardinality(cResolved) <= Cardinality(Unanswered)
    BY TableFinite, FS_CardinalityType DEF TableBound
  <1>2. CASE Rests
    BY <1>1, <1>2 DEF TableBound, Rests
  <1>3. ASSUME NEW rid \in 1..MaxRequestId, Expects(rid) PROVE TableBound'
    <2>1. /\ cPending' = cPending \cup {<<0, rid>>} /\ cResolved' = cResolved
          /\ Unanswered' = Unanswered \cup {Len(calls) + 1}
      BY <1>3 DEF Expects
    <2>2. Cardinality(cPending') <= Cardinality(cPending) + 1 /\ Cardinality(cPending') \in Nat
      <3>1. Cardinality(cPending \cup {<<0, rid>>})
               = IF <<0, rid>> \in cPending THEN Cardinality(cPending) ELSE Cardinality(cPending) + 1
        BY <1>1, FS_AddElement
      <3>2. CASE <<0, rid>> \in cPending
        BY <1>1, <2>1, <3>1, <3>2
      <3>3. CASE <<0, rid>> \notin cPending
        BY <1>1, <2>1, <3>1, <3>3
      <3> QED BY <3>2, <3>3
    <2>3. Len(calls) + 1 \notin Unanswered
      <3>1. Len(calls) \in Nat /\ before \in Nat
        BY CallsTyped, LenProperties DEF TypeInv, TypeOK
      <3> QED BY <3>1 DEF Unanswered
    <2>4. Cardinality(Unanswered') = Cardinality(Unanswered) + 1
      BY <1>1, <2>1, <2>3, FS_AddElement
    <2> QED BY <1>1, <2>1, <2>2, <2>4 DEF TableBound
  <1>4. ASSUME NEW key, NEW m, Resolves(key, m) PROVE TableBound'
    <2> DEFINE kept == {r \in cResolved : r[1] # key}
    <2>1. /\ key \in cPending /\ cPending' = cPending \ {key}
          /\ cResolved' = kept \cup {<<key, m>>} /\ Unanswered' = Unanswered
      BY <1>4 DEF Resolves
    <2>2. Cardinality(cPending') = Cardinality(cPending) - 1
      BY <1>1, <2>1, FS_RemoveElement
    <2>3. IsFiniteSet(kept) /\ Cardinality(kept) <= Cardinality(cResolved)
          /\ Cardinality(kept) \in Nat
      BY <1>1, FS_Subset, FS_CardinalityType
    <2> HIDE DEF kept
    <2>4. IsFiniteSet(cResolved') /\ Cardinality(cResolved') <= Cardinality(kept) + 1
          /\ Cardinality(cResolved') \in Nat
      <3> DEFINE x == <<key, m>>
      <3>1. cResolved' = kept \cup {x}
        BY <2>1
      <3> HIDE DEF x
      <3>2. IsFiniteSet(kept \cup {x})
            /\ Cardinality(kept \cup {x})
                  = IF x \in kept THEN Cardinality(kept) ELSE Cardinality(kept) + 1
        BY <2>3, FS_AddElement
      <3>3. CASE x \in kept
        BY <2>3, <3>1, <3>2, <3>3
      <3>4. CASE x \notin kept
        BY <2>3, <3>1, <3>2, <3>4
      <3> QED BY <3>3, <3>4
    <2> QED BY <1>1, <2>1, <2>2, <2>3, <2>4 DEF TableBound
  <1>5. ASSUME NEW n \in 1..Len(calls), NEW r \in cResolved, Takes(n, r) PROVE TableBound'
    <2>1. cPending' = cPending /\ cResolved' = cResolved \ {r} /\ Unanswered' = Unanswered \ {n}
      BY <1>5 DEF Takes
    <2>2. IsFiniteSet(cResolved') /\ Cardinality(cResolved') = Cardinality(cResolved) - 1
      BY <1>1, <2>1, FS_RemoveElement
    <2>3. Cardinality(Unanswered') >= Cardinality(Unanswered) - 1
          /\ Cardinality(Unanswered') \in Int
      <3>1. Cardinality(Unanswered \ {n})
               = IF n \in Unanswered THEN Cardinality(Unanswered) - 1 ELSE Cardinality(Unanswered)
        BY <1>1, FS_RemoveElement
      <3>2. CASE n \in Unanswered
        BY <1>1, <2>1, <3>1, <3>2
      <3>3. CASE n \notin Unanswered
        BY <1>1, <2>1, <3>1, <3>3
      <3> QED BY <3>2, <3>3
    <2> QED BY <1>1, <2>1, <2>2, <2>3 DEF TableBound
  <1>6. CASE Clears
    BY <1>6, FS_EmptySet DEF TableBound, Clears
  <1> QED BY <1>2, <1>3, <1>4, <1>5, <1>6, TableStep

\* The entries, for calls that share none.
Resolved == {r[1] : r \in cResolved}
Keys == {<<0, calls[n].rid>> : n \in Unanswered}
TableExact ==
    IdsUsedOnce => cPending \cap Resolved = {} /\ cPending \cup Resolved = Keys

LEMMA ExactNext == TypeInv /\ TableExact /\ [Next]_vars => TableExact'
  <1> SUFFICES ASSUME TypeInv, TableExact, [Next]_vars, IdsUsedOnce'
               PROVE  cPending' \cap Resolved' = {} /\ cPending' \cup Resolved' = Keys'
    BY DEF TableExact
  <1>1. /\ cPending \cap Resolved = {} /\ cPending \cup Resolved = Keys /\ IdsUsedOnce
    BY OnceBefore DEF TableExact
  <1>2. /\ Len(calls) \in Nat /\ Len(calls) <= Len(calls') /\ Len(calls') \in Nat
        /\ \A n \in 1..Len(calls) : calls'[n].rid = calls[n].rid
    BY CallsKept
  <1>3. Unanswered \subseteq 1..Len(calls)
    BY <1>2 DEF Unanswered, TypeInv, TypeOK
  <1>4. \A n \in Unanswered : calls'[n].rid = calls[n].rid
    BY <1>2, <1>3
  <1>5. CASE Rests
    <2>1. Resolved' = Resolved /\ cPending' = cPending /\ Unanswered' = Unanswered
      BY <1>5 DEF Rests, Resolved
    <2>2. Keys' = Keys
      BY <1>4, <2>1 DEF Keys
    <2> QED BY <1>1, <2>1, <2>2
  <1>6. ASSUME NEW rid \in 1..MaxRequestId, Expects(rid)
        PROVE  cPending' \cap Resolved' = {} /\ cPending' \cup Resolved' = Keys'
    <2>1. /\ cPending' = cPending \cup {<<0, rid>>} /\ Resolved' = Resolved
          /\ Unanswered' = Unanswered \cup {Len(calls) + 1}
          /\ Len(calls') = Len(calls) + 1 /\ calls'[Len(calls) + 1].rid = rid
      BY <1>6 DEF Expects, Resolved
    <2>2. Keys' = Keys \cup {<<0, rid>>}
      BY <1>4, <2>1 DEF Keys
    <2>3. <<0, rid>> \notin Keys
      <3> SUFFICES ASSUME NEW n \in Unanswered, calls[n].rid = rid PROVE FALSE
        BY DEF Keys
      <3>1. n \in 1..Len(calls) /\ n \in 1..Len(calls') /\ Len(calls) + 1 \in 1..Len(calls')
        BY <1>2, <1>3, <2>1
      <3>2. calls'[n].rid = calls'[Len(calls) + 1].rid
        BY <1>4, <2>1
      <3>3. n = Len(calls) + 1
        BY <3>1, <3>2 DEF IdsUsedOnce
      <3> QED BY <1>2, <3>1, <3>3
    <2> QED BY <1>1, <2>1, <2>2, <2>3
  <1>7. ASSUME NEW key, NEW m, Resolves(key, m)
        PROVE  cPending' \cap Resolved' = {} /\ cPending' \cup Resolved' = Keys'
    <2>1. /\ key \in cPending /\ cPending' = cPending \ {key}
          /\ cResolved' = {r \in cResolved : r[1] # key} \cup {<<key, m>>}
          /\ Unanswered' = Unanswered
      BY <1>7 DEF Resolves
    <2>2. key \notin Resolved
      BY <1>1, <2>1
    <2>3. <<key, m>>[1] = key
      OBVIOUS
    <2>4. Resolved' = Resolved \cup {key}
      BY <2>1, <2>2, <2>3 DEF Resolved
    <2>5. Keys' = Keys
      BY <1>4, <2>1 DEF Keys
    <2> QED BY <1>1, <2>1, <2>4, <2>5
  <1>8. ASSUME NEW n \in 1..Len(calls), NEW r \in cResolved, Takes(n, r)
        PROVE  cPending' \cap Resolved' = {} /\ cPending' \cup Resolved' = Keys'
    <2> DEFINE key == <<0, calls[n].rid>>
    <2>1. /\ r[1] = key /\ cPending' = cPending /\ cResolved' = cResolved \ {r}
          /\ Unanswered' = Unanswered \ {n}
      BY <1>8 DEF Takes
    <2>2. \A r1, r2 \in cResolved : r1[1] = r2[1] => r1 = r2
      BY DEF TypeInv, QueuesOK
    <2>3. Resolved' = Resolved \ {key}
      BY <2>1, <2>2 DEF Resolved
    <2>4. key \in Resolved
      BY <2>1 DEF Resolved
    <2>5. key \notin cPending
      BY <1>1, <2>4
    <2>6. \A k \in Unanswered : k # n => calls[k].rid # calls[n].rid
      BY <1>1, <1>3 DEF IdsUsedOnce
    <2>7. Keys' = {<<0, calls[k].rid>> : k \in Unanswered \ {n}}
      BY <1>4, <2>1 DEF Keys
    <2>8. Keys' = Keys \ {key}
      BY <2>6, <2>7 DEF Keys
    <2> QED BY <1>1, <2>1, <2>3, <2>5, <2>8
  <1>9. CASE Clears
    <2>1. cPending' = {} /\ Resolved' = {} /\ Keys' = {}
      BY <1>9 DEF Clears, Resolved, Keys
    <2> QED BY <2>1
  <1> QED BY <1>5, <1>6, <1>7, <1>8, <1>9, TableStep

TableInv == TypeInv /\ TableBound /\ TableExact

\* The table holds one entry for every call of the attached transport without an answer
\* until an id is used twice, and never more than there are such calls
\* (TableHoldsUnanswered): calls given up keep theirs, a new transport frees them all.
THEOREM TableExactlyUnanswered == Spec => []TableHoldsUnanswered
  <1>1. Init => TableInv
    <2> SUFFICES ASSUME Init PROVE TableInv
      OBVIOUS
    <2>1. calls = <<>> /\ before = 0 /\ cPending = {} /\ cResolved = {}
      BY DEF Init, Client!InitEndpoint
    <2>2. Unanswered = {}
      BY <2>1 DEF Unanswered
    <2>3. TableBound
      BY <2>1, <2>2, FS_EmptySet DEF TableBound
    <2>4. TableExact
      BY <2>1, <2>2 DEF TableExact, Resolved, Keys
    <2> QED BY <2>3, <2>4, TypeInit DEF TableInv
  <1>2. TableInv /\ [Next]_vars => TableInv'
    BY TypeNext, BoundNext, ExactNext DEF TableInv
  <1>3. TableInv => TableHoldsUnanswered
    BY DEF TableInv, TableBound, TableExact, TableHoldsUnanswered, Unanswered, Keys, Resolved,
       Client!ResolvedKeys
  <1> QED BY <1>1, <1>2, <1>3, PTL DEF Spec
=============================================================================
