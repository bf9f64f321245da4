------------------------ MODULE ServerEndpointProofs ------------------------
(***************************************************************************)
(* What holds of a serving endpoint for any messages in any order, any     *)
(* number of tasks per poll and any polls cut short.                       *)
(*                                                                         *)
(* The argument: the queues end to end are one line of messages            *)
(* (Pipeline).  Moving the head of a queue to the end of the next one      *)
(* leaves every message of the line in its place, at most replaced by the  *)
(* answer to it; a message may drop out of the line, and a new one joins   *)
(* it at the end, or, if it answers a control message, further on.         *)
(***************************************************************************)
EXTENDS ServerEndpoint, FiniteSetTheorems, SequenceTheorems, TLAPS

-----------------------------------------------------------------------------
(* The queues                                                               *)

Arrival == [kind : Kinds, sid : {0}, rid : 1..MaxArrivals, tag : Tags]
Work == [kind : Kinds \cap {"request", "event", "stream"}, sid : {0}, rid : 1..MaxArrivals, tag : Tags]
Returned ==
    [kind : Kinds \cap {"event", "stream"}, sid : {0}, rid : 1..MaxArrivals, tag : Tags] \cup Response
Reply == [kind : {"accept", "pong", "closeAck"}, sid : {0}, rid : 1..MaxArrivals, tag : Tags]
Sent == Returned \cup Reply

\* What may be in which queue: a control message is answered at once.
QueuesOK ==
    /\ arrived \in Seq(Arrival) /\ events \in Seq(Work) /\ tasks \in Seq(Work)
    /\ results \in Seq(Returned) /\ outbound \in Seq(Sent) /\ wire \in Seq(Sent)

ThreadOK ==
    /\ attached \in BOOLEAN /\ controlOpen \in BOOLEAN
    /\ pending = {} /\ resolved = {} /\ sending = NoMessage
    /\ phase \in {"idle", "events", "tasks", "results", "flush"}
    /\ budget \in 0..MaxTasks

TypeInv == QueuesOK /\ ThreadOK

\* m stands for x from now on.
Becomes(x, m) ==
    /\ m \in Returned /\ m.rid = x.rid /\ m.tag = x.tag
    /\ \/ x.kind = "request" /\ m.kind = "response"
       \/ x.kind \in {"event", "stream"} /\ m.kind = x.kind

\* What a step does to the queues.
Rests == UNCHANGED <<queues, arrived>>
EventDrained ==
    /\ events # <<>> /\ tasks' = Append(tasks, Head(events)) /\ events' = Tail(events)
    /\ UNCHANGED <<results, outbound, wire, arrived>>
TaskHandled ==
    /\ tasks # <<>> /\ tasks' = Tail(tasks)
    /\ \E m : Becomes(Head(tasks), m) /\ results' = Append(results, m)
    /\ UNCHANGED <<events, outbound, wire, arrived>>
StreamTaken ==
    /\ tasks # <<>> /\ tasks' = Tail(tasks) /\ Head(tasks).kind = "stream"
    /\ UNCHANGED <<events, results, outbound, wire, arrived>>
ResultWritten ==
    /\ results # <<>> /\ results' = Tail(results) /\ outbound' = Append(outbound, Head(results))
    /\ UNCHANGED <<events, tasks, wire, arrived>>
ResultGone ==
    /\ results # <<>> /\ results' = Tail(results)
    /\ Head(results).kind = "stream" \/ Head(results).tag \in Huge
    /\ UNCHANGED <<events, tasks, outbound, wire, arrived>>
Flushed ==
    /\ outbound # <<>> /\ outbound' = Tail(outbound) /\ wire' = Append(wire, Head(outbound))
    /\ UNCHANGED <<events, tasks, results, arrived>>
WorkArrives(m) ==
    /\ m \in Work /\ events' = Append(events, m)
    /\ UNCHANGED <<tasks, results, outbound, wire>>
ControlArrives(m) ==
    /\ m.kind \in {"open", "ping", "close"}
    /\ \E r \in Reply : r.rid = m.rid /\ outbound' = Append(outbound, r)
    /\ UNCHANGED <<events, tasks, results, wire>>
Arrives(m) ==
    /\ m \in Arrival /\ m.rid = Len(arrived) + 1 /\ arrived' = Append(arrived, m)
    /\ WorkArrives(m) \/ ControlArrives(m)

LEMMA ArriveEffect ==
    ASSUME TypeInv, NEW o \in Offers, Arrive(o[1], o[2])
    PROVE  /\ \E m : Arrives(m)
           /\ controlOpen' \in BOOLEAN
           /\ UNCHANGED <<attached, table, thread, detaches>>
  <1> DEFINE m == [kind |-> o[1], sid |-> 0, rid |-> Len(arrived) + 1, tag |-> o[2]]
  <1>1. Len(arrived) < MaxArrivals /\ OnMessage(m) /\ arrived' = Append(arrived, m)
        /\ UNCHANGED detaches
    BY DEF Arrive
  <1>2. o[1] \in Kinds /\ o[2] \in Tags
    BY DEF Kinds, Tags
  <1>3. Len(arrived) + 1 \in 1..MaxArrivals
    <2>1. Len(arrived) \in Nat /\ MaxArrivals \in Nat
      BY ServerAssumption, LenProperties DEF TypeInv, QueuesOK
    <2> QED BY <1>1, <2>1
  <1>4. m \in Arrival
    BY <1>2, <1>3 DEF Arrival
  <1>5. m.kind = o[1] /\ m.rid = Len(arrived) + 1
        /\ o[1] \in {"request", "event", "stream", "open", "ping", "close"}
    BY ServerAssumption
  <1>6. ~ OnResponse(m)
    BY <1>5 DEF OnResponse
  <1>7. CASE OnWork(m)
    <2>1. m.kind \in {"request", "event", "stream"}
      BY <1>7 DEF OnWork
    <2>2. m \in Work
      BY <1>2, <1>3, <2>1 DEF Work
    <2> HIDE DEF m
    <2>3. WorkArrives(m)
      BY <1>7, <2>2 DEF OnWork, WorkArrives
    <2>4. UNCHANGED <<attached, controlOpen, table, thread>>
      BY <1>7 DEF OnWork
    <2> QED BY <1>1, <1>4, <1>5, <2>3, <2>4 DEF Arrives, TypeInv, ThreadOK
  <1>8. CASE OnControl(m)
    <2> DEFINE r == [m EXCEPT !.kind = Replies[m.kind]]
    <2>1. m.kind \in {"open", "ping", "close"}
      BY <1>5, <1>8 DEF OnControl
    <2>2. m.kind \in DOMAIN Replies /\ Replies[m.kind] \in {"accept", "pong", "closeAck"}
      BY <2>1 DEF Replies
    <2>3. r \in Reply /\ r.rid = m.rid
      BY <1>4, <2>2 DEF Arrival, Reply
    <2>4. outbound' = Append(outbound, r)
      BY <1>8, <2>2 DEF OnControl
    <2>5. controlOpen' \in BOOLEAN
      BY <1>8 DEF OnControl, TypeInv, ThreadOK
    <2>6. UNCHANGED <<events, tasks, results, wire, attached, table, thread>>
      BY <1>8 DEF OnControl
    <2> HIDE DEF m, r
    <2>7. ControlArrives(m)
      BY <2>1, <2>3, <2>4, <2>6 DEF ControlArrives
    <2> QED BY <1>1, <1>4, <1>5, <2>5, <2>6, <2>7 DEF Arrives
  <1> QED BY <1>1, <1>6, <1>7, <1>8 DEF OnMessage

LEMMA HandleEffect ==
    ASSUME TypeInv, HandleTask
    PROVE  /\ TaskReady /\ budget' = budget - 1 /\ phase' \in {phase, "idle"}
           /\ UNCHANGED <<attached, controlOpen, table, sending>>
           /\ UNCHANGED arrived => TaskHandled \/ StreamTaken
  <1>1. TaskReady /\ tasks # <<>> /\ budget' = budget - 1 /\ phase' \in {phase, "idle"}
        /\ tasks' = Tail(tasks)
        /\ UNCHANGED <<events, outbound, wire, attached, controlOpen, table, sending>>
    BY DEF HandleTask, HandleRequest, HandleEvent, HandleStream, TaskReady
  <1> DEFINE x == Head(tasks)
  <1>2. x \in Work
    BY <1>1, HeadTailProperties DEF TypeInv, QueuesOK
  <1>3. CASE HandleRequest
    <2> DEFINE m == ResponseTo(x)
    <2>1. Status(x) \in {"success", "notSupported", "executionFailed"}
      BY DEF Status
    <2>2. m \in Response /\ m.rid = x.rid /\ m.tag = x.tag /\ m.kind = "response"
      BY <1>2, <2>1 DEF Work, Response, ResponseTo
    <2>3. x.kind = "request" /\ results' = Append(results, m)
      BY <1>3 DEF HandleRequest
    <2> HIDE DEF m, x
    <2>4. Becomes(x, m)
      BY <2>2, <2>3 DEF Becomes, Returned
    <2> QED BY <1>1, <2>3, <2>4 DEF TaskHandled, x
  <1>4. ASSUME x.kind \in {"event", "stream"}, results' = Append(results, x)
        PROVE  UNCHANGED arrived => TaskHandled
    <2>1. x \in Returned
      BY <1>2, <1>4 DEF Work, Returned
    <2> HIDE DEF x
    <2>2. Becomes(x, x)
      BY <1>4, <2>1 DEF Becomes
    <2> QED BY <1>1, <1>4, <2>2 DEF TaskHandled, x
  <1>5. CASE HandleEvent
    BY <1>1, <1>4, <1>5 DEF HandleEvent
  <1>6. CASE HandleStream
    BY <1>1, <1>4, <1>6 DEF HandleStream, StreamTaken
  <1> QED BY <1>1, <1>3, <1>5, <1>6 DEF HandleTask

LEMMA PollEffect ==
    ASSUME TypeInv, Poll
    PROVE  /\ \/ Rests \/ EventDrained \/ TaskHandled \/ StreamTaken
              \/ ResultWritten \/ ResultGone \/ Flushed
           /\ phase' \in {"idle", "events", "tasks", "results", "flush"} /\ budget' \in 0..MaxTasks
           /\ UNCHANGED <<attached, controlOpen, table, sending>>
  <1>1. UNCHANGED <<arrived, detaches>>
    BY DEF Poll
  <1>2. phase \in {"idle", "events", "tasks", "results", "flush"} /\ budget \in 0..MaxTasks
        /\ MaxTasks \in Nat
    BY ServerAssumption DEF TypeInv, ThreadOK
  <1>3. CASE BeginPoll
    BY <1>1, <1>2, <1>3 DEF BeginPoll, Rests
  <1>4. CASE DrainEvent
    BY <1>1, <1>2, <1>4 DEF DrainEvent, Rests, EventDrained, queues
  <1>5. CASE HandleTask
    <2>1. budget > 0
      BY <1>5, HandleEffect DEF TaskReady
    <2> QED BY <1>1, <1>2, <1>5, <2>1, HandleEffect
  <1>6. CASE TasksDone
    BY <1>1, <1>2, <1>6 DEF TasksDone, Rests
  <1>7. CASE DrainResult
    BY <1>1, <1>2, <1>7 DEF DrainResult, Rests, ResultWritten, ResultGone, queues
  <1>8. CASE Flush
    <2>1. CASE outbound = <<>> \/ ~ attached
      BY <1>1, <1>2, <1>8, <2>1 DEF Flush, Rests, queues
    <2>2. CASE ~ (outbound = <<>> \/ ~ attached)
      <3>1. Head(outbound) \in Sent
        BY <2>2, HeadTailProperties DEF TypeInv, QueuesOK
      <3>2. OnWire(Head(outbound)) = Head(outbound)
        BY <3>1 DEF Sent, Returned, Reply, Response, OnWire
      <3> QED BY <1>1, <1>2, <1>8, <2>2, <3>2 DEF Flush, Flushed
    <2> QED BY <2>1, <2>2
  <1> QED BY <1>3, <1>4, <1>5, <1>6, <1>7, <1>8 DEF Poll, PollStep

\* Every step does one of these things to the queues, and keeps the rest typed.
LEMMA QueueStep ==
    ASSUME TypeInv, [Next]_vars
    PROVE  /\ \/ Rests \/ EventDrained \/ TaskHandled \/ StreamTaken
              \/ ResultWritten \/ ResultGone \/ Flushed \/ \E m : Arrives(m)
           /\ ThreadOK'
  <1>1. CASE \E o \in Offers : Arrive(o[1], o[2])
    BY <1>1, ArriveEffect DEF TypeInv, ThreadOK, table, thread
  <1>2. CASE Poll
    BY <1>2, PollEffect DEF TypeInv, ThreadOK, table
  <1>3. CASE Detach \/ Attach
    BY <1>3 DEF Detach, Attach, SetAttached, TypeInv, ThreadOK, Rests, table, thread
  <1>4. CASE UNCHANGED vars
    BY <1>4 DEF vars, epVars, queues, Rests, TypeInv, ThreadOK
  <1> QED BY <1>1, <1>2, <1>3, <1>4 DEF Next

LEMMA MoveTyped ==
    ASSUME NEW S, NEW q \in Seq(S), q # <<>>
    PROVE  Tail(q) \in Seq(S) /\ Head(q) \in S
  BY HeadTailProperties

LEMMA QueuesNext == TypeInv /\ [Next]_vars => QueuesOK'
  <1> SUFFICES ASSUME TypeInv, [Next]_vars PROVE QueuesOK'
    OBVIOUS
  <1>1. /\ arrived \in Seq(Arrival) /\ events \in Seq(Work) /\ tasks \in Seq(Work)
        /\ results \in Seq(Returned) /\ outbound \in Seq(Sent) /\ wire \in Seq(Sent)
    BY DEF TypeInv, QueuesOK
  <1>2. Returned \subseteq Sent /\ Reply \subseteq Sent
    BY DEF Sent
  <1>3. CASE Rests
    BY <1>1, <1>3 DEF Rests, queues, QueuesOK
  <1>4. CASE EventDrained
    BY <1>1, <1>4, MoveTyped, AppendProperties DEF EventDrained, QueuesOK
  <1>5. CASE TaskHandled
    <2>1. PICK m : m \in Returned /\ results' = Append(results, m)
      BY <1>5 DEF TaskHandled, Becomes
    <2> QED BY <1>1, <1>5, <2>1, MoveTyped, AppendProperties DEF TaskHandled, QueuesOK
  <1>6. CASE StreamTaken
    BY <1>1, <1>6, MoveTyped DEF StreamTaken, QueuesOK
  <1>7. CASE ResultWritten
    <2>1. Head(results) \in Sent
      BY <1>1, <1>2, <1>7, MoveTyped DEF ResultWritten
    <2> QED BY <1>1, <1>7, <2>1, MoveTyped, AppendProperties DEF ResultWritten, QueuesOK
  <1>8. CASE ResultGone
    BY <1>1, <1>8, MoveTyped DEF ResultGone, QueuesOK
  <1>9. CASE Flushed
    BY <1>1, <1>9, MoveTyped, AppendProperties DEF Flushed, QueuesOK
  <1>10. ASSUME NEW m, Arrives(m) PROVE QueuesOK'
    <2>1. m \in Arrival /\ arrived' = Append(arrived, m)
      BY <1>10 DEF Arrives
    <2>2. arrived' \in Seq(Arrival)
      BY <1>1, <2>1, AppendProperties
    <2>3. CASE WorkArrives(m)
      BY <1>1, <2>2, <2>3, AppendProperties DEF WorkArrives, QueuesOK
    <2>4. CASE ControlArrives(m)
      BY <1>1, <1>2, <2>2, <2>4, AppendProperties DEF ControlArrives, QueuesOK
    <2> QED BY <1>10, <2>3, <2>4 DEF Arrives
  <1> QED BY <1>3, <1>4, <1>5, <1>6, <1>7, <1>8, <1>9, <1>10, QueueStep

LEMMA TypeNext == TypeInv /\ [Next]_vars => TypeInv'
  BY QueueStep, QueuesNext DEF TypeInv

LEMMA TypeInit == Init => TypeInv
  <1> SUFFICES ASSUME Init PROVE QueuesOK /\ ThreadOK
    BY DEF TypeInv
  <1>1. QueuesOK
    BY EmptySeq DEF Init, InitEndpoint, QueuesOK
  <1>2. ThreadOK
    <2>1. budget \in 0..MaxTasks
      BY ServerAssumption DEF Init, InitEndpoint
    <2> QED BY <2>1 DEF Init, InitEndpoint, ThreadOK
  <1> QED BY <1>1, <1>2

LEMMA TypesAreOK == TypeInv => TypeOK
  <1> SUFFICES ASSUME TypeInv PROVE TypeOK
    OBVIOUS
  <1>1. Arrival \subseteq Message /\ Work \subseteq Message /\ Reply \subseteq Message
    BY DEF Arrival, Work, Reply, Message
  <1>2. Returned \subseteq Message \cup Response /\ Sent \subseteq Message \cup Response
    BY <1>1 DEF Returned, Sent, Message
  <1>3. arrived \in Seq(Message) /\ events \in Seq(Message) /\ tasks \in Seq(Message)
    BY <1>1, SeqMonotonic DEF TypeInv, QueuesOK
  <1>4. /\ results \in Seq(Message \cup Response) /\ outbound \in Seq(Message \cup Response)
        /\ wire \in Seq(Message \cup Response)
    BY <1>2, SeqMonotonic DEF TypeInv, QueuesOK
  <1> QED BY <1>3, <1>4 DEF TypeInv, ThreadOK, TypeOK

\* Only requests, events and stream data wait for the broker, only their results and the
\* answers to control messages are sent, and the client's half of the endpoint stays
\* unused (TypeOK).
THEOREM TypeCorrect == Spec => []TypeOK
  BY TypeInit, TypeNext, TypesAreOK, PTL DEF Spec

-----------------------------------------------------------------------------
(* The line of messages                                                     *)

Held == Work \cup Sent

\* How one line comes from another: a message is replaced, drops out, or joins.
Replaced(s, t, k, m) ==
    /\ k \in 1..Len(s) /\ Len(t) = Len(s) /\ t[k] = m
    /\ \A i \in 1..Len(s) : i # k => t[i] = s[i]
Dropped(s, t, k) ==
    /\ k \in 1..Len(s) /\ Len(t) = Len(s) - 1
    /\ \A i \in 1..Len(t) : t[i] = IF i < k THEN s[i] ELSE s[i + 1]
Joined(s, t, k, m) ==
    /\ k \in 1..(Len(s) + 1) /\ Len(t) = Len(s) + 1
    /\ \A i \in 1..Len(t) : t[i] = IF i < k THEN s[i] ELSE IF i = k THEN m ELSE s[i - 1]

\* Where an element of two lines end to end comes from.
LEMMA EndToEnd ==
    ASSUME NEW S, NEW s \in Seq(S), NEW u \in Seq(S)
    PROVE  /\ s \o u \in Seq(S) /\ Len(s \o u) = Len(s) + Len(u)
           /\ Len(s) \in Nat /\ Len(u) \in Nat
           /\ \A i \in 1..Len(s) : (s \o u)[i] = s[i]
           /\ \A i \in (Len(s) + 1)..(Len(s) + Len(u)) : (s \o u)[i] = u[i - Len(s)]
  <1> DEFINE su == s \o u
  <1>1. /\ su \in Seq(S) /\ Len(su) = Len(s) + Len(u) /\ Len(s) \in Nat /\ Len(u) \in Nat
        /\ \A i \in 1..(Len(s) + Len(u)) : su[i] = IF i <= Len(s) THEN s[i] ELSE u[i - Len(s)]
    BY ConcatProperties, LenProperties
  <1> HIDE DEF su
  <1>2. ASSUME NEW i \in 1..Len(s) PROVE su[i] = s[i]
    <2>1. i \in 1..(Len(s) + Len(u)) /\ i <= Len(s)
      BY <1>1
    <2> QED BY <1>1, <2>1
  <1>3. ASSUME NEW i \in (Len(s) + 1)..(Len(s) + Len(u)) PROVE su[i] = u[i - Len(s)]
    <2>1. i \in 1..(Len(s) + Len(u)) /\ ~ (i <= Len(s))
      BY <1>1
    <2> QED BY <1>1, <2>1
  <1> QED BY <1>1, <1>2, <1>3 DEF su

\* What follows in the line does not matter.
LEMMA Behind ==
    ASSUME NEW S, NEW s \in Seq(S), NEW t \in Seq(S), NEW u \in Seq(S), NEW k, NEW m
    PROVE  /\ s \o u \in Seq(S)
           /\ Replaced(s, t, k, m) => Replaced(s \o u, t \o u, k, m)
           /\ Dropped(s, t, k) => Dropped(s \o u, t \o u, k)
           /\ Joined(s, t, k, m) => Joined(s \o u, t \o u, k, m)
  <1> DEFINE su == s \o u
             tu == t \o u
  <1>1. /\ su \in Seq(S) /\ Len(su) = Len(s) + Len(u) /\ Len(tu) = Len(t) + Len(u)
        /\ Len(s) \in Nat /\ Len(t) \in Nat /\ Len(u) \in Nat
    BY EndToEnd
  <1>2. /\ \A i \in 1..Len(s) : su[i] = s[i]
        /\ \A i \in (Len(s) + 1)..(Len(s) + Len(u)) : su[i] = u[i - Len(s)]
        /\ \A i \in 1..Len(t) : tu[i] = t[i]
        /\ \A i \in (Len(t) + 1)..(Len(t) + Len(u)) : tu[i] = u[i - Len(t)]
    BY EndToEnd
  <1> HIDE DEF su, tu
  <1>3. ASSUME Replaced(s, t, k, m) PROVE Replaced(su, tu, k, m)
    <2>1. k \in 1..Len(s) /\ Len(t) = Len(s) /\ t[k] = m
          /\ \A i \in 1..Len(s) : i # k => t[i] = s[i]
      BY <1>3 DEF Replaced
    <2>2. k \in 1..Len(su) /\ Len(tu) = Len(su) /\ tu[k] = t[k] /\ su[k] = s[k]
      BY <1>1, <1>2, <2>1
    <2>3. ASSUME NEW i \in 1..Len(su), i # k PROVE tu[i] = su[i]
      <3>1. CASE i \in 1..Len(s)
        BY <1>2, <2>1, <2>3, <3>1
      <3>2. CASE i \in (Len(s) + 1)..(Len(s) + Len(u))
        BY <1>2, <2>1, <3>2
      <3> QED BY <1>1, <3>1, <3>2
    <2> QED BY <2>1, <2>2, <2>3 DEF Replaced
  <1>4. ASSUME Dropped(s, t, k) PROVE Dropped(su, tu, k)
    <2>1. k \in 1..Len(s) /\ Len(t) = Len(s) - 1
          /\ \A i \in 1..Len(t) : t[i] = IF i < k THEN s[i] ELSE s[i + 1]
      BY <1>4 DEF Dropped
    <2>2. k \in 1..Len(su) /\ Len(tu) = Len(su) - 1 /\ su[k] = s[k]
      BY <1>1, <1>2, <2>1
    <2>3. ASSUME NEW i \in 1..Len(tu) PROVE tu[i] = IF i < k THEN su[i] ELSE su[i + 1]
      <3>1. CASE i \in 1..Len(t)
        <4>1. i \in 1..Len(s) /\ i + 1 \in 1..Len(s)
          BY <1>1, <2>1, <3>1
        <4>2. tu[i] = t[i] /\ su[i] = s[i] /\ su[i + 1] = s[i + 1]
          BY <1>2, <3>1, <4>1
        <4> QED BY <2>1, <3>1, <4>2
      <3>2. CASE i \in (Len(t) + 1)..(Len(t) + Len(u))
        <4>1. i - Len(t) = (i + 1) - Len(s) /\ ~ (i < k)
              /\ i + 1 \in (Len(s) + 1)..(Len(s) + Len(u))
          BY <1>1, <2>1, <3>2
        <4>2. tu[i] = u[i - Len(t)] /\ su[i + 1] = u[(i + 1) - Len(s)]
          BY <1>2, <3>2, <4>1
        <4> QED BY <4>1, <4>2
      <3> QED BY <1>1, <3>1, <3>2
    <2> QED BY <2>2, <2>3 DEF Dropped
  <1>5. ASSUME Joined(s, t, k, m) PROVE Joined(su, tu, k, m)
    <2>1. k \in 1..(Len(s) + 1) /\ Len(t) = Len(s) + 1
          /\ \A i \in 1..Len(t) : t[i] = IF i < k THEN s[i] ELSE IF i = k THEN m ELSE s[i - 1]
      BY <1>5 DEF Joined
    <2>2. k \in 1..(Len(su) + 1) /\ Len(tu) = Len(su) + 1
      BY <1>1, <2>1
    <2>3. ASSUME NEW i \in 1..Len(tu)
          PROVE  tu[i] = IF i < k THEN su[i] ELSE IF i = k THEN m ELSE su[i - 1]
      <3>1. CASE i \in 1..Len(t)
        <4>1. tu[i] = t[i]
          BY <1>2, <3>1
        <4>2. CASE i < k
          <5>1. i \in 1..Len(s)
            BY <1>1, <2>1, <3>1, <4>2
          <5>2. su[i] = s[i] /\ t[i] = s[i]
            BY <1>2, <2>1, <3>1, <4>2, <5>1
          <5> QED BY <4>1, <4>2, <5>2
        <4>3. CASE i = k
          BY <1>1, <2>1, <3>1, <4>1, <4>3
        <4>4. CASE i > k
          <5>1. i - 1 \in 1..Len(s) /\ ~ (i < k) /\ i # k
            BY <1>1, <2>1, <3>1, <4>4
          <5>2. su[i - 1] = s[i - 1] /\ t[i] = s[i - 1]
            BY <1>2, <2>1, <3>1, <5>1
          <5> QED BY <4>1, <5>1, <5>2
        <4> QED BY <1>1, <2>1, <4>2, <4>3, <4>4
      <3>2. CASE i \in (Len(t) + 1)..(Len(t) + Len(u))
        <4>1. i - Len(t) = (i - 1) - Len(s) /\ ~ (i < k) /\ i # k
              /\ i - 1 \in (Len(s) + 1)..(Len(s) + Len(u))
          BY <1>1, <2>1, <3>2
        <4>2. su[i - 1] = u[(i - 1) - Len(s)]
          BY <1>2, <4>1
        <4>3. tu[i] = u[i - Len(t)]
          BY <1>2, <3>2
        <4> QED BY <4>1, <4>2, <4>3
      <3> QED BY <1>1, <3>1, <3>2
    <2> QED BY <2>2, <2>3 DEF Joined
  <1> QED BY <1>1, <1>3, <1>4, <1>5 DEF su, tu

\* What happens where two queues meet.
LEMMA Meeting ==
    ASSUME NEW S, NEW p \in Seq(S), NEW q \in Seq(S), q # <<>>, NEW m \in S
    PROVE  /\ Replaced(p \o q, Append(p, m) \o Tail(q), Len(p) + 1, m)
           /\ Dropped(p \o q, p \o Tail(q), Len(p) + 1)
           /\ (p \o q)[Len(p) + 1] = Head(q)
           /\ p \o q \in Seq(S) /\ Append(p, m) \o Tail(q) \in Seq(S) /\ p \o Tail(q) \in Seq(S)
  <1> DEFINE a == Append(p, m)
             b == Tail(q)
             pq == p \o q
             ab == a \o b
             pb == p \o b
  <1>1. /\ b \in Seq(S) /\ Len(b) = Len(q) - 1 /\ Head(q) = q[1]
        /\ \A i \in 1..Len(b) : b[i] = q[i + 1]
    BY HeadTailProperties
  <1>2. /\ a \in Seq(S) /\ Len(a) = Len(p) + 1 /\ a[Len(p) + 1] = m
        /\ \A i \in 1..Len(p) : a[i] = p[i]
    BY AppendProperties
  <1>3. Len(p) \in Nat /\ Len(q) \in Nat \ {0} /\ Len(a) \in Nat /\ Len(b) \in Nat
    BY <1>1, <1>2, LenProperties, EmptySeq
  <1> HIDE DEF a, b
  <1>4. /\ pq \in Seq(S) /\ Len(pq) = Len(p) + Len(q)
        /\ \A i \in 1..Len(p) : pq[i] = p[i]
        /\ \A i \in (Len(p) + 1)..(Len(p) + Len(q)) : pq[i] = q[i - Len(p)]
    BY EndToEnd
  <1>5. /\ ab \in Seq(S) /\ Len(ab) = Len(a) + Len(b)
        /\ \A i \in 1..Len(a) : ab[i] = a[i]
        /\ \A i \in (Len(a) + 1)..(Len(a) + Len(b)) : ab[i] = b[i - Len(a)]
    <2>1. a \in Seq(S) /\ b \in Seq(S)
      BY <1>1, <1>2
    <2> QED BY <2>1, EndToEnd
  <1>6. /\ pb \in Seq(S) /\ Len(pb) = Len(p) + Len(b)
        /\ \A i \in 1..Len(p) : pb[i] = p[i]
        /\ \A i \in (Len(p) + 1)..(Len(p) + Len(b)) : pb[i] = b[i - Len(p)]
    BY <1>1, EndToEnd
  <1> HIDE DEF pq, ab, pb
  <1>7. Len(ab) = Len(pq) /\ Len(pb) = Len(pq) - 1 /\ Len(p) + 1 \in 1..Len(pq)
    BY <1>1, <1>2, <1>3, <1>4, <1>5, <1>6
  <1>8. ab[Len(p) + 1] = m
    <2>1. Len(p) + 1 \in 1..Len(a)
      BY <1>2, <1>3
    <2> QED BY <1>2, <1>5, <2>1
  <1>9. ASSUME NEW i \in 1..Len(pq), i # Len(p) + 1 PROVE ab[i] = pq[i]
    <2>1. CASE i \in 1..Len(p)
      <3>1. i \in 1..Len(a)
        BY <1>2, <1>3, <2>1
      <3> QED BY <1>2, <1>4, <1>5, <2>1, <3>1
    <2>2. CASE i \in (Len(p) + 2)..(Len(p) + Len(q))
      <3>1. i - Len(a) \in 1..Len(b) /\ (i - Len(a)) + 1 = i - Len(p)
            /\ i \in (Len(a) + 1)..(Len(a) + Len(b)) /\ i \in (Len(p) + 1)..(Len(p) + Len(q))
        BY <1>1, <1>2, <1>3, <2>2
      <3>2. ab[i] = b[i - Len(a)] /\ pq[i] = q[i - Len(p)]
        BY <1>4, <1>5, <3>1
      <3>3. b[i - Len(a)] = q[(i - Len(a)) + 1]
        BY <1>1, <3>1
      <3> QED BY <3>1, <3>2, <3>3
    <2> QED BY <1>3, <1>4, <1>9, <2>1, <2>2
  <1>10. ASSUME NEW i \in 1..Len(pb) PROVE pb[i] = IF i < Len(p) + 1 THEN pq[i] ELSE pq[i + 1]
    <2>1. CASE i \in 1..Len(p)
      <3>1. i < Len(p) + 1
        BY <1>3, <2>1
      <3> QED BY <1>4, <1>6, <2>1, <3>1
    <2>2. CASE i \in (Len(p) + 1)..(Len(p) + Len(b))
      <3>1. i - Len(p) \in 1..Len(b) /\ (i - Len(p)) + 1 = (i + 1) - Len(p)
            /\ i + 1 \in (Len(p) + 1)..(Len(p) + Len(q)) /\ ~ (i < Len(p) + 1)
        BY <1>1, <1>3, <2>2
      <3>2. pb[i] = b[i - Len(p)]
        BY <1>6, <2>2
      <3>3. pq[i + 1] = q[(i + 1) - Len(p)]
        BY <1>4, <3>1
      <3>4. b[i - Len(p)] = q[(i - Len(p)) + 1]
        BY <1>1, <3>1
      <3> QED BY <3>1, <3>2, <3>3, <3>4
    <2> QED BY <1>3, <1>6, <2>1, <2>2
  <1>11. pq[Len(p) + 1] = Head(q)
    <2>1. Len(p) + 1 \in (Len(p) + 1)..(Len(p) + Len(q)) /\ (Len(p) + 1) - Len(p) = 1
      BY <1>3
    <2>2. pq[Len(p) + 1] = q[(Len(p) + 1) - Len(p)]
      BY <1>4, <2>1
    <2> QED BY <1>1, <2>1, <2>2
  <1>12. Replaced(pq, ab, Len(p) + 1, m) /\ Dropped(pq, pb, Len(p) + 1)
    BY <1>7, <1>8, <1>9, <1>10 DEF Replaced, Dropped
  <1> QED BY <1>4, <1>5, <1>6, <1>11, <1>12 DEF a, b, pq, ab, pb

LEMMA AtTheEnd ==
    ASSUME NEW p \in Seq(Held), NEW m \in Held
    PROVE  Joined(p, Append(p, m), Len(p) + 1, m) /\ Append(p, m) \in Seq(Held)
  <1>1. /\ Append(p, m) \in Seq(Held) /\ Len(Append(p, m)) = Len(p) + 1 /\ Len(p) \in Nat
        /\ Append(p, m)[Len(p) + 1] = m
        /\ \A i \in 1..Len(p) : Append(p, m)[i] = p[i]
    BY AppendProperties, LenProperties
  <1> QED BY <1>1 DEF Joined

LEMMA AppendBehind ==
    ASSUME NEW p \in Seq(Held), NEW q \in Seq(Held), NEW m \in Held
    PROVE  p \o Append(q, m) = Append(p \o q, m)
  <1>1. Append(q, m) = q \o <<m>> /\ <<m>> \in Seq(Held) /\ p \o q \in Seq(Held)
    BY AppendIsConcat, ConcatProperties
  <1>2. p \o (q \o <<m>>) = (p \o q) \o <<m>>
    BY <1>1, ConcatAssociative
  <1>3. Append(p \o q, m) = (p \o q) \o <<m>>
    BY <1>1, AppendIsConcat
  <1> QED BY <1>1, <1>2, <1>3

-----------------------------------------------------------------------------
(* What holds of the line                                                   *)

Answers == {"accept", "pong", "closeAck"}

\* x is what is held of the message a, or of the answer to it.
StemsFrom(x, a) ==
    \/ x.kind \in Answers
    \/ x.tag = a.tag /\ x.kind = a.kind /\ x.kind # "response"
    \/ x.tag = a.tag /\ x.kind = "response" /\ a.kind = "request"

\* m takes the place of x.
StandsFor(m, x) ==
    /\ m.rid = x.rid /\ m.tag = x.tag
    /\ m.kind = x.kind \/ (m.kind = "response" /\ x.kind = "request")

\* The messages the line may lose, and the ones it may not.
Loses(x) == x.kind = "stream" \/ (x.kind \in {"event", "response"} /\ x.tag \in Huge)
MustHold(a) == a.kind \notin {"event", "stream"} /\ (a.kind = "request" => a.tag \notin Huge)

Fits(s, a) == \A i \in 1..Len(s) : s[i].rid \in 1..Len(a) /\ StemsFrom(s[i], a[s[i].rid])
Distinct(s) == \A i, j \in 1..Len(s) : s[i].rid = s[j].rid => i = j
Ordered(s) ==
    \A i, j \in 1..Len(s) :
        i < j /\ s[i].kind \notin Answers /\ s[j].kind \notin Answers => s[i].rid < s[j].rid
AllHeld(s, a) == \A n \in 1..Len(a) : MustHold(a[n]) => \E i \in 1..Len(s) : s[i].rid = n

LineInv(s, a) == Fits(s, a) /\ Distinct(s) /\ Ordered(s) /\ AllHeld(s, a)

LEMMA ReplacedKeeps ==
    ASSUME NEW s, NEW t, NEW a, NEW k, NEW m, Len(s) \in Nat,
           LineInv(s, a), Replaced(s, t, k, m), StandsFor(m, s[k])
    PROVE  LineInv(t, a)
  <1>1. Len(t) = Len(s)
    BY DEF Replaced
  <1>2. \A i \in 1..Len(s) : StandsFor(t[i], s[i])
    BY DEF Replaced, StandsFor
  <1>3. \A i \in 1..Len(s) : t[i].rid = s[i].rid /\ (t[i].kind \notin Answers => s[i].kind \notin Answers)
    BY <1>2 DEF StandsFor, Answers
  <1>4. Fits(t, a)
    <2> SUFFICES ASSUME NEW i \in 1..Len(s) PROVE t[i].rid \in 1..Len(a) /\ StemsFrom(t[i], a[t[i].rid])
      BY <1>1 DEF Fits
    <2>1. s[i].rid \in 1..Len(a) /\ StemsFrom(s[i], a[s[i].rid]) /\ t[i].rid = s[i].rid
      BY <1>3 DEF LineInv, Fits
    <2>2. StandsFor(t[i], s[i])
      BY <1>2
    <2> QED BY <2>1, <2>2 DEF StandsFor, StemsFrom, Answers
  <1>5. Distinct(t)
    BY <1>1, <1>3 DEF LineInv, Distinct
  <1>6. Ordered(t)
    BY <1>1, <1>3 DEF LineInv, Ordered
  <1>7. AllHeld(t, a)
    BY <1>1, <1>3 DEF LineInv, AllHeld
  <1> QED BY <1>4, <1>5, <1>6, <1>7 DEF LineInv

LEMMA DroppedKeeps ==
    ASSUME NEW s, NEW t, NEW a, NEW k, Len(s) \in Nat,
           LineInv(s, a), Dropped(s, t, k), Loses(s[k])
    PROVE  LineInv(t, a)
  <1> DEFINE old(i) == IF i < k THEN i ELSE i + 1
  <1>1. k \in 1..Len(s) /\ Len(t) = Len(s) - 1 /\ \A i \in 1..Len(t) : t[i] = s[old(i)]
    BY DEF Dropped
  <1>2. \A i \in 1..Len(t) : old(i) \in 1..Len(s)
    BY <1>1
  <1>3. \A i, j \in 1..Len(t) : (i < j => old(i) < old(j)) /\ (old(i) = old(j) => i = j)
    BY <1>1
  <1>4. \A j \in 1..Len(s) : j # k => \E i \in 1..Len(t) : old(i) = j
    <2> SUFFICES ASSUME NEW j \in 1..Len(s), j # k PROVE \E i \in 1..Len(t) : old(i) = j
      OBVIOUS
    <2>1. CASE j < k
      <3>1. j \in 1..Len(t) /\ old(j) = j
        BY <1>1, <2>1
      <3> QED BY <3>1
    <2>2. CASE j > k
      <3>1. j - 1 \in 1..Len(t) /\ old(j - 1) = j
        BY <1>1, <2>2
      <3> QED BY <3>1
    <2> QED BY <1>1, <2>1, <2>2
  <1> HIDE DEF old
  <1>5. Fits(t, a)
    BY <1>1, <1>2 DEF LineInv, Fits
  <1>6. Distinct(t)
    BY <1>1, <1>2, <1>3 DEF LineInv, Distinct
  <1>7. Ordered(t)
    BY <1>1, <1>2, <1>3 DEF LineInv, Ordered
  <1>8. AllHeld(t, a)
    <2> SUFFICES ASSUME NEW n \in 1..Len(a), MustHold(a[n]) PROVE \E i \in 1..Len(t) : t[i].rid = n
      BY DEF AllHeld
    <2>1. PICK j \in 1..Len(s) : s[j].rid = n
      BY DEF LineInv, AllHeld
    <2>2. j # k
      <3>1. StemsFrom(s[j], a[n])
        BY <2>1 DEF LineInv, Fits
      <3>2. ~ Loses(s[j])
        BY <3>1 DEF StemsFrom, Loses, MustHold, Answers
      <3> QED BY <3>2
    <2>3. PICK i \in 1..Len(t) : old(i) = j
      BY <1>4, <2>2
    <2> QED BY <1>1, <2>1, <2>3
  <1> QED BY <1>5, <1>6, <1>7, <1>8 DEF LineInv

LEMMA JoinedKeeps ==
    ASSUME NEW s, NEW t, NEW a, NEW b, NEW k, NEW x, Len(s) \in Nat, Len(a) \in Nat,
           LineInv(s, a), Joined(s, t, k, x),
           Len(b) = Len(a) + 1, \A n \in 1..Len(a) : b[n] = a[n],
           x.rid = Len(a) + 1, StemsFrom(x, b[Len(a) + 1]),
           x.kind \in Answers \/ k = Len(s) + 1
    PROVE  LineInv(t, b)
  <1> DEFINE old(i) == IF i < k THEN i ELSE i - 1
  <1>1. /\ k \in 1..(Len(s) + 1) /\ Len(t) = Len(s) + 1 /\ k \in 1..Len(t) /\ t[k] = x
        /\ \A i \in 1..Len(t) : i # k => t[i] = s[old(i)]
    BY DEF Joined
  <1>2. \A i \in 1..Len(t) : i # k => old(i) \in 1..Len(s)
    BY <1>1
  <1>3. \A i, j \in 1..Len(t) :
            i # k /\ j # k => (i < j => old(i) < old(j)) /\ (old(i) = old(j) => i = j)
    BY <1>1
  <1>4. \A j \in 1..Len(s) : \E i \in 1..Len(t) : i # k /\ old(i) = j
    <2> SUFFICES ASSUME NEW j \in 1..Len(s) PROVE \E i \in 1..Len(t) : i # k /\ old(i) = j
      OBVIOUS
    <2>1. CASE j < k
      <3>1. j \in 1..Len(t) /\ old(j) = j /\ j # k
        BY <1>1, <2>1
      <3> QED BY <3>1
    <2>2. CASE j >= k
      <3>1. j + 1 \in 1..Len(t) /\ old(j + 1) = j /\ j + 1 # k
        BY <1>1, <2>2
      <3> QED BY <3>1
    <2> QED BY <1>1, <2>1, <2>2
  <1> HIDE DEF old
  <1>5. \A i \in 1..Len(t) : i # k => t[i].rid \in 1..Len(a) /\ StemsFrom(t[i], a[t[i].rid])
    BY <1>1, <1>2 DEF LineInv, Fits
  <1>6. Fits(t, b)
    <2> SUFFICES ASSUME NEW i \in 1..Len(t)
                 PROVE  t[i].rid \in 1..Len(b) /\ StemsFrom(t[i], b[t[i].rid])
      BY DEF Fits
    <2>1. CASE i = k
      BY <1>1, <2>1
    <2>2. CASE i # k
      <3>1. t[i].rid \in 1..Len(a) /\ StemsFrom(t[i], a[t[i].rid])
        BY <1>5, <2>2
      <3>2. b[t[i].rid] = a[t[i].rid] /\ t[i].rid \in 1..Len(b)
        BY <3>1
      <3> QED BY <3>1, <3>2
    <2> QED BY <2>1, <2>2
  <1>7. Distinct(t)
    <2> SUFFICES ASSUME NEW i \in 1..Len(t), NEW j \in 1..Len(t), t[i].rid = t[j].rid PROVE i = j
      BY DEF Distinct
    <2>1. CASE i # k /\ j # k
      <3>1. s[old(i)].rid = s[old(j)].rid /\ old(i) \in 1..Len(s) /\ old(j) \in 1..Len(s)
        BY <1>1, <1>2, <2>1
      <3> QED BY <1>3, <2>1, <3>1 DEF LineInv, Distinct
    <2>2. CASE i = k \/ j = k
      BY <1>1, <1>5, <2>2
    <2> QED BY <2>1, <2>2
  <1>8. Ordered(t)
    <2> SUFFICES ASSUME NEW i \in 1..Len(t), NEW j \in 1..Len(t), i < j,
                        t[i].kind \notin Answers, t[j].kind \notin Answers
                 PROVE  t[i].rid < t[j].rid
      BY DEF Ordered
    <2>1. CASE i # k /\ j # k
      <3>1. /\ t[i] = s[old(i)] /\ t[j] = s[old(j)] /\ old(i) < old(j)
            /\ old(i) \in 1..Len(s) /\ old(j) \in 1..Len(s)
        BY <1>1, <1>2, <1>3, <2>1
      <3> QED BY <3>1 DEF LineInv, Ordered
    <2>2. CASE i = k \/ j = k
      <3>1. k = Len(t) /\ j = k /\ i # k
        BY <1>1, <2>2
      <3>2. t[i].rid \in 1..Len(a)
        BY <1>5, <3>1
      <3> QED BY <1>1, <3>1, <3>2
    <2> QED BY <2>1, <2>2
  <1>9. AllHeld(t, b)
    <2> SUFFICES ASSUME NEW n \in 1..Len(b), MustHold(b[n]) PROVE \E i \in 1..Len(t) : t[i].rid = n
      BY DEF AllHeld
    <2>1. CASE n = Len(a) + 1
      BY <1>1, <2>1
    <2>2. CASE n \in 1..Len(a)
      <3>1. PICK j \in 1..Len(s) : s[j].rid = n
        BY <2>2 DEF LineInv, AllHeld
      <3>2. PICK i \in 1..Len(t) : i # k /\ old(i) = j
        BY <1>4
      <3> QED BY <1>1, <3>1, <3>2
    <2> QED BY <2>1, <2>2
  <1> QED BY <1>6, <1>7, <1>8, <1>9 DEF LineInv

-----------------------------------------------------------------------------
(* The line under the steps of the endpoint                                 *)

Stays(s, t) == t = s /\ UNCHANGED arrived
Advances(s, t) ==
    (\E k, m : Replaced(s, t, k, m) /\ StandsFor(m, s[k])) /\ UNCHANGED arrived
Shrinks(s, t) ==
    (\E k : Dropped(s, t, k) /\ Loses(s[k])) /\ UNCHANGED arrived
Grows(s, t) ==
    \E k, x, a :
        /\ Joined(s, t, k, x) /\ a \in Arrival /\ arrived' = Append(arrived, a)
        /\ x.rid = Len(arrived) + 1 /\ StemsFrom(x, a)
        /\ x.kind \in Answers \/ k = Len(s) + 1
LineStep(s, t) == Stays(s, t) \/ Advances(s, t) \/ Shrinks(s, t) \/ Grows(s, t)

LEMMA HeldQueues ==
    ASSUME TypeInv
    PROVE  /\ wire \in Seq(Held) /\ outbound \in Seq(Held) /\ results \in Seq(Held)
           /\ tasks \in Seq(Held) /\ events \in Seq(Held)
  <1>1. Work \subseteq Held /\ Returned \subseteq Held /\ Sent \subseteq Held
    BY DEF Held, Sent
  <1> QED BY <1>1, SeqMonotonic DEF TypeInv, QueuesOK

\* The line after a step of the front of it, the rest of the line u being left alone.
LEMMA FrontStep ==
    ASSUME NEW s \in Seq(Held), NEW t \in Seq(Held), NEW u \in Seq(Held)
    PROVE  /\ Advances(s, t) => Advances(s \o u, t \o u)
           /\ Shrinks(s, t) => Shrinks(s \o u, t \o u)
           /\ \A k, x : Joined(s, t, k, x) => Joined(s \o u, t \o u, k, x)
  <1>1. ASSUME NEW k, NEW m, Replaced(s, t, k, m)
        PROVE  Replaced(s \o u, t \o u, k, m) /\ (s \o u)[k] = s[k]
    <2>1. Replaced(s \o u, t \o u, k, m)
      BY <1>1, Behind
    <2>2. k \in 1..Len(s)
      BY <1>1 DEF Replaced
    <2> QED BY <2>1, <2>2, EndToEnd
  <1>2. ASSUME NEW k, Dropped(s, t, k)
        PROVE  Dropped(s \o u, t \o u, k) /\ (s \o u)[k] = s[k]
    <2>1. Dropped(s \o u, t \o u, k)
      BY <1>2, Behind
    <2>2. k \in 1..Len(s)
      BY <1>2 DEF Dropped
    <2> QED BY <2>1, <2>2, EndToEnd
  <1>3. ASSUME NEW k, NEW x, Joined(s, t, k, x) PROVE Joined(s \o u, t \o u, k, x)
    BY <1>3, Behind
  <1>4. ASSUME Advances(s, t) PROVE Advances(s \o u, t \o u)
    <2>1. PICK k, m : Replaced(s, t, k, m) /\ StandsFor(m, s[k])
      BY <1>4 DEF Advances
    <2>2. Replaced(s \o u, t \o u, k, m) /\ StandsFor(m, (s \o u)[k])
      BY <1>1, <2>1
    <2> QED BY <1>4, <2>2 DEF Advances
  <1>5. ASSUME Shrinks(s, t) PROVE Shrinks(s \o u, t \o u)
    <2>1. PICK k : Dropped(s, t, k) /\ Loses(s[k])
      BY <1>5 DEF Shrinks
    <2>2. Dropped(s \o u, t \o u, k) /\ Loses((s \o u)[k])
      BY <1>2, <2>1
    <2> QED BY <1>5, <2>2 DEF Shrinks
  <1> QED BY <1>3, <1>4, <1>5

\* The head of q moves to the end of p, or is lost.
LEMMA HeadStep ==
    ASSUME NEW p \in Seq(Held), NEW q \in Seq(Held), q # <<>>, UNCHANGED arrived
    PROVE  /\ \A m \in Held : /\ StandsFor(m, Head(q)) => Advances(p \o q, Append(p, m) \o Tail(q))
                              /\ Append(p, m) \o Tail(q) \in Seq(Held)
           /\ Loses(Head(q)) => Shrinks(p \o q, p \o Tail(q))
           /\ p \o q \in Seq(Held) /\ p \o Tail(q) \in Seq(Held) /\ Head(q) \in Held
  <1> DEFINE pq == p \o q
             pb == p \o Tail(q)
  <1>1. Head(q) \in Held
    BY HeadTailProperties
  <1>2. /\ Dropped(pq, pb, Len(p) + 1) /\ pq[Len(p) + 1] = Head(q)
        /\ pq \in Seq(Held) /\ pb \in Seq(Held)
    BY <1>1, Meeting
  <1>3. ASSUME NEW m \in Held
        PROVE  Replaced(pq, Append(p, m) \o Tail(q), Len(p) + 1, m)
               /\ Append(p, m) \o Tail(q) \in Seq(Held)
    BY Meeting
  <1> HIDE DEF pq, pb
  <1>4. Loses(Head(q)) => Shrinks(pq, pb)
    BY <1>2 DEF Shrinks
  <1>5. ASSUME NEW m \in Held, StandsFor(m, Head(q))
        PROVE  Advances(pq, Append(p, m) \o Tail(q))
    BY <1>2, <1>3, <1>5 DEF Advances
  <1> QED BY <1>1, <1>2, <1>3, <1>4, <1>5 DEF pq, pb

LEMMA PipelineStep ==
    ASSUME TypeInv, [Next]_vars
    PROVE  LineStep(Pipeline, Pipeline')
  <1> DEFINE wo == wire \o outbound
             wr == wo \o results
             wt == wr \o tasks
  <1>1. /\ wire \in Seq(Held) /\ outbound \in Seq(Held) /\ results \in Seq(Held)
        /\ tasks \in Seq(Held) /\ events \in Seq(Held)
    BY HeldQueues
  <1>2. /\ wire' \in Seq(Held) /\ outbound' \in Seq(Held) /\ results' \in Seq(Held)
        /\ tasks' \in Seq(Held) /\ events' \in Seq(Held)
    <2>1. TypeInv'
      BY TypeNext
    <2>2. Work \subseteq Held /\ Returned \subseteq Held /\ Sent \subseteq Held
      BY DEF Held, Sent
    <2> QED BY <2>1, <2>2, SeqMonotonic DEF TypeInv, QueuesOK
  <1>3. wo \in Seq(Held) /\ wo' \in Seq(Held)
    BY <1>1, <1>2, EndToEnd
  <1>4. wr \in Seq(Held) /\ wr' \in Seq(Held)
    <2> HIDE DEF wo
    <2> QED BY <1>1, <1>2, <1>3, EndToEnd
  <1>5. wt \in Seq(Held) /\ wt' \in Seq(Held)
    <2> HIDE DEF wo, wr
    <2> QED BY <1>1, <1>2, <1>4, EndToEnd
  <1>6. /\ wo = wire \o outbound /\ wo' = wire' \o outbound'
        /\ wr = wo \o results /\ wr' = wo' \o results'
        /\ wt = wr \o tasks /\ wt' = wr' \o tasks'
        /\ Pipeline = wt \o events /\ Pipeline' = wt' \o events'
    BY DEF Pipeline
  <1> HIDE DEF wo, wr, wt
  <1>7. \A x : StandsFor(x, x)
    BY DEF StandsFor
  <1>8. CASE Rests
    <2>1. Pipeline' = Pipeline /\ UNCHANGED arrived
      BY <1>8 DEF Rests, queues, Pipeline
    <2> QED BY <2>1 DEF LineStep, Stays
  <1>9. CASE EventDrained
    <2>1. /\ wr' = wr /\ events # <<>> /\ UNCHANGED arrived
          /\ tasks' = Append(tasks, Head(events)) /\ events' = Tail(events)
      BY <1>6, <1>9 DEF EventDrained
    <2>2. Head(events) \in Held
      BY <1>1, <2>1, HeadStep
    <2>3. wt' = Append(wt, Head(events))
      <3>1. wr \o Append(tasks, Head(events)) = Append(wr \o tasks, Head(events))
        BY <1>1, <1>4, <2>2, AppendBehind
      <3> QED BY <1>6, <2>1, <3>1
    <2>4. Advances(wt \o events, Append(wt, Head(events)) \o Tail(events))
      BY <1>1, <1>5, <1>7, <2>1, <2>2, HeadStep
    <2> QED BY <1>6, <2>1, <2>3, <2>4 DEF LineStep
  <1>10. CASE TaskHandled
    <2>1. PICK m : Becomes(Head(tasks), m) /\ results' = Append(results, m)
      BY <1>10 DEF TaskHandled
    <2>2. wo' = wo /\ tasks # <<>> /\ UNCHANGED <<arrived, events>> /\ tasks' = Tail(tasks)
      BY <1>6, <1>10 DEF TaskHandled
    <2>3. m \in Held /\ StandsFor(m, Head(tasks))
      BY <2>1 DEF Becomes, StandsFor, Held, Sent
    <2>4. wr' = Append(wr, m)
      <3>1. wo \o Append(results, m) = Append(wo \o results, m)
        BY <1>1, <1>3, <2>3, AppendBehind
      <3> QED BY <1>6, <2>1, <2>2, <3>1
    <2>5. Advances(wr \o tasks, Append(wr, m) \o Tail(tasks))
      BY <1>1, <1>4, <2>2, <2>3, HeadStep
    <2>6. Advances(wt, wt')
      BY <1>6, <2>2, <2>4, <2>5
    <2>7. Advances(wt \o events, wt' \o events)
      BY <1>1, <1>5, <2>6, FrontStep
    <2> QED BY <1>6, <2>2, <2>7 DEF LineStep
  <1>11. CASE StreamTaken
    <2>1. wr' = wr /\ tasks # <<>> /\ UNCHANGED <<arrived, events>> /\ tasks' = Tail(tasks)
      BY <1>6, <1>11 DEF StreamTaken
    <2>2. Loses(Head(tasks))
      BY <1>11 DEF StreamTaken, Loses
    <2>3. Shrinks(wr \o tasks, wr \o Tail(tasks))
      BY <1>1, <1>4, <2>1, <2>2, HeadStep
    <2>4. Shrinks(wt, wt')
      BY <1>6, <2>1, <2>3
    <2>5. Shrinks(wt \o events, wt' \o events)
      BY <1>1, <1>5, <2>4, FrontStep
    <2> QED BY <1>6, <2>1, <2>5 DEF LineStep
  <1>12. CASE ResultWritten
    <2>1. /\ wire' = wire /\ results # <<>> /\ UNCHANGED <<arrived, events, tasks>>
          /\ outbound' = Append(outbound, Head(results)) /\ results' = Tail(results)
      BY <1>12 DEF ResultWritten
    <2>2. Head(results) \in Held
      BY <1>1, <2>1, HeadStep
    <2>3. wo' = Append(wo, Head(results))
      <3>1. wire \o Append(outbound, Head(results)) = Append(wire \o outbound, Head(results))
        BY <1>1, <2>2, AppendBehind
      <3> QED BY <1>6, <2>1, <3>1
    <2>4. Advances(wo \o results, Append(wo, Head(results)) \o Tail(results))
      BY <1>1, <1>3, <1>7, <2>1, <2>2, HeadStep
    <2>5. Advances(wr, wr')
      BY <1>6, <2>1, <2>3, <2>4
    <2>6. Advances(wr \o tasks, wr' \o tasks)
      BY <1>1, <1>4, <2>5, FrontStep
    <2>7. Advances(wt, wt')
      BY <1>6, <2>1, <2>6
    <2>8. Advances(wt \o events, wt' \o events)
      BY <1>1, <1>5, <2>7, FrontStep
    <2> QED BY <1>6, <2>1, <2>8 DEF LineStep
  <1>13. CASE ResultGone
    <2>1. /\ wo' = wo /\ results # <<>> /\ UNCHANGED <<arrived, events, tasks>>
          /\ results' = Tail(results)
      BY <1>6, <1>13 DEF ResultGone
    <2>2. Loses(Head(results))
      <3>1. Head(results) \in Returned
        BY <2>1, HeadTailProperties DEF TypeInv, QueuesOK
      <3> QED BY <1>13, <3>1 DEF ResultGone, Loses, Returned, Response
    <2>3. Shrinks(wo \o results, wo \o Tail(results))
      BY <1>1, <1>3, <2>1, <2>2, HeadStep
    <2>4. Shrinks(wr, wr')
      BY <1>6, <2>1, <2>3
    <2>5. Shrinks(wr \o tasks, wr' \o tasks)
      BY <1>1, <1>4, <2>4, FrontStep
    <2>6. Shrinks(wt, wt')
      BY <1>6, <2>1, <2>5
    <2>7. Shrinks(wt \o events, wt' \o events)
      BY <1>1, <1>5, <2>6, FrontStep
    <2> QED BY <1>6, <2>1, <2>7 DEF LineStep
  <1>14. CASE Flushed
    <2>1. /\ outbound # <<>> /\ UNCHANGED <<arrived, events, tasks, results>>
          /\ wire' = Append(wire, Head(outbound)) /\ outbound' = Tail(outbound)
      BY <1>14 DEF Flushed
    <2>2. Head(outbound) \in Held
      BY <1>1, <2>1, HeadStep
    <2>3. Advances(wire \o outbound, Append(wire, Head(outbound)) \o Tail(outbound))
      BY <1>1, <1>7, <2>1, <2>2, HeadStep
    <2>4. Advances(wo, wo')
      BY <1>6, <2>1, <2>3
    <2>5. Advances(wo \o results, wo' \o results)
      BY <1>1, <1>3, <2>4, FrontStep
    <2>6. Advances(wr, wr')
      BY <1>6, <2>1, <2>5
    <2>7. Advances(wr \o tasks, wr' \o tasks)
      BY <1>1, <1>4, <2>6, FrontStep
    <2>8. Advances(wt, wt')
      BY <1>6, <2>1, <2>7
    <2>9. Advances(wt \o events, wt' \o events)
      BY <1>1, <1>5, <2>8, FrontStep
    <2> QED BY <1>6, <2>1, <2>9 DEF LineStep
  <1>15. ASSUME NEW a, Arrives(a) PROVE Grows(Pipeline, Pipeline')
    <2>1. /\ a \in Arrival /\ a.rid = Len(arrived) + 1 /\ arrived' = Append(arrived, a)
          /\ WorkArrives(a) \/ ControlArrives(a)
      BY <1>15 DEF Arrives
    <2>2. CASE WorkArrives(a)
      <3>1. a \in Held /\ events' = Append(events, a) /\ a.kind \in {"request", "event", "stream"}
        BY <2>2 DEF WorkArrives, Held, Work
      <3>2. wt' = wt
        BY <1>6, <2>2 DEF WorkArrives
      <3>3. /\ wt \o Append(events, a) = Append(wt \o events, a)
            /\ wt \o events \in Seq(Held)
        BY <1>1, <1>5, <3>1, AppendBehind, EndToEnd
      <3>4. Joined(wt \o events, Append(wt \o events, a), Len(wt \o events) + 1, a)
        BY <3>1, <3>3, AtTheEnd
      <3>5. Joined(Pipeline, Pipeline', Len(Pipeline) + 1, a)
        BY <1>6, <3>1, <3>2, <3>3, <3>4
      <3>6. StemsFrom(a, a)
        BY <3>1 DEF StemsFrom
      <3> QED BY <2>1, <3>5, <3>6 DEF Grows
    <2>3. CASE ControlArrives(a)
      <3>1. PICK r \in Reply : r.rid = a.rid /\ outbound' = Append(outbound, r)
        BY <2>3 DEF ControlArrives
      <3>2. UNCHANGED <<events, tasks, results, wire>>
        BY <2>3 DEF ControlArrives
      <3>3. r \in Held /\ r.kind \in Answers
        BY <3>1 DEF Held, Sent, Reply, Answers
      <3>4. wo' = Append(wo, r)
        <4>1. wire \o Append(outbound, r) = Append(wire \o outbound, r)
          BY <1>1, <3>3, AppendBehind
        <4> QED BY <1>6, <3>1, <3>2, <4>1
      <3> DEFINE k == Len(wo) + 1
      <3>5. Joined(wo, wo', k, r)
        BY <1>3, <3>3, <3>4, AtTheEnd
      <3> HIDE DEF k
      <3>6. Joined(wo \o results, wo' \o results, k, r)
        BY <1>1, <1>3, <3>5, FrontStep
      <3>7. Joined(wr, wr', k, r)
        BY <1>6, <3>2, <3>6
      <3>8. Joined(wr \o tasks, wr' \o tasks, k, r)
        BY <1>1, <1>4, <3>7, FrontStep
      <3>9. Joined(wt, wt', k, r)
        BY <1>6, <3>2, <3>8
      <3>10. Joined(wt \o events, wt' \o events, k, r)
        BY <1>1, <1>5, <3>9, FrontStep
      <3>11. Joined(Pipeline, Pipeline', k, r)
        BY <1>6, <3>2, <3>10
      <3>12. StemsFrom(r, a)
        BY <3>3 DEF StemsFrom
      <3> QED BY <2>1, <3>1, <3>3, <3>11, <3>12 DEF Grows
    <2> QED BY <2>1, <2>2, <2>3
  <1>16. (\E a : Arrives(a)) => LineStep(Pipeline, Pipeline')
    BY <1>15 DEF LineStep
  <1>17. \/ Rests \/ EventDrained \/ TaskHandled \/ StreamTaken
         \/ ResultWritten \/ ResultGone \/ Flushed \/ \E a : Arrives(a)
    BY QueueStep
  <1> QED BY <1>8, <1>9, <1>10, <1>11, <1>12, <1>13, <1>14, <1>16, <1>17

-----------------------------------------------------------------------------
(* The invariant, and what follows                                          *)

Inv == TypeInv /\ LineInv(Pipeline, arrived)

LEMMA PipelineTyped == TypeInv => Pipeline \in Seq(Held) /\ Len(Pipeline) \in Nat
  <1> SUFFICES ASSUME TypeInv PROVE Pipeline \in Seq(Held)
    BY LenProperties
  <1>1. /\ wire \in Seq(Held) /\ outbound \in Seq(Held) /\ results \in Seq(Held)
        /\ tasks \in Seq(Held) /\ events \in Seq(Held)
    BY HeldQueues
  <1>2. wire \o outbound \in Seq(Held)
    BY <1>1, EndToEnd
  <1>3. (wire \o outbound) \o results \in Seq(Held)
    BY <1>1, <1>2, EndToEnd
  <1>4. ((wire \o outbound) \o results) \o tasks \in Seq(Held)
    BY <1>1, <1>3, EndToEnd
  <1>5. (((wire \o outbound) \o results) \o tasks) \o events \in Seq(Held)
    BY <1>1, <1>4, EndToEnd
  <1> QED BY <1>5 DEF Pipeline

LEMMA InvInit == Init => Inv
  <1> SUFFICES ASSUME Init PROVE LineInv(Pipeline, arrived)
    BY TypeInit DEF Inv
  <1>1. <<>> \o <<>> = <<>>
    BY ConcatEmptySeq, EmptySeq
  <1>2. Pipeline = <<>> /\ arrived = <<>>
    BY <1>1 DEF Init, InitEndpoint, Pipeline
  <1>3. Len(Pipeline) = 0 /\ Len(arrived) = 0
    BY <1>2, EmptySeq
  <1>4. 1..0 = {}
    OBVIOUS
  <1> QED BY <1>3, <1>4 DEF LineInv, Fits, Distinct, Ordered, AllHeld

LEMMA InvNext == Inv /\ [Next]_vars => Inv'
  <1> SUFFICES ASSUME Inv, [Next]_vars PROVE LineInv(Pipeline', arrived')
    BY TypeNext DEF Inv
  <1>1. TypeInv /\ LineInv(Pipeline, arrived) /\ Len(Pipeline) \in Nat
    BY PipelineTyped DEF Inv
  <1>2. arrived \in Seq(Arrival) /\ Len(arrived) \in Nat
    BY <1>1, LenProperties DEF TypeInv, QueuesOK
  <1> DEFINE s == Pipeline
             t == Pipeline'
  <1>3. LineStep(s, t)
    BY <1>1, PipelineStep
  <1> HIDE DEF s, t
  <1>4. LineInv(s, arrived) /\ Len(s) \in Nat
    BY <1>1 DEF s
  <1> SUFFICES LineInv(t, arrived')
    BY DEF t
  <1>5. CASE Stays(s, t)
    BY <1>4, <1>5 DEF Stays
  <1>6. CASE Advances(s, t)
    BY <1>4, <1>6, ReplacedKeeps DEF Advances
  <1>7. CASE Shrinks(s, t)
    BY <1>4, <1>7, DroppedKeeps DEF Shrinks
  <1>8. CASE Grows(s, t)
    <2>1. PICK k, x, a :
              /\ Joined(s, t, k, x) /\ a \in Arrival /\ arrived' = Append(arrived, a)
              /\ x.rid = Len(arrived) + 1 /\ StemsFrom(x, a)
              /\ x.kind \in Answers \/ k = Len(s) + 1
      BY <1>8 DEF Grows
    <2>2. /\ Len(arrived') = Len(arrived) + 1 /\ arrived'[Len(arrived) + 1] = a
          /\ \A n \in 1..Len(arrived) : arrived'[n] = arrived[n]
      BY <1>2, <2>1, AppendProperties
    <2> QED BY <1>2, <1>4, <2>1, <2>2, JoinedKeeps
  <1> QED BY <1>3, <1>5, <1>6, <1>7, <1>8 DEF LineStep

LEMMA InOrder == Inv => AnsweredInOrder
  <1> SUFFICES ASSUME Inv, NEW i \in 1..Len(Pipeline), NEW j \in 1..Len(Pipeline), i < j,
                      {Pipeline[i].kind, Pipeline[j].kind} \cap {"accept", "pong", "closeAck"} = {}
               PROVE  Pipeline[i].rid < Pipeline[j].rid
    BY DEF AnsweredInOrder
  <1> DEFINE x == Pipeline[i].kind
             y == Pipeline[j].kind
  <1>1. x \notin Answers /\ y \notin Answers
    BY DEF Answers
  <1> QED BY <1>1 DEF Inv, LineInv, Ordered

LEMMA HeldOnce == Inv => HeldOrAnsweredOnce
  <1> SUFFICES ASSUME Inv, NEW n \in 1..Len(arrived), MustHold(arrived[n]) PROVE Occurrences(n) = 1
    BY DEF HeldOrAnsweredOnce, MustHold
  <1>1. PICK k \in 1..Len(Pipeline) : Pipeline[k].rid = n
    BY DEF Inv, LineInv, AllHeld
  <1>2. {i \in 1..Len(Pipeline) : Pipeline[i].rid = n} = {k}
    BY <1>1 DEF Inv, LineInv, Distinct
  <1> QED BY <1>2, FS_Singleton DEF Occurrences

\* Whatever the peer sends and whichever polls are cut short, requests and events leave the
\* endpoint in the order they came: no queue of core.py or broker.py lets a later one pass
\* (AnsweredInOrder).
THEOREM AnswersInOrder == Spec => []AnsweredInOrder
  BY InvInit, InvNext, InOrder, PTL DEF Spec

\* Every request that can be answered, and every control message, is at any time held in one
\* place or answered once: none is lost between the queues and none answered twice
\* (HeldOrAnsweredOnce).
THEOREM NoneLostOrRepeated == Spec => []HeldOrAnsweredOnce
  BY InvInit, InvNext, HeldOnce, PTL DEF Spec

\* What takes the place of a message is the answer to it: its request id is that of an
\* arrival of its kind, and a response stands for a request (broker.py:145-162).
THEOREM AnswersFitArrivals == Spec => []Fits(Pipeline, arrived)
  <1>1. Inv => Fits(Pipeline, arrived)
    BY DEF Inv, LineInv
  <1> QED BY <1>1, InvInit, InvNext, PTL DEF Spec
=============================================================================
