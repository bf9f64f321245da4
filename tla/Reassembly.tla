----------------------------- MODULE Reassembly -----------------------------
(***************************************************************************)
(* Message fragmentation and reassembly (src/axtp_runtime/codec.py).       *)
(*                                                                         *)
(* A MessageFragmenter at one end cuts messages into frames that carry a   *)
(* wrapping message id; a MessageReassembler at the other end keeps one    *)
(* assembly per message id.  Between them is a link that may lose,         *)
(* duplicate, delay and reorder frames: a serial, HID or BLE transport     *)
(* drops frames (a CRC mismatch is a silent drop), and the reassembler     *)
(* accepts fragments in any order and ignores repeated ones.               *)
(*                                                                         *)
(* A message is named by its number in the order of sending.  The bytes of *)
(* a fragment are abstracted to the pair <<message number, frame index>>,  *)
(* so a reassembled body records which message each of its fragments came  *)
(* from.                                                                   *)
(*                                                                         *)
(* The module covers the life of one fragmenter.  A client that attaches   *)
(* to another transport gets a new one, whose ids start at 1 again.        *)
(***************************************************************************)
EXTENDS Integers, Sequences

CONSTANTS
    MaxId,           \* largest message id; 0xFFFF in the code
    MaxFragments,    \* most fragments of one message; 255 in the code
    MaxMessageSize,  \* MessageReassembler max_message_size; 1 MiB in the code
    Types,           \* payload types
    Lengths,         \* body lengths the application sends
    Capacities,      \* payload bytes per frame under the transports attached
    MaxSent          \* bound on the messages sent

ASSUME ReassemblyAssumption ==
    /\ MaxId \in Nat \ {0}
    /\ MaxFragments \in Nat \ {0}
    /\ MaxMessageSize \in Nat
    /\ Lengths \subseteq Nat
    /\ Capacities \subseteq Nat
    /\ MaxSent \in Nat

VARIABLES
    nextMessageId,  \* MessageFragmenter._next_message_id
    capacity,       \* payload capacity of the frames the fragmenter makes
    sent,           \* the messages fragmented so far, in order (history)
    assemblies,     \* MessageReassembler._assemblies
    received,       \* the frames handed to on_frame so far (history)
    delivered       \* the messages handed to the payload decoder (history)

sender == <<nextMessageId, capacity, sent>>
vars == <<nextMessageId, capacity, sent, assemblies, received, delivered>>

Ids == 1..MaxId
Indexes == 0..(MaxFragments - 1)

-----------------------------------------------------------------------------
(* MessageFragmenter *)

\* Wrong forms of NextId: no wrap at all; a wrap one id too early.
NextIdNoWrap(id) == id + 1
NextIdEarlyWrap(id) == IF id + 1 >= MaxId THEN 1 ELSE id + 1

\* _take_message_id returns nextMessageId and leaves this one behind.
NextId(id) == IF id + 1 > MaxId THEN 1 ELSE id + 1

\* The number of frames of a body of length len at capacity c.
FrameCount(len, c) ==
    IF c = 0 \/ len = 0 THEN 1 ELSE (len + c - 1) \div c

\* The payload size of frame i: the length of the slice of the body from i * cap
\* to min(len, (i + 1) * cap), and nothing when no payload fits a frame.
PartSize(m, i) ==
    LET start == i * m.cap
        end == IF start + m.cap < m.len THEN start + m.cap ELSE m.len
    IN IF start < end THEN end - start ELSE 0

\* The frames of message n; a message refused for its size (count 0) has none.
FrameOf(n, i) ==
    [msg |-> n, id |-> sent[n].id, ptype |-> sent[n].ptype, index |-> i,
     count |-> sent[n].count, size |-> PartSize(sent[n], i)]

Frames(n) == {FrameOf(n, i) : i \in 0..(sent[n].count - 1)}

\* Every frame ever written: the link may hand over any of them at any time.
Link == UNION {Frames(n) : n \in 1..Len(sent)}

\* fragment(): the id is taken before the body is looked at, so it is used up
\* even when the message needs too many fragments and ValueError is raised.
Fragment(ptype, len) ==
    LET count == FrameCount(len, capacity) IN
    /\ Len(sent) < MaxSent
    /\ sent' = Append(sent, [id |-> nextMessageId, ptype |-> ptype, len |-> len,
                             cap |-> capacity,
                             count |-> IF count > MaxFragments THEN 0 ELSE count])
    /\ nextMessageId' = NextId(nextMessageId)
    /\ UNCHANGED <<capacity, assemblies, received, delivered>>

\* set_max_frame_size(), when the endpoint is configured for another transport.
SetCapacity(c) ==
    /\ capacity' = c
    /\ UNCHANGED <<nextMessageId, sent, assemblies, received, delivered>>

-----------------------------------------------------------------------------
(* MessageReassembler *)

NoPart == 0      \* fragments[i] is None
NoType == "none"

\* A table entry without an assembly; also the fragments list of a new one.
NoParts == [i \in Indexes |-> NoPart]
NoAssembly == [ptype |-> NoType, count |-> 0, total |-> 0, parts |-> NoParts]

\* Wrong form of AssemblyFor: one assembly per payload type.
AssemblyForType(f) ==
    LET same == {id \in Ids : assemblies[id].ptype = f.ptype} IN
    IF same = {}
    THEN [ptype |-> f.ptype, count |-> f.count, total |-> 0, parts |-> NoParts]
    ELSE assemblies[CHOOSE id \in same : TRUE]

\* The assembly setdefault() finds or creates for the frame.
AssemblyFor(f) ==
    IF assemblies[f.id] = NoAssembly
    THEN [ptype |-> f.ptype, count |-> f.count, total |-> 0, parts |-> NoParts]
    ELSE assemblies[f.id]

Mismatch(a, f) == a.ptype # f.ptype \/ a.count # f.count

\* Wrong form of WithPart: the size is set where it should be added up.
WithPartSizeReset(a, f) ==
    [ptype |-> a.ptype, count |-> a.count, total |-> f.size,
     parts |-> [a.parts EXCEPT ![f.index] = f.msg]]

\* The assembly with the frame's payload added to it.
WithPart(a, f) ==
    [ptype |-> a.ptype, count |-> a.count, total |-> a.total + f.size,
     parts |-> [a.parts EXCEPT ![f.index] = f.msg]]

Complete(a) == \A i \in 0..(a.count - 1) : a.parts[i] # NoPart

Deliver(id, ptype, count, parts) ==
    delivered' = delivered \cup
        {[id |-> id, ptype |-> ptype, count |-> count, parts |-> parts]}

\* _assemblies after a frame of a message of several fragments.
Drop(id) == assemblies' = [assemblies EXCEPT ![id] = NoAssembly]
Keep(id, a) == assemblies' = [assemblies EXCEPT ![id] = a]

\* A message of one frame is passed on without a look at the assemblies.
OnSingleFrame(f) ==
    /\ f.count = 1
    /\ Deliver(f.id, f.ptype, 1, [NoParts EXCEPT ![0] = f.msg])
    /\ UNCHANGED assemblies

\* Another message left an assembly under this id: both are given up.
OnMismatch(f) ==
    /\ f.count > 1
    /\ Mismatch(AssemblyFor(f), f)
    /\ Drop(f.id)
    /\ UNCHANGED delivered

\* Wrong forms of OnRepeatedFragment: it replaces what is held; it gives the
\* assembly up.
OnRepeatedFragmentReplaces(f) ==
    /\ f.count > 1
    /\ ~ Mismatch(AssemblyFor(f), f)
    /\ AssemblyFor(f).parts[f.index] # NoPart
    /\ Keep(f.id, [AssemblyFor(f) EXCEPT !.parts[f.index] = f.msg])
    /\ UNCHANGED delivered

OnRepeatedFragmentDrops(f) ==
    /\ f.count > 1
    /\ ~ Mismatch(AssemblyFor(f), f)
    /\ AssemblyFor(f).parts[f.index] # NoPart
    /\ Drop(f.id)
    /\ UNCHANGED delivered

OnRepeatedFragment(f) ==
    /\ f.count > 1
    /\ ~ Mismatch(AssemblyFor(f), f)
    /\ AssemblyFor(f).parts[f.index] # NoPart
    /\ UNCHANGED <<assemblies, delivered>>

\* Wrong form of OnNewFragment: a message delivered stays in the table.
OnNewFragmentKept(f) ==
    LET a == WithPart(AssemblyFor(f), f) IN
    /\ f.count > 1
    /\ ~ Mismatch(AssemblyFor(f), f)
    /\ AssemblyFor(f).parts[f.index] = NoPart
    /\ \/ /\ a.total > MaxMessageSize
          /\ Drop(f.id)
          /\ UNCHANGED delivered
       \/ /\ a.total <= MaxMessageSize
          /\ Keep(f.id, a)
          /\ IF Complete(a) THEN Deliver(f.id, a.ptype, a.count, a.parts)
             ELSE UNCHANGED delivered

OnNewFragment(f) ==
    LET a == WithPart(AssemblyFor(f), f) IN
    /\ f.count > 1
    /\ ~ Mismatch(AssemblyFor(f), f)
    /\ AssemblyFor(f).parts[f.index] = NoPart
    /\ \/ /\ a.total > MaxMessageSize
          /\ Drop(f.id)
          /\ UNCHANGED delivered
       \/ /\ a.total <= MaxMessageSize
          /\ ~ Complete(a)
          /\ Keep(f.id, a)
          /\ UNCHANGED delivered
       \/ /\ a.total <= MaxMessageSize
          /\ Complete(a)
          /\ Drop(f.id)
          /\ Deliver(f.id, a.ptype, a.count, a.parts)

OnFrame(f) ==
    /\ received' = received \cup {f}
    /\ UNCHANGED sender
    /\ \/ OnSingleFrame(f)
       \/ OnMismatch(f)
       \/ OnRepeatedFragment(f)
       \/ OnNewFragment(f)

-----------------------------------------------------------------------------
Init ==
    /\ nextMessageId = 1
    /\ capacity \in Capacities
    /\ sent = <<>>
    /\ assemblies = [id \in Ids |-> NoAssembly]
    /\ received = {}
    /\ delivered = {}

Next ==
    \/ \E ptype \in Types, len \in Lengths : Fragment(ptype, len)
    \/ \E c \in Capacities : SetCapacity(c)
    \/ \E f \in Link : OnFrame(f)

Spec == Init /\ [][Next]_vars
-----------------------------------------------------------------------------
(* Properties *)

Message == [id : Ids, ptype : Types, len : Nat, cap : Nat, count : 0..MaxFragments]
Part == Nat \* a message number, or NoPart
Assembly == [ptype : Types \cup {NoType}, count : 0..MaxFragments, total : Nat,
             parts : [Indexes -> Part]]

\* Type correctness: ids stay in 1..MaxId, fragment counts in a byte.
TypeOK ==
    /\ nextMessageId \in Ids
    /\ capacity \in Nat
    /\ sent \in Seq(Message)
    /\ assemblies \in [Ids -> Assembly]
    /\ received \subseteq [msg : 1..Len(sent), id : Ids, ptype : Types,
                           index : Indexes, count : 1..MaxFragments, size : Nat]
    /\ delivered \subseteq [id : Ids, ptype : Types, count : 1..MaxFragments,
                            parts : [Indexes -> Part]]

\* Two messages under one id are at least the whole id space apart, refused
\* messages included (_take_message_id, codec.py:210).
IdsFarApart ==
    \A m, n \in 1..Len(sent) :
        m < n /\ sent[m].id = sent[n].id => n - m >= MaxId

\* The non-None fragments of a fragments list all come from one message, or
\* from messages the whole id space apart.
FarApart(parts) ==
    \A i, j \in Indexes :
        parts[i] # NoPart /\ parts[j] # NoPart /\ parts[i] < parts[j]
            => parts[j] - parts[i] >= MaxId

\* Whatever is lost, repeated or reordered, no assembly and no delivered body
\* combines fragments of two messages unless the sender's ids wrapped around
\* between the two (MessageReassembler.on_frame, codec.py:145).
MixedOnlyAcrossWrap ==
    /\ \A id \in Ids : FarApart(assemblies[id].parts)
    /\ \A d \in delivered : FarApart(d.parts)

\* The sizes of the fragments an assembly holds.
HeldSize(a) ==
    LET sum[i \in 0..a.count] ==
            IF i = 0 THEN 0
            ELSE sum[i - 1] + IF a.parts[i - 1] = NoPart THEN 0
                              ELSE PartSize(sent[a.parts[i - 1]], i - 1)
    IN sum[a.count]

\* An assembly in the table holds a fragment, misses one and is within
\* max_message_size: nothing finished, empty or oversize is left behind
\* (codec.py:163-171).
AssembliesUnfinished ==
    \A id \in Ids : LET a == assemblies[id] IN a # NoAssembly =>
        /\ ~ Complete(a)
        /\ \E i \in 0..(a.count - 1) : a.parts[i] # NoPart
        /\ a.total <= MaxMessageSize

\* total_size is the number of bytes held, so the limit of max_message_size
\* bounds the memory one id can hold (codec.py:163).
TotalIsHeldSize ==
    \A id \in Ids : assemblies[id].total = HeldSize(assemblies[id])

\* The delivery of message n exactly as it was sent.
Intact(n) ==
    [id |-> sent[n].id, ptype |-> sent[n].ptype, count |-> sent[n].count,
     parts |-> [i \in Indexes |-> IF i < sent[n].count THEN n ELSE NoPart]]

\* A message of several fragments larger than the reassembler accepts.
Oversize(n) == sent[n].count > 1 /\ sent[n].len > MaxMessageSize

\* Until an id is used a second time, the messages delivered are exactly the
\* messages all of whose frames arrived, in any order and any number of times,
\* except the oversize ones (codec.py:145-175).
DeliveredIffAllReceived ==
    Len(sent) <= MaxId =>
        delivered = {Intact(n) : n \in {k \in 1..Len(sent) :
                        /\ sent[k].count > 0
                        /\ Frames(k) \subseteq received
                        /\ ~ Oversize(k)}}

\* A held fragment is never replaced: the first to arrive stays until the
\* assembly goes as a whole (codec.py:161).
FirstFragmentStays ==
    [][\A id \in Ids :
          \/ assemblies'[id] = NoAssembly
          \/ \A i \in Indexes :
                assemblies[id].parts[i] \in {NoPart, assemblies'[id].parts[i]}]_vars
=============================================================================
