-------------------------- MODULE ReassemblyProofs --------------------------
(***************************************************************************)
(* Proofs about Reassembly, for every id space, fragment limit, size       *)
(* limit and set of lengths and capacities.                                *)
(*                                                                         *)
(* MixedOnlyAcrossWrap is not inductive: it says nothing of which messages *)
(* an assembly may still receive.  The strengthening has two parts:        *)
(*   IdAges         a message is at least as old as the distance from its  *)
(*                  id to the next id, counted around the id space;        *)
(*   PartsById      every fragment an assembly holds belongs to a message  *)
(*                  sent under the assembly's id.                          *)
(* Two messages under one id are then far apart (IdAges), and whatever is  *)
(* combined under one id is far apart (PartsById).  PartsReceived adds     *)
(* that the frames of those fragments arrived; NothingInvented follows.    *)
(*                                                                         *)
(* TotalIsHeldSize speaks of a sum over the indexes of an assembly.  Sums  *)
(* are reasoned about by the least element of a set of naturals (Least,    *)
(* Induction): two sums that differ in one place (SumsDiffer), a sum       *)
(* bounded place by place (SumBounded).                                    *)
(*                                                                         *)
(* DeliveredIffAllReceived needs, next to all of these (Strong), that what *)
(* arrived of a message not yet delivered is still held (Kept), and that   *)
(* nothing oversize was delivered (Fitting); both rest on the size of the  *)
(* parts held of one message never exceeding its length (HeldAtMost).      *)
(***************************************************************************)
EXTENDS Reassembly, WellFoundedInduction, TLAPS

-----------------------------------------------------------------------------
(* The operators *)

LEMMA NextIdInRange ==
    ASSUME NEW id \in Ids  PROVE NextId(id) \in Ids
  BY ReassemblyAssumption DEF NextId, Ids

LEMMA FrameCountPositive ==
    ASSUME NEW len \in Nat, NEW c \in Nat
    PROVE  FrameCount(len, c) \in Nat \ {0}
<1>1. CASE c = 0 \/ len = 0
  BY <1>1 DEF FrameCount
<1>2. CASE c # 0 /\ len # 0
  <2>1. (len + c - 1) \div c \in Int /\ (len + c - 1) \div c >= 1
    BY <1>2
  <2> QED BY <2>1, <1>2 DEF FrameCount
<1> QED BY <1>1, <1>2

LEMMA PartSizeIsNat ==
    ASSUME NEW m \in Message, NEW i \in Nat
    PROVE  PartSize(m, i) \in Nat
<1>1. i * m.cap \in Int /\ m.cap \in Int /\ m.len \in Int
  BY DEF Message
<1> QED BY <1>1 DEF PartSize

\* The frames of the link are well formed, and carry the id of their message.
LinkFrame == [msg : 1..Len(sent), id : Ids, ptype : Types, index : Indexes,
              count : 1..MaxFragments, size : Nat]

LEMMA LinkFrames ==
    ASSUME TypeOK, NEW f \in Link
    PROVE  /\ f \in LinkFrame
           /\ f.index < f.count
           /\ sent[f.msg].id = f.id
<1>1. PICK n \in 1..Len(sent) : f \in Frames(n)
  BY DEF Link
<1>2. PICK i \in 0..(sent[n].count - 1) : f = FrameOf(n, i)
  BY <1>1 DEF Frames
<1>3. sent[n] \in Message
  BY DEF TypeOK
<1>4. sent[n].count \in 1..MaxFragments /\ i \in Nat /\ i < sent[n].count
  BY <1>3, ReassemblyAssumption DEF Message
<1>5. PartSize(sent[n], i) \in Nat
  BY <1>3, <1>4, PartSizeIsNat
<1>6. i \in Indexes
  BY <1>4, ReassemblyAssumption DEF Indexes
<1> QED BY <1>2, <1>3, <1>4, <1>5, <1>6 DEF FrameOf, LinkFrame, Message

LEMMA NoAssemblyType == NoAssembly \in Assembly /\ NoParts \in [Indexes -> Part]
  BY ReassemblyAssumption DEF NoAssembly, Assembly, NoParts, NoPart, Part

\* The assembly a frame meets, and the one it makes, are assemblies.
LEMMA AssemblyForIsAssembly ==
    ASSUME TypeOK, NEW f \in LinkFrame
    PROVE  AssemblyFor(f) \in Assembly
<1>1. CASE assemblies[f.id] = NoAssembly
  BY <1>1, NoAssemblyType DEF AssemblyFor, Assembly, LinkFrame
<1>2. CASE assemblies[f.id] # NoAssembly
  BY <1>2 DEF AssemblyFor, TypeOK, LinkFrame
<1> QED BY <1>1, <1>2

LEMMA WithPartIsAssembly ==
    ASSUME TypeOK, NEW f \in LinkFrame, NEW a \in Assembly
    PROVE  /\ WithPart(a, f) \in Assembly
           /\ WithPart(a, f).ptype = a.ptype
           /\ WithPart(a, f).count = a.count
           /\ WithPart(a, f).parts = [a.parts EXCEPT ![f.index] = f.msg]
  BY DEF WithPart, Assembly, LinkFrame, Part, TypeOK

\* Appending a message leaves the earlier ones in place.
LEMMA SentAppend ==
    ASSUME NEW m \in Message, sent \in Seq(Message), sent' = Append(sent, m)
    PROVE  /\ sent' \in Seq(Message)
           /\ Len(sent') = Len(sent) + 1
           /\ sent'[Len(sent) + 1] = m
           /\ \A n \in 1..Len(sent) : sent'[n] = sent[n]
  OBVIOUS

\* What fragment() leaves behind.
LEMMA FragmentEffect ==
    ASSUME TypeOK, NEW ptype \in Types, NEW len \in Lengths, Fragment(ptype, len)
    PROVE  /\ nextMessageId' = NextId(nextMessageId)
           /\ sent' \in Seq(Message)
           /\ Len(sent') = Len(sent) + 1
           /\ sent'[Len(sent) + 1].id = nextMessageId
           /\ \A n \in 1..Len(sent) : sent'[n] = sent[n]
           /\ UNCHANGED <<capacity, assemblies, received, delivered>>
<1> DEFINE count == FrameCount(len, capacity)
           m == [id |-> nextMessageId, ptype |-> ptype, len |-> len, cap |-> capacity,
                 count |-> IF count > MaxFragments THEN 0 ELSE count]
<1>1. len \in Nat /\ capacity \in Nat
  BY ReassemblyAssumption DEF TypeOK
<1>2. count \in Nat
  BY <1>1, FrameCountPositive
<1>3. m \in Message
  BY <1>1, <1>2, ReassemblyAssumption DEF Message, TypeOK
<1>4. sent' = Append(sent, m) /\ sent \in Seq(Message)
  BY DEF Fragment, TypeOK
<1> HIDE DEF m
<1>5. /\ sent' \in Seq(Message)
      /\ Len(sent') = Len(sent) + 1
      /\ sent'[Len(sent) + 1] = m
      /\ \A n \in 1..Len(sent) : sent'[n] = sent[n]
  BY <1>3, <1>4, SentAppend
<1>6. m.id = nextMessageId
  BY DEF m
<1> QED BY <1>5, <1>6 DEF Fragment

-----------------------------------------------------------------------------
(* Type correctness *)

LEMMA TypeInit == Init => TypeOK
<1> SUFFICES ASSUME Init PROVE TypeOK
  OBVIOUS
<1>1. assemblies \in [Ids -> Assembly]
  BY NoAssemblyType DEF Init
<1> QED BY <1>1, ReassemblyAssumption DEF Init, TypeOK, Ids

LEMMA TypeFragment ==
    ASSUME TypeOK, NEW ptype \in Types, NEW len \in Lengths, Fragment(ptype, len)
    PROVE  TypeOK'
<1>1. nextMessageId' \in Ids
  BY FragmentEffect, NextIdInRange DEF TypeOK
<1>2. 1..Len(sent) \subseteq 1..Len(sent')
  BY FragmentEffect DEF TypeOK
<1>3. received' \subseteq [msg : 1..Len(sent'), id : Ids, ptype : Types,
                           index : Indexes, count : 1..MaxFragments, size : Nat]
  BY FragmentEffect, <1>2 DEF TypeOK
<1> QED BY <1>1, <1>3, FragmentEffect DEF TypeOK

LEMMA TypeOnFrame ==
    ASSUME TypeOK, NEW f \in Link, OnFrame(f)
    PROVE  TypeOK'
<1> DEFINE a == AssemblyFor(f)
           Delivery == [id : Ids, ptype : Types, count : 1..MaxFragments,
                        parts : [Indexes -> Part]]
<1>1. f \in LinkFrame
  BY LinkFrames
<1>2. a \in Assembly
  BY <1>1, AssemblyForIsAssembly
<1>3. /\ WithPart(a, f) \in Assembly
      /\ WithPart(a, f).ptype = a.ptype
      /\ WithPart(a, f).count = a.count
  BY <1>1, <1>2, WithPartIsAssembly
<1>4. WithPart(a, f).parts \in [Indexes -> Part]
  BY <1>3 DEF Assembly
<1>5. /\ UNCHANGED sender
      /\ received' \subseteq LinkFrame
  BY <1>1 DEF OnFrame, TypeOK, LinkFrame
<1>6. assemblies' \in [Ids -> Assembly] /\ delivered' \subseteq Delivery
  <2> USE <1>1, NoAssemblyType DEF TypeOK, LinkFrame
  <2>1. CASE OnSingleFrame(f)
    BY <2>1 DEF OnSingleFrame, Deliver, Part, Indexes
  <2>2. CASE OnMismatch(f)
    BY <2>2 DEF OnMismatch, Drop
  <2>3. CASE OnRepeatedFragment(f)
    BY <2>3 DEF OnRepeatedFragment
  <2>4. CASE OnNewFragment(f)
    <3>1. a.ptype = f.ptype /\ a.count = f.count
      BY <2>4 DEF OnNewFragment, Mismatch
    <3> QED BY <2>4, <1>3, <1>4, <3>1 DEF OnNewFragment, Drop, Keep, Deliver
  <2> QED BY <2>1, <2>2, <2>3, <2>4 DEF OnFrame
<1> QED BY <1>5, <1>6 DEF TypeOK, sender, LinkFrame

LEMMA TypeNext == TypeOK /\ [Next]_vars => TypeOK'
<1> SUFFICES ASSUME TypeOK, [Next]_vars PROVE TypeOK'
  OBVIOUS
<1>1. ASSUME NEW ptype \in Types, NEW len \in Lengths, Fragment(ptype, len)
      PROVE  TypeOK'
  BY <1>1, TypeFragment
<1>2. ASSUME NEW c \in Capacities, SetCapacity(c) PROVE TypeOK'
  BY <1>2, ReassemblyAssumption DEF SetCapacity, TypeOK
<1>3. ASSUME NEW f \in Link, OnFrame(f) PROVE TypeOK'
  BY <1>3, TypeOnFrame
<1>4. CASE UNCHANGED vars
  BY <1>4 DEF vars, TypeOK
<1> QED BY <1>1, <1>2, <1>3, <1>4 DEF Next

\* Every value keeps its type: ids stay in 1..MaxId and fragment counts within
\* the one byte of the frame header (codec.py:54-55).
THEOREM TypeCorrect == Spec => []TypeOK
  BY TypeInit, TypeNext, PTL DEF Spec

-----------------------------------------------------------------------------
(* Message ids *)

\* The number of ids handed out from id up to next.
Distance(id, next) == IF id < next THEN next - id ELSE next - id + MaxId

IdAges ==
    \A n \in 1..Len(sent) : Len(sent) + 1 - n >= Distance(sent[n].id, nextMessageId)

LEMMA IdAgesNext ==
    ASSUME TypeOK, IdAges, IdsFarApart, [Next]_vars
    PROVE  IdAges' /\ IdsFarApart'
<1>1. ASSUME NEW ptype \in Types, NEW len \in Lengths, Fragment(ptype, len)
      PROVE  IdAges' /\ IdsFarApart'
  <2> DEFINE next == nextMessageId
             new == Len(sent) + 1
  <2>1. /\ next' = NextId(next)
        /\ Len(sent') = new
        /\ sent'[new].id = next
        /\ \A n \in 1..Len(sent) : sent'[n] = sent[n]
    BY <1>1, FragmentEffect
  <2>2. /\ Len(sent) \in Nat
        /\ next \in Ids
        /\ \A n \in 1..Len(sent) : sent[n].id \in Ids
    <3>1. \A n \in 1..Len(sent) : sent[n] \in Message
      BY DEF TypeOK
    <3> QED BY <3>1 DEF TypeOK, Message
  <2>3. \A n \in 1..new : n \in 1..Len(sent) \/ n = new
    BY <2>2
  <2>4. ASSUME NEW n \in 1..new
        PROVE  (new + 1) - n >= Distance(sent'[n].id, NextId(next))
    <3>1. CASE n \in 1..Len(sent)
      <4>1. new - n >= Distance(sent[n].id, next) /\ sent'[n].id = sent[n].id
        BY <3>1, <2>1 DEF IdAges
      <4> QED BY <4>1, <3>1, <2>1, <2>2, ReassemblyAssumption
              DEF Distance, NextId, Ids
    <3>2. CASE n = new
      BY <3>2, <2>1, <2>2, ReassemblyAssumption DEF Distance, NextId, Ids
    <3> QED BY <3>1, <3>2, <2>3
  <2>5. ASSUME NEW m \in 1..new, NEW n \in 1..new,
               m < n, sent'[m].id = sent'[n].id
        PROVE  n - m >= MaxId
    <3>1. CASE n \in 1..Len(sent)
      BY <3>1, <2>1, <2>2, <2>5 DEF IdsFarApart
    <3>2. CASE n = new
      <4>1. m \in 1..Len(sent)
        BY <3>2, <2>5, <2>2
      <4>2. sent[m].id = next /\ new - m >= Distance(sent[m].id, next)
        BY <4>1, <3>2, <2>5, <2>1 DEF IdAges
      <4> QED BY <4>2, <3>2, <2>2, ReassemblyAssumption DEF Distance, Ids
    <3> QED BY <3>1, <3>2, <2>3
  <2> QED BY <2>1, <2>4, <2>5 DEF IdAges, IdsFarApart
<1>2. CASE UNCHANGED <<sent, nextMessageId>>
  BY <1>2 DEF IdAges, IdsFarApart, Distance
<1> QED BY <1>1, <1>2 DEF Next, SetCapacity, OnFrame, sender, vars

-----------------------------------------------------------------------------
(* Fragments and their message *)

\* Every fragment in parts belongs to a message sent under id.
OfId(id, parts) ==
    \A i \in Indexes : parts[i] # NoPart =>
        parts[i] \in 1..Len(sent) /\ sent[parts[i]].id = id

PartsById ==
    /\ \A id \in Ids : OfId(id, assemblies[id].parts)
    /\ \A d \in delivered : OfId(d.id, d.parts)

LEMMA NoPartsOfId == \A id : OfId(id, NoParts)
  BY DEF OfId, NoParts

LEMMA WithPartOfId ==
    ASSUME TypeOK, PartsById, NEW f \in Link
    PROVE  OfId(f.id, WithPart(AssemblyFor(f), f).parts)
<1>1. f \in LinkFrame /\ sent[f.msg].id = f.id
  BY LinkFrames
<1>2. AssemblyFor(f) \in Assembly
  BY <1>1, AssemblyForIsAssembly
<1>3. OfId(f.id, AssemblyFor(f).parts)
  BY <1>1, NoPartsOfId DEF AssemblyFor, PartsById, LinkFrame
<1>4. WithPart(AssemblyFor(f), f).parts
        = [AssemblyFor(f).parts EXCEPT ![f.index] = f.msg]
  BY DEF WithPart
<1> QED BY <1>1, <1>2, <1>3, <1>4 DEF OfId, Assembly, LinkFrame

LEMMA PartsByIdNext ==
    ASSUME TypeOK, PartsById, [Next]_vars
    PROVE  PartsById'
<1>1. ASSUME NEW ptype \in Types, NEW len \in Lengths, Fragment(ptype, len)
      PROVE  PartsById'
  <2>1. /\ Len(sent') = Len(sent) + 1
        /\ \A n \in 1..Len(sent) : sent'[n] = sent[n]
        /\ UNCHANGED <<assemblies, delivered>>
    BY <1>1, FragmentEffect
  <2>2. \A id, parts : OfId(id, parts) => OfId(id, parts)'
    BY <2>1 DEF OfId, TypeOK
  <2> QED BY <2>1, <2>2 DEF PartsById
<1>2. ASSUME NEW f \in Link, OnFrame(f)
      PROVE  PartsById'
  <2>1. f \in LinkFrame /\ sent[f.msg].id = f.id
    BY LinkFrames
  <2>2. UNCHANGED sent
    BY <1>2 DEF OnFrame, sender
  <2>3. OfId(f.id, WithPart(AssemblyFor(f), f).parts)
    BY WithPartOfId
  <2>4. NoAssembly.parts = NoParts
    BY DEF NoAssembly
  <2>5. /\ \A id \in Ids : OfId(id, assemblies'[id].parts)
        /\ \A d \in delivered' : OfId(d.id, d.parts)
    <3> USE <2>1, <2>3, <2>4, NoPartsOfId DEF TypeOK, PartsById, LinkFrame
    <3>1. CASE OnSingleFrame(f)
      <4>1. OfId(f.id, [NoParts EXCEPT ![0] = f.msg])
        BY NoAssemblyType DEF OfId, NoParts
      <4> QED BY <3>1, <4>1 DEF OnSingleFrame, Deliver
    <3>2. CASE OnMismatch(f)
      BY <3>2 DEF OnMismatch, Drop
    <3>3. CASE OnRepeatedFragment(f)
      BY <3>3 DEF OnRepeatedFragment
    <3>4. CASE OnNewFragment(f)
      BY <3>4 DEF OnNewFragment, Drop, Keep, Deliver
    <3> QED BY <1>2, <3>1, <3>2, <3>3, <3>4 DEF OnFrame
  <2>6. \A id, parts : OfId(id, parts) <=> OfId(id, parts)'
    BY <2>2 DEF OfId
  <2> QED BY <2>5, <2>6 DEF PartsById
<1>3. CASE UNCHANGED <<sent, assemblies, delivered>>
  BY <1>3 DEF PartsById, OfId
<1> QED BY <1>1, <1>2, <1>3 DEF Next, SetCapacity, vars

LEMMA SameIdFarApart ==
    ASSUME TypeOK, IdsFarApart, NEW id, NEW parts, OfId(id, parts)
    PROVE  FarApart(parts)
  BY DEF OfId, FarApart, IdsFarApart

-----------------------------------------------------------------------------
(* The inductive invariant and what follows from it *)

Inv == TypeOK /\ IdAges /\ IdsFarApart /\ PartsById

LEMMA InvInit == Init => Inv
<1> SUFFICES ASSUME Init PROVE Inv
  OBVIOUS
<1>1. TypeOK
  BY TypeInit
<1>2. IdAges /\ IdsFarApart
  BY DEF Init, IdAges, IdsFarApart
<1>3. NoAssembly.parts = NoParts
  BY DEF NoAssembly
<1>4. PartsById
  BY <1>3, NoPartsOfId DEF Init, PartsById
<1> QED BY <1>1, <1>2, <1>4 DEF Inv

LEMMA InvNext == Inv /\ [Next]_vars => Inv'
  BY TypeNext, IdAgesNext, PartsByIdNext DEF Inv

\* The inductive invariant of the three theorems below: how old each message is at
\* least, and whose fragments are held and delivered.
THEOREM Invariant == Spec => []Inv
  BY InvInit, InvNext, PTL DEF Spec

\* A message id comes back only after the whole id space was used, refused
\* messages included (_take_message_id, codec.py:210).
THEOREM IdReuse == Spec => []IdsFarApart
<1>1. Inv => IdsFarApart
  BY DEF Inv
<1> QED BY <1>1, Invariant, PTL

\* Whatever the link loses, repeats or reorders, no assembly and no delivered
\* body combines fragments of two messages unless the sender's ids wrapped
\* around between the two (MessageReassembler.on_frame, codec.py:145).
THEOREM NoMixing == Spec => []MixedOnlyAcrossWrap
<1>1. Inv => MixedOnlyAcrossWrap
  BY SameIdFarApart DEF Inv, PartsById, MixedOnlyAcrossWrap
<1> QED BY <1>1, Invariant, PTL

-----------------------------------------------------------------------------
(* The assemblies the reassembler keeps *)

\* The table after a frame: at most the entry of the frame's id changes, and
\* it is dropped or becomes the unfinished assembly with the frame added.
LEMMA TableStep ==
    ASSUME NEW f \in Link, OnFrame(f)
    PROVE  LET a == WithPart(AssemblyFor(f), f) IN
           \/ assemblies' = assemblies
           \/ assemblies' = [assemblies EXCEPT ![f.id] = NoAssembly]
           \/ /\ assemblies' = [assemblies EXCEPT ![f.id] = a]
              /\ AssemblyFor(f).count = f.count
              /\ AssemblyFor(f).parts[f.index] = NoPart
              /\ a.total <= MaxMessageSize
              /\ ~ Complete(a)
<1>1. CASE OnSingleFrame(f)
  BY <1>1 DEF OnSingleFrame
<1>2. CASE OnMismatch(f)
  BY <1>2 DEF OnMismatch, Drop
<1>3. CASE OnRepeatedFragment(f)
  BY <1>3 DEF OnRepeatedFragment
<1>4. CASE OnNewFragment(f)
  BY <1>4 DEF OnNewFragment, Mismatch, Drop, Keep
<1> QED BY <1>1, <1>2, <1>3, <1>4 DEF OnFrame

LEMMA UnfinishedNext ==
    ASSUME TypeOK, AssembliesUnfinished, [Next]_vars
    PROVE  AssembliesUnfinished'
<1>1. ASSUME NEW f \in Link, OnFrame(f)
      PROVE  AssembliesUnfinished'
  <2> DEFINE a == WithPart(AssemblyFor(f), f)
  <2>1. f \in LinkFrame /\ f.index < f.count
    BY LinkFrames
  <2>2. AssemblyFor(f) \in Assembly
    BY <2>1, AssemblyForIsAssembly
  <2>3. CASE assemblies' = assemblies
    BY <2>3 DEF AssembliesUnfinished
  <2>4. CASE assemblies' = [assemblies EXCEPT ![f.id] = NoAssembly]
    BY <2>4 DEF AssembliesUnfinished, TypeOK
  <2>5. CASE /\ assemblies' = [assemblies EXCEPT ![f.id] = a]
             /\ AssemblyFor(f).count = f.count
             /\ a.total <= MaxMessageSize
             /\ ~ Complete(a)
    <3>1. a.parts[f.index] = f.msg /\ a.count = f.count
      BY <2>1, <2>2, <2>5 DEF WithPart, Assembly, LinkFrame
    <3>2. f.index \in 0..(a.count - 1) /\ a.parts[f.index] # NoPart
      BY <2>1, <3>1 DEF LinkFrame, Indexes, NoPart
    <3> HIDE DEF a
    <3> QED BY <2>5, <3>2, <2>1 DEF AssembliesUnfinished, TypeOK
  <2> QED BY <1>1, <2>3, <2>4, <2>5, TableStep
<1>2. CASE UNCHANGED assemblies
  BY <1>2 DEF AssembliesUnfinished
<1> QED BY <1>1, <1>2 DEF Next, Fragment, SetCapacity, vars

\* An assembly in the table holds a fragment, misses one and is within
\* max_message_size (codec.py:163-171).
THEOREM Unfinished == Spec => []AssembliesUnfinished
<1>1. Init => AssembliesUnfinished
  BY DEF Init, AssembliesUnfinished
<1>2. Inv /\ AssembliesUnfinished /\ [Next]_vars => AssembliesUnfinished'
  BY UnfinishedNext DEF Inv
<1> QED BY <1>1, <1>2, Invariant, PTL DEF Spec

LEMMA FirstFragmentStep ==
    ASSUME TypeOK, [Next]_vars, NEW id \in Ids
    PROVE  \/ assemblies'[id] = NoAssembly
           \/ \A i \in Indexes :
                 assemblies[id].parts[i] \in {NoPart, assemblies'[id].parts[i]}
<1>1. ASSUME NEW f \in Link, OnFrame(f)
      PROVE  \/ assemblies'[id] = NoAssembly
             \/ \A i \in Indexes :
                   assemblies[id].parts[i] \in {NoPart, assemblies'[id].parts[i]}
  <2> DEFINE a == WithPart(AssemblyFor(f), f)
  <2>1. f \in LinkFrame
    BY LinkFrames
  <2>2. AssemblyFor(f) \in Assembly
    BY <2>1, AssemblyForIsAssembly
  <2>3. CASE assemblies' = assemblies
    BY <2>3
  <2>4. CASE assemblies' = [assemblies EXCEPT ![f.id] = NoAssembly]
    BY <2>4 DEF TypeOK
  <2>5. CASE /\ assemblies' = [assemblies EXCEPT ![f.id] = a]
             /\ AssemblyFor(f).parts[f.index] = NoPart
             /\ id = f.id
    <3>1. assemblies'[id].parts = [AssemblyFor(f).parts EXCEPT ![f.index] = f.msg]
      BY <2>5, <2>1 DEF TypeOK, LinkFrame, WithPart
    <3>2. \A i \in Indexes :
             AssemblyFor(f).parts[i] \in {NoPart, assemblies'[id].parts[i]}
      BY <2>2, <2>5, <3>1 DEF Assembly
    <3>3. \A i \in Indexes :
             assemblies[id].parts[i] \in {NoPart, AssemblyFor(f).parts[i]}
      BY <2>5 DEF AssemblyFor, NoAssembly, NoParts
    <3> QED BY <3>2, <3>3
  <2>6. CASE /\ assemblies' = [assemblies EXCEPT ![f.id] = a]
             /\ id # f.id
    BY <2>6 DEF TypeOK
  <2> QED BY <1>1, <2>3, <2>4, <2>5, <2>6, TableStep
<1>2. CASE UNCHANGED assemblies
  BY <1>2
<1> QED BY <1>1, <1>2 DEF Next, Fragment, SetCapacity, vars

\* The first fragment to arrive under an index is the one that is kept, until
\* the assembly goes as a whole (codec.py:161).
THEOREM FirstStays == Spec => FirstFragmentStays
<1>1. TypeOK /\ [Next]_vars =>
        [\A id \in Ids :
            \/ assemblies'[id] = NoAssembly
            \/ \A i \in Indexes :
                  assemblies[id].parts[i] \in {NoPart, assemblies'[id].parts[i]}]_vars
  BY FirstFragmentStep
<1> QED BY <1>1, TypeCorrect, PTL DEF Spec, FirstFragmentStays

-----------------------------------------------------------------------------
(* What is delivered *)

\* parts holds, at the indexes below count, frames that arrived, of messages
\* with this id, payload type and fragment count.
ReceivedParts(id, ptype, count, parts) ==
    \A i \in Indexes : parts[i] # NoPart =>
        LET n == parts[i] IN
        /\ n \in 1..Len(sent)
        /\ sent[n].id = id /\ sent[n].ptype = ptype /\ sent[n].count = count
        /\ i < count
        /\ FrameOf(n, i) \in received

AssembliesReceived ==
    \A id \in Ids :
        ReceivedParts(id, assemblies[id].ptype, assemblies[id].count,
                      assemblies[id].parts)

DeliveriesReceived ==
    \A d \in delivered :
        /\ ReceivedParts(d.id, d.ptype, d.count, d.parts)
        /\ \A i \in 0..(d.count - 1) : d.parts[i] # NoPart

PartsReceived == AssembliesReceived /\ DeliveriesReceived

LEMMA NoPartsReceived ==
    \A id, ptype, count : ReceivedParts(id, ptype, count, NoParts)
  BY DEF ReceivedParts, NoParts

\* A frame is determined by its message and index.
LEMMA LinkFrameOf ==
    ASSUME TypeOK, NEW f \in Link
    PROVE  /\ f = FrameOf(f.msg, f.index)
           /\ sent[f.msg].id = f.id /\ sent[f.msg].ptype = f.ptype
           /\ sent[f.msg].count = f.count
<1>1. PICK n \in 1..Len(sent) : f \in Frames(n)
  BY DEF Link
<1>2. PICK i \in 0..(sent[n].count - 1) : f = FrameOf(n, i)
  BY <1>1 DEF Frames
<1> QED BY <1>2 DEF FrameOf

\* Fragments already held stay received when messages are sent and frames arrive.
LEMMA ReceivedPartsStay ==
    ASSUME TypeOK, Len(sent') \in Nat, Len(sent) <= Len(sent'),
           \A n \in 1..Len(sent) : sent'[n] = sent[n],
           received \subseteq received',
           NEW id, NEW ptype, NEW count, NEW parts,
           ReceivedParts(id, ptype, count, parts)
    PROVE  ReceivedParts(id, ptype, count, parts)'
<1> SUFFICES ASSUME NEW i \in Indexes, parts[i] # NoPart
             PROVE  LET n == parts[i] IN
                    /\ n \in 1..Len(sent')
                    /\ sent'[n].id = id /\ sent'[n].ptype = ptype
                    /\ sent'[n].count = count
                    /\ i < count
                    /\ FrameOf(n, i)' \in received'
  BY DEF ReceivedParts
<1> DEFINE n == parts[i]
<1>1. /\ n \in 1..Len(sent)
      /\ sent[n].id = id /\ sent[n].ptype = ptype /\ sent[n].count = count
      /\ i < count
      /\ FrameOf(n, i) \in received
  BY DEF ReceivedParts
<1>2. sent'[n] = sent[n] /\ n \in 1..Len(sent')
  BY <1>1 DEF TypeOK
<1>3. FrameOf(n, i)' = FrameOf(n, i)
  BY <1>2 DEF FrameOf
<1> QED BY <1>1, <1>2, <1>3

LEMMA WithPartReceived ==
    ASSUME TypeOK, PartsReceived, NEW f \in Link, f \in received',
           UNCHANGED sent, received \subseteq received',
           ~ Mismatch(AssemblyFor(f), f),
           NEW parts, parts = WithPart(AssemblyFor(f), f).parts
    PROVE  ReceivedParts(f.id, f.ptype, f.count, parts)'
<1>1. /\ f \in LinkFrame /\ f.index < f.count
      /\ f = FrameOf(f.msg, f.index)
      /\ sent[f.msg].id = f.id /\ sent[f.msg].ptype = f.ptype
      /\ sent[f.msg].count = f.count
  BY LinkFrames, LinkFrameOf
<1>2. PICK held \in Assembly :
        held = AssemblyFor(f) /\ held.ptype = f.ptype /\ held.count = f.count
  BY <1>1, AssemblyForIsAssembly DEF Mismatch
<1>3. ReceivedParts(f.id, f.ptype, f.count, held.parts)
  <2>1. CASE assemblies[f.id] = NoAssembly
    BY <2>1, <1>2, NoPartsReceived DEF AssemblyFor
  <2>2. CASE assemblies[f.id] # NoAssembly
    BY <2>2, <1>1, <1>2 DEF AssemblyFor, PartsReceived, AssembliesReceived, LinkFrame
  <2> QED BY <2>1, <2>2
<1>4. ReceivedParts(f.id, f.ptype, f.count, held.parts)'
  <2>1. /\ Len(sent') \in Nat /\ Len(sent) <= Len(sent')
        /\ \A n \in 1..Len(sent) : sent'[n] = sent[n]
    BY DEF TypeOK
  <2> QED BY <1>3, <2>1, ReceivedPartsStay
<1>5. FrameOf(f.msg, f.index)' = f
  BY <1>1 DEF FrameOf
<1>6. \A i \in Indexes : parts[i] = IF i = f.index THEN f.msg ELSE held.parts[i]
  BY <1>2 DEF Assembly, WithPart
<1> QED BY <1>1, <1>4, <1>5, <1>6 DEF ReceivedParts, LinkFrame

LEMMA DeliverReceived ==
    ASSUME NEW id, NEW ptype, NEW count, NEW parts,
           DeliveriesReceived, Deliver(id, ptype, count, parts),
           \A d \in delivered : ReceivedParts(d.id, d.ptype, d.count, d.parts)',
           ReceivedParts(id, ptype, count, parts)',
           \A i \in 0..(count - 1) : parts[i] # NoPart
    PROVE  DeliveriesReceived'
<1>1. PICK new : new = [id |-> id, ptype |-> ptype, count |-> count, parts |-> parts]
  OBVIOUS
<1>2. delivered' = delivered \cup {new}
  BY <1>1 DEF Deliver
<1>3. ReceivedParts(new.id, new.ptype, new.count, new.parts)'
  BY <1>1
<1>4. \A i \in 0..(new.count - 1) : new.parts[i] # NoPart
  BY <1>1
<1> QED BY <1>2, <1>3, <1>4 DEF DeliveriesReceived

LEMMA PartsReceivedNext ==
    ASSUME TypeOK, PartsReceived, [Next]_vars
    PROVE  PartsReceived'
<1>1. ASSUME Len(sent') \in Nat, Len(sent) <= Len(sent'),
             \A n \in 1..Len(sent) : sent'[n] = sent[n],
             received \subseteq received', UNCHANGED <<assemblies, delivered>>
      PROVE  PartsReceived'
  BY <1>1, ReceivedPartsStay
     DEF PartsReceived, AssembliesReceived, DeliveriesReceived
<1>2. ASSUME NEW ptype \in Types, NEW len \in Lengths, Fragment(ptype, len)
      PROVE  PartsReceived'
  <2>1. /\ Len(sent') \in Nat /\ Len(sent) <= Len(sent')
        /\ \A n \in 1..Len(sent) : sent'[n] = sent[n]
        /\ UNCHANGED <<assemblies, received, delivered>>
    BY <1>2, FragmentEffect DEF TypeOK
  <2> QED BY <2>1, <1>1
<1>3. ASSUME NEW f \in Link, OnFrame(f)
      PROVE  PartsReceived'
  <2>1. /\ f \in LinkFrame
        /\ f = FrameOf(f.msg, f.index)
        /\ sent[f.msg].id = f.id /\ sent[f.msg].ptype = f.ptype
        /\ sent[f.msg].count = f.count
    BY LinkFrames, LinkFrameOf
  <2>2. /\ Len(sent') \in Nat /\ Len(sent) <= Len(sent')
        /\ \A n \in 1..Len(sent) : sent'[n] = sent[n]
        /\ received \subseteq received'
        /\ UNCHANGED sent /\ f \in received'
    BY <1>3 DEF OnFrame, sender, TypeOK
  <2>3. \A id, ptype, count, parts :
           ReceivedParts(id, ptype, count, parts) =>
             ReceivedParts(id, ptype, count, parts)'
    BY <2>2, ReceivedPartsStay
  <2>4. \A id, ptype, count : ReceivedParts(id, ptype, count, NoParts)'
    BY NoPartsReceived, <2>3
  <2>5. NoAssembly.parts = NoParts
    BY DEF NoAssembly
  <2>6. /\ AssembliesReceived /\ UNCHANGED assemblies => AssembliesReceived'
        /\ DeliveriesReceived /\ UNCHANGED delivered => DeliveriesReceived'
        /\ DeliveriesReceived => \A d \in delivered :
              ReceivedParts(d.id, d.ptype, d.count, d.parts)'
    BY <2>3 DEF AssembliesReceived, DeliveriesReceived
  <2> USE DEF PartsReceived
  <2>7. CASE OnSingleFrame(f)
    <3>1. ReceivedParts(f.id, f.ptype, 1, [NoParts EXCEPT ![0] = f.msg])'
      <4>1. FrameOf(f.msg, f.index)' = f /\ f.count = 1 /\ f.index = 0
        BY <2>1, <2>2, <2>7, LinkFrames DEF FrameOf, OnSingleFrame, LinkFrame, Indexes
      <4>2. \A i \in Indexes :
               [NoParts EXCEPT ![0] = f.msg][i] = IF i = 0 THEN f.msg ELSE NoPart
        BY DEF NoParts
      <4> QED BY <4>1, <4>2, <2>1, <2>2 DEF ReceivedParts, LinkFrame
    <3>2. [NoParts EXCEPT ![0] = f.msg][0] # NoPart
      BY <2>1, ReassemblyAssumption DEF NoParts, Indexes, NoPart, LinkFrame
    <3>3. DeliveriesReceived'
      <4>1. PICK parts : parts = [NoParts EXCEPT ![0] = f.msg]
        OBVIOUS
      <4>2. /\ Deliver(f.id, f.ptype, 1, parts)
            /\ ReceivedParts(f.id, f.ptype, 1, parts)'
            /\ \A i \in 0..(1 - 1) : parts[i] # NoPart
        BY <2>7, <3>1, <3>2, <4>1 DEF OnSingleFrame
      <4> QED BY <2>6, <4>2, DeliverReceived
    <3> QED BY <2>6, <2>7, <3>3 DEF OnSingleFrame
  <2>8. CASE OnMismatch(f)
    <3>1. AssembliesReceived'
      BY <2>3, <2>4, <2>5, <2>8 DEF OnMismatch, Drop, AssembliesReceived, TypeOK
    <3> QED BY <2>6, <2>8, <3>1 DEF OnMismatch
  <2>9. CASE OnRepeatedFragment(f)
    BY <2>6, <2>9 DEF OnRepeatedFragment
  <2>10. CASE OnNewFragment(f)
    <3>1. PICK a : a = WithPart(AssemblyFor(f), f)
      OBVIOUS
    <3>2. a.ptype = f.ptype /\ a.count = f.count
      BY <2>10, <3>1 DEF OnNewFragment, Mismatch, WithPart
    <3>3. ReceivedParts(f.id, f.ptype, f.count, a.parts)'
      BY <2>2, <2>10, <3>1, WithPartReceived DEF OnNewFragment
    <3>4. Drop(f.id) => AssembliesReceived'
      BY <2>3, <2>4, <2>5 DEF Drop, AssembliesReceived, TypeOK
    <3>5. Keep(f.id, a) => AssembliesReceived'
      BY <2>3, <3>2, <3>3 DEF Keep, AssembliesReceived, TypeOK
    <3>6. Complete(a) /\ Deliver(f.id, a.ptype, a.count, a.parts)
            => DeliveriesReceived'
      BY <2>6, <3>2, <3>3, DeliverReceived DEF Complete
    <3> QED BY <2>6, <2>10, <3>1, <3>4, <3>5, <3>6 DEF OnNewFragment
  <2> QED BY <1>3, <2>7, <2>8, <2>9, <2>10 DEF OnFrame
<1>4. CASE UNCHANGED <<sent, assemblies, received, delivered>>
  BY <1>4, <1>1 DEF TypeOK
<1> QED BY <1>2, <1>3, <1>4 DEF Next, SetCapacity, vars

\* Until an id is used a second time, what is delivered is a message as it was
\* sent, and all its frames arrived (codec.py:145-175).
DeliveredWasReceived ==
    Len(sent) <= MaxId =>
        \A d \in delivered : \E n \in 1..Len(sent) :
            d = Intact(n) /\ Frames(n) \subseteq received

LEMMA DeliveredFromParts ==
    Inv /\ PartsReceived => DeliveredWasReceived
<1> SUFFICES ASSUME Inv, PartsReceived, Len(sent) <= MaxId, NEW d \in delivered
             PROVE  \E n \in 1..Len(sent) :
                       d = Intact(n) /\ Frames(n) \subseteq received
  BY DEF DeliveredWasReceived
<1>1. /\ d \in [id : Ids, ptype : Types, count : 1..MaxFragments,
                  parts : [Indexes -> Part]]
      /\ ReceivedParts(d.id, d.ptype, d.count, d.parts)
      /\ \A i \in 0..(d.count - 1) : d.parts[i] # NoPart
  BY DEF Inv, TypeOK, PartsReceived, DeliveriesReceived
<1> DEFINE n == d.parts[0]
<1>2. 0 \in Indexes /\ n # NoPart /\ 0..(d.count - 1) \subseteq Indexes
  BY <1>1, ReassemblyAssumption DEF Indexes
<1>3. /\ n \in 1..Len(sent) /\ sent[n].id = d.id
      /\ sent[n].ptype = d.ptype /\ sent[n].count = d.count
  BY <1>1, <1>2 DEF ReceivedParts
<1>4. Len(sent) \in Nat
  BY DEF Inv, TypeOK
<1>5. \A i \in 0..(d.count - 1) : d.parts[i] = n /\ FrameOf(n, i) \in received
  <2> TAKE i \in 0..(d.count - 1)
  <2>1. /\ d.parts[i] \in 1..Len(sent) /\ sent[d.parts[i]].id = d.id
        /\ FrameOf(d.parts[i], i) \in received
    BY <1>1, <1>2 DEF ReceivedParts
  <2>2. d.parts[i] = n
    BY <2>1, <1>3, <1>4, ReassemblyAssumption DEF Inv, IdsFarApart
  <2> QED BY <2>1, <2>2
<1>6. \A i \in Indexes : d.parts[i] = IF i < d.count THEN n ELSE NoPart
  BY <1>1, <1>5, ReassemblyAssumption DEF ReceivedParts, Indexes
<1>7. d = Intact(n)
  <2>1. d.parts = [i \in Indexes |-> IF i < sent[n].count THEN n ELSE NoPart]
    BY <1>1, <1>3, <1>6
  <2> QED BY <1>1, <1>3, <2>1 DEF Intact
<1>8. Frames(n) \subseteq received
  BY <1>3, <1>5 DEF Frames
<1> QED BY <1>3, <1>7, <1>8

\* Nothing is delivered that was not sent and received in full.
THEOREM NothingInvented == Spec => []DeliveredWasReceived
<1>1. Init => PartsReceived
  <2>1. NoAssembly.parts = NoParts
    BY DEF NoAssembly
  <2> QED BY <2>1, NoPartsReceived
         DEF Init, PartsReceived, AssembliesReceived, DeliveriesReceived
<1>2. Inv /\ PartsReceived /\ [Next]_vars => PartsReceived'
  BY PartsReceivedNext DEF Inv
<1> QED BY <1>1, <1>2, Invariant, DeliveredFromParts, PTL DEF Spec

-----------------------------------------------------------------------------
(* Sums: induction over the naturals, as the least element of a set         *)

LEMMA Least ==
    ASSUME NEW T \in SUBSET Nat, T # {}
    PROVE  \E x \in T : \A y \in T : x <= y
<1> DEFINE R == OpToRel(<, Nat)
<1>1. IsWellFoundedOn(R, Nat)
  BY NatLessThanWellFounded
<1>2. \A x, y \in Nat : x < y => <<x, y>> \in R
  BY DEF OpToRel
<1> HIDE DEF R
<1>3. PICK x \in T : \A y \in T : ~ (<<y, x>> \in R)
  BY <1>1, WFMin
<1>4. ASSUME NEW y \in T PROVE x <= y
  <2>1. x \in Nat /\ y \in Nat /\ ~ (<<y, x>> \in R)
    BY <1>3
  <2>2. ~ (y < x)
    BY <1>2, <2>1
  <2> QED BY <2>1, <2>2
<1> QED BY <1>4

LEMMA Induction ==
    ASSUME NEW A, 0 \in A, \A n \in Nat : n \in A => n + 1 \in A
    PROVE  Nat \subseteq A
<1> DEFINE T == Nat \ A
<1> SUFFICES ASSUME T # {} PROVE FALSE
  OBVIOUS
<1>1. PICK x \in T : \A y \in T : x <= y
  BY Least
<1>2. x # 0 /\ x \in Nat
  OBVIOUS
<1>3. x - 1 \in Nat /\ x - 1 \notin T
  BY <1>1, <1>2
<1>4. (x - 1) + 1 \in A
  BY <1>3
<1> QED BY <1>2, <1>4

\* s[i] is the sum of the first i of the numbers p[0], p[1] ...
SumOf(s, n, p) == s[0] = 0 /\ \A i \in 0..(n - 1) : s[i + 1] = s[i] + p[i]

LEMMA SumExists ==
    ASSUME NEW n \in Nat, NEW p
    PROVE  \E s : s = [i \in 0..n |-> IF i = 0 THEN 0 ELSE s[i - 1] + p[i - 1]]
<1> DEFINE IsSum(s, k) == s = [i \in 0..k |-> IF i = 0 THEN 0 ELSE s[i - 1] + p[i - 1]]
           A == {k \in Nat : \E s : IsSum(s, k)}
<1>1. 0 \in A
  <2> DEFINE z == [i \in 0..0 |-> 0]
  <2>1. IsSum(z, 0)
    OBVIOUS
  <2> QED BY <2>1
<1>2. ASSUME NEW k \in Nat, k \in A PROVE k + 1 \in A
  <2>1. PICK s : IsSum(s, k)
    BY <1>2
  <2> DEFINE t == [i \in 0..(k + 1) |-> IF i = k + 1 THEN s[k] + p[k] ELSE s[i]]
             u == [i \in 0..(k + 1) |-> IF i = 0 THEN 0 ELSE t[i - 1] + p[i - 1]]
  <2>2. ASSUME NEW i \in 0..(k + 1) PROVE t[i] = u[i]
    <3>1. CASE i = 0
      <4>1. 0 \in 0..k /\ k + 1 # 0
        OBVIOUS
      <4> QED BY <2>1, <3>1, <4>1
    <3>2. CASE i = k + 1
      <4>1. i - 1 = k /\ k # k + 1 /\ k \in 0..(k + 1)
        BY <3>2
      <4> QED BY <3>2, <4>1
    <3>3. CASE i \in 1..k
      <4>1. i # k + 1 /\ i - 1 # k + 1 /\ i - 1 \in 0..(k + 1) /\ i # 0 /\ i \in 0..k
        BY <3>3
      <4>2. s[i] = s[i - 1] + p[i - 1]
        BY <2>1, <4>1
      <4> QED BY <4>1, <4>2
    <3> QED BY <3>1, <3>2, <3>3
  <2>3. t = u
    BY <2>2
  <2>4. IsSum(t, k + 1)
    BY <2>3
  <2> HIDE DEF IsSum
  <2> QED BY <2>4
<1> HIDE DEF A
<1>3. Nat \subseteq A
  BY <1>1, <1>2, Induction
<1> QED BY <1>3 DEF A

\* Two sums whose numbers differ in one place by d.
DifferBy(p, q, n, j, d) ==
    \A i \in 0..(n - 1) : p[i] \in Int /\ q[i] = IF i = j THEN p[i] + d ELSE p[i]

LEMMA SumsDiffer ==
    ASSUME NEW n \in Nat, NEW s, NEW t, NEW p, NEW q, NEW j \in Nat, NEW d \in Int,
           SumOf(s, n, p), SumOf(t, n, q), DifferBy(p, q, n, j, d)
    PROVE  s[n] \in Int /\ t[n] = IF j < n THEN s[n] + d ELSE s[n]
<1> DEFINE P(k) == k <= n => s[k] \in Int /\ t[k] = IF j < k THEN s[k] + d ELSE s[k]
           A == {k \in Nat : P(k)}
<1>1. 0 \in A
  BY DEF SumOf
<1>2. ASSUME NEW k \in Nat, P(k) PROVE P(k + 1)
  <2> SUFFICES ASSUME k + 1 <= n
               PROVE  s[k + 1] \in Int /\ t[k + 1] = IF j < k + 1 THEN s[k + 1] + d ELSE s[k + 1]
    OBVIOUS
  <2>1. k \in 0..(n - 1) /\ s[k] \in Int /\ t[k] = IF j < k THEN s[k] + d ELSE s[k]
    BY <1>2
  <2>2. s[k + 1] = s[k] + p[k] /\ t[k + 1] = t[k] + q[k] /\ p[k] \in Int
    BY <2>1 DEF SumOf, DifferBy
  <2>3. q[k] = IF k = j THEN p[k] + d ELSE p[k]
    BY <2>1 DEF DifferBy
  <2> QED BY <2>1, <2>2, <2>3
<1> HIDE DEF P
<1>3. \A k \in Nat : k \in A => k + 1 \in A
  BY <1>2
<1> HIDE DEF A
<1>4. Nat \subseteq A
  BY <1>1, <1>3, Induction
<1>5. P(n)
  BY <1>4 DEF A
<1> QED BY <1>5 DEF P

\* A sum grows no faster than what bounds its numbers.
LEMMA SumBounded ==
    ASSUME NEW n \in Nat, NEW s, NEW p, SumOf(s, n, p), NEW b, b[0] = 0,
           \A i \in 0..n : b[i] \in Nat,
           \A i \in 0..(n - 1) : p[i] \in Nat /\ p[i] <= b[i + 1] - b[i]
    PROVE  /\ s[n] \in Nat /\ s[n] <= b[n]
           /\ (\A i \in 0..(n - 1) : p[i] = b[i + 1] - b[i]) => s[n] = b[n]
<1> DEFINE Exact == \A i \in 0..(n - 1) : p[i] = b[i + 1] - b[i]
           P(k) == k <= n => s[k] \in Nat /\ s[k] <= b[k] /\ (Exact => s[k] = b[k])
           A == {k \in Nat : P(k)}
<1>1. 0 \in A
  BY DEF SumOf
<1>2. ASSUME NEW k \in Nat, P(k) PROVE P(k + 1)
  <2> SUFFICES ASSUME k + 1 <= n
               PROVE  s[k + 1] \in Nat /\ s[k + 1] <= b[k + 1] /\ (Exact => s[k + 1] = b[k + 1])
    OBVIOUS
  <2>1. k \in 0..(n - 1) /\ s[k] \in Nat /\ s[k] <= b[k] /\ (Exact => s[k] = b[k])
    BY <1>2
  <2>2. /\ s[k + 1] = s[k] + p[k] /\ b[k] \in Nat /\ b[k + 1] \in Nat
        /\ p[k] \in Nat /\ p[k] <= b[k + 1] - b[k] /\ (Exact => p[k] = b[k + 1] - b[k])
    BY <2>1 DEF SumOf
  <2> HIDE DEF Exact
  <2> QED BY <2>1, <2>2
<1> HIDE DEF P
<1>3. \A k \in Nat : k \in A => k + 1 \in A
  BY <1>2
<1> HIDE DEF A
<1>4. Nat \subseteq A
  BY <1>1, <1>3, Induction
<1>5. P(n)
  BY <1>4 DEF A
<1> QED BY <1>5 DEF P

-----------------------------------------------------------------------------
(* The size an assembly holds *)

HeldSizes(a) ==
    [j \in 0..(a.count - 1) |->
        IF a.parts[j] = NoPart THEN 0 ELSE PartSize(sent[a.parts[j]], j)]

\* HeldSize is the sum it is written as.
LEMMA HeldSizeSum ==
    \A a : a.count \in Nat =>
        \E s : SumOf(s, a.count, HeldSizes(a)) /\ HeldSize(a) = s[a.count]
<1> SUFFICES ASSUME NEW a, a.count \in Nat
             PROVE  \E s : SumOf(s, a.count, HeldSizes(a)) /\ HeldSize(a) = s[a.count]
  OBVIOUS
<1> DEFINE n == a.count
           p == HeldSizes(a)
           IsSum(s) ==
              s = [i \in 0..a.count |->
                      IF i = 0 THEN 0
                      ELSE s[i - 1] + IF a.parts[i - 1] = NoPart THEN 0
                                      ELSE PartSize(sent[a.parts[i - 1]], i - 1)]
           c == CHOOSE s : IsSum(s)
<1>1. HeldSize(a) = c[n]
  BY Zenon DEF HeldSize
<1>2. \A i \in 0..(n - 1) :
         p[i] = IF a.parts[i] = NoPart THEN 0 ELSE PartSize(sent[a.parts[i]], i)
  BY DEF HeldSizes
<1> HIDE DEF p
<1>3. PICK g : g = [i \in 0..n |-> IF i = 0 THEN 0 ELSE g[i - 1] + p[i - 1]]
  BY SumExists
<1>4. IsSum(g)
  <2> DEFINE u == [i \in 0..n |->
                      IF i = 0 THEN 0
                      ELSE g[i - 1] + IF a.parts[i - 1] = NoPart THEN 0
                                      ELSE PartSize(sent[a.parts[i - 1]], i - 1)]
             v == [i \in 0..n |-> IF i = 0 THEN 0 ELSE g[i - 1] + p[i - 1]]
  <2>1. ASSUME NEW i \in 0..n PROVE u[i] = v[i]
    <3>1. CASE i = 0
      BY <3>1
    <3>2. CASE i # 0
      <4>1. i - 1 \in 0..(n - 1)
        BY <3>2
      <4> QED BY <1>2, <3>2, <4>1
    <3> QED BY <3>1, <3>2
  <2>2. u = v
    BY <2>1
  <2> QED BY <1>3, <2>2
<1>5. IsSum(c)
  <2> HIDE DEF IsSum
  <2> QED BY <1>4
<1> HIDE DEF c
<1>6. SumOf(c, n, p)
  <2>1. c[0] = 0
    BY <1>5
  <2>2. ASSUME NEW i \in 0..(n - 1) PROVE c[i + 1] = c[i] + p[i]
    <3>1. i + 1 \in 0..n /\ i + 1 # 0 /\ (i + 1) - 1 = i
      OBVIOUS
    <3>2. c[i + 1] = c[i] + IF a.parts[i] = NoPart THEN 0 ELSE PartSize(sent[a.parts[i]], i)
      BY <1>5, <3>1
    <3> QED BY <1>2, <3>2
  <2> QED BY <2>1, <2>2 DEF SumOf
<1> QED BY <1>1, <1>6 DEF p

LEMMA HeldSizeSumNext ==
    (\A a : a.count \in Nat =>
        \E s : SumOf(s, a.count, HeldSizes(a)) /\ HeldSize(a) = s[a.count])'
  BY HeldSizeSum, PTL

\* The fragments of parts are of messages that were sent.
OfSent(a) == \A i \in 0..(a.count - 1) : a.parts[i] # NoPart => a.parts[i] \in 1..Len(sent)

LEMMA HeldSizesAreNat ==
    ASSUME TypeOK, NEW a, a.count \in Nat, OfSent(a)
    PROVE  \A i \in 0..(a.count - 1) : HeldSizes(a)[i] \in Nat
<1> SUFFICES ASSUME NEW i \in 0..(a.count - 1), a.parts[i] # NoPart
             PROVE  PartSize(sent[a.parts[i]], i) \in Nat
  BY DEF HeldSizes
<1>1. sent[a.parts[i]] \in Message
  BY DEF OfSent, TypeOK
<1> QED BY <1>1, PartSizeIsNat

LEMMA HeldSizeStays ==
    ASSUME TypeOK, NEW a, a.count \in Nat, OfSent(a),
           \A n \in 1..Len(sent) : sent'[n] = sent[n]
    PROVE  HeldSize(a)' = HeldSize(a)
<1> DEFINE n == a.count
           p == HeldSizes(a)
           q == HeldSizes(a)'
<1>1. PICK s : SumOf(s, n, p) /\ HeldSize(a) = s[n]
  BY HeldSizeSum
<1>2. PICK t : SumOf(t, n, q) /\ HeldSize(a)' = t[n]
  BY HeldSizeSumNext
<1>3. \A i \in 0..(n - 1) : p[i] \in Nat
  BY HeldSizesAreNat
<1>4. \A i \in 0..(n - 1) : q[i] = p[i]
  BY DEF HeldSizes, OfSent
<1> HIDE DEF n, p, q
<1>5. n \in Nat
  BY DEF n
<1>6. PICK d \in Int : d = 0
  OBVIOUS
<1>7. DifferBy(p, q, n, n, d)
  BY <1>3, <1>4, <1>5 DEF DifferBy
<1>8. SumOf(s, n, p) /\ SumOf(t, n, q)
  BY <1>1, <1>2
<1>9. t[n] = IF n < n THEN s[n] + d ELSE s[n]
  BY <1>5, <1>7, <1>8, SumsDiffer
<1> QED BY <1>1, <1>2, <1>5, <1>9

LEMMA EmptyHoldsNothing ==
    ASSUME NEW a, a.count \in Nat, \A i \in 0..(a.count - 1) : a.parts[i] = NoPart
    PROVE  HeldSize(a) = 0
<1> DEFINE n == a.count
           p == HeldSizes(a)
           b == [i \in 0..n |-> 0]
<1>1. PICK s : SumOf(s, n, p) /\ HeldSize(a) = s[n]
  BY HeldSizeSum
<1>2. \A i \in 0..(n - 1) : p[i] = 0
  BY DEF HeldSizes
<1>3. /\ b[0] = 0 /\ b[n] = 0 /\ \A i \in 0..n : b[i] \in Nat
      /\ \A i \in 0..(n - 1) : p[i] \in Nat /\ p[i] <= b[i + 1] - b[i]
  BY <1>2
<1> HIDE DEF b, p
<1>4. s[n] \in Nat /\ s[n] <= b[n]
  BY <1>1, <1>3, SumBounded
<1> QED BY <1>1, <1>3, <1>4

\* A fragment adds its size.
LEMMA FragmentAdds ==
    ASSUME TypeOK, NEW f \in Link, NEW a \in Assembly, OfSent(a), a.count = f.count,
           a.parts[f.index] = NoPart
    PROVE  HeldSize(WithPart(a, f)) = HeldSize(a) + f.size
<1> DEFINE w == WithPart(a, f)
           n == a.count
           p == HeldSizes(a)
           q == HeldSizes(w)
<1>1. /\ f \in LinkFrame /\ f.index < f.count /\ f = FrameOf(f.msg, f.index)
  BY LinkFrames, LinkFrameOf
<1>2. f.msg \in 1..Len(sent) /\ f.index \in Indexes /\ f.index \in Nat /\ f.size \in Nat
      /\ f.size = PartSize(sent[f.msg], f.index) /\ n \in Nat /\ f.index \in 0..(n - 1)
  BY <1>1 DEF LinkFrame, FrameOf, Indexes, Assembly
<1>3. w.count = n /\ w.parts = [a.parts EXCEPT ![f.index] = f.msg] /\ DOMAIN a.parts = Indexes
  BY DEF WithPart, Assembly
<1>4. PICK s : SumOf(s, n, p) /\ HeldSize(a) = s[n]
  BY <1>2, HeldSizeSum
<1>5. PICK t : SumOf(t, n, q) /\ HeldSize(w) = t[n]
  BY <1>2, <1>3, HeldSizeSum
<1>6. \A i \in 0..(n - 1) : p[i] \in Int
  BY <1>2, HeldSizesAreNat
<1>7. ASSUME NEW i \in 0..(n - 1) PROVE q[i] = IF i = f.index THEN p[i] + f.size ELSE p[i]
  <2>1. p[i] = IF a.parts[i] = NoPart THEN 0 ELSE PartSize(sent[a.parts[i]], i)
    BY DEF HeldSizes
  <2>2. q[i] = IF w.parts[i] = NoPart THEN 0 ELSE PartSize(sent[w.parts[i]], i)
    BY <1>3 DEF HeldSizes
  <2>3. CASE i = f.index
    <3>1. w.parts[i] = f.msg /\ f.msg # NoPart
      BY <1>2, <1>3, <2>3 DEF NoPart
    <3> QED BY <1>2, <2>1, <2>2, <2>3, <3>1
  <2>4. CASE i # f.index
    <3>1. w.parts[i] = a.parts[i]
      BY <1>3, <2>4
    <3> QED BY <2>1, <2>2, <2>4, <3>1
  <2> QED BY <2>3, <2>4
<1> HIDE DEF w, n, p, q
<1>8. PICK j \in Nat, d \in Int : j = f.index /\ d = f.size
  BY <1>2
<1>9. DifferBy(p, q, n, j, d)
  BY <1>6, <1>7, <1>8 DEF DifferBy
<1>10. SumOf(s, n, p) /\ SumOf(t, n, q) /\ n \in Nat
  BY <1>2, <1>4, <1>5
<1>11. s[n] \in Int /\ t[n] = IF j < n THEN s[n] + d ELSE s[n]
  BY <1>9, <1>10, SumsDiffer
<1> QED BY <1>2, <1>4, <1>5, <1>8, <1>11 DEF w

LEMMA AssembliesOfSent ==
    ASSUME TypeOK, PartsReceived, NEW id \in Ids
    PROVE  OfSent(assemblies[id]) /\ assemblies[id] \in Assembly /\ assemblies[id].count \in Nat
<1>1. assemblies[id] \in Assembly
  BY DEF TypeOK
<1>2. assemblies[id].count \in 0..MaxFragments
  BY <1>1 DEF Assembly
<1>3. \A i \in 0..(assemblies[id].count - 1) : i \in Indexes
  BY <1>2, ReassemblyAssumption DEF Indexes
<1> QED BY <1>1, <1>2, <1>3 DEF PartsReceived, AssembliesReceived, ReceivedParts, OfSent

\* The total of the assembly a frame meets is the size it holds.
LEMMA AssemblyForHeld ==
    ASSUME TypeOK, PartsReceived, TotalIsHeldSize, NEW f \in Link
    PROVE  /\ AssemblyFor(f) \in Assembly /\ OfSent(AssemblyFor(f))
           /\ AssemblyFor(f).total = HeldSize(AssemblyFor(f))
<1> DEFINE a == AssemblyFor(f)
<1>1. f \in LinkFrame /\ f.id \in Ids /\ f.count \in 1..MaxFragments
  BY LinkFrames DEF LinkFrame
<1>2. CASE assemblies[f.id] = NoAssembly
  <2>1. a.count = f.count /\ a.total = 0 /\ a.parts = NoParts /\ a.count \in Nat
    BY <1>1, <1>2 DEF AssemblyFor
  <2>2. \A i \in 0..(a.count - 1) : a.parts[i] = NoPart
    BY <1>1, <2>1, ReassemblyAssumption DEF NoParts, Indexes
  <2>3. HeldSize(a) = 0
    BY <2>1, <2>2, EmptyHoldsNothing
  <2> QED BY <1>1, <2>1, <2>2, <2>3, AssemblyForIsAssembly DEF OfSent
<1>3. CASE assemblies[f.id] # NoAssembly
  <2>1. a = assemblies[f.id]
    BY <1>3 DEF AssemblyFor
  <2> QED BY <1>1, <2>1, AssembliesOfSent DEF TotalIsHeldSize
<1> QED BY <1>2, <1>3

LEMMA TotalsInit == Init => TotalIsHeldSize
<1> SUFFICES ASSUME Init, NEW id \in Ids PROVE assemblies[id].total = HeldSize(assemblies[id])
  BY DEF TotalIsHeldSize
<1> DEFINE a == assemblies[id]
<1>1. a = NoAssembly
  BY DEF Init
<1>2. a.count = 0 /\ a.total = 0
  BY <1>1 DEF NoAssembly
<1> QED BY <1>2, EmptyHoldsNothing

LEMMA TotalsNext ==
    ASSUME TypeOK, PartsReceived, TotalIsHeldSize, [Next]_vars
    PROVE  TotalIsHeldSize'
<1>1. \A id \in Ids : OfSent(assemblies[id]) /\ assemblies[id] \in Assembly
                      /\ assemblies[id].count \in Nat
  BY AssembliesOfSent
<1>2. \A n \in 1..Len(sent) : sent'[n] = sent[n]
  <2>1. ASSUME NEW ptype \in Types, NEW len \in Lengths, Fragment(ptype, len)
        PROVE  \A n \in 1..Len(sent) : sent'[n] = sent[n]
    BY <2>1, FragmentEffect
  <2> QED BY <2>1 DEF Next, SetCapacity, OnFrame, sender, vars
<1>3. ASSUME NEW id \in Ids, assemblies'[id] = assemblies[id]
      PROVE  assemblies'[id].total = HeldSize(assemblies[id])'
  <2>1. PICK a : a = assemblies[id]
    OBVIOUS
  <2>2. HeldSize(a)' = HeldSize(a)
    BY <1>1, <1>2, <2>1, HeldSizeStays
  <2>3. a.total = HeldSize(a)
    BY <2>1 DEF TotalIsHeldSize
  <2> QED BY <1>3, <2>1, <2>2, <2>3
<1>4. CASE UNCHANGED assemblies
  BY <1>3, <1>4 DEF TotalIsHeldSize
<1>5. ASSUME NEW f \in Link, OnFrame(f) PROVE TotalIsHeldSize'
  <2>1. f \in LinkFrame /\ f.index < f.count /\ f.id \in Ids
    BY LinkFrames DEF LinkFrame
  <2> DEFINE a == AssemblyFor(f)
             w == WithPart(a, f)
  <2>2. a \in Assembly /\ OfSent(a) /\ a.total = HeldSize(a)
    BY AssemblyForHeld
  <2> SUFFICES ASSUME NEW id \in Ids PROVE assemblies'[id].total = HeldSize(assemblies[id])'
    BY DEF TotalIsHeldSize
  <2>3. CASE assemblies' = assemblies
    BY <1>3, <2>3
  <2>4. CASE assemblies' = [assemblies EXCEPT ![f.id] = NoAssembly]
    <3>1. CASE id = f.id
      <4>1. assemblies'[id] = NoAssembly
        BY <2>4, <3>1 DEF TypeOK
      <4>2. NoAssembly.count = 0 /\ NoAssembly.total = 0
        BY DEF NoAssembly
      <4>3. HeldSize(NoAssembly)' = HeldSize(NoAssembly)
        BY <1>2, <4>2, HeldSizeStays DEF OfSent
      <4>4. HeldSize(NoAssembly) = 0
        BY <4>2, EmptyHoldsNothing
      <4> QED BY <4>1, <4>2, <4>3, <4>4
    <3>2. CASE id # f.id
      BY <1>3, <2>4, <3>2 DEF TypeOK
    <3> QED BY <3>1, <3>2
  <2>5. CASE /\ assemblies' = [assemblies EXCEPT ![f.id] = w]
             /\ a.count = f.count
             /\ a.parts[f.index] = NoPart
    <3>1. CASE id = f.id
      <4>1. HeldSize(w) = HeldSize(a) + f.size
        BY <2>2, <2>5, FragmentAdds
      <4>2. w.total = a.total + f.size /\ w.count = a.count
            /\ w.parts = [a.parts EXCEPT ![f.index] = f.msg]
        BY DEF WithPart
      <4>3. OfSent(w) /\ w.count \in Nat
        BY <2>1, <2>2, <4>2 DEF OfSent, Assembly, LinkFrame, Indexes
      <4>4. assemblies'[id] = w
        BY <2>5, <3>1 DEF TypeOK
      <4>5. PICK x : x = w
        OBVIOUS
      <4>6. HeldSize(x)' = HeldSize(x)
        BY <1>2, <4>3, <4>5, HeldSizeStays
      <4> QED BY <2>2, <4>1, <4>2, <4>4, <4>5, <4>6
    <3>2. CASE id # f.id
      BY <1>3, <2>5, <3>2 DEF TypeOK
    <3> QED BY <3>1, <3>2
  <2> QED BY <1>5, <2>3, <2>4, <2>5, TableStep
<1> QED BY <1>4, <1>5 DEF Next, Fragment, SetCapacity, vars

LEMMA PartsReceivedInvariant == Spec => [](Inv /\ PartsReceived)
<1>1. Init => PartsReceived
  <2>1. NoAssembly.parts = NoParts
    BY DEF NoAssembly
  <2> QED BY <2>1, NoPartsReceived
         DEF Init, PartsReceived, AssembliesReceived, DeliveriesReceived
<1>2. Inv /\ PartsReceived /\ [Next]_vars => PartsReceived'
  BY PartsReceivedNext DEF Inv
<1> QED BY <1>1, <1>2, Invariant, PTL DEF Spec

\* However fragments arrive and messages are mixed up, total_size is the number of bytes
\* an assembly holds, so max_message_size bounds them (codec.py:163).
THEOREM TotalsAreSizes == Spec => []TotalIsHeldSize
<1>1. Inv /\ PartsReceived /\ TotalIsHeldSize /\ [Next]_vars => TotalIsHeldSize'
  BY TotalsNext DEF Inv
<1> QED BY <1>1, TotalsInit, PartsReceivedInvariant, PTL DEF Spec

-----------------------------------------------------------------------------
(* The size of a whole message *)

\* The bytes of the body of m before fragment i.
Before(m, i) == IF i * m.cap < m.len THEN i * m.cap ELSE m.len

LEMMA PartIsBetween ==
    ASSUME NEW m \in Message, NEW i \in Nat
    PROVE  /\ Before(m, i) \in Nat /\ Before(m, i) <= m.len /\ Before(m, 0) = 0
           /\ PartSize(m, i) = Before(m, i + 1) - Before(m, i)
<1>1. m.cap \in Nat /\ m.len \in Nat
  BY DEF Message
<1> DEFINE c == m.cap
           l == m.len
           x == i * c
<1>2. x \in Nat /\ (i + 1) * c = x + c /\ 0 * c = 0 /\ c \in Nat /\ l \in Nat
  BY <1>1
<1>3. /\ PartSize(m, i) = LET end == IF x + c < l THEN x + c ELSE l
                          IN IF x < end THEN end - x ELSE 0
      /\ Before(m, i) = IF x < l THEN x ELSE l
      /\ Before(m, i + 1) = IF (i + 1) * c < l THEN (i + 1) * c ELSE l
      /\ Before(m, 0) = IF 0 * c < l THEN 0 * c ELSE l
  BY DEF PartSize, Before
<1> HIDE DEF c, x, l
<1>4. /\ Before(m, i + 1) = IF x + c < l THEN x + c ELSE l
      /\ Before(m, 0) = IF 0 < l THEN 0 ELSE l
  BY <1>2, <1>3
<1>5. Before(m, i) \in Nat /\ Before(m, i) <= l /\ Before(m, 0) = 0
  BY <1>2, <1>3, <1>4
<1>6. PartSize(m, i) = Before(m, i + 1) - Before(m, i)
  BY <1>2, <1>3, <1>4
<1> QED BY <1>5, <1>6 DEF l

LEMMA WholeIsAll ==
    ASSUME NEW m \in Message, m.count > 1, m.count = FrameCount(m.len, m.cap)
    PROVE  Before(m, m.count) = m.len
<1>1. m.cap \in Nat /\ m.len \in Nat /\ m.count \in Nat
  BY ReassemblyAssumption DEF Message
<1>2. m.cap # 0 /\ m.count = (m.len + m.cap - 1) \div m.cap
  BY <1>1 DEF FrameCount
<1> DEFINE c == m.cap
           k == m.count
           l == m.len
<1>3. c \in Nat \ {0} /\ l \in Nat /\ k \in Nat /\ k = (l + c - 1) \div c
  BY <1>1, <1>2
<1> HIDE DEF c, k, l
<1>4. k * c \in Int /\ (l + c - 1) < k * c + c
  BY <1>3
<1>5. ~ (k * c < l)
  BY <1>3, <1>4
<1> QED BY <1>5 DEF Before, c, k, l

\* What an assembly holds of one message, and all of it.
LEMMA HeldAtMost ==
    ASSUME TypeOK, NEW n \in 1..Len(sent), NEW a, a.count \in Nat, a.count = sent[n].count,
           \A i \in 0..(a.count - 1) : a.parts[i] \in {NoPart, n},
           sent[n].count > 1, sent[n].count = FrameCount(sent[n].len, sent[n].cap)
    PROVE  /\ HeldSize(a) <= sent[n].len
           /\ (\A i \in 0..(a.count - 1) : a.parts[i] = n) => HeldSize(a) = sent[n].len
<1> DEFINE m == sent[n]
           k == a.count
           p == HeldSizes(a)
           b == [i \in 0..k |-> Before(m, i)]
<1>1. m \in Message /\ n # NoPart
  BY DEF TypeOK, NoPart
<1>2. PICK s : SumOf(s, k, p) /\ HeldSize(a) = s[k]
  BY HeldSizeSum
<1>3. \A i \in 0..(k - 1) : p[i] = IF a.parts[i] = NoPart THEN 0 ELSE PartSize(m, i)
  BY DEF HeldSizes
<1>4. b[0] = 0 /\ b[k] = m.len /\ \A i \in 0..k : b[i] \in Nat
  <2>1. Before(m, 0) = 0 /\ \A i \in Nat : Before(m, i) \in Nat
    BY <1>1, PartIsBetween
  <2>2. Before(m, k) = m.len
    BY <1>1, WholeIsAll
  <2> QED BY <2>1, <2>2
<1>5. ASSUME NEW i \in 0..(k - 1)
      PROVE  PartSize(m, i) = b[i + 1] - b[i] /\ PartSize(m, i) \in Nat
  <2>1. i \in Nat /\ i \in 0..k /\ i + 1 \in 0..k
    OBVIOUS
  <2>2. PartSize(m, i) = Before(m, i + 1) - Before(m, i) /\ PartSize(m, i) \in Nat
    BY <1>1, <2>1, PartIsBetween, PartSizeIsNat
  <2> QED BY <2>1, <2>2
<1> HIDE DEF b, p
<1>6. \A i \in 0..(k - 1) : p[i] \in Nat /\ p[i] <= b[i + 1] - b[i]
  BY <1>3, <1>5
<1>7. /\ s[k] \in Nat /\ s[k] <= b[k]
      /\ (\A i \in 0..(k - 1) : p[i] = b[i + 1] - b[i]) => s[k] = b[k]
  BY <1>2, <1>4, <1>6, SumBounded
<1>8. (\A i \in 0..(k - 1) : a.parts[i] = n) => \A i \in 0..(k - 1) : p[i] = b[i + 1] - b[i]
  BY <1>1, <1>3, <1>5
<1> QED BY <1>2, <1>4, <1>7, <1>8

-----------------------------------------------------------------------------
(* Whatever was received in full is delivered                               *)

Counted ==
    \A n \in 1..Len(sent) :
        sent[n].count > 0 => sent[n].count = FrameCount(sent[n].len, sent[n].cap)

Strong == Inv /\ PartsReceived /\ AssembliesUnfinished /\ TotalIsHeldSize /\ Counted

\* The frames of message n that arrived are held, unless it was delivered or is too large.
KeptOf(n) ==
    sent[n].count > 0 /\ ~ Oversize(n) /\ Intact(n) \notin delivered =>
        \A i \in 0..(sent[n].count - 1) : FrameOf(n, i) \in received =>
            sent[n].count > 1 /\ assemblies[sent[n].id].parts[i] # NoPart

Kept == Len(sent) <= MaxId => \A n \in 1..Len(sent) : KeptOf(n)

\* No message is delivered that is too large.
Fitting ==
    Len(sent) <= MaxId => \A n \in 1..Len(sent) : Oversize(n) => Intact(n) \notin delivered

LEMMA CountedNext ==
    ASSUME TypeOK, Counted, [Next]_vars
    PROVE  Counted'
<1>1. ASSUME NEW ptype \in Types, NEW len \in Lengths, Fragment(ptype, len) PROVE Counted'
  <2> DEFINE k == FrameCount(len, capacity)
             m == [id |-> nextMessageId, ptype |-> ptype, len |-> len, cap |-> capacity,
                   count |-> IF k > MaxFragments THEN 0 ELSE k]
  <2>1. sent' = Append(sent, m) /\ sent \in Seq(Message)
    BY <1>1 DEF Fragment, TypeOK
  <2>2. m.count > 0 => m.count = FrameCount(m.len, m.cap)
    OBVIOUS
  <2> HIDE DEF m
  <2>3. /\ Len(sent') = Len(sent) + 1 /\ sent'[Len(sent) + 1] = m
        /\ \A n \in 1..Len(sent) : sent'[n] = sent[n]
    BY <2>1
  <2>4. Len(sent) \in Nat
    BY <2>1
  <2> SUFFICES ASSUME NEW n \in 1..(Len(sent) + 1), sent'[n].count > 0
               PROVE  sent'[n].count = FrameCount(sent'[n].len, sent'[n].cap)
    BY <2>3 DEF Counted
  <2>5. n \in 1..Len(sent) \/ n = Len(sent) + 1
    BY <2>4
  <2> QED BY <2>2, <2>3, <2>5 DEF Counted
<1>2. CASE UNCHANGED sent
  BY <1>2 DEF Counted
<1> QED BY <1>1, <1>2 DEF Next, SetCapacity, OnFrame, sender, vars

LEMMA StrongInvariant == Spec => []Strong
<1>1. Init => Counted
  BY DEF Init, Counted
<1>2. Inv /\ Counted /\ [Next]_vars => Counted'
  BY CountedNext DEF Inv
<1>3. Spec => []Counted
  BY <1>1, <1>2, Invariant, PTL DEF Spec
<1> QED BY <1>3, PartsReceivedInvariant, Unfinished, TotalsAreSizes, PTL DEF Strong

\* Until ids wrap, an assembly holds fragments of the one message of its id.
LEMMA SameMessage ==
    ASSUME Strong, Len(sent) <= MaxId, NEW n \in 1..Len(sent),
           assemblies[sent[n].id] # NoAssembly
    PROVE  LET a == assemblies[sent[n].id] IN
           /\ a.ptype = sent[n].ptype /\ a.count = sent[n].count
           /\ \A i \in Indexes : a.parts[i] # NoPart => a.parts[i] = n /\ i < sent[n].count
<1> DEFINE id == sent[n].id
           a == assemblies[id]
<1>1. id \in Ids /\ Len(sent) \in Nat
  <2>1. sent[n] \in Message /\ Len(sent) \in Nat
    BY DEF Strong, Inv, TypeOK
  <2> QED BY <2>1 DEF Message
<1>2. ReceivedParts(id, a.ptype, a.count, a.parts)
  BY <1>1 DEF Strong, PartsReceived, AssembliesReceived
<1>3. ASSUME NEW i \in Indexes, a.parts[i] # NoPart
      PROVE  a.parts[i] = n /\ i < a.count /\ a.ptype = sent[n].ptype /\ a.count = sent[n].count
  <2>1. /\ a.parts[i] \in 1..Len(sent) /\ sent[a.parts[i]].id = id
        /\ sent[a.parts[i]].ptype = a.ptype /\ sent[a.parts[i]].count = a.count /\ i < a.count
    BY <1>2, <1>3 DEF ReceivedParts
  <2>2. a.parts[i] = n
    BY <1>1, <2>1, ReassemblyAssumption DEF Strong, Inv, IdsFarApart
  <2> QED BY <2>1, <2>2
<1>4. PICK i \in 0..(a.count - 1) : a.parts[i] # NoPart
  BY <1>1 DEF Strong, AssembliesUnfinished
<1>5. i \in Indexes
  <2>1. a.count \in 0..MaxFragments
    BY <1>1 DEF Strong, Inv, TypeOK, Assembly
  <2> QED BY <1>4, <2>1, ReassemblyAssumption DEF Indexes
<1> HIDE DEF a
<1>6. a.ptype = sent[n].ptype /\ a.count = sent[n].count
  BY <1>3, <1>4, <1>5
<1> QED BY <1>3, <1>6 DEF a

\* The assembly a frame meets until ids wrap.
LEMMA OneMessage ==
    ASSUME Strong, Len(sent) <= MaxId, NEW f \in Link
    PROVE  LET a == AssemblyFor(f) IN
           /\ ~ Mismatch(a, f)
           /\ \A i \in Indexes : /\ a.parts[i] = assemblies[f.id].parts[i]
                                 /\ a.parts[i] # NoPart => a.parts[i] = f.msg /\ i < f.count
<1>1. /\ f \in LinkFrame /\ sent[f.msg].id = f.id /\ sent[f.msg].ptype = f.ptype
      /\ sent[f.msg].count = f.count
  BY LinkFrames, LinkFrameOf DEF Strong, Inv
<1>2. f.msg \in 1..Len(sent)
  BY <1>1 DEF LinkFrame
<1>3. CASE assemblies[f.id] = NoAssembly
  BY <1>3 DEF AssemblyFor, Mismatch, NoAssembly, NoParts
<1>4. CASE assemblies[f.id] # NoAssembly
  <2> DEFINE a == assemblies[f.id]
  <2>1. AssemblyFor(f) = a
    BY <1>4 DEF AssemblyFor
  <2>2. /\ a.ptype = f.ptype /\ a.count = f.count
        /\ \A i \in Indexes : a.parts[i] # NoPart => a.parts[i] = f.msg /\ i < f.count
    BY <1>1, <1>2, <1>4, SameMessage
  <2> HIDE DEF a
  <2>3. /\ ~ Mismatch(a, f)
        /\ \A i \in Indexes : a.parts[i] # NoPart => a.parts[i] = f.msg /\ i < f.count
    BY <2>2 DEF Mismatch
  <2> QED BY <2>1, <2>3 DEF a
<1> QED BY <1>3, <1>4

\* The assembly it makes.
LEMMA Filled ==
    ASSUME Strong, Len(sent) <= MaxId, NEW f \in Link, f.count > 1,
           AssemblyFor(f).parts[f.index] = NoPart
    PROVE  LET w == WithPart(AssemblyFor(f), f) IN
           /\ w.ptype = f.ptype /\ w.count = f.count
           /\ w.total <= sent[f.msg].len
           /\ \A i \in Indexes : w.parts[i] = IF i = f.index THEN f.msg ELSE assemblies[f.id].parts[i]
           /\ Complete(w) => w.total = sent[f.msg].len /\ w.parts = Intact(f.msg).parts
<1> DEFINE a == AssemblyFor(f)
           w == WithPart(a, f)
           n == f.msg
<1>1. /\ f \in LinkFrame /\ f.index < f.count /\ sent[n].id = f.id
      /\ sent[n].ptype = f.ptype /\ sent[n].count = f.count
  BY LinkFrames, LinkFrameOf DEF Strong, Inv
<1>2. n \in 1..Len(sent) /\ f.index \in Indexes /\ f.count \in 1..MaxFragments
  BY <1>1 DEF LinkFrame
<1>3. /\ a.ptype = f.ptype /\ a.count = f.count
      /\ \A i \in Indexes : /\ a.parts[i] = assemblies[f.id].parts[i]
                            /\ a.parts[i] # NoPart => a.parts[i] = n /\ i < f.count
  BY OneMessage DEF Mismatch
<1>4. a \in Assembly /\ OfSent(a) /\ a.total = HeldSize(a)
  BY AssemblyForHeld DEF Strong, Inv
<1>5. /\ w.ptype = a.ptype /\ w.count = a.count /\ w.total = a.total + f.size
      /\ w.parts = [a.parts EXCEPT ![f.index] = n] /\ a.parts \in [Indexes -> Part]
  BY <1>4 DEF WithPart, Assembly
<1>6. w.total = HeldSize(w)
  BY <1>3, <1>4, <1>5, FragmentAdds DEF Strong, Inv
<1> HIDE DEF a, w, n
<1>7. \A i \in Indexes : w.parts[i] = IF i = f.index THEN n ELSE a.parts[i]
  BY <1>5
<1>8. \A i \in Indexes : w.parts[i] \in {NoPart, n} /\ (w.parts[i] # NoPart => i < f.count)
  BY <1>1, <1>3, <1>7
<1>9. 0..(f.count - 1) \subseteq Indexes
  BY <1>2, ReassemblyAssumption DEF Indexes
<1>10. sent[n].count > 1 /\ sent[n].count = FrameCount(sent[n].len, sent[n].cap)
       /\ w.count \in Nat /\ w.count = sent[n].count
  BY <1>1, <1>2, <1>3, <1>5 DEF Strong, Counted
<1>11. \A i \in 0..(w.count - 1) : w.parts[i] \in {NoPart, n}
  BY <1>3, <1>5, <1>8, <1>9
<1>12. /\ HeldSize(w) <= sent[n].len
       /\ (\A i \in 0..(w.count - 1) : w.parts[i] = n) => HeldSize(w) = sent[n].len
  BY <1>2, <1>10, <1>11, HeldAtMost DEF Strong, Inv
<1>13. ASSUME Complete(w) PROVE w.total = sent[n].len /\ w.parts = Intact(n).parts
  <2>1. \A i \in 0..(w.count - 1) : w.parts[i] = n
    BY <1>11, <1>13 DEF Complete
  <2>2. ASSUME NEW i \in Indexes PROVE w.parts[i] = IF i < sent[n].count THEN n ELSE NoPart
    <3>1. CASE i < sent[n].count
      <4>1. i \in 0..(w.count - 1)
        BY <1>10, <3>1 DEF Indexes
      <4> QED BY <2>1, <3>1, <4>1
    <3>2. CASE ~ (i < sent[n].count)
      BY <1>1, <1>8, <3>2
    <3> QED BY <3>1, <3>2
  <2>3. w.parts = [i \in Indexes |-> IF i < sent[n].count THEN n ELSE NoPart]
    BY <1>5, <2>2
  <2> QED BY <1>6, <1>12, <2>1, <2>3 DEF Intact
<1>14. \A i \in Indexes : w.parts[i] = IF i = f.index THEN n ELSE assemblies[f.id].parts[i]
  BY <1>3, <1>7
<1> QED BY <1>3, <1>5, <1>6, <1>12, <1>13, <1>14 DEF a, w, n

\* What a frame does until ids wrap: the message of its id is delivered at once, held
\* already, too large, taken one fragment further, or completed.
LEMMA FrameOutcome ==
    ASSUME Strong, Len(sent) <= MaxId, NEW f \in Link, OnFrame(f)
    PROVE  \/ f.count = 1 /\ assemblies' = assemblies /\ delivered' = delivered \cup {Intact(f.msg)}
           \/ /\ f.count > 1 /\ assemblies' = assemblies /\ delivered' = delivered
              /\ assemblies[f.id].parts[f.index] # NoPart
           \/ /\ Oversize(f.msg) /\ delivered' = delivered
              /\ assemblies' = [assemblies EXCEPT ![f.id] = NoAssembly]
           \/ /\ f.count > 1 /\ delivered' = delivered
              /\ \E w : /\ assemblies' = [assemblies EXCEPT ![f.id] = w]
                        /\ \A i \in Indexes : w.parts[i] =
                              IF i = f.index THEN f.msg ELSE assemblies[f.id].parts[i]
           \/ /\ ~ Oversize(f.msg) /\ delivered' = delivered \cup {Intact(f.msg)}
              /\ assemblies' = [assemblies EXCEPT ![f.id] = NoAssembly]
<1> DEFINE n == f.msg
<1>1. /\ f \in LinkFrame /\ f.index < f.count /\ sent[n].id = f.id
      /\ sent[n].ptype = f.ptype /\ sent[n].count = f.count
  BY LinkFrames, LinkFrameOf DEF Strong, Inv
<1>2. n \in 1..Len(sent) /\ f.index \in Indexes /\ f.count \in 1..MaxFragments
  BY <1>1 DEF LinkFrame
<1>3. sent[n].len \in Nat
  <2>1. sent[n] \in Message
    BY <1>2 DEF Strong, Inv, TypeOK
  <2> QED BY <2>1 DEF Message
<1>4. CASE OnSingleFrame(f)
  <2>1. f.count = 1 /\ assemblies' = assemblies
    BY <1>4 DEF OnSingleFrame
  <2>2. [NoParts EXCEPT ![0] = n] = [i \in Indexes |-> IF i < 1 THEN n ELSE NoPart]
    <3>1. \A i \in Indexes : i < 1 <=> i = 0
      BY DEF Indexes
    <3> QED BY <3>1 DEF NoParts
  <2>3. Intact(n) = [id |-> f.id, ptype |-> f.ptype, count |-> 1,
                     parts |-> [i \in Indexes |-> IF i < 1 THEN n ELSE NoPart]]
    BY <1>1, <2>1 DEF Intact
  <2>4. delivered' = delivered \cup {Intact(n)}
    BY <1>4, <2>2, <2>3 DEF OnSingleFrame, Deliver
  <2> QED BY <2>1, <2>4
<1>5. CASE OnMismatch(f)
  BY <1>5, OneMessage DEF OnMismatch
<1>6. CASE OnRepeatedFragment(f)
  <2>1. f.count > 1 /\ assemblies' = assemblies /\ delivered' = delivered
        /\ AssemblyFor(f).parts[f.index] # NoPart
    BY <1>6 DEF OnRepeatedFragment
  <2>2. AssemblyFor(f).parts[f.index] = assemblies[f.id].parts[f.index]
    BY <1>2, OneMessage
  <2> QED BY <2>1, <2>2
<1>7. CASE OnNewFragment(f)
  <2> DEFINE w == WithPart(AssemblyFor(f), f)
  <2>1. f.count > 1 /\ AssemblyFor(f).parts[f.index] = NoPart
    BY <1>7 DEF OnNewFragment
  <2>2. /\ w.ptype = f.ptype /\ w.count = f.count
        /\ w.total <= sent[n].len
        /\ \A i \in Indexes : w.parts[i] = IF i = f.index THEN n ELSE assemblies[f.id].parts[i]
        /\ Complete(w) => w.total = sent[n].len /\ w.parts = Intact(n).parts
    BY <2>1, Filled
  <2>3. w.total \in Nat
    <3>1. AssemblyFor(f) \in Assembly
      BY <1>1, AssemblyForIsAssembly DEF Strong, Inv
    <3>2. w \in Assembly
      BY <1>1, <3>1, WithPartIsAssembly DEF Strong, Inv
    <3> QED BY <3>2 DEF Assembly
  <2>4. \/ w.total > MaxMessageSize /\ Drop(f.id) /\ delivered' = delivered
        \/ Keep(f.id, w) /\ delivered' = delivered
        \/ /\ w.total <= MaxMessageSize /\ Complete(w) /\ Drop(f.id)
           /\ Deliver(f.id, w.ptype, w.count, w.parts)
    BY <1>7 DEF OnNewFragment
  <2> HIDE DEF w
  <2>5. CASE w.total > MaxMessageSize /\ Drop(f.id) /\ delivered' = delivered
    <3>1. Oversize(n)
      BY <1>1, <1>3, <2>1, <2>2, <2>3, <2>5, ReassemblyAssumption DEF Oversize
    <3> QED BY <2>5, <3>1 DEF Drop
  <2>6. CASE Keep(f.id, w) /\ delivered' = delivered
    BY <2>1, <2>2, <2>6 DEF Keep
  <2>7. CASE /\ w.total <= MaxMessageSize /\ Complete(w) /\ Drop(f.id)
             /\ Deliver(f.id, w.ptype, w.count, w.parts)
    <3>1. ~ Oversize(n)
      BY <1>3, <2>2, <2>7, ReassemblyAssumption DEF Oversize
    <3>2. Intact(n) = [id |-> f.id, ptype |-> w.ptype, count |-> w.count, parts |-> w.parts]
      BY <1>1, <2>2, <2>7 DEF Intact
    <3> QED BY <2>7, <3>1, <3>2 DEF Drop, Deliver
  <2> QED BY <2>4, <2>5, <2>6, <2>7
<1> QED BY <1>4, <1>5, <1>6, <1>7 DEF OnFrame

\* Deliveries of different messages differ.
LEMMA IntactOnce ==
    ASSUME TypeOK, NEW n \in 1..Len(sent), NEW k \in 1..Len(sent),
           sent[n].count > 0, Intact(n) = Intact(k)
    PROVE  n = k
<1>1. 0 \in Indexes /\ n # NoPart
  BY ReassemblyAssumption DEF Indexes, NoPart
<1>2. Intact(n).parts[0] = Intact(k).parts[0]
  OBVIOUS
<1>3. Intact(n).parts[0] = n
  BY <1>1 DEF Intact
<1>4. Intact(k).parts[0] \in {k, NoPart}
  BY <1>1 DEF Intact
<1> QED BY <1>1, <1>2, <1>3, <1>4

LEMMA FittingFrame ==
    ASSUME Strong, Fitting, NEW f \in Link, OnFrame(f)
    PROVE  Fitting'
<1> SUFFICES ASSUME Len(sent) <= MaxId, NEW n \in 1..Len(sent), Oversize(n)
             PROVE  Intact(n) \notin delivered'
  BY DEF Fitting, OnFrame, sender, Oversize, Intact
<1>1. f.msg \in 1..Len(sent) /\ sent[f.msg].count = f.count
  BY LinkFrames, LinkFrameOf DEF Strong, Inv, LinkFrame
<1>2. Intact(n) \notin delivered
  BY DEF Fitting
<1>3. sent[n].count > 0 /\ sent[n].count > 1
  <2>1. sent[n] \in Message
    BY DEF Strong, Inv, TypeOK
  <2> QED BY <2>1 DEF Oversize, Message
<1>4. Intact(n) = Intact(f.msg) => n = f.msg
  BY <1>1, <1>3, IntactOnce DEF Strong, Inv
<1>5. CASE f.count = 1 /\ delivered' = delivered \cup {Intact(f.msg)}
  BY <1>1, <1>2, <1>3, <1>4, <1>5
<1>6. CASE ~ Oversize(f.msg) /\ delivered' = delivered \cup {Intact(f.msg)}
  BY <1>2, <1>4, <1>6
<1>7. CASE delivered' = delivered
  BY <1>2, <1>7
<1> QED BY <1>5, <1>6, <1>7, FrameOutcome

LEMMA KeptFrame ==
    ASSUME Strong, Len(sent) <= MaxId, NEW f \in Link, OnFrame(f), NEW n \in 1..Len(sent),
           KeptOf(n)
    PROVE  KeptOf(n)'
<1>1. sent' = sent /\ received' = received \cup {f}
  BY DEF OnFrame, sender
<1>2. Oversize(n)' = Oversize(n) /\ Intact(n)' = Intact(n)
      /\ \A i : FrameOf(n, i)' = FrameOf(n, i)
  BY <1>1 DEF Oversize, Intact, FrameOf
<1> SUFFICES ASSUME sent[n].count > 0, ~ Oversize(n), Intact(n) \notin delivered',
                    NEW i \in 0..(sent[n].count - 1), FrameOf(n, i) \in received'
             PROVE  sent[n].count > 1 /\ assemblies'[sent[n].id].parts[i] # NoPart
  BY <1>1, <1>2 DEF KeptOf
<1> DEFINE k == f.msg
           id == sent[n].id
<1>3. /\ k \in 1..Len(sent) /\ f.index \in Indexes /\ f.id \in Ids
      /\ f = FrameOf(k, f.index) /\ sent[k].id = f.id /\ sent[k].count = f.count
  BY LinkFrames, LinkFrameOf DEF Strong, Inv, LinkFrame
<1>4. sent[n] \in Message /\ Len(sent) \in Nat
  BY DEF Strong, Inv, TypeOK
<1>5. id \in Ids /\ i \in Indexes
  BY <1>4, ReassemblyAssumption DEF Message, Indexes
<1>6. k # NoPart /\ DOMAIN assemblies = Ids
  BY <1>3 DEF NoPart, Strong, Inv, TypeOK
<1>7. Intact(n) \notin delivered
  BY FrameOutcome
<1>8. FrameOf(n, i) \in received => sent[n].count > 1 /\ assemblies[id].parts[i] # NoPart
  BY <1>7 DEF KeptOf
<1>9. CASE n # k
  <2>1. f.id # id
    BY <1>3, <1>4, <1>9, ReassemblyAssumption DEF Strong, Inv, IdsFarApart
  <2>2. FrameOf(n, i) # f
    BY <1>3, <1>9 DEF FrameOf
  <2>3. assemblies'[id] = assemblies[id]
    <3>1. \/ assemblies' = assemblies
          \/ \E w : assemblies' = [assemblies EXCEPT ![f.id] = w]
      BY FrameOutcome
    <3> QED BY <1>5, <1>6, <2>1, <3>1
  <2> QED BY <1>1, <1>8, <2>2, <2>3
<1>10. CASE n = k
  <2>1. \/ FrameOf(n, i) \in received
        \/ i = f.index
    BY <1>1, <1>3 DEF FrameOf
  <2>2. id = f.id /\ sent[n].count = f.count
    BY <1>3, <1>10
  <2>3. Intact(k) \notin delivered' /\ ~ Oversize(k)
    BY <1>10
  <2>4. CASE /\ f.count > 1 /\ assemblies' = assemblies
             /\ assemblies[f.id].parts[f.index] # NoPart
    BY <1>8, <2>1, <2>2, <2>4
  <2>5. ASSUME f.count > 1, NEW w, assemblies' = [assemblies EXCEPT ![f.id] = w],
               \A j \in Indexes : w.parts[j] = IF j = f.index THEN k ELSE assemblies[f.id].parts[j]
        PROVE  sent[n].count > 1 /\ assemblies'[id].parts[i] # NoPart
    <3>1. assemblies'[id] = w
      BY <1>5, <1>6, <2>2, <2>5
    <3>2. w.parts[i] = IF i = f.index THEN k ELSE assemblies[id].parts[i]
      BY <1>5, <2>2, <2>5
    <3> QED BY <1>6, <1>8, <2>1, <2>2, <2>5, <3>1, <3>2
  <2> QED BY <2>3, <2>4, <2>5, FrameOutcome
<1> QED BY <1>9, <1>10

\* A message new to the link has no frame received.
LEMMA FragmentKeeps ==
    ASSUME Strong, Kept, Fitting, NEW ptype \in Types, NEW len \in Lengths, Fragment(ptype, len)
    PROVE  Kept' /\ Fitting'
<1>1. /\ Len(sent') = Len(sent) + 1 /\ Len(sent) \in Nat
      /\ \A n \in 1..Len(sent) : sent'[n] = sent[n]
      /\ assemblies' = assemblies /\ received' = received /\ delivered' = delivered
  <2>1. Len(sent) \in Nat
    BY DEF Strong, Inv, TypeOK
  <2> QED BY <2>1, FragmentEffect DEF Strong, Inv
<1>2. ASSUME NEW n \in 1..Len(sent')
      PROVE  n \in 1..Len(sent) \/ n = Len(sent) + 1
  BY <1>1
<1>3. ASSUME NEW n \in 1..Len(sent)
      PROVE  /\ Oversize(n)' = Oversize(n) /\ Intact(n)' = Intact(n) /\ sent'[n] = sent[n]
             /\ \A i : FrameOf(n, i)' = FrameOf(n, i)
  BY <1>1 DEF Oversize, Intact, FrameOf
<1>4. Len(sent') <= MaxId => Len(sent) <= MaxId
  BY <1>1, ReassemblyAssumption
<1>5. PICK new \in Nat : new = Len(sent) + 1
  BY <1>1
<1>6. ASSUME NEW i PROVE FrameOf(new, i)' \notin received
  <2>1. FrameOf(new, i)'.msg = new
    BY DEF FrameOf
  <2>2. \A f \in received : f.msg \in 1..Len(sent)
    BY DEF Strong, Inv, TypeOK
  <2>3. new \notin 1..Len(sent)
    BY <1>1, <1>5
  <2> QED BY <2>1, <2>2, <2>3
<1>7. Kept'
  <2> SUFFICES ASSUME Len(sent') <= MaxId, NEW n \in 1..Len(sent')
               PROVE  KeptOf(n)'
    BY DEF Kept
  <2>1. CASE n \in 1..Len(sent)
    <3>1. KeptOf(n)
      BY <1>4, <2>1 DEF Kept
    <3> QED BY <1>1, <1>3, <2>1, <3>1 DEF KeptOf
  <2>2. CASE n = new
    BY <1>1, <1>6, <2>2 DEF KeptOf
  <2> QED BY <1>2, <1>5, <2>1, <2>2
<1>8. Fitting'
  <2> SUFFICES ASSUME Len(sent') <= MaxId, NEW n \in 1..Len(sent'), Oversize(n)'
               PROVE  Intact(n)' \notin delivered
    BY <1>1 DEF Fitting
  <2>1. CASE n \in 1..Len(sent)
    BY <1>3, <1>4, <2>1 DEF Fitting
  <2>2. CASE n = new
    <3> SUFFICES ASSUME Intact(n)' \in delivered PROVE FALSE
      OBVIOUS
    <3>1. sent'[n].count > 1
      BY DEF Oversize
    <3>2. PICK k \in 1..Len(sent) : Intact(n)' = Intact(k)
      BY <1>4, DeliveredFromParts DEF Strong, DeliveredWasReceived
    <3>3. 0 \in Indexes
      BY ReassemblyAssumption DEF Indexes
    <3>4. Intact(n)'.parts[0] = IF 0 < sent'[n].count THEN n ELSE NoPart
      BY <3>3 DEF Intact
    <3>5. Intact(k).parts[0] \in {k, NoPart}
      BY <3>3 DEF Intact
    <3>6. 0 < sent'[n].count
      <4>1. sent' \in Seq(Message)
        BY FragmentEffect DEF Strong, Inv
      <4>2. sent'[n] \in Message
        BY <4>1
      <4> QED BY <3>1, <4>2 DEF Message
    <3>7. n \in {k, NoPart}
      BY <3>2, <3>4, <3>5, <3>6
    <3> QED BY <1>1, <1>5, <2>2, <3>7 DEF NoPart
  <2> QED BY <1>2, <1>5, <2>1, <2>2
<1> QED BY <1>7, <1>8

LEMMA KeepingNext ==
    ASSUME Strong, Kept, Fitting, [Next]_vars
    PROVE  Kept' /\ Fitting'
<1>1. ASSUME NEW f \in Link, OnFrame(f) PROVE Kept'
  <2>1. sent' = sent
    BY <1>1 DEF OnFrame, sender
  <2> SUFFICES ASSUME Len(sent) <= MaxId, NEW n \in 1..Len(sent) PROVE KeptOf(n)'
    BY <2>1 DEF Kept
  <2> QED BY <1>1, KeptFrame DEF Kept
<1>2. ASSUME NEW f \in Link, OnFrame(f) PROVE Fitting'
  BY <1>2, FittingFrame
<1>3. CASE UNCHANGED <<sent, assemblies, received, delivered>>
  BY <1>3 DEF Kept, KeptOf, Fitting, Oversize, Intact, FrameOf
<1> QED BY <1>1, <1>2, <1>3, FragmentKeeps DEF Next, SetCapacity, vars

\* A message all of whose frames are held has been delivered.
LEMMA AllHeldDelivered ==
    ASSUME Strong, Kept, Len(sent) <= MaxId, NEW n \in 1..Len(sent),
           sent[n].count > 0, Frames(n) \subseteq received, ~ Oversize(n)
    PROVE  Intact(n) \in delivered
<1> SUFFICES ASSUME Intact(n) \notin delivered PROVE FALSE
  OBVIOUS
<1> DEFINE id == sent[n].id
           a == assemblies[id]
<1>1. sent[n] \in Message
  BY DEF Strong, Inv, TypeOK
<1>2. sent[n].count \in 1..MaxFragments /\ id \in Ids
  BY <1>1, ReassemblyAssumption DEF Message
<1>3. \A i \in 0..(sent[n].count - 1) : FrameOf(n, i) \in received
  BY DEF Frames
<1>4. KeptOf(n)
  BY DEF Kept
<1>5. \A i \in 0..(sent[n].count - 1) : a.parts[i] # NoPart
  BY <1>3, <1>4 DEF KeptOf
<1>6. 0 \in 0..(sent[n].count - 1) /\ 0 \in Indexes
  BY <1>2, ReassemblyAssumption DEF Indexes
<1>7. a # NoAssembly
  BY <1>5, <1>6 DEF NoAssembly, NoParts
<1>8. a.count = sent[n].count
  BY <1>7, SameMessage
<1>9. Complete(a)
  BY <1>5, <1>8 DEF Complete
<1> QED BY <1>2, <1>7, <1>9 DEF Strong, AssembliesUnfinished

\* Until an id is used a second time, the messages delivered are exactly those all of whose
\* frames arrived, in whatever order and however often, except the oversize ones: nothing is
\* lost in the table, and nothing is delivered that the limit refuses (codec.py:145-175).
THEOREM DeliveredExactly == Spec => []DeliveredIffAllReceived
<1>1. Init => Kept /\ Fitting
  BY DEF Init, Kept, Fitting
<1>2. Strong /\ Kept /\ Fitting /\ [Next]_vars => Kept' /\ Fitting'
  BY KeepingNext
<1>3. ASSUME Strong, Kept, Fitting PROVE DeliveredIffAllReceived
  <2> SUFFICES ASSUME Len(sent) <= MaxId
               PROVE  delivered = {Intact(n) : n \in {k \in 1..Len(sent) :
                          sent[k].count > 0 /\ Frames(k) \subseteq received /\ ~ Oversize(k)}}
    BY DEF DeliveredIffAllReceived
  <2>1. ASSUME NEW d \in delivered
        PROVE  \E n \in 1..Len(sent) : /\ d = Intact(n) /\ sent[n].count > 0
                                       /\ Frames(n) \subseteq received /\ ~ Oversize(n)
    <3>1. PICK n \in 1..Len(sent) : d = Intact(n) /\ Frames(n) \subseteq received
      BY <1>3, DeliveredFromParts DEF Strong, DeliveredWasReceived
    <3>2. d.count \in 1..MaxFragments /\ d.count = sent[n].count
      BY <1>3, <3>1 DEF Strong, Inv, TypeOK, Intact
    <3>3. sent[n].count > 0
      BY <3>2, ReassemblyAssumption
    <3> QED BY <1>3, <3>1, <3>3 DEF Fitting
  <2>2. ASSUME NEW n \in 1..Len(sent), sent[n].count > 0, Frames(n) \subseteq received, ~ Oversize(n)
        PROVE  Intact(n) \in delivered
    BY <1>3, <2>2, AllHeldDelivered
  <2> QED BY <2>1, <2>2
<1> QED BY <1>1, <1>2, <1>3, StrongInvariant, PTL DEF Spec
=============================================================================
