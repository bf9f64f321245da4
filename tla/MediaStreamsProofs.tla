------------------------- MODULE MediaStreamsProofs -------------------------
(***************************************************************************)
(* What holds of the stream registries for any number of streams and       *)
(* chunks and any range of sequence ids.                                   *)
(*                                                                         *)
(* First StreamRegistry by itself, from StreamAssumption alone: the        *)
(* registry and the sink agree at any time on the last call about each     *)
(* stream id (RegistryFits), and every step adds one call at the end.      *)
(* Then MediaStreams, whose steps are steps of the registry it owns.       *)
(***************************************************************************)
EXTENDS MediaStreams, FiniteSetTheorems, SequenceTheorems, TLAPS

-----------------------------------------------------------------------------
(* StreamRegistry: types                                                    *)

SomeStats == [chunks : Nat, unknown : 0..MaxUnknown, gaps : Nat, duplicates : Nat]

\* No count exceeds the calls made to the sink.
StatsFit ==
    /\ Len(heard) <= MaxHeard
    /\ stats \in SomeStats
    /\ stats.chunks <= Len(heard) /\ stats.gaps <= Len(heard) /\ stats.duplicates <= Len(heard)

RegistryTyped ==
    /\ DOMAIN streams \subseteq StreamIds
    /\ \A id \in DOMAIN streams : streams[id] \in Context
    /\ heard \in Seq(Call)
    /\ StatsFit

\* The steps of the registry, one call to the sink each but the last.
Registers ==
    \E id \in StreamIds, kind \in Kinds, source \in Sources, reject \in BOOLEAN :
        RegisterStream(id, kind, source, reject)
Closes == \E id \in StreamIds : CloseStream(id)
TakesChunk == \E id \in StreamIds, seq \in SeqIds : HandleChunk(id, seq)
TakesUnknown == \E id \in StreamIds : HandleUnknown(id)

LEMMA NextIs == [Next]_registryVars =>
                    \/ Registers \/ Closes \/ TakesChunk \/ TakesUnknown
                    \/ UNCHANGED registryVars
  BY DEF Next, Registers, Closes, TakesChunk, TakesUnknown

LEMMA ModTyped == SeqMod \in Nat \ {0} /\ 0 \in 0..(SeqMod - 1)
                  /\ \A n \in Nat : n % SeqMod \in 0..(SeqMod - 1)
  BY StreamAssumption

\* What Heard does, for a call of the right type.
LEMMA HeardEffect ==
    ASSUME heard \in Seq(Call), NEW event, NEW id, NEW kind, NEW seq, Heard(event, id, kind, seq),
           [event |-> event, id |-> id, kind |-> kind, seq |-> seq] \in Call
    PROVE  LET c == [event |-> event, id |-> id, kind |-> kind, seq |-> seq] IN
           /\ heard' \in Seq(Call) /\ Len(heard) \in Nat
           /\ Len(heard') = Len(heard) + 1 /\ Len(heard') <= MaxHeard
           /\ heard'[Len(heard) + 1] = c
           /\ \A i \in 1..Len(heard) : heard'[i] = heard[i]
  <1> DEFINE c == [event |-> event, id |-> id, kind |-> kind, seq |-> seq]
  <1>1. Len(heard) < MaxHeard /\ heard' = Append(heard, c) /\ c \in Call
    BY DEF Heard
  <1> HIDE DEF c
  <1>2. /\ heard' \in Seq(Call) /\ Len(heard) \in Nat /\ Len(heard') = Len(heard) + 1
        /\ heard'[Len(heard) + 1] = c
        /\ \A i \in 1..Len(heard) : heard'[i] = heard[i]
    BY <1>1, AppendProperties, LenProperties
  <1>3. Len(heard') <= MaxHeard
    BY <1>1, <1>2, StreamAssumption
  <1> QED BY <1>2, <1>3 DEF c

\* Each kind of step, as the rest of the proofs use it: what happens to the context of
\* the stream, and the call added at the end.
Adds(c) ==
    /\ c \in Call /\ heard' \in Seq(Call) /\ Len(heard) \in Nat
    /\ Len(heard') = Len(heard) + 1 /\ Len(heard') <= MaxHeard
    /\ heard'[Len(heard) + 1] = c
    /\ \A i \in 1..Len(heard) : heard'[i] = heard[i]

LEMMA RegisterEffect ==
    ASSUME RegistryTyped, NEW id \in StreamIds, NEW kind \in Kinds, NEW source \in Sources,
           NEW reject, RegisterStream(id, kind, source, reject)
    PROVE  /\ id \notin DOMAIN streams /\ DOMAIN streams' = DOMAIN streams \cup {id}
           /\ streams'[id] = NewContext(kind, source) /\ NewContext(kind, source) \in Context
           /\ \A k \in DOMAIN streams : streams'[k] = streams[k]
           /\ Adds([event |-> "opened", id |-> id, kind |-> kind, seq |-> 0])
           /\ UNCHANGED stats
  <1>1. NewContext(kind, source) \in Context
    BY ModTyped DEF NewContext, Context
  <1>2. [event |-> "opened", id |-> id, kind |-> kind, seq |-> 0] \in Call
    BY ModTyped DEF Call
  <1>3. Adds([event |-> "opened", id |-> id, kind |-> kind, seq |-> 0])
    BY <1>2, HeardEffect DEF RegisterStream, RegistryTyped, Adds
  <1> QED BY <1>1, <1>3 DEF RegisterStream, CanRegister

LEMMA CloseEffect ==
    ASSUME RegistryTyped, NEW id \in StreamIds, CloseStream(id)
    PROVE  /\ id \in DOMAIN streams /\ DOMAIN streams' = DOMAIN streams \ {id}
           /\ \A k \in DOMAIN streams' : streams'[k] = streams[k]
           /\ Adds([event |-> "closed", id |-> id, kind |-> streams[id].kind, seq |-> 0])
           /\ UNCHANGED stats
  <1>1. id \in DOMAIN streams /\ streams[id].kind \in Kinds
    BY DEF CloseStream, RegistryTyped, Context
  <1>2. [event |-> "closed", id |-> id, kind |-> streams[id].kind, seq |-> 0] \in Call
    BY <1>1, ModTyped DEF Call
  <1>3. Adds([event |-> "closed", id |-> id, kind |-> streams[id].kind, seq |-> 0])
    BY <1>2, HeardEffect DEF CloseStream, RegistryTyped, Adds
  <1> QED BY <1>1, <1>3 DEF CloseStream

\* Whether a chunk is not the one expected.
Unexpected(id, seq) == streams[id].hasSeq /\ seq # streams[id].expected

LEMMA ChunkEffect ==
    ASSUME RegistryTyped, NEW id \in StreamIds, NEW seq \in SeqIds, HandleChunk(id, seq)
    PROVE  /\ id \in DOMAIN streams /\ DOMAIN streams' = DOMAIN streams
           /\ \A k \in DOMAIN streams : k # id => streams'[k] = streams[k]
           /\ streams'[id] = [streams[id] EXCEPT !.hasSeq = TRUE, !.expected = Expected(seq)]
           /\ streams'[id] \in Context
           /\ Adds([event |-> "chunk", id |-> id, kind |-> streams[id].kind, seq |-> seq])
           /\ stats' \in SomeStats /\ stats'.chunks = stats.chunks + 1
           /\ stats'.gaps \in {stats.gaps, stats.gaps + 1}
           /\ stats'.duplicates \in {stats.duplicates, stats.duplicates + 1}
           /\ stats'.gaps + stats'.duplicates
                 = stats.gaps + stats.duplicates + (IF Unexpected(id, seq) THEN 1 ELSE 0)
  <1>1. id \in DOMAIN streams /\ streams[id] \in Context
    BY DEF HandleChunk, RegistryTyped
  <1>2. seq \in 0..(SeqMod - 1) /\ Expected(seq) \in 0..(SeqMod - 1)
    BY ModTyped, StreamAssumption DEF Expected
  <1>3. [event |-> "chunk", id |-> id, kind |-> streams[id].kind, seq |-> seq] \in Call
    BY <1>1, <1>2 DEF Call, Context
  <1>4. Adds([event |-> "chunk", id |-> id, kind |-> streams[id].kind, seq |-> seq])
    BY <1>3, HeardEffect DEF HandleChunk, RegistryTyped, Adds
  <1> DEFINE new == [streams[id] EXCEPT !.hasSeq = TRUE, !.expected = Expected(seq)]
  <1>5. new \in Context /\ streams' = [streams EXCEPT ![id] = new]
    BY <1>1, <1>2 DEF Context, HandleChunk
  <1> HIDE DEF new
  <1>6. /\ DOMAIN streams' = DOMAIN streams /\ streams'[id] = new
        /\ \A k \in DOMAIN streams : k # id => streams'[k] = streams[k]
    BY <1>1, <1>5
  <1> DEFINE d == IF IsDuplicate(streams[id], seq) THEN 1 ELSE 0
             g == IF IsGap(streams[id], seq) THEN 1 ELSE 0
  <1>7. d + g = (IF Unexpected(id, seq) THEN 1 ELSE 0) /\ d \in {0, 1} /\ g \in {0, 1}
    <2>1. streams[id].expected \in Int /\ seq \in Int /\ streams[id].hasSeq \in BOOLEAN
      BY <1>1, <1>2 DEF Context
    <2> QED BY <2>1 DEF IsDuplicate, IsGap, Unexpected
  <1>8. stats' = [stats EXCEPT !.chunks = @ + 1, !.duplicates = @ + d, !.gaps = @ + g]
        /\ stats \in SomeStats
    BY DEF HandleChunk, RegistryTyped, StatsFit
  <1> HIDE DEF d, g
  <1>9. /\ stats' \in SomeStats /\ stats'.chunks = stats.chunks + 1
        /\ stats'.gaps = stats.gaps + g /\ stats'.duplicates = stats.duplicates + d
        /\ stats.gaps \in Nat /\ stats.duplicates \in Nat
    <2>1. stats.chunks \in Nat /\ stats.gaps \in Nat /\ stats.duplicates \in Nat
      BY <1>8 DEF SomeStats
    <2>2. stats.chunks + 1 \in Nat /\ stats.gaps + g \in Nat /\ stats.duplicates + d \in Nat
      BY <1>7, <2>1
    <2>3. /\ stats'.chunks = stats.chunks + 1 /\ stats'.gaps = stats.gaps + g
          /\ stats'.duplicates = stats.duplicates + d
      BY <1>8 DEF SomeStats
    <2>4. stats' \in SomeStats
      BY <1>8, <2>2 DEF SomeStats
    <2> QED BY <2>1, <2>3, <2>4
  <1> DEFINE u == IF Unexpected(id, seq) THEN 1 ELSE 0
  <1>10. d + g = u
    BY <1>7
  <1> HIDE DEF u
  <1>11. /\ stats'.gaps \in {stats.gaps, stats.gaps + 1}
         /\ stats'.duplicates \in {stats.duplicates, stats.duplicates + 1}
         /\ stats'.gaps + stats'.duplicates = stats.gaps + stats.duplicates + u
    BY <1>7, <1>9, <1>10
  <1> QED BY <1>1, <1>4, <1>5, <1>6, <1>9, <1>11 DEF u, new

LEMMA TypedNext == RegistryTyped /\ [Next]_registryVars => RegistryTyped'
  <1> SUFFICES ASSUME RegistryTyped, [Next]_registryVars PROVE RegistryTyped'
    OBVIOUS
  <1>1. stats \in SomeStats /\ stats.chunks \in Nat /\ stats.gaps \in Nat /\ stats.duplicates \in Nat
        /\ stats.chunks <= Len(heard) /\ stats.gaps <= Len(heard)
        /\ stats.duplicates <= Len(heard) /\ Len(heard) <= MaxHeard
    BY DEF RegistryTyped, StatsFit, SomeStats
  <1>2. ASSUME NEW c, Adds(c), UNCHANGED stats PROVE heard' \in Seq(Call) /\ StatsFit'
    BY <1>1, <1>2 DEF Adds, StatsFit
  <1>3. CASE Registers
    BY <1>2, <1>3, RegisterEffect DEF Registers, RegistryTyped
  <1>4. CASE Closes
    BY <1>2, <1>4, CloseEffect DEF Closes, RegistryTyped
  <1>5. ASSUME NEW id \in StreamIds, NEW seq \in SeqIds, HandleChunk(id, seq) PROVE RegistryTyped'
    <2>1. heard' \in Seq(Call) /\ Len(heard') = Len(heard) + 1 /\ Len(heard) \in Nat
          /\ Len(heard') <= MaxHeard
      BY <1>5, ChunkEffect DEF Adds
    <2>2. /\ stats' \in SomeStats /\ stats'.chunks = stats.chunks + 1
          /\ stats'.gaps \in {stats.gaps, stats.gaps + 1}
          /\ stats'.duplicates \in {stats.duplicates, stats.duplicates + 1}
      BY <1>5, ChunkEffect
    <2>3. StatsFit'
      BY <1>1, <2>1, <2>2 DEF StatsFit
    <2>4. /\ DOMAIN streams' \subseteq StreamIds
          /\ \A k \in DOMAIN streams' : streams'[k] \in Context
      BY <1>5, ChunkEffect DEF RegistryTyped
    <2> QED BY <2>1, <2>3, <2>4 DEF RegistryTyped
  <1>6. ASSUME NEW id \in StreamIds, HandleUnknown(id) PROVE RegistryTyped'
    <2>1. stats.unknown < MaxUnknown /\ stats' = [stats EXCEPT !.unknown = @ + 1]
          /\ UNCHANGED <<streams, heard>>
      BY <1>6 DEF HandleUnknown
    <2>2. stats.unknown \in 0..MaxUnknown
      BY <1>1 DEF SomeStats
    <2>3. stats.unknown + 1 \in 0..MaxUnknown
      BY <2>1, <2>2, StreamAssumption
    <2>4. stats' \in SomeStats /\ stats'.chunks = stats.chunks /\ stats'.gaps = stats.gaps
          /\ stats'.duplicates = stats.duplicates
      BY <1>1, <2>1, <2>3 DEF SomeStats
    <2> QED BY <1>1, <2>1, <2>4 DEF RegistryTyped, StatsFit
  <1>7. CASE UNCHANGED registryVars
    BY <1>7 DEF registryVars, RegistryTyped, StatsFit
  <1> QED BY <1>3, <1>4, <1>5, <1>6, <1>7, NextIs DEF TakesChunk, TakesUnknown

LEMMA TypedInit == Init => RegistryTyped
  <1> SUFFICES ASSUME Init PROVE RegistryTyped
    OBVIOUS
  <1>1. heard = <<>> /\ Len(heard) = 0 /\ heard \in Seq(Call) /\ DOMAIN streams = {}
    BY DEF Init
  <1>2. stats \in SomeStats /\ stats.chunks = 0 /\ stats.gaps = 0 /\ stats.duplicates = 0
    BY StreamAssumption DEF Init, NoStats, SomeStats
  <1> QED BY <1>1, <1>2, StreamAssumption DEF RegistryTyped, StatsFit

LEMMA TypedOK == RegistryTyped => TypeOK
  <1> SUFFICES ASSUME RegistryTyped
               PROVE  stats \in [chunks : 0..MaxHeard, unknown : 0..MaxUnknown,
                                 gaps : 0..MaxHeard, duplicates : 0..MaxHeard]
    BY DEF RegistryTyped, TypeOK
  <1>1. stats \in SomeStats /\ Len(heard) \in Nat /\ Len(heard) <= MaxHeard
        /\ stats.chunks <= Len(heard) /\ stats.gaps <= Len(heard) /\ stats.duplicates <= Len(heard)
    BY LenProperties DEF RegistryTyped, StatsFit
  <1>2. stats.chunks \in 0..MaxHeard /\ stats.gaps \in 0..MaxHeard /\ stats.duplicates \in 0..MaxHeard
    BY <1>1, StreamAssumption DEF SomeStats
  <1> QED BY <1>1, <1>2 DEF SomeStats

\* The contexts, the totals and the calls to the sink always have their types, no total
\* beyond the calls made (TypeOK of StreamRegistry).
THEOREM RegistryTypes == Spec => []TypeOK
  BY TypedInit, TypedNext, TypedOK, PTL DEF Spec

-----------------------------------------------------------------------------
(* StreamRegistry: the lives the sink sees                                  *)

\* j is the last of the first n calls about a stream id.
LastOf(h, n, id, j) ==
    /\ j \in 1..n /\ h[j].id = id
    /\ \A k \in 1..n : h[k].id = id => k <= j

\* What the registry knows of an open stream is what the last call about it says.
Agrees(context, call) ==
    /\ call.event # "closed" /\ call.kind = context.kind
    /\ context.hasSeq <=> call.event = "chunk"
    /\ context.hasSeq => context.expected = Expected(call.seq)

RegistryFits ==
    /\ \A id \in DOMAIN streams :
          \E j : LastOf(heard, Len(heard), id, j) /\ Agrees(streams[id], heard[j])
    /\ \A id \in StreamIds \ DOMAIN streams :
          \A j : LastOf(heard, Len(heard), id, j) => heard[j].event = "closed"

\* A call fits what the n calls before it leave.
Follows(h, n, c) ==
    /\ c.event = "opened" => \A j : LastOf(h, n, c.id, j) => h[j].event = "closed"
    /\ c.event # "opened" =>
          \E j : LastOf(h, n, c.id, j) /\ h[j].event # "closed" /\ h[j].kind = c.kind

Lives == \A i \in 1..Len(heard) : Follows(heard, i - 1, heard[i])

LEMMA AddsLast ==
    ASSUME NEW c, Adds(c)
    PROVE  /\ \A n \in 0..Len(heard) : \A id, j : LastOf(heard', n, id, j) <=> LastOf(heard, n, id, j)
           /\ \A j : LastOf(heard', Len(heard'), c.id, j) <=> j = Len(heard) + 1
           /\ \A id : id # c.id =>
                 \A j : LastOf(heard', Len(heard'), id, j) <=> LastOf(heard, Len(heard), id, j)
  <1>1. /\ Len(heard) \in Nat /\ Len(heard') = Len(heard) + 1 /\ heard'[Len(heard) + 1] = c
        /\ \A i \in 1..Len(heard) : heard'[i] = heard[i]
    BY DEF Adds
  <1>2. 1..Len(heard') = (1..Len(heard)) \cup {Len(heard) + 1}
    BY <1>1
  <1>3. \A n \in 0..Len(heard) : \A id, j : LastOf(heard', n, id, j) <=> LastOf(heard, n, id, j)
    <2> SUFFICES ASSUME NEW n \in 0..Len(heard), NEW id, NEW j
                 PROVE  LastOf(heard', n, id, j) <=> LastOf(heard, n, id, j)
      OBVIOUS
    <2>1. \A k \in 1..n : heard'[k] = heard[k]
      BY <1>1
    <2> QED BY <2>1 DEF LastOf
  <1>4. \A j : LastOf(heard', Len(heard'), c.id, j) <=> j = Len(heard) + 1
    BY <1>1, <1>2 DEF LastOf
  <1>5. ASSUME NEW id, id # c.id, NEW j
        PROVE  LastOf(heard', Len(heard'), id, j) <=> LastOf(heard, Len(heard), id, j)
    BY <1>1, <1>2, <1>5 DEF LastOf
  <1> QED BY <1>3, <1>4, <1>5

LEMMA AddsLives ==
    ASSUME NEW c, Adds(c), Lives, Follows(heard, Len(heard), c)
    PROVE  Lives'
  <1>1. /\ Len(heard) \in Nat /\ Len(heard') = Len(heard) + 1 /\ heard'[Len(heard) + 1] = c
        /\ \A i \in 1..Len(heard) : heard'[i] = heard[i]
    BY DEF Adds
  <1>2. ASSUME NEW n \in 0..Len(heard), NEW d, Follows(heard, n, d) PROVE Follows(heard', n, d)
    <2>1. \A id, j : LastOf(heard', n, id, j) <=> LastOf(heard, n, id, j)
      BY AddsLast
    <2>2. \A id, j : LastOf(heard, n, id, j) => heard'[j] = heard[j]
      BY <1>1 DEF LastOf
    <2> QED BY <1>2, <2>1, <2>2 DEF Follows
  <1>3. ASSUME NEW i \in 1..Len(heard) PROVE Follows(heard', i - 1, heard'[i])
    <2>1. i - 1 \in 0..Len(heard) /\ heard'[i] = heard[i] /\ Follows(heard, i - 1, heard[i])
      BY <1>1 DEF Lives
    <2> QED BY <1>2, <2>1
  <1>4. Follows(heard', (Len(heard) + 1) - 1, c)
    <2>1. Len(heard) \in 0..Len(heard) /\ (Len(heard) + 1) - 1 = Len(heard)
      BY <1>1
    <2> QED BY <1>2, <2>1
  <1>5. ASSUME NEW i \in 1..Len(heard') PROVE Follows(heard', i - 1, heard'[i])
    <2>1. i \in 1..Len(heard) \/ i = Len(heard) + 1
      BY <1>1
    <2> QED BY <1>1, <1>3, <1>4, <2>1
  <1> QED BY <1>5 DEF Lives

\* The other streams still agree with the registry; the one of the call has to be shown.
LEMMA AddsFits ==
    ASSUME NEW c, Adds(c), RegistryFits,
           DOMAIN streams' \ {c.id} = DOMAIN streams \ {c.id},
           \A k \in DOMAIN streams \ {c.id} : streams'[k] = streams[k],
           IF c.id \in DOMAIN streams' THEN Agrees(streams'[c.id], c) ELSE c.event = "closed"
    PROVE  RegistryFits'
  <1>1. /\ Len(heard) \in Nat /\ Len(heard') = Len(heard) + 1 /\ heard'[Len(heard) + 1] = c
        /\ \A i \in 1..Len(heard) : heard'[i] = heard[i]
    BY DEF Adds
  <1>2. /\ \A j : LastOf(heard', Len(heard'), c.id, j) <=> j = Len(heard) + 1
        /\ \A id : id # c.id =>
              \A j : LastOf(heard', Len(heard'), id, j) <=> LastOf(heard, Len(heard), id, j)
    BY AddsLast
  <1>3. \A id, j : LastOf(heard, Len(heard), id, j) => heard'[j] = heard[j]
    BY <1>1 DEF LastOf
  <1>4. ASSUME NEW id \in DOMAIN streams'
        PROVE  \E j : LastOf(heard', Len(heard'), id, j) /\ Agrees(streams'[id], heard'[j])
    <2>1. CASE id = c.id
      BY <1>1, <1>2, <1>4, <2>1
    <2>2. CASE id # c.id
      <3>1. id \in DOMAIN streams /\ streams'[id] = streams[id]
        BY <2>2
      <3>2. PICK j : LastOf(heard, Len(heard), id, j) /\ Agrees(streams[id], heard[j])
        BY <3>1 DEF RegistryFits
      <3> QED BY <1>2, <1>3, <2>2, <3>1, <3>2
    <2> QED BY <2>1, <2>2
  <1>5. ASSUME NEW id \in StreamIds \ DOMAIN streams', NEW j, LastOf(heard', Len(heard'), id, j)
        PROVE  heard'[j].event = "closed"
    <2>1. CASE id = c.id
      BY <1>1, <1>2, <1>5, <2>1
    <2>2. CASE id # c.id
      <3>1. id \in StreamIds \ DOMAIN streams /\ LastOf(heard, Len(heard), id, j)
        BY <1>2, <1>5, <2>2
      <3> QED BY <1>3, <3>1 DEF RegistryFits
    <2> QED BY <2>1, <2>2
  <1> QED BY <1>4, <1>5 DEF RegistryFits

LivesInv == RegistryTyped /\ RegistryFits /\ Lives

LEMMA LivesNext == LivesInv /\ [Next]_registryVars => LivesInv'
  <1> SUFFICES ASSUME LivesInv, [Next]_registryVars PROVE RegistryFits' /\ Lives'
    BY TypedNext DEF LivesInv
  <1>1. RegistryTyped /\ RegistryFits /\ Lives
    BY DEF LivesInv
  <1>2. ASSUME NEW id \in StreamIds, NEW kind \in Kinds, NEW source \in Sources, NEW reject \in BOOLEAN,
               RegisterStream(id, kind, source, reject)
        PROVE  RegistryFits' /\ Lives'
    <2> DEFINE c == [event |-> "opened", id |-> id, kind |-> kind, seq |-> 0]
    <2>1. /\ id \notin DOMAIN streams /\ DOMAIN streams' = DOMAIN streams \cup {id}
          /\ streams'[id] = NewContext(kind, source) /\ Adds(c)
          /\ \A k \in DOMAIN streams : streams'[k] = streams[k]
      BY <1>1, <1>2, RegisterEffect
    <2>2. c.id = id /\ c.event = "opened" /\ Agrees(streams'[id], c)
      BY <2>1 DEF Agrees, NewContext
    <2> HIDE DEF c
    <2>3. Follows(heard, Len(heard), c)
      BY <1>1, <2>1, <2>2 DEF Follows, RegistryFits
    <2> QED BY <1>1, <2>1, <2>2, <2>3, AddsFits, AddsLives
  <1>3. ASSUME NEW id \in StreamIds, CloseStream(id)
        PROVE  RegistryFits' /\ Lives'
    <2> DEFINE c == [event |-> "closed", id |-> id, kind |-> streams[id].kind, seq |-> 0]
    <2>1. /\ id \in DOMAIN streams /\ DOMAIN streams' = DOMAIN streams \ {id} /\ Adds(c)
          /\ \A k \in DOMAIN streams' : streams'[k] = streams[k]
      BY <1>1, <1>3, CloseEffect
    <2>2. c.id = id /\ c.event = "closed" /\ c.kind = streams[id].kind
      OBVIOUS
    <2> HIDE DEF c
    <2>3. Follows(heard, Len(heard), c)
      BY <1>1, <2>1, <2>2 DEF Follows, RegistryFits, Agrees
    <2>4. DOMAIN streams' \ {c.id} = DOMAIN streams \ {c.id} /\ c.id \notin DOMAIN streams'
          /\ \A k \in DOMAIN streams \ {c.id} : streams'[k] = streams[k]
      BY <2>1, <2>2
    <2> QED BY <1>1, <2>1, <2>2, <2>3, <2>4, AddsFits, AddsLives
  <1>4. ASSUME NEW id \in StreamIds, NEW seq \in SeqIds, HandleChunk(id, seq)
        PROVE  RegistryFits' /\ Lives'
    <2> DEFINE c == [event |-> "chunk", id |-> id, kind |-> streams[id].kind, seq |-> seq]
    <2>1. /\ id \in DOMAIN streams /\ DOMAIN streams' = DOMAIN streams /\ Adds(c)
          /\ \A k \in DOMAIN streams : k # id => streams'[k] = streams[k]
          /\ streams'[id] = [streams[id] EXCEPT !.hasSeq = TRUE, !.expected = Expected(seq)]
          /\ streams[id] \in Context
      BY <1>1, <1>4, ChunkEffect DEF RegistryTyped
    <2>2. /\ c.id = id /\ c.event = "chunk" /\ c.kind = streams[id].kind /\ c.seq = seq
      OBVIOUS
    <2>3. /\ streams'[id].hasSeq = TRUE /\ streams'[id].expected = Expected(seq)
          /\ streams'[id].kind = streams[id].kind
      BY <2>1 DEF Context
    <2> HIDE DEF c
    <2>4. Agrees(streams'[id], c)
      BY <2>2, <2>3 DEF Agrees
    <2>5. Follows(heard, Len(heard), c)
      BY <1>1, <2>1, <2>2 DEF Follows, RegistryFits, Agrees
    <2> QED BY <1>1, <2>1, <2>2, <2>4, <2>5, AddsFits, AddsLives
  <1>5. CASE TakesUnknown \/ UNCHANGED registryVars
    <2>1. UNCHANGED <<streams, heard>>
      BY <1>5 DEF TakesUnknown, HandleUnknown, registryVars
    <2> QED BY <1>1, <2>1 DEF RegistryFits, Lives
  <1> QED BY <1>2, <1>3, <1>4, <1>5, NextIs DEF Registers, Closes, TakesChunk

LEMMA LivesInit == Init => LivesInv
  <1> SUFFICES ASSUME Init PROVE RegistryFits /\ Lives
    BY TypedInit DEF LivesInv
  <1>1. Len(heard) = 0 /\ 1..Len(heard) = {} /\ DOMAIN streams = {}
    BY DEF Init
  <1> QED BY <1>1 DEF RegistryFits, Lives, LastOf

LEMMA LastIs ==
    ASSUME RegistryTyped
    PROVE  /\ \A i \in 1..Len(heard) : \A j :
                 IsLast(j, Before(i)) <=> LastOf(heard, i - 1, heard[i].id, j)
           /\ \A id, j : IsLast(j, {k \in 1..Len(heard) : heard[k].id = id})
                            <=> LastOf(heard, Len(heard), id, j)
  BY DEF IsLast, Before, LastOf

LEMMA LivesSeen == LivesInv => SinkSeesLives
  <1> SUFFICES ASSUME LivesInv PROVE SinkSeesLives
    OBVIOUS
  <1>1. RegistryTyped /\ RegistryFits /\ Lives
    BY DEF LivesInv
  <1>2. ASSUME NEW i \in 1..Len(heard)
        PROVE  IF heard[i].event = "opened"
               THEN \A j \in Before(i) : IsLast(j, Before(i)) => heard[j].event = "closed"
               ELSE \E j \in Before(i) : /\ IsLast(j, Before(i))
                                         /\ heard[j].event # "closed"
                                         /\ heard[j].kind = heard[i].kind
    <2>1. \A j : IsLast(j, Before(i)) <=> LastOf(heard, i - 1, heard[i].id, j)
      BY <1>1, LastIs
    <2>2. \A j : IsLast(j, Before(i)) => j \in Before(i)
      BY DEF IsLast
    <2>3. Follows(heard, i - 1, heard[i])
      BY <1>1 DEF Lives
    <2> QED BY <2>1, <2>2, <2>3 DEF Follows
  <1>3. ASSUME NEW id \in StreamIds
        PROVE  id \in DOMAIN streams
                  <=> \E j \in {k \in 1..Len(heard) : heard[k].id = id} :
                         /\ IsLast(j, {k \in 1..Len(heard) : heard[k].id = id})
                         /\ heard[j].event # "closed"
    <2> DEFINE about == {k \in 1..Len(heard) : heard[k].id = id}
    <2>1. \A j : IsLast(j, about) <=> LastOf(heard, Len(heard), id, j)
      BY <1>1, LastIs
    <2>2. \A j : IsLast(j, about) => j \in about
      BY DEF IsLast
    <2> HIDE DEF about
    <2>3. id \in DOMAIN streams <=> \E j \in about : IsLast(j, about) /\ heard[j].event # "closed"
      BY <1>1, <2>1, <2>2 DEF RegistryFits, Agrees
    <2> QED BY <2>3 DEF about
  <1> QED BY <1>2, <1>3 DEF SinkSeesLives

\* Whatever is registered, closed and handled, and whether the sink raises or not, it hears
\* of each stream id one life after the other, and the registry holds those that have not
\* ended (SinkSeesLives).
THEOREM LivesAreSeen == Spec => []SinkSeesLives
  BY LivesInit, LivesNext, LivesSeen, PTL DEF Spec

-----------------------------------------------------------------------------
(* StreamRegistry: the anomalies                                            *)

LEMMA ModTwice ==
    ASSUME NEW x \in 0..(2 * SeqMod - 1)
    PROVE  x % SeqMod = IF x < SeqMod THEN x ELSE x - SeqMod
  <1>1. SeqMod \in Nat \ {0}
    BY StreamAssumption
  <1>2. x % SeqMod \in 0..(SeqMod - 1) /\ x = SeqMod * (x \div SeqMod) + (x % SeqMod)
        /\ x \div SeqMod \in Int
    BY <1>1
  <1> DEFINE q == x \div SeqMod
             r == x % SeqMod
  <1>3. q \in Int /\ r \in 0..(SeqMod - 1) /\ x = SeqMod * q + r
    BY <1>2
  <1> HIDE DEF q, r
  <1>4. q < 2
    <2> SUFFICES ASSUME q >= 2 PROVE FALSE
      BY <1>3
    <2>1. SeqMod * q >= SeqMod * 2
      BY <1>1, <1>3
    <2> QED BY <1>1, <1>3, <2>1
  <1>5. q > -1
    <2> SUFFICES ASSUME q <= -1 PROVE FALSE
      BY <1>3
    <2>1. SeqMod * q <= SeqMod * (-1)
      BY <1>1, <1>3
    <2> QED BY <1>1, <1>3, <2>1
  <1>6. q = 0 \/ q = 1
    BY <1>3, <1>4, <1>5
  <1>7. r = IF x < SeqMod THEN x ELSE x - SeqMod
    BY <1>1, <1>3, <1>6
  <1> QED BY <1>7 DEF r

\* A sequence id is not the expected one just if it is some other distance ahead.
LEMMA AheadOfExpected ==
    ASSUME NEW a \in 0..(SeqMod - 1), NEW b \in 0..(SeqMod - 1)
    PROVE  (\E r \in (0..(SeqMod - 1)) \ {1 % SeqMod} : b = (a + r) % SeqMod)
              <=> b # Expected(a)
  <1>1. SeqMod \in Nat \ {0}
    BY StreamAssumption
  <1>2. \A r \in 0..(SeqMod - 1) :
           (a + r) % SeqMod = IF a + r < SeqMod THEN a + r ELSE (a + r) - SeqMod
    <2> SUFFICES ASSUME NEW r \in 0..(SeqMod - 1)
                 PROVE  (a + r) % SeqMod = IF a + r < SeqMod THEN a + r ELSE (a + r) - SeqMod
      OBVIOUS
    <2> DEFINE x == a + r
    <2>1. x \in 0..(2 * SeqMod - 1)
      BY <1>1
    <2> HIDE DEF x
    <2>2. x % SeqMod = IF x < SeqMod THEN x ELSE x - SeqMod
      BY <2>1, ModTwice
    <2> QED BY <2>2, Zenon DEF x
  <1> DEFINE one == 1 % SeqMod
  <1>3. one = (IF SeqMod = 1 THEN 0 ELSE 1)
    <2>1. 1 \in 0..(2 * SeqMod - 1)
      BY <1>1
    <2>2. 1 % SeqMod = IF 1 < SeqMod THEN 1 ELSE 1 - SeqMod
      BY <2>1, ModTwice
    <2> QED BY <1>1, <2>2
  <1>4. Expected(a) = IF a + 1 < SeqMod THEN a + 1 ELSE (a + 1) - SeqMod
    <2> DEFINE x == a + 1
    <2>1. x \in 0..(2 * SeqMod - 1)
      BY <1>1
    <2> HIDE DEF x
    <2>2. x % SeqMod = IF x < SeqMod THEN x ELSE x - SeqMod
      BY <2>1, ModTwice
    <2> QED BY <2>2, Zenon DEF x, Expected
  <1> HIDE DEF one
  <1>5. ASSUME NEW r \in (0..(SeqMod - 1)) \ {one}, b = (a + r) % SeqMod
        PROVE  b # Expected(a)
    <2>1. b = IF a + r < SeqMod THEN a + r ELSE (a + r) - SeqMod
      BY <1>2, <1>5
    <2> QED BY <1>1, <1>3, <1>4, <1>5, <2>1
  <1>6. ASSUME b # Expected(a)
        PROVE  \E r \in (0..(SeqMod - 1)) \ {one} : b = (a + r) % SeqMod
    <2> DEFINE r == IF b >= a THEN b - a ELSE b - a + SeqMod
    <2>1. r \in 0..(SeqMod - 1) /\ b = IF a + r < SeqMod THEN a + r ELSE (a + r) - SeqMod
      BY <1>1
    <2>2. r # one
      BY <1>1, <1>3, <1>4, <1>6
    <2> HIDE DEF r
    <2> QED BY <1>2, <2>1, <2>2
  <1> QED BY <1>5, <1>6 DEF one

ChunkCalls == {i \in 1..Len(heard) : heard[i].event = "chunk"}

\* A chunk that came right after another of its life and was not the expected one.
Anomalous(h, n, c) ==
    /\ c.event = "chunk"
    /\ \E j : LastOf(h, n, c.id, j) /\ h[j].event = "chunk" /\ c.seq # Expected(h[j].seq)
Anomalies == {i \in 1..Len(heard) : Anomalous(heard, i - 1, heard[i])}

LEMMA AnomaliesAre ==
    ASSUME RegistryTyped
    PROVE  Anomalies = UNION {ChunksAhead(r) : r \in (0..(SeqMod - 1)) \ {1 % SeqMod}}
  <1> DEFINE Rs == (0..(SeqMod - 1)) \ {1 % SeqMod}
  <1>1. \A i \in 1..Len(heard) : heard[i] \in Call
    BY ElementOfSeq DEF RegistryTyped
  <1>2. \A i \in 1..Len(heard) : heard[i].seq \in 0..(SeqMod - 1)
    BY <1>1 DEF Call
  <1>3. ASSUME NEW i \in 1..Len(heard)
        PROVE  Anomalous(heard, i - 1, heard[i]) <=> \E r \in Rs : i \in ChunksAhead(r)
    <2>1. \A j : IsLast(j, Before(i)) <=> LastOf(heard, i - 1, heard[i].id, j)
      BY LastIs
    <2>2. \A j : IsLast(j, Before(i)) => j \in Before(i) /\ j \in 1..Len(heard)
      <3>1. Len(heard) \in Nat
        BY LenProperties DEF RegistryTyped
      <3>2. 1..(i - 1) \subseteq 1..Len(heard)
        BY <3>1
      <3> QED BY <3>2 DEF IsLast, Before
    <2>3. \A j \in 1..Len(heard) :
             (\E r \in Rs : heard[i].seq = (heard[j].seq + r) % SeqMod)
                <=> heard[i].seq # Expected(heard[j].seq)
      BY <1>2, AheadOfExpected
    <2> HIDE DEF Rs
    <2>4. (\E r \in Rs : i \in ChunksAhead(r))
             <=> /\ heard[i].event = "chunk"
                 /\ \E j \in Before(i) : /\ IsLast(j, Before(i)) /\ heard[j].event = "chunk"
                                         /\ \E r \in Rs : heard[i].seq = (heard[j].seq + r) % SeqMod
      BY DEF ChunksAhead
    <2>5. (\E r \in Rs : i \in ChunksAhead(r))
             <=> /\ heard[i].event = "chunk"
                 /\ \E j \in Before(i) : /\ IsLast(j, Before(i)) /\ heard[j].event = "chunk"
                                         /\ heard[i].seq # Expected(heard[j].seq)
      BY <2>2, <2>3, <2>4
    <2> QED BY <2>1, <2>2, <2>5 DEF Anomalous
  <1> HIDE DEF Rs
  <1>4. \A r \in Rs : ChunksAhead(r) \subseteq 1..Len(heard)
    BY DEF ChunksAhead
  <1>5. Anomalies = UNION {ChunksAhead(r) : r \in Rs}
    BY <1>3, <1>4 DEF Anomalies
  <1> QED BY <1>5 DEF Rs

LEMMA CountOne ==
    ASSUME NEW n \in Nat, NEW A \in SUBSET (1..n)
    PROVE  /\ IsFiniteSet(A) /\ Cardinality(A) \in Nat /\ Cardinality(A) <= n
           /\ Cardinality(A \cup {n + 1}) = Cardinality(A) + 1
  <1>1. IsFiniteSet(1..n) /\ Cardinality(1..n) = n
    BY FS_Interval
  <1>2. IsFiniteSet(A) /\ Cardinality(A) <= n /\ Cardinality(A) \in Nat
    BY <1>1, FS_Subset, FS_CardinalityType
  <1>3. n + 1 \notin A
    OBVIOUS
  <1> QED BY <1>2, <1>3, FS_AddElement

\* What a call adds to the two sets.
LEMMA AddsCounts ==
    ASSUME NEW c, Adds(c)
    PROVE  /\ ChunkCalls' = IF c.event = "chunk" THEN ChunkCalls \cup {Len(heard) + 1} ELSE ChunkCalls
           /\ Anomalies' = IF Anomalous(heard, Len(heard), c) THEN Anomalies \cup {Len(heard) + 1}
                                                              ELSE Anomalies
  <1>1. /\ Len(heard) \in Nat /\ Len(heard') = Len(heard) + 1 /\ heard'[Len(heard) + 1] = c
        /\ \A i \in 1..Len(heard) : heard'[i] = heard[i]
    BY DEF Adds
  <1>2. 1..Len(heard') = (1..Len(heard)) \cup {Len(heard) + 1}
    BY <1>1
  <1>3. ChunkCalls' = IF c.event = "chunk" THEN ChunkCalls \cup {Len(heard) + 1} ELSE ChunkCalls
    BY <1>1, <1>2 DEF ChunkCalls
  <1>4. ASSUME NEW n \in 0..Len(heard), NEW d
        PROVE  Anomalous(heard', n, d) <=> Anomalous(heard, n, d)
    <2>1. \A id, j : LastOf(heard', n, id, j) <=> LastOf(heard, n, id, j)
      BY AddsLast
    <2>2. \A id, j : LastOf(heard, n, id, j) => heard'[j] = heard[j]
      BY <1>1 DEF LastOf
    <2> QED BY <2>1, <2>2 DEF Anomalous
  <1>5. \A i \in 1..Len(heard) : Anomalous(heard', i - 1, heard'[i]) <=> Anomalous(heard, i - 1, heard[i])
    <2> SUFFICES ASSUME NEW i \in 1..Len(heard)
                 PROVE  Anomalous(heard', i - 1, heard'[i]) <=> Anomalous(heard, i - 1, heard[i])
      OBVIOUS
    <2>1. i - 1 \in 0..Len(heard) /\ heard'[i] = heard[i]
      BY <1>1
    <2> QED BY <1>4, <2>1
  <1>6. Anomalous(heard', (Len(heard) + 1) - 1, heard'[Len(heard) + 1])
           <=> Anomalous(heard, Len(heard), c)
    <2>1. Len(heard) \in 0..Len(heard) /\ (Len(heard) + 1) - 1 = Len(heard)
      BY <1>1
    <2> QED BY <1>1, <1>4, <2>1
  <1>7. Anomalies' = IF Anomalous(heard, Len(heard), c) THEN Anomalies \cup {Len(heard) + 1}
                                                        ELSE Anomalies
    BY <1>2, <1>5, <1>6 DEF Anomalies
  <1> QED BY <1>3, <1>7

Counted ==
    /\ stats.chunks = Cardinality(ChunkCalls)
    /\ stats.gaps + stats.duplicates = Cardinality(Anomalies)

LEMMA CountedNext == LivesInv /\ Counted /\ [Next]_registryVars => Counted'
  <1> SUFFICES ASSUME LivesInv, Counted, [Next]_registryVars PROVE Counted'
    OBVIOUS
  <1>1. RegistryTyped /\ RegistryFits /\ stats \in SomeStats /\ Len(heard) \in Nat
    BY LenProperties DEF LivesInv, RegistryTyped, StatsFit
  <1>2. ChunkCalls \subseteq 1..Len(heard) /\ Anomalies \subseteq 1..Len(heard)
    BY DEF ChunkCalls, Anomalies
  <1>3. ASSUME NEW c, Adds(c), c.event # "chunk", UNCHANGED stats PROVE Counted'
    <2>1. ~ Anomalous(heard, Len(heard), c)
      BY <1>3 DEF Anomalous
    <2>2. ChunkCalls' = ChunkCalls /\ Anomalies' = Anomalies
      BY <1>3, <2>1, AddsCounts
    <2> QED BY <1>3, <2>2 DEF Counted
  <1>4. CASE Registers
    BY <1>1, <1>3, <1>4, RegisterEffect DEF Registers
  <1>5. CASE Closes
    BY <1>1, <1>3, <1>5, CloseEffect DEF Closes
  <1>6. ASSUME NEW id \in StreamIds, NEW seq \in SeqIds, HandleChunk(id, seq) PROVE Counted'
    <2> DEFINE c == [event |-> "chunk", id |-> id, kind |-> streams[id].kind, seq |-> seq]
    <2>1. /\ id \in DOMAIN streams /\ Adds(c) /\ stats'.chunks = stats.chunks + 1
          /\ stats'.gaps + stats'.duplicates
                = stats.gaps + stats.duplicates + (IF Unexpected(id, seq) THEN 1 ELSE 0)
      BY <1>1, <1>6, ChunkEffect
    <2>2. c.event = "chunk" /\ c.id = id /\ c.seq = seq
      OBVIOUS
    <2> HIDE DEF c
    <2>3. Anomalous(heard, Len(heard), c) <=> Unexpected(id, seq)
      <3>1. PICK j : LastOf(heard, Len(heard), id, j) /\ Agrees(streams[id], heard[j])
        BY <1>1, <2>1 DEF RegistryFits
      <3>2. \A k : LastOf(heard, Len(heard), id, k) => k = j
        BY <1>1, <3>1 DEF LastOf
      <3>3. Anomalous(heard, Len(heard), c)
               <=> heard[j].event = "chunk" /\ seq # Expected(heard[j].seq)
        BY <2>2, <3>1, <3>2 DEF Anomalous
      <3> QED BY <3>1, <3>3 DEF Agrees, Unexpected
    <2>4. ChunkCalls' = ChunkCalls \cup {Len(heard) + 1}
          /\ Anomalies' = IF Unexpected(id, seq) THEN Anomalies \cup {Len(heard) + 1} ELSE Anomalies
      BY <2>1, <2>2, <2>3, AddsCounts
    <2>5. Cardinality(ChunkCalls') = Cardinality(ChunkCalls) + 1
      BY <1>1, <1>2, <2>4, CountOne
    <2>6. Cardinality(Anomalies \cup {Len(heard) + 1}) = Cardinality(Anomalies) + 1
          /\ Cardinality(Anomalies) \in Nat
      BY <1>1, <1>2, CountOne
    <2>7. CASE Unexpected(id, seq)
      BY <2>1, <2>4, <2>5, <2>6, <2>7 DEF Counted
    <2>8. CASE ~ Unexpected(id, seq)
      BY <2>1, <2>4, <2>5, <2>6, <2>8 DEF Counted
    <2> QED BY <2>7, <2>8
  <1>7. CASE TakesUnknown \/ UNCHANGED registryVars
    <2>1. UNCHANGED heard /\ stats'.chunks = stats.chunks /\ stats'.gaps = stats.gaps
          /\ stats'.duplicates = stats.duplicates
      BY <1>1, <1>7 DEF TakesUnknown, HandleUnknown, registryVars, SomeStats
    <2>2. ChunkCalls' = ChunkCalls /\ Anomalies' = Anomalies
      BY <2>1 DEF ChunkCalls, Anomalies
    <2> QED BY <2>1, <2>2 DEF Counted
  <1> QED BY <1>4, <1>5, <1>6, <1>7, NextIs DEF TakesChunk

LEMMA CountedInit == Init => Counted
  <1> SUFFICES ASSUME Init PROVE Counted
    OBVIOUS
  <1>1. 1..Len(heard) = {} /\ stats.chunks = 0 /\ stats.gaps = 0 /\ stats.duplicates = 0
    BY DEF Init, NoStats
  <1>2. ChunkCalls = {} /\ Anomalies = {}
    BY <1>1 DEF ChunkCalls, Anomalies
  <1> QED BY <1>1, <1>2, FS_EmptySet DEF Counted

\* For any range of sequence ids, every chunk is counted once, and those that are not the
\* expected ones once more, as a gap or a duplicate (AnomaliesCounted).
THEOREM AnomaliesAreCounted == Spec => []AnomaliesCounted
  <1>1. Init => LivesInv /\ Counted
    BY LivesInit, CountedInit
  <1>2. (LivesInv /\ Counted) /\ [Next]_registryVars => (LivesInv /\ Counted)'
    BY LivesNext, CountedNext
  <1>3. LivesInv /\ Counted => AnomaliesCounted
    BY AnomaliesAre DEF LivesInv, Counted, AnomaliesCounted, ChunkCalls
  <1> QED BY <1>1, <1>2, <1>3, PTL DEF Spec

-----------------------------------------------------------------------------
(* MediaStreams: its steps are steps of the registry it owns                *)

MediaTyped ==
    /\ RegistryTyped
    /\ nextId \in [Kinds -> StreamIds]
    /\ chunks \in [Kinds -> Nat]
    /\ told \in Seq(StreamIds)

LEMMA KindsAre ==
    /\ Kinds = {"video", "audio"} /\ "video" \in Kinds /\ "audio" \in Kinds
    /\ StreamIds = 1..MaxStreamId /\ MaxStreamId \in Nat
    /\ FirstVideo \in StreamIds /\ FirstAudio \in StreamIds /\ FirstVideo < FirstAudio
  BY MediaAssumption

LEMMA MediaRegistry == MediaTyped /\ [MediaNext]_vars => [Next]_registryVars
  <1> SUFFICES ASSUME MediaTyped, [MediaNext]_vars PROVE [Next]_registryVars
    OBVIOUS
  <1>1. ASSUME NEW kind \in Kinds, NEW source \in Sources, AcceptProducerOpen(kind, source)
        PROVE  [Next]_registryVars
    <2>1. nextId[kind] \in StreamIds
      BY DEF MediaTyped
    <2>2. RegisterStream(nextId[kind], kind, source, TRUE) \/ UNCHANGED registryVars
      BY <1>1 DEF AcceptProducerOpen
    <2> QED BY <2>1, <2>2 DEF Next
  <1>2. ASSUME NEW kind \in Kinds, NEW id \in StreamIds, NEW source \in Sources,
               RegisterPulledOpen(kind, id, source)
        PROVE  Next
    BY <1>2 DEF RegisterPulledOpen, Next
  <1>3. ASSUME NEW kind \in Kinds, NEW id \in StreamIds, CloseMedia(kind, id)
        PROVE  Next
    BY <1>3 DEF CloseMedia, Next
  <1>4. ASSUME NEW id \in StreamIds, NEW seq \in SeqIds, HandleMediaStream(id, seq)
        PROVE  Next
    BY <1>4 DEF HandleMediaStream, Next
  <1>5. CASE UNCHANGED vars
    BY <1>5 DEF vars
  <1> QED BY <1>1, <1>2, <1>3, <1>4, <1>5 DEF MediaNext

\* What a step does to the rest.
Opens(kind) ==
    /\ nextId[kind] < MaxStreamId
    /\ nextId' = [nextId EXCEPT ![kind] = @ + 1]
    /\ told' = Append(told, nextId[kind]) \/ UNCHANGED told
    /\ UNCHANGED chunks
Counts(id, seq) ==
    /\ HandleChunk(id, seq)
    /\ chunks' = [chunks EXCEPT ![streams[id].kind] = @ + 1]
    /\ UNCHANGED <<nextId, told>>

LEMMA MediaStep ==
    [MediaNext]_vars =>
        \/ \E kind \in Kinds : Opens(kind)
        \/ \E id \in StreamIds, seq \in SeqIds : Counts(id, seq)
        \/ UNCHANGED <<nextId, chunks, told>>
  <1> SUFFICES ASSUME [MediaNext]_vars
               PROVE  \/ \E kind \in Kinds : Opens(kind)
                      \/ \E id \in StreamIds, seq \in SeqIds : Counts(id, seq)
                      \/ UNCHANGED <<nextId, chunks, told>>
    OBVIOUS
  <1>1. ASSUME NEW kind \in Kinds, NEW source \in Sources, AcceptProducerOpen(kind, source)
        PROVE  Opens(kind)
    BY <1>1 DEF AcceptProducerOpen, Allocated, Opens
  <1>2. ASSUME NEW id \in StreamIds, NEW seq \in SeqIds, HandleMediaStream(id, seq)
        PROVE  Counts(id, seq) \/ UNCHANGED <<nextId, chunks, told>>
    BY <1>2 DEF HandleMediaStream, CountChunk, Counts
  <1> QED BY <1>1, <1>2 DEF MediaNext, RegisterPulledOpen, CloseMedia, vars

LEMMA MediaTypedNext == MediaTyped /\ [MediaNext]_vars => MediaTyped'
  <1> SUFFICES ASSUME MediaTyped, [MediaNext]_vars PROVE MediaTyped'
    OBVIOUS
  <1>1. RegistryTyped /\ RegistryTyped'
    BY MediaRegistry, TypedNext DEF MediaTyped
  <1>2. nextId \in [Kinds -> StreamIds] /\ chunks \in [Kinds -> Nat] /\ told \in Seq(StreamIds)
    BY DEF MediaTyped
  <1>3. ASSUME NEW kind \in Kinds, Opens(kind)
        PROVE  nextId' \in [Kinds -> StreamIds] /\ chunks' \in [Kinds -> Nat] /\ told' \in Seq(StreamIds)
    <2>1. nextId[kind] \in StreamIds /\ nextId[kind] + 1 \in StreamIds
      BY <1>2, <1>3, KindsAre DEF Opens
    <2>2. nextId' \in [Kinds -> StreamIds]
      BY <1>2, <1>3, <2>1 DEF Opens
    <2>3. told' \in Seq(StreamIds)
      <3>1. Append(told, nextId[kind]) \in Seq(StreamIds)
        BY <1>2, <2>1, AppendProperties
      <3> QED BY <1>2, <1>3, <3>1 DEF Opens
    <2> QED BY <1>2, <1>3, <2>2, <2>3 DEF Opens
  <1>4. ASSUME NEW id \in StreamIds, NEW seq \in SeqIds, Counts(id, seq)
        PROVE  nextId' \in [Kinds -> StreamIds] /\ chunks' \in [Kinds -> Nat] /\ told' \in Seq(StreamIds)
    <2>1. id \in DOMAIN streams /\ streams[id].kind \in Kinds
      BY <1>1, <1>4 DEF Counts, HandleChunk, RegistryTyped, Context
    <2> DEFINE k == streams[id].kind
    <2>2. chunks[k] + 1 \in Nat /\ chunks' = [chunks EXCEPT ![k] = chunks[k] + 1]
      BY <1>2, <1>4, <2>1 DEF Counts
    <2> HIDE DEF k
    <2>3. chunks' \in [Kinds -> Nat]
      BY <1>2, <2>2
    <2> QED BY <1>2, <1>4, <2>3 DEF Counts
  <1>5. nextId' \in [Kinds -> StreamIds] /\ chunks' \in [Kinds -> Nat] /\ told' \in Seq(StreamIds)
    BY <1>2, <1>3, <1>4, MediaStep
  <1> QED BY <1>1, <1>5 DEF MediaTyped

LEMMA MediaTypedInit == MediaInit => MediaTyped
  BY TypedInit, KindsAre DEF MediaInit, MediaTyped

\* Everything proved of the registry holds of the one MediaStreams owns: registering over
\* it, it does nothing StreamRegistry does not (media_profile.py:75, stream.py:75-118).
THEOREM OwnsRegistry == MediaSpec => Spec
  <1>1. MediaInit => Init
    BY DEF MediaInit
  <1> QED BY <1>1, MediaTypedInit, MediaTypedNext, MediaRegistry, PTL DEF MediaSpec, Spec

-----------------------------------------------------------------------------
(* MediaStreams: chunks by kind                                             *)

KindCalls(kind) == {i \in 1..Len(heard) : heard[i].event = "chunk" /\ heard[i].kind = kind}
ByKind == \A kind \in Kinds : chunks[kind] = Cardinality(KindCalls(kind))

LEMMA AddsKind ==
    ASSUME NEW c, Adds(c), NEW kind
    PROVE  KindCalls(kind)' = IF c.event = "chunk" /\ c.kind = kind
                              THEN KindCalls(kind) \cup {Len(heard) + 1} ELSE KindCalls(kind)
  <1>1. /\ Len(heard) \in Nat /\ Len(heard') = Len(heard) + 1 /\ heard'[Len(heard) + 1] = c
        /\ \A i \in 1..Len(heard) : heard'[i] = heard[i]
    BY DEF Adds
  <1>2. 1..Len(heard') = (1..Len(heard)) \cup {Len(heard) + 1}
    BY <1>1
  <1> QED BY <1>1, <1>2 DEF KindCalls

\* The registry's steps leave a chunk's call only where MediaStreams counts it.
LEMMA MediaKinds ==
    ASSUME MediaTyped, [MediaNext]_vars
    PROVE  \/ /\ UNCHANGED chunks
              /\ UNCHANGED heard \/ \E c : Adds(c) /\ c.event # "chunk"
           \/ \E id \in StreamIds, seq \in SeqIds : Counts(id, seq)
  <1> DEFINE Quiet == UNCHANGED heard \/ \E c : Adds(c) /\ c.event # "chunk"
  <1>1. RegistryTyped /\ nextId \in [Kinds -> StreamIds]
    BY DEF MediaTyped
  <1>2. ASSUME NEW id \in StreamIds, NEW kind \in Kinds, NEW source \in Sources,
               RegisterStream(id, kind, source, TRUE)
        PROVE  Quiet
    <2> DEFINE c == [event |-> "opened", id |-> id, kind |-> kind, seq |-> 0]
    <2>1. Adds(c) /\ c.event = "opened"
      BY <1>1, <1>2, RegisterEffect
    <2> QED BY <2>1
  <1>3. ASSUME NEW id \in StreamIds, CloseStream(id) PROVE Quiet
    <2> DEFINE c == [event |-> "closed", id |-> id, kind |-> streams[id].kind, seq |-> 0]
    <2>1. Adds(c) /\ c.event = "closed"
      BY <1>1, <1>3, CloseEffect
    <2> QED BY <2>1
  <1> HIDE DEF Quiet
  <1>4. ASSUME NEW kind \in Kinds, NEW source \in Sources, AcceptProducerOpen(kind, source)
        PROVE  UNCHANGED chunks /\ Quiet
    <2>1. nextId[kind] \in StreamIds
      BY <1>1
    <2>2. UNCHANGED chunks
          /\ (RegisterStream(nextId[kind], kind, source, TRUE) \/ UNCHANGED registryVars)
      BY <1>4 DEF AcceptProducerOpen
    <2>3. UNCHANGED registryVars => Quiet
      BY DEF registryVars, Quiet
    <2> QED BY <1>2, <2>1, <2>2, <2>3
  <1>5. ASSUME NEW kind \in Kinds, NEW id \in StreamIds, NEW source \in Sources,
               RegisterPulledOpen(kind, id, source)
        PROVE  UNCHANGED chunks /\ Quiet
    BY <1>2, <1>5 DEF RegisterPulledOpen
  <1>6. ASSUME NEW kind \in Kinds, NEW id \in StreamIds, CloseMedia(kind, id)
        PROVE  UNCHANGED chunks /\ Quiet
    BY <1>3, <1>6 DEF CloseMedia
  <1>7. ASSUME NEW id \in StreamIds, NEW seq \in SeqIds, HandleMediaStream(id, seq)
        PROVE  (UNCHANGED chunks /\ Quiet) \/ Counts(id, seq)
    BY <1>7 DEF HandleMediaStream, HandleUnknown, CountChunk, Counts, Quiet
  <1>8. UNCHANGED vars => UNCHANGED chunks /\ Quiet
    BY DEF vars, registryVars, Quiet
  <1>9. (UNCHANGED chunks /\ Quiet) \/ \E id \in StreamIds, seq \in SeqIds : Counts(id, seq)
    <2> DEFINE Goal == \/ UNCHANGED chunks /\ Quiet
                       \/ \E id \in StreamIds, seq \in SeqIds : Counts(id, seq)
    <2>1. (\E kind \in Kinds, source \in Sources : AcceptProducerOpen(kind, source)) => Goal
      BY <1>4
    <2>2. (\E kind \in Kinds, id \in StreamIds, source \in Sources :
              RegisterPulledOpen(kind, id, source)) => Goal
      BY <1>5
    <2>3. (\E kind \in Kinds, id \in StreamIds : CloseMedia(kind, id)) => Goal
      BY <1>6
    <2>4. (\E id \in StreamIds, seq \in SeqIds : HandleMediaStream(id, seq)) => Goal
      BY <1>7
    <2>5. UNCHANGED vars => Goal
      BY <1>8
    <2> HIDE DEF Goal
    <2>6. Goal
      BY <2>1, <2>2, <2>3, <2>4, <2>5 DEF MediaNext
    <2> QED BY <2>6 DEF Goal
  <1> QED BY <1>9 DEF Quiet

LEMMA ByKindNext == MediaTyped /\ ByKind /\ [MediaNext]_vars => ByKind'
  <1> SUFFICES ASSUME MediaTyped, ByKind, [MediaNext]_vars PROVE ByKind'
    OBVIOUS
  <1>1. RegistryTyped /\ chunks \in [Kinds -> Nat] /\ Len(heard) \in Nat
    BY LenProperties DEF MediaTyped, RegistryTyped
  <1>2. CASE UNCHANGED chunks /\ UNCHANGED heard
    BY <1>2 DEF ByKind, KindCalls
  <1>3. ASSUME NEW c, Adds(c), c.event # "chunk", UNCHANGED chunks PROVE ByKind'
    <2>1. \A kind \in Kinds : KindCalls(kind)' = KindCalls(kind)
      BY <1>3, AddsKind
    <2> QED BY <1>3, <2>1 DEF ByKind
  <1>4. ASSUME NEW id \in StreamIds, NEW seq \in SeqIds, Counts(id, seq) PROVE ByKind'
    <2> DEFINE k == streams[id].kind
               c == [event |-> "chunk", id |-> id, kind |-> k, seq |-> seq]
    <2>1. id \in DOMAIN streams /\ k \in Kinds /\ Adds(c) /\ c.event = "chunk" /\ c.kind = k
      BY <1>1, <1>4, ChunkEffect DEF Counts, RegistryTyped, Context
    <2>2. chunks' = [chunks EXCEPT ![k] = @ + 1]
      BY <1>4 DEF Counts
    <2> HIDE DEF c, k
    <2>3. ASSUME NEW kind \in Kinds PROVE chunks'[kind] = Cardinality(KindCalls(kind)')
      <3>1. CASE kind = k
        <4>1. KindCalls(kind)' = KindCalls(kind) \cup {Len(heard) + 1}
          BY <2>1, <3>1, AddsKind
        <4>2. KindCalls(kind) \subseteq 1..Len(heard)
          BY DEF KindCalls
        <4>3. Cardinality(KindCalls(kind)') = Cardinality(KindCalls(kind)) + 1
          BY <1>1, <4>1, <4>2, CountOne
        <4>4. chunks'[kind] = chunks[kind] + 1
          BY <1>1, <2>2, <3>1
        <4> QED BY <4>3, <4>4 DEF ByKind
      <3>2. CASE kind # k
        <4>1. KindCalls(kind)' = KindCalls(kind)
          BY <2>1, <3>2, AddsKind
        <4>2. chunks'[kind] = chunks[kind]
          BY <1>1, <2>2, <3>2
        <4> QED BY <4>1, <4>2 DEF ByKind
      <3> QED BY <3>1, <3>2
    <2> QED BY <2>3 DEF ByKind
  <1> QED BY <1>2, <1>3, <1>4, MediaKinds

LEMMA ByKindInit == MediaInit => ByKind
  <1> SUFFICES ASSUME MediaInit, NEW kind \in Kinds PROVE chunks[kind] = Cardinality(KindCalls(kind))
    BY DEF ByKind
  <1>1. 1..Len(heard) = {} /\ chunks[kind] = 0
    BY DEF MediaInit, Init
  <1>2. KindCalls(kind) = {}
    BY <1>1 DEF KindCalls
  <1> QED BY <1>1, <1>2, FS_EmptySet

\* The two kinds' calls make up all the chunks the registry counted.
LEMMA KindsTogether ==
    ASSUME MediaTyped, Counted, ByKind
    PROVE  ChunksByKind
  <1>1. heard \in Seq(Call) /\ Len(heard) \in Nat /\ Kinds = {"video", "audio"}
        /\ "video" \in Kinds /\ "audio" \in Kinds
    BY KindsAre, LenProperties DEF MediaTyped, RegistryTyped
  <1>2. \A i \in 1..Len(heard) : heard[i].kind \in Kinds
    <2>1. \A i \in 1..Len(heard) : heard[i] \in Call
      BY <1>1, ElementOfSeq
    <2>2. \A c \in Call : c.kind \in Kinds
      BY DEF Call
    <2> QED BY <2>1, <2>2
  <1> DEFINE v == KindCalls("video")
             a == KindCalls("audio")
  <1>3. ChunkCalls = v \cup a /\ v \cap a = {}
    BY <1>1, <1>2 DEF ChunkCalls, KindCalls
  <1>4. v \subseteq 1..Len(heard) /\ a \subseteq 1..Len(heard)
    BY DEF KindCalls
  <1>5. chunks["video"] = Cardinality(v) /\ chunks["audio"] = Cardinality(a)
    BY <1>1 DEF ByKind
  <1> HIDE DEF v, a
  <1>6. /\ IsFiniteSet(v) /\ IsFiniteSet(a) /\ Cardinality(v) \in Nat /\ Cardinality(a) \in Nat
    BY <1>1, <1>4, CountOne
  <1>7. Cardinality(v \cup a) = Cardinality(v) + Cardinality(a) - Cardinality(v \cap a)
    BY <1>6, FS_Union
  <1>8. Cardinality(v \cap a) = 0
    BY <1>3, FS_EmptySet
  <1>9. chunks["video"] + chunks["audio"] = stats.chunks
    BY <1>3, <1>5, <1>6, <1>7, <1>8 DEF Counted
  <1> QED BY <1>9 DEF ByKind, KindCalls, ChunksByKind

MediaCounts == MediaTyped /\ LivesInv /\ Counted /\ ByKind

LEMMA MediaCountsInvariant == MediaSpec => []MediaCounts
  <1>1. MediaInit => MediaCounts
    BY MediaTypedInit, LivesInit, CountedInit, ByKindInit DEF MediaInit, MediaCounts
  <1>2. MediaCounts /\ [MediaNext]_vars => MediaCounts'
    BY MediaTypedNext, MediaRegistry, LivesNext, CountedNext, ByKindNext DEF MediaCounts
  <1> QED BY <1>1, <1>2, PTL DEF MediaSpec

\* The media registry's counts by kind are the sink's calls, and together the stream
\* registry's count (ChunksByKind).
THEOREM KindsAreCounted == MediaSpec => []ChunksByKind
  <1>1. MediaCounts => ChunksByKind
    BY KindsTogether DEF MediaCounts
  <1> QED BY <1>1, MediaCountsInvariant, PTL

\* Ids, counts and contexts keep their types, no kind counting more chunks than the sink
\* was called with (MediaTypeOK).
THEOREM MediaTypes == MediaSpec => []MediaTypeOK
  <1>1. MediaCounts => MediaTypeOK
    <2> SUFFICES ASSUME MediaCounts PROVE MediaTypeOK
      OBVIOUS
    <2>1. MediaTyped /\ ByKind /\ TypeOK
      BY TypedOK DEF MediaCounts, MediaTyped
    <2>2. Len(heard) \in Nat /\ Len(heard) <= MaxHeard /\ MaxHeard \in Nat
      BY <2>1, LenProperties, StreamAssumption DEF MediaTyped, RegistryTyped, StatsFit
    <2>3. ASSUME NEW kind \in Kinds PROVE chunks[kind] \in 0..MaxHeard
      <3>1. KindCalls(kind) \subseteq 1..Len(heard)
        BY DEF KindCalls
      <3>2. Cardinality(KindCalls(kind)) \in Nat /\ Cardinality(KindCalls(kind)) <= Len(heard)
        BY <2>2, <3>1, CountOne
      <3> QED BY <2>1, <2>2, <3>2 DEF ByKind
    <2>4. chunks \in [Kinds -> 0..MaxHeard]
      BY <2>1, <2>3 DEF MediaTyped
    <2> QED BY <2>1, <2>4 DEF MediaTyped, MediaTypeOK
  <1> QED BY <1>1, MediaCountsInvariant, PTL

-----------------------------------------------------------------------------
(* MediaStreams: sources and ids                                            *)

LEMMA SourcesNext == MediaTyped /\ OneStreamPerSource /\ [MediaNext]_vars => OneStreamPerSource'
  <1> SUFFICES ASSUME MediaTyped, OneStreamPerSource, [MediaNext]_vars PROVE OneStreamPerSource'
    OBVIOUS
  <1>1. RegistryTyped /\ nextId \in [Kinds -> StreamIds]
    BY DEF MediaTyped
  <1>2. ASSUME NEW id \in StreamIds, NEW kind \in Kinds, NEW source \in Sources,
               RegisterStream(id, kind, source, TRUE)
        PROVE  OneStreamPerSource'
    <2>1. /\ id \notin DOMAIN streams /\ DOMAIN streams' = DOMAIN streams \cup {id}
          /\ streams'[id] = NewContext(kind, source)
          /\ \A k \in DOMAIN streams : streams'[k] = streams[k]
      BY <1>1, <1>2, RegisterEffect
    <2>2. streams'[id].kind = kind /\ streams'[id].source = source
      BY <2>1 DEF NewContext
    <2>3. \A k \in DOMAIN streams : ~ (streams[k].kind = kind /\ streams[k].source = source)
      BY <1>2 DEF RegisterStream, CanRegister, HasOpenStream
    <2> QED BY <2>1, <2>2, <2>3 DEF OneStreamPerSource
  <1>3. ASSUME NEW id \in StreamIds, CloseStream(id) PROVE OneStreamPerSource'
    <2>1. DOMAIN streams' \subseteq DOMAIN streams /\ \A k \in DOMAIN streams' : streams'[k] = streams[k]
      BY <1>1, <1>3, CloseEffect
    <2> QED BY <2>1 DEF OneStreamPerSource
  <1>4. ASSUME NEW id \in StreamIds, NEW seq \in SeqIds, HandleChunk(id, seq) PROVE OneStreamPerSource'
    <2>1. /\ DOMAIN streams' = DOMAIN streams /\ id \in DOMAIN streams
          /\ \A k \in DOMAIN streams : k # id => streams'[k] = streams[k]
          /\ streams'[id] = [streams[id] EXCEPT !.hasSeq = TRUE, !.expected = Expected(seq)]
          /\ streams[id] \in Context
      BY <1>1, <1>4, ChunkEffect DEF RegistryTyped
    <2>2. streams'[id].kind = streams[id].kind /\ streams'[id].source = streams[id].source
      BY <2>1 DEF Context
    <2>3. \A k \in DOMAIN streams : /\ streams'[k].kind = streams[k].kind
                                    /\ streams'[k].source = streams[k].source
      BY <2>1, <2>2
    <2> QED BY <2>1, <2>3 DEF OneStreamPerSource
  <1>5. ASSUME NEW kind \in Kinds, NEW source \in Sources, AcceptProducerOpen(kind, source)
        PROVE  OneStreamPerSource'
    <2>1. nextId[kind] \in StreamIds
      BY <1>1
    <2>2. RegisterStream(nextId[kind], kind, source, TRUE) \/ UNCHANGED streams
      BY <1>5 DEF AcceptProducerOpen, registryVars
    <2> QED BY <1>2, <2>1, <2>2 DEF OneStreamPerSource
  <1>6. ASSUME NEW kind \in Kinds, NEW id \in StreamIds, NEW source \in Sources,
               RegisterPulledOpen(kind, id, source)
        PROVE  OneStreamPerSource'
    BY <1>2, <1>6 DEF RegisterPulledOpen
  <1>7. ASSUME NEW kind \in Kinds, NEW id \in StreamIds, CloseMedia(kind, id)
        PROVE  OneStreamPerSource'
    BY <1>3, <1>7 DEF CloseMedia
  <1>8. ASSUME NEW id \in StreamIds, NEW seq \in SeqIds, HandleMediaStream(id, seq)
        PROVE  OneStreamPerSource'
    <2>1. HandleChunk(id, seq) \/ UNCHANGED streams
      BY <1>8 DEF HandleMediaStream, HandleUnknown
    <2> QED BY <1>4, <2>1 DEF OneStreamPerSource
  <1>9. CASE UNCHANGED vars
    BY <1>9 DEF vars, registryVars, OneStreamPerSource
  <1> QED BY <1>5, <1>6, <1>7, <1>8, <1>9 DEF MediaNext

\* Opened by the peer or pulled from it, in any order and through any closes, no source
\* of a kind has two open streams (OneStreamPerSource).
THEOREM SourcesOpenOnce == MediaSpec => []OneStreamPerSource
  <1>1. MediaInit => OneStreamPerSource
    BY DEF MediaInit, Init, OneStreamPerSource
  <1> QED BY <1>1, MediaTypedInit, MediaTypedNext, SourcesNext, PTL DEF MediaSpec

\* An id the peer was told is below the next of its kind.
ToldBefore ==
    /\ FirstAudio <= nextId["audio"]
    /\ \A i \in 1..Len(told) :
          \/ told[i] < nextId["video"]
          \/ FirstAudio <= told[i] /\ told[i] < nextId["audio"]

LEMMA ToldNext ==
    MediaTyped /\ ToldBefore /\ IdsGivenOnce /\ [MediaNext]_vars => ToldBefore' /\ IdsGivenOnce'
  <1> SUFFICES ASSUME MediaTyped, ToldBefore, IdsGivenOnce, [MediaNext]_vars
               PROVE  ToldBefore' /\ IdsGivenOnce'
    OBVIOUS
  <1>1. /\ nextId["video"] \in Nat /\ nextId["audio"] \in Nat /\ FirstAudio \in Nat
        /\ told \in Seq(StreamIds) /\ StreamIds \subseteq Nat
    BY KindsAre DEF MediaTyped
  <1>2. \A i \in 1..Len(told) : told[i] \in Nat
    BY <1>1, ElementOfSeq
  <1>3. CASE UNCHANGED <<nextId, told>>
    BY <1>3 DEF ToldBefore, IdsGivenOnce
  <1>4. ASSUME NEW kind \in Kinds, Opens(kind) PROVE ToldBefore' /\ IdsGivenOnce'
    <2>1. /\ nextId'["video"] \in Nat /\ nextId'["audio"] \in Nat
          /\ nextId["video"] <= nextId'["video"] /\ nextId["audio"] <= nextId'["audio"]
          /\ \/ kind = "video" /\ nextId'["video"] = nextId["video"] + 1
             \/ kind = "audio" /\ nextId'["audio"] = nextId["audio"] + 1
      BY <1>1, <1>4, KindsAre DEF Opens, MediaTyped
    <2>2. CASE UNCHANGED told
      <3>1. ToldBefore'
        BY <1>1, <1>2, <2>1, <2>2 DEF ToldBefore
      <3>2. IdsGivenOnce'
        BY <1>1, <2>1, <2>2 DEF IdsGivenOnce
      <3> QED BY <3>1, <3>2
    <2>3. CASE told' = Append(told, nextId[kind])
      <3>1. nextId[kind] \in StreamIds
        BY DEF MediaTyped
      <3>2. /\ Len(told) \in Nat /\ Len(told') = Len(told) + 1
            /\ told'[Len(told) + 1] = nextId[kind]
            /\ \A i \in 1..Len(told) : told'[i] = told[i]
        BY <1>1, <2>3, <3>1, AppendProperties, LenProperties
      <3>3. ASSUME NEW i \in 1..Len(told')
            PROVE  \/ told'[i] < nextId'["video"]
                   \/ FirstAudio <= told'[i] /\ told'[i] < nextId'["audio"]
        <4>1. CASE i \in 1..Len(told)
          BY <1>1, <1>2, <2>1, <3>2, <4>1 DEF ToldBefore
        <4>2. CASE i = Len(told) + 1
          BY <1>1, <2>1, <3>2, <4>2 DEF ToldBefore
        <4> QED BY <3>2, <4>1, <4>2
      <3>4. ToldBefore'
        BY <1>1, <2>1, <3>3 DEF ToldBefore
      <3>5. ASSUME nextId'["video"] <= FirstAudio, NEW i \in 1..Len(told)
            PROVE  told[i] # nextId[kind]
        BY <1>1, <1>2, <2>1, <3>5 DEF ToldBefore
      <3>6. IdsGivenOnce'
        <4> SUFFICES ASSUME nextId'["video"] <= FirstAudio, NEW i \in 1..Len(told'),
                            NEW j \in 1..Len(told'), told'[i] = told'[j]
                     PROVE  i = j
          BY DEF IdsGivenOnce
        <4>1. nextId["video"] <= FirstAudio
          BY <1>1, <2>1
        <4>2. (i \in 1..Len(told) \/ i = Len(told) + 1) /\ (j \in 1..Len(told) \/ j = Len(told) + 1)
          BY <3>2
        <4>3. CASE i \in 1..Len(told) /\ j \in 1..Len(told)
          BY <3>2, <4>1, <4>3 DEF IdsGivenOnce
        <4>4. CASE i \in 1..Len(told) /\ j = Len(told) + 1
          BY <3>2, <3>5, <4>4
        <4>5. CASE i = Len(told) + 1 /\ j \in 1..Len(told)
          BY <3>2, <3>5, <4>5
        <4> QED BY <4>2, <4>3, <4>4, <4>5
      <3> QED BY <3>4, <3>6
    <2> QED BY <1>4, <2>2, <2>3 DEF Opens
  <1> QED BY <1>3, <1>4, MediaStep DEF Counts

\* Until the video ids run into the audio ids, whatever is pulled, closed or refused in
\* between, no id is given to the peer twice (IdsGivenOnce).
THEOREM IdsAreGivenOnce == MediaSpec => []IdsGivenOnce
  <1> DEFINE IdInv == MediaTyped /\ ToldBefore /\ IdsGivenOnce
  <1>1. MediaInit => IdInv
    <2> SUFFICES ASSUME MediaInit PROVE ToldBefore /\ IdsGivenOnce
      BY MediaTypedInit
    <2>1. 1..Len(told) = {} /\ nextId["audio"] = FirstAudio /\ FirstAudio \in Nat
      BY KindsAre DEF MediaInit
    <2> QED BY <2>1 DEF ToldBefore, IdsGivenOnce
  <1>2. IdInv /\ [MediaNext]_vars => IdInv'
    BY MediaTypedNext, ToldNext
  <1> QED BY <1>1, <1>2, PTL DEF MediaSpec
=============================================================================
