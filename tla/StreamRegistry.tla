--------------------------- MODULE StreamRegistry ---------------------------
(***************************************************************************)
(* StreamRegistry (src/axtp_runtime/stream.py): the open streams, what is  *)
(* expected next on each, the totals, and the calls made to the sink.      *)
(*                                                                         *)
(* Every method calls the sink last, so a sink that raises changes nothing *)
(* here: what it was called with is recorded, how the call ended is not.   *)
(* A call that is refused changes nothing and is not a step.               *)
(***************************************************************************)
EXTENDS Integers, Sequences, FiniteSets

CONSTANTS
    StreamIds,  \* the stream ids in use, without 0, which is invalid
    Kinds,      \* the kinds of streams
    Sources,    \* the sources of streams
    SeqIds,     \* the sequence ids chunks may carry
    SeqMod,     \* how many sequence ids there are; 2^32 in the code
    MaxHeard,   \* bound on the calls to the sink
    MaxUnknown  \* bound on the chunks for streams that are not open

ASSUME StreamAssumption ==
    /\ StreamIds \subseteq Nat \ {0}
    /\ SeqMod \in Nat \ {0} /\ SeqIds \subseteq 0..(SeqMod - 1)
    /\ MaxHeard \in Nat /\ MaxUnknown \in Nat

VARIABLES
    streams,  \* _streams: the context of every open stream
    stats,    \* _stats
    heard     \* the calls made to the sink (history)

registryVars == <<streams, stats, heard>>

NoStats == [chunks |-> 0, unknown |-> 0, gaps |-> 0, duplicates |-> 0]

Init == streams = [id \in {} |-> 0] /\ stats = NoStats /\ heard = <<>>

Heard(event, id, kind, seq) ==
    /\ Len(heard) < MaxHeard
    /\ heard' = Append(heard, [event |-> event, id |-> id, kind |-> kind, seq |-> seq])

-----------------------------------------------------------------------------
HasOpenStream(kind, source) ==
    \E id \in DOMAIN streams : streams[id].kind = kind /\ streams[id].source = source

NewContext(kind, source) ==
    [kind |-> kind, source |-> source, expected |-> 0, hasSeq |-> FALSE]

\* Wrong form of CanRegister: a stream id may be taken over.
CanTakeOver(id, kind, source, reject) == reject => ~ HasOpenStream(kind, source)

\* Wrong form of CanRegister: the source is not looked at.
CanRegisterAnySource(id, kind, source, reject) == id \notin DOMAIN streams

\* Which streams register_stream() accepts.
CanRegister(id, kind, source, reject) ==
    /\ id \notin DOMAIN streams
    /\ reject => ~ HasOpenStream(kind, source)

\* register_stream() when it succeeds; reject is reject_duplicate_kind_source.
RegisterStream(id, kind, source, reject) ==
    /\ CanRegister(id, kind, source, reject)
    /\ streams' = [k \in DOMAIN streams \cup {id} |->
                      IF k = id THEN NewContext(kind, source) ELSE streams[k]]
    /\ Heard("opened", id, kind, 0)
    /\ UNCHANGED stats

\* close() of an open stream.
CloseStream(id) ==
    /\ id \in DOMAIN streams
    /\ streams' = [k \in DOMAIN streams \ {id} |-> streams[k]]
    /\ Heard("closed", id, streams[id].kind, 0)
    /\ UNCHANGED stats

\* handle_stream() for a stream that is not open.
HandleUnknown(id) ==
    /\ id \notin DOMAIN streams
    /\ stats.unknown < MaxUnknown
    /\ stats' = [stats EXCEPT !.unknown = @ + 1]
    /\ UNCHANGED <<streams, heard>>

\* Wrong form of Expected: the sum leaves the range of a sequence id.
ExpectedNoWrap(seq) == seq + 1

\* The sequence id expected after a chunk.
Expected(seq) == (seq + 1) % SeqMod

\* Wrong form of IsGap: the first chunk counts as one unless it is chunk 0.
IsGapFromStart(context, seq) == seq # context.expected - 1 /\ seq # context.expected

\* How a chunk that is not the first of its stream counts: expected - 1 is not
\* taken modulo SeqMod, and is -1 after the last sequence id.
IsDuplicate(context, seq) == context.hasSeq /\ seq = context.expected - 1
IsGap(context, seq) ==
    context.hasSeq /\ seq # context.expected - 1 /\ seq # context.expected

\* handle_stream() for an open stream.
HandleChunk(id, seq) ==
    /\ id \in DOMAIN streams
    /\ stats' = [stats EXCEPT
                    !.chunks = @ + 1,
                    !.duplicates = @ + (IF IsDuplicate(streams[id], seq) THEN 1 ELSE 0),
                    !.gaps = @ + (IF IsGap(streams[id], seq) THEN 1 ELSE 0)]
    /\ streams' = [streams EXCEPT ![id].hasSeq = TRUE, ![id].expected = Expected(seq)]
    /\ Heard("chunk", id, streams[id].kind, seq)

Next ==
    \E id \in StreamIds :
        \/ \E kind \in Kinds, source \in Sources, reject \in BOOLEAN :
               RegisterStream(id, kind, source, reject)
        \/ CloseStream(id)
        \/ HandleUnknown(id)
        \/ \E seq \in SeqIds : HandleChunk(id, seq)

Spec == Init /\ [][Next]_registryVars
-----------------------------------------------------------------------------
(* Properties *)

Context == [kind : Kinds, source : Sources, expected : 0..(SeqMod - 1), hasSeq : BOOLEAN]
Call == [event : {"opened", "chunk", "closed"}, id : StreamIds, kind : Kinds,
         seq : 0..(SeqMod - 1)]

TypeOK ==
    /\ DOMAIN streams \subseteq StreamIds
    /\ \A id \in DOMAIN streams : streams[id] \in Context
    /\ stats \in [chunks : 0..MaxHeard, unknown : 0..MaxUnknown,
                  gaps : 0..MaxHeard, duplicates : 0..MaxHeard]
    /\ heard \in Seq(Call)

\* The calls about a stream id before the i-th, and the last of those.
Before(i) == {j \in 1..(i - 1) : heard[j].id = heard[i].id}
IsLast(j, calls) == j \in calls /\ \A k \in calls : k <= j

\* What the sink hears of a stream id is one life after the other, each from
\* "opened" to "closed" and of one kind, and the streams open in the registry are
\* those whose life has not ended (register_stream, close and handle_stream,
\* stream.py:75-118).
SinkSeesLives ==
    /\ \A i \in 1..Len(heard) :
          IF heard[i].event = "opened"
          THEN \A j \in Before(i) : IsLast(j, Before(i)) => heard[j].event = "closed"
          ELSE \E j \in Before(i) : /\ IsLast(j, Before(i))
                                    /\ heard[j].event # "closed"
                                    /\ heard[j].kind = heard[i].kind
    /\ \A id \in StreamIds :
          LET calls == {j \in 1..Len(heard) : heard[j].id = id} IN
          id \in DOMAIN streams
              <=> \E j \in calls : IsLast(j, calls) /\ heard[j].event # "closed"

\* The chunks that follow another chunk of the same life with the sequence id r
\* away from it, all modulo SeqMod.
ChunksAhead(r) ==
    {i \in 1..Len(heard) :
        /\ heard[i].event = "chunk"
        /\ \E j \in Before(i) : /\ IsLast(j, Before(i))
                                /\ heard[j].event = "chunk"
                                /\ heard[i].seq = (heard[j].seq + r) % SeqMod}

\* The sequence ids that were not the expected ones are counted, each once, as a
\* gap or as a duplicate, also where the sequence ids wrap, and the first chunk of
\* a life never is (handle_stream, stream.py:106-112).
AnomaliesCounted ==
    /\ stats.chunks = Cardinality({i \in 1..Len(heard) : heard[i].event = "chunk"})
    /\ stats.gaps + stats.duplicates
          = Cardinality(UNION {ChunksAhead(r) : r \in (0..(SeqMod - 1)) \ {1 % SeqMod}})

\* A chunk that repeats the sequence id of the chunk before it counts as a
\* duplicate, and is not a gap (tests/test_stream.py:45-53).
RepeatsAreDuplicates == stats.duplicates = Cardinality(ChunksAhead(0))
=============================================================================
