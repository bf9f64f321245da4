---------------------------- MODULE MediaStreams ----------------------------
(***************************************************************************)
(* MediaStreamRegistry (src/axtp_runtime/media_profile.py) over the        *)
(* StreamRegistry it owns and is the sink of.                              *)
(*                                                                         *)
(* A stream is opened by the peer, under an id this side allocates, or is  *)
(* pulled from the peer, under the id the peer answers with.  A request is *)
(* a kind and a source, the parameters having been found well formed and   *)
(* of a supported codec: every check before that returns an error and      *)
(* changes nothing.                                                        *)
(***************************************************************************)
EXTENDS StreamRegistry

CONSTANTS
    Enabled,     \* the kinds accepted (accept_video, accept_audio)
    ProducerOpen,\* whether the open mode lets the peer open streams
    FirstVideo,  \* 0x1001 in the code
    FirstAudio,  \* 0x2001 in the code
    MaxStreamId  \* bound on the stream ids in use

ASSUME MediaAssumption ==
    /\ Kinds = {"video", "audio"} /\ Enabled \subseteq Kinds
    /\ ProducerOpen \in BOOLEAN
    /\ MaxStreamId \in Nat /\ StreamIds = 1..MaxStreamId
    /\ FirstVideo \in StreamIds /\ FirstAudio \in StreamIds /\ FirstVideo < FirstAudio

VARIABLES
    nextId,     \* _next_video_stream_id and _next_audio_stream_id, by kind
    chunks,     \* the chunks of _stats, by kind
    told        \* the ids the peer's opens were answered with, in order (history)

vars == <<registryVars, nextId, chunks, told>>

MediaInit ==
    /\ Init
    /\ nextId = [kind \in Kinds |-> IF kind = "video" THEN FirstVideo ELSE FirstAudio]
    /\ chunks = [kind \in Kinds |-> 0]
    /\ told = <<>>

-----------------------------------------------------------------------------
\* _open_accepted always asks for duplicates of a source to be refused.
Accepts(kind, id, source) == CanRegister(id, kind, source, TRUE)

\* Wrong form of Allocated: the next id is the lowest that no open stream has.
AllocatedLowest(kind) ==
    LET taken == DOMAIN streams \cup {nextId[kind]}
        free == {id \in StreamIds : id >= (IF kind = "video" THEN FirstVideo ELSE FirstAudio)
                                    /\ id \notin taken}
    IN [nextId EXCEPT ![kind] = IF free = {} THEN @ ELSE CHOOSE id \in free : \A k \in free : id <= k]

\* _allocate_stream_id: the id is taken even if the stream is then refused.
Allocated(kind) == [nextId EXCEPT ![kind] = @ + 1]

\* accept_producer_open
AcceptProducerOpen(kind, source) ==
    /\ ProducerOpen /\ kind \in Enabled
    /\ nextId[kind] < MaxStreamId
    /\ nextId' = Allocated(kind)
    /\ IF Accepts(kind, nextId[kind], source)
       THEN /\ RegisterStream(nextId[kind], kind, source, TRUE)
            /\ told' = Append(told, nextId[kind])
       ELSE UNCHANGED <<registryVars, told>>
    /\ UNCHANGED chunks

\* register_pulled_open, whatever id the peer answered with
RegisterPulledOpen(kind, id, source) ==
    /\ kind \in Enabled
    /\ RegisterStream(id, kind, source, TRUE)
    /\ UNCHANGED <<nextId, chunks, told>>

\* close: only by the kind the stream was opened as.
CloseMedia(kind, id) ==
    /\ id \in DOMAIN streams /\ streams[id].kind = kind
    /\ CloseStream(id)
    /\ UNCHANGED <<nextId, chunks, told>>

\* Wrong form of CountChunk: every chunk counts as a video chunk.
CountVideoChunk(id) == chunks' = [chunks EXCEPT !["video"] = @ + 1]

\* on_stream_chunk
CountChunk(id) == chunks' = [chunks EXCEPT ![streams[id].kind] = @ + 1]

\* handle_stream; a chunk of a stream that is not open is counted below.
HandleMediaStream(id, seq) ==
    /\ \/ HandleUnknown(id) /\ UNCHANGED chunks
       \/ HandleChunk(id, seq) /\ CountChunk(id)
    /\ UNCHANGED <<nextId, told>>

MediaNext ==
    \/ \E kind \in Kinds, source \in Sources : AcceptProducerOpen(kind, source)
    \/ \E kind \in Kinds, id \in StreamIds, source \in Sources :
           RegisterPulledOpen(kind, id, source)
    \/ \E kind \in Kinds, id \in StreamIds : CloseMedia(kind, id)
    \/ \E id \in StreamIds, seq \in SeqIds : HandleMediaStream(id, seq)

MediaSpec == MediaInit /\ [][MediaNext]_vars
-----------------------------------------------------------------------------
(* Properties *)

MediaTypeOK ==
    /\ TypeOK
    /\ nextId \in [Kinds -> StreamIds]
    /\ chunks \in [Kinds -> 0..MaxHeard]
    /\ told \in Seq(StreamIds)

\* No two open streams of a kind have the same source, however they were opened
\* (_open_accepted, media_profile.py:298-311; register_stream, stream.py:82).
OneStreamPerSource ==
    \A a, b \in DOMAIN streams :
        a # b => <<streams[a].kind, streams[a].source>> # <<streams[b].kind, streams[b].source>>

\* Until the video ids run into the audio ids, no id is given to the peer twice:
\* what it still sends on a stream it closed is never taken for another stream it
\* opened (_allocate_stream_id, media_profile.py:317-324).
IdsGivenOnce ==
    nextId["video"] <= FirstAudio =>
        \A i, j \in 1..Len(told) : told[i] = told[j] => i = j

\* The chunks counted by kind are those the sink was called with, and together all
\* that the stream registry counted (on_stream_chunk, media_profile.py:255-262).
ChunksByKind ==
    /\ \A kind \in Kinds :
          chunks[kind] = Cardinality({i \in 1..Len(heard) :
                             heard[i].event = "chunk" /\ heard[i].kind = kind})
    /\ chunks["video"] + chunks["audio"] = stats.chunks
=============================================================================
