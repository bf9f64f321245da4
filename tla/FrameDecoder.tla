---------------------------- MODULE FrameDecoder ----------------------------
(***************************************************************************)
(* The byte-level frame decoder (FrameDecoder, src/axtp_runtime/codec.py). *)
(*                                                                         *)
(* on_bytes() appends a chunk to the buffer and runs the parse loop, which *)
(* looks for the magic, waits, rejects or takes a frame and hands it to    *)
(* the sink.  A sink that raises (PayloadDecoder does, on a value outside  *)
(* its enums) ends the loop with the frame already consumed; the bytes     *)
(* behind it stay in the buffer until on_bytes() is called again.          *)
(*                                                                         *)
(* The bytes that will ever arrive are fixed at the start; arrived of them *)
(* were handed to on_bytes() and consumed of them were deleted from the    *)
(* front of the buffer, so the buffer is what lies between the two.        *)
(***************************************************************************)
EXTENDS Integers, Sequences

CONSTANTS
    Byte,               \* the byte values
    Inputs,             \* the byte strings that may arrive
    Magic0, Magic1,     \* K_AXTP_STANDARD_MAGIC0, K_AXTP_STANDARD_MAGIC1
    HeaderSize,         \* K_STANDARD_FRAME_HEADER_SIZE
    CrcSize,            \* K_STANDARD_FRAME_CRC_SIZE
    MaxPayload,         \* largest payload_length; 0xFFFF in the code
    Acceptable(_),      \* version, type, index and count of a header are good
    PayloadLength(_),   \* the payload_length of a header
    Crc(_)              \* crc16_ccitt_false of a byte string

ASSUME FrameDecoderAssumption ==
    /\ Magic0 \in Byte /\ Magic1 \in Byte /\ Magic0 # Magic1
    /\ Inputs \subseteq Seq(Byte)
    /\ HeaderSize \in Nat /\ HeaderSize >= 2
    /\ CrcSize \in Nat
    /\ MaxPayload \in Nat
    /\ \A bytes \in Inputs : \A i \in 0..(Len(bytes) - HeaderSize) :
          PayloadLength(SubSeq(bytes, i + 1, i + HeaderSize)) \in 0..MaxPayload

VARIABLES
    input,     \* the bytes of this connection
    arrived,   \* how many of them on_bytes() was given
    consumed,  \* how many of them left the front of the buffer
    parsing,   \* the parse loop runs
    raised,    \* the last on_bytes() ended by an exception of the sink
    emitted    \* the frames handed to the sink: <<first byte, size>>, in order

vars == <<input, arrived, consumed, parsing, raised, emitted>>

-----------------------------------------------------------------------------
(* Byte i of the input is the one after the first i.                       *)

Header(i) == SubSeq(input, i + 1, i + HeaderSize)
FrameSize(i) == HeaderSize + PayloadLength(Header(i)) + CrcSize
MinFrameSize == HeaderSize + CrcSize

MagicAt(i) == input[i + 1] = Magic0 /\ input[i + 2] = Magic1

CrcMatches(i) ==
    LET body == FrameSize(i) - CrcSize IN
    SubSeq(input, i + body + 1, i + FrameSize(i)) = Crc(SubSeq(input, i + 1, i + body))

\* Wrong form of Resync: a lone first magic byte at the end is not kept.
ResyncKeepsNothing ==
    LET magics == {i \in consumed..(arrived - 2) : MagicAt(i)} IN
    IF magics # {}
    THEN CHOOSE i \in magics : \A j \in magics : i <= j
    ELSE arrived

\* Where _resync_to_magic leaves the front of the buffer: at the first magic, or
\* at the end, where a last byte that may begin one is kept.
Resync ==
    LET magics == {i \in consumed..(arrived - 2) : MagicAt(i)} IN
    IF magics # {}
    THEN CHOOSE i \in magics : \A j \in magics : i <= j
    ELSE IF arrived > consumed /\ input[arrived] = Magic0
         THEN arrived - 1
         ELSE arrived

-----------------------------------------------------------------------------
Init ==
    /\ input \in Inputs
    /\ arrived = 0
    /\ consumed = 0
    /\ parsing = FALSE
    /\ raised = FALSE
    /\ emitted = <<>>

\* on_bytes(): the transport delivers the next n bytes.
OnBytes(n) ==
    /\ ~ parsing
    /\ arrived + n <= Len(input)
    /\ arrived' = arrived + n
    /\ parsing' = TRUE
    /\ raised' = FALSE
    /\ UNCHANGED <<input, consumed, emitted>>

(* One pass through the loop of _parse_loop, which begins with Resync.      *)

\* Fewer bytes than the smallest frame has, or than this one has: wait.
Wait ==
    /\ parsing
    /\ \/ arrived - Resync < MinFrameSize
       \/ /\ arrived - Resync >= MinFrameSize
          /\ Acceptable(Header(Resync))
          /\ arrived - Resync < FrameSize(Resync)
    /\ consumed' = Resync
    /\ parsing' = FALSE
    /\ UNCHANGED <<input, arrived, raised, emitted>>

\* A header that is not one: look for the magic again from the next byte.
RejectHeader ==
    /\ parsing
    /\ arrived - Resync >= MinFrameSize
    /\ ~ Acceptable(Header(Resync))
    /\ consumed' = Resync + 1
    /\ UNCHANGED <<input, arrived, parsing, raised, emitted>>

\* The front of the buffer is a frame as far as its header tells.
Candidate ==
    /\ parsing
    /\ arrived - Resync >= MinFrameSize
    /\ Acceptable(Header(Resync))
    /\ arrived - Resync >= FrameSize(Resync)

\* Wrong forms of RejectCrc: the candidate is skipped whole; it is not skipped.
RejectCrcWhole ==
    /\ Candidate
    /\ ~ CrcMatches(Resync)
    /\ consumed' = Resync + FrameSize(Resync)
    /\ UNCHANGED <<input, arrived, parsing, raised, emitted>>

RejectCrcStays ==
    /\ Candidate
    /\ ~ CrcMatches(Resync)
    /\ consumed' = Resync
    /\ UNCHANGED <<input, arrived, parsing, raised, emitted>>

RejectCrc ==
    /\ Candidate
    /\ ~ CrcMatches(Resync)
    /\ consumed' = Resync + 1
    /\ UNCHANGED <<input, arrived, parsing, raised, emitted>>

\* Wrong forms of TakeFrame: the loop ends after one frame; one byte too many is
\* consumed; the CRC stays in the buffer.
TakeOneFrame ==
    /\ Candidate
    /\ CrcMatches(Resync)
    /\ consumed' = Resync + FrameSize(Resync)
    /\ emitted' = Append(emitted, <<Resync, FrameSize(Resync)>>)
    /\ parsing' = FALSE
    /\ UNCHANGED <<input, arrived, raised>>

TakeFrameAndOne ==
    /\ Candidate
    /\ CrcMatches(Resync)
    /\ consumed' = Resync + FrameSize(Resync) + 1
    /\ emitted' = Append(emitted, <<Resync, FrameSize(Resync)>>)
    /\ UNCHANGED <<input, arrived, parsing, raised>>

TakeFrameLessCrc ==
    /\ Candidate
    /\ CrcMatches(Resync)
    /\ consumed' = Resync + FrameSize(Resync) - CrcSize
    /\ emitted' = Append(emitted, <<Resync, FrameSize(Resync)>>)
    /\ UNCHANGED <<input, arrived, parsing, raised>>

\* A frame is consumed before the sink sees it, so it is gone whether the sink
\* returns, and the loop goes on, or raises, and the loop ends.
TakeFrame ==
    /\ Candidate
    /\ CrcMatches(Resync)
    /\ consumed' = Resync + FrameSize(Resync)
    /\ emitted' = Append(emitted, <<Resync, FrameSize(Resync)>>)
    /\ raised' \in BOOLEAN
    /\ parsing' = ~ raised'
    /\ UNCHANGED <<input, arrived>>

ParseLoop == Wait \/ RejectHeader \/ RejectCrc \/ TakeFrame

Next == (\E n \in 0..Len(input) : OnBytes(n)) \/ ParseLoop

\* on_bytes() runs to its end once called; nothing obliges bytes to arrive.
Spec == Init /\ [][Next]_vars /\ WF_vars(ParseLoop)
-----------------------------------------------------------------------------
(* Properties *)

\* Type correctness; the buffer is a stretch of the input.
TypeOK ==
    /\ input \in Inputs
    /\ arrived \in 0..Len(input)
    /\ consumed \in 0..arrived
    /\ parsing \in BOOLEAN
    /\ raised \in BOOLEAN
    /\ emitted \in Seq(Nat \X Nat)

\* A well-formed frame starts at byte i of the input and lies within it.
FrameAt(i) ==
    /\ i + MinFrameSize <= Len(input)
    /\ MagicAt(i)
    /\ Acceptable(Header(i))
    /\ i + FrameSize(i) <= Len(input)
    /\ CrcMatches(i)

Covers(e, i) == e[1] <= i /\ i < e[1] + e[2]

\* No frame is passed over: where one starts in the bytes consumed, it was
\* emitted or starts inside an emitted one, whatever noise, false magic or
\* corrupt header precedes it and however the bytes were cut into chunks
\* (_resync_to_magic and the _consume(1) of codec.py:73-116).
NothingSkipped ==
    \A i \in 0..(consumed - 1) :
        FrameAt(i) => \E k \in 1..Len(emitted) : Covers(emitted[k], i)

\* The emitted frames are well formed, disjoint and in the order of the bytes.
EmittedInOrder ==
    \A k \in 1..Len(emitted) :
        /\ FrameAt(emitted[k][1]) /\ emitted[k][2] = FrameSize(emitted[k][1])
        /\ emitted[k][1] + emitted[k][2] <=
              IF k = Len(emitted) THEN consumed ELSE emitted[k + 1][1]

\* Between calls that did not raise, less than one frame of the largest size
\* waits in the buffer (codec.py:87, 109).
BufferBounded ==
    ~ parsing /\ ~ raised => arrived - consumed < MinFrameSize + MaxPayload

\* The frames of the first n bytes of the input by definition: a scan that takes
\* a frame where it can, stops where a frame may still be incomplete, and moves
\* one byte on otherwise.
Scan(n) ==
    LET from[i \in 0..n] ==
          CASE i = n \/ i + MinFrameSize > n   -> <<>>
            [] i + MinFrameSize <= n /\ ~ (MagicAt(i) /\ Acceptable(Header(i)))
                                              -> from[i + 1]
            [] OTHER -> IF i + FrameSize(i) > n THEN <<>>
                        ELSE IF CrcMatches(i)
                             THEN <<<<i, FrameSize(i)>>>> \o from[i + FrameSize(i)]
                             ELSE from[i + 1]
    IN from[0]

\* How the bytes were cut into chunks does not show: between calls the frames
\* emitted are those of a scan of all the bytes that arrived, up to the frame
\* whose sink raised (codec.py:66-131).
ChunksDoNotShow ==
    ~ parsing =>
        /\ Len(emitted) <= Len(Scan(arrived))
        /\ \A k \in 1..Len(emitted) : emitted[k] = Scan(arrived)[k]
        /\ ~ raised => Len(emitted) = Len(Scan(arrived))

\* The parse loop ends: every pass consumes a byte or returns (codec.py:85).
LoopEnds == parsing ~> ~ parsing
=============================================================================
