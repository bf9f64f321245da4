--------------------------- MODULE MCFrameDecoder ---------------------------
(* FrameDecoder on a frame of four header bytes (magic, magic, kind, length) *)
(* and one CRC byte over an alphabet of four bytes, so that payloads, kinds, *)
(* lengths and CRCs can look like magic.  The inputs are all concatenations  *)
(* of up to MaxPieces whole, corrupted and truncated frames and stray bytes. *)
EXTENDS FrameDecoder

CONSTANT MaxPieces

MCAcceptable(header) == header[3] # 0
MCPayloadLength(header) == header[4]
MCCrc(bytes) ==
    LET sum[i \in 0..Len(bytes)] == IF i = 0 THEN 0 ELSE sum[i - 1] + bytes[i]
    IN <<sum[Len(bytes)] % 4>>

\* 2 and 3 are the magic bytes.
Sealed(bytes) == bytes \o MCCrc(bytes)
Pieces ==
    { Sealed(<<2, 3, 1, 0>>),              \* a frame without payload
      Sealed(<<2, 3, 1, 2, 2, 3>>),        \* a frame whose payload is magic
      Sealed(<<2, 3, 0, 1, 1>>),           \* a frame of another version
      <<2, 3, 1, 1, 2, 0>>,                \* a frame with a wrong CRC
      <<2, 3, 1, 3>>,                      \* a header alone, of a long frame
      <<2>>, <<3>>, <<0>> }                \* stray bytes

Concatenations[n \in 0..MaxPieces] ==
    IF n = 0 THEN {<<>>}
    ELSE Concatenations[n - 1] \cup
            {c \o p : c \in Concatenations[n - 1], p \in Pieces}

MCInputs == Concatenations[MaxPieces]
=============================================================================
