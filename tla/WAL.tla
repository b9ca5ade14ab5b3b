-------------------------------- MODULE WAL --------------------------------
(***************************************************************************)
(* persistence/wal.go: the format of the log and the reader of Replay.     *)
(*                                                                         *)
(* The bytes matter here, because a write that is cut short shifts         *)
(* everything that is appended after it: a record is a header of four      *)
(* bytes, the little-endian length, and the payload.  The file itself, the *)
(* writes that end early and the calls of Append and Replay are in Actor.  *)
(***************************************************************************)
EXTENDS Integers, Sequences

HeaderLen == 4
Byte == 0 .. 255

\* binary.LittleEndian.PutUint32, of the low 32 bits, and Uint32
PutUint32(n) == <<n % 256, (n \div 256) % 256, (n \div 65536) % 256,
                  (n \div 16777216) % 256>>
Uint32(h) == h[1] + 256 * (h[2] + 256 * (h[3] + 256 * h[4]))

\* What Append hands to Write for a payload b; nothing for an empty one.
Record(b) == IF b = <<>> THEN <<>> ELSE PutUint32(Len(b)) \o b

(***************************************************************************)
(* The result of Replay is the payloads read, or an error and no payloads. *)
(* Only a payload that ends early is an error; a header that does ends the *)
(* log.                                                                    *)
(***************************************************************************)
Read(recs) == [ok |-> TRUE, recs |-> recs]
ReadError == [ok |-> FALSE, recs |-> <<>>]

\* The record at byte p of f: its payload, the length the header gives, its
\* end.
PayloadAt(p) == p + HeaderLen
PayloadLen(f, p) == Uint32(SubSeq(f, p, PayloadAt(p) - 1))
RecordEnd(f, p) == PayloadAt(p) + PayloadLen(f, p)
Payload(f, p) == SubSeq(f, PayloadAt(p), RecordEnd(f, p) - 1)

\* One round of the loop, at byte p of f, where the later ones are From.
Round(f, shortHeader, p, From) ==
    IF p > Len(f) THEN Read(<<>>)
    ELSE IF PayloadAt(p) > Len(f) + 1 THEN shortHeader
    ELSE IF PayloadLen(f, p) = 0 THEN From[PayloadAt(p)]
    ELSE IF RecordEnd(f, p) > Len(f) + 1 \/ ~From[RecordEnd(f, p)].ok
      THEN ReadError
    ELSE Read(<<Payload(f, p)>> \o From[RecordEnd(f, p)].recs)

\* The loop, with its answer to a header that ends early.
Reader(f, shortHeader) ==
    LET From[p \in 1 .. Len(f) + 1] == Round(f, shortHeader, p, From) IN From

\* Variant of Replay: a header that ends early is an error too.
ReplayStrict(f) == Reader(f, ReadError)[1]

Replay(f) == Reader(f, Read(<<>>))[1]
=============================================================================
