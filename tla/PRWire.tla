------------------------------- MODULE PRWire -------------------------------
(***************************************************************************)
(* The wire codecs of the PR frames: PR_STREAM                             *)
(* (internal/wire/pr_stream_frame.go), PR_ACK_NOTIFY and PR_DATAGRAM       *)
(* (the wire package files in src/unnamed/part_005).  Each codec function  *)
(* is an operator over byte sequences; quicvarint and bytes.Reader, which  *)
(* are not in src/, are modelled from RFC 9000 section 16 and the Go       *)
(* library.  Frame data are DataLen copies of the byte DataByte: a codec   *)
(* never looks at their values.  Errors are the strings "EOF" (a short     *)
(* read) and "panic" (a Go runtime panic).                                 *)
(*                                                                         *)
(* The checker's state is one codec input; every step picks another, so   *)
(* the invariants below are checked on every input of the bounded sets.    *)
(***************************************************************************)
EXTENDS Integers, Sequences, SequencesExt, Bitwise

CONSTANTS
  StreamIDs,   \* stream IDs to encode
  Offsets,     \* stream offsets
  PtdaCs,      \* PR policy parameters ptda_c
  PTDAs,       \* PTDA bytes
  DataLens,    \* payload lengths
  Budgets,     \* maxSize arguments of MaxDataLen / MaybeSplitOffFrame
  DataByte,    \* the value of every payload byte
  NoFrame      \* model value: a nil frame

ASSUME /\ DataByte \in 0..255 /\ PTDAs \subseteq 0..255
       /\ \A S \in {StreamIDs, Offsets, PtdaCs, DataLens, Budgets} :
            S \subseteq 0..1073741823

-----------------------------------------------------------------------------
(* quicvarint and bytes.Reader.                                            *)

\* quicvarint.Len: 1, 2, 4 or 8 bytes.
VarintLen(v) ==
  CASE v <= 63 -> 1 [] v <= 16383 -> 2 [] v <= 1073741823 -> 4 [] OTHER -> 8

RECURSIVE BigEndian(_, _)
BigEndian(v, n) ==
  IF n = 0 THEN <<>> ELSE BigEndian(v \div 256, n - 1) \o <<v % 256>>

\* quicvarint.Append: big-endian in VarintLen(v) bytes, the top two bits of
\* the first one giving log2 of the length.
VarintBytes(v) ==
  LET n == VarintLen(v)
      b == BigEndian(v, n)
  IN  [b EXCEPT ![1] = @ + 64 * (CASE n = 1 -> 0 [] n = 2 -> 1
                                     [] n = 4 -> 2 [] OTHER -> 3)]

\* A bytes.Reader over bs, with the fields a parser has read so far.
Fields == {"type", "sid", "off", "len", "ptda", "ptdac"}
Reader(bs) == [rest |-> bs, err |-> "nil", val |-> [n \in Fields |-> 0]]

\* r.ReadByte() into field n; io.EOF on an empty reader.  A reader that has
\* failed stays failed (the parser returns at the first error).
ReadByteInto(st, n) ==
  CASE st.err # "nil"  -> st
    [] st.rest = <<>> -> [st EXCEPT !.err = "EOF"]
    [] OTHER          -> [st EXCEPT !.val[n] = Head(st.rest),
                                    !.rest = Tail(st.rest)]

\* quicvarint.Read into field n: the length from the first byte's top two
\* bits, the value big-endian from its low six bits and the bytes after it.
ReadVarintInto(st, n) ==
  IF st.err # "nil" \/ st.rest = <<>>
    THEN [st EXCEPT !.err = IF st.err # "nil" THEN @ ELSE "EOF"]
    ELSE LET len == 2 ^ (Head(st.rest) \div 64)
         IN  IF Len(st.rest) < len
               THEN [st EXCEPT !.err = "EOF"]
               ELSE [st EXCEPT
                       !.val[n] = FoldLeft(LAMBDA a, b : a * 256 + b,
                                           Head(st.rest) % 64,
                                           SubSeq(st.rest, 2, len)),
                       !.rest = SubSeq(st.rest, len + 1, Len(st.rest))]

\* The data bytes of a frame.
Payload(n) == [i \in 1..n |-> DataByte]

\* The type byte: base XOR the FIN (0b1), LEN (0b10) and OFF (0b100) bits.
TypeByte(base, fin, dlp, hasOff) ==
  LET t1 == IF fin THEN base ^^ 1 ELSE base
      t2 == IF dlp THEN t1 ^^ 2 ELSE t1
  IN  IF hasOff THEN t2 ^^ 4 ELSE t2

-----------------------------------------------------------------------------
(* PR_STREAM (pr_stream_frame.go).  A frame is [sid, off, len, fin, dlp,   *)
(* ptda, ptdaC]; len is DataLen().                                          *)

PRStreamFrames ==
  [sid : StreamIDs, off : Offsets, len : DataLens, fin : BOOLEAN,
   dlp : BOOLEAN, ptda : PTDAs, ptdaC : PtdaCs]

\* Append: refuses an empty frame without FIN; the type byte starts from
\* 0x8, and ptdaC is appended as byte(f.ptdaC).
PRStreamAppend(f) ==
  IF f.len = 0 /\ ~f.fin
    THEN [err |-> "empty", bytes |-> <<>>]
    ELSE [err |-> "nil",
          bytes |-> <<TypeByte(8, f.fin, f.dlp, f.off # 0)>>
                    \o VarintBytes(f.sid)
                    \o (IF f.off # 0 THEN VarintBytes(f.off) ELSE <<>>)
                    \o (IF f.dlp THEN VarintBytes(f.len) ELSE <<>>)
                    \o <<f.ptda, f.ptdaC % 256>>
                    \o Payload(f.len)]

\* parsePRStreamFrame: the header is read as for STREAM; then frame, still
\* a nil *PRStreamFrame, is dereferenced to store PTDA, which panics.  The
\* rest of the function is never reached.
parsePRStreamFrame(bs) ==
  LET s1 == ReadByteInto(Reader(bs), "type")
      t  == s1.val["type"]
      s2 == ReadVarintInto(s1, "sid")
      s3 == IF (t & 4) > 0 THEN ReadVarintInto(s2, "off") ELSE s2
      s4 == IF (t & 2) > 0 THEN ReadVarintInto(s3, "len")
                           ELSE [s3 EXCEPT !.val["len"] = Len(s3.rest)]
  IN  [err |-> IF s4.err # "nil" THEN s4.err ELSE "panic",
       frame |-> NoFrame, rest |-> s4.rest]

\* Length: the header, one PTDA byte, varint ptdaC and the data.
PRStreamLength(f) ==
  1 + VarintLen(f.sid)
    + (IF f.off # 0 THEN VarintLen(f.off) ELSE 0)
    + (IF f.dlp THEN VarintLen(f.len) ELSE 0)
    + 1 + VarintLen(f.ptdaC)
    + f.len

\* MaxDataLen: 0 if the header does not fit; the PR fields are then taken
\* OFF the header length.  The code computes in uint64, where headerLen may
\* wrap below zero; maxSize - headerLen is then the same value as here.
PRStreamMaxDataLen(f, maxSize) ==
  LET headerLen == 1 + VarintLen(f.sid)
                     + (IF f.off # 0 THEN VarintLen(f.off) ELSE 0)
                     + (IF f.dlp THEN 1 ELSE 0)
      maxDataLen == maxSize - (headerLen - 1 - VarintLen(f.ptdaC))
  IN  CASE headerLen > maxSize                      -> 0
        [] f.dlp /\ VarintLen(maxDataLen) # 1       -> maxDataLen - 1
        [] OTHER                                   -> maxDataLen

\* Mutant: the tail keeps the original offset (f.Offset += n dropped).
PRStreamMaybeSplitOffFrame_TailAtOffset(f, maxSize) ==
  LET n == PRStreamMaxDataLen(f, maxSize)
  IN  CASE maxSize >= PRStreamLength(f)
             -> [err |-> "nil", split |-> FALSE, head |-> NoFrame, tail |-> f]
        [] n = 0
             -> [err |-> "nil", split |-> TRUE, head |-> NoFrame, tail |-> f]
        [] n > f.len
             -> [err |-> "panic", split |-> TRUE, head |-> NoFrame, tail |-> f]
        [] OTHER
             -> [err |-> "nil", split |-> TRUE,
                 head |-> [f EXCEPT !.len = n, !.fin = FALSE],
                 tail |-> [f EXCEPT !.len = f.len - n]]

\* MaybeSplitOffFrame.  No split if the frame fits; (nil, true) if
\* MaxDataLen is 0; otherwise a new head at f.Offset with the first n bytes
\* and FIN cleared, and f becomes the tail at f.Offset + n keeping its FIN.
\* The slice f.Data[:len(new.Data)-n] panics when n exceeds the data.
PRStreamMaybeSplitOffFrame(f, maxSize) ==
  LET n == PRStreamMaxDataLen(f, maxSize)
  IN  CASE maxSize >= PRStreamLength(f)
             -> [err |-> "nil", split |-> FALSE, head |-> NoFrame, tail |-> f]
        [] n = 0
             -> [err |-> "nil", split |-> TRUE, head |-> NoFrame, tail |-> f]
        [] n > f.len
             -> [err |-> "panic", split |-> TRUE, head |-> NoFrame, tail |-> f]
        [] OTHER
             -> [err |-> "nil", split |-> TRUE,
                 head |-> [f EXCEPT !.len = n, !.fin = FALSE],
                 tail |-> [f EXCEPT !.len = f.len - n, !.off = f.off + n]]

-----------------------------------------------------------------------------
(* PR_ACK_NOTIFY (the first pr_ack_notify_frame.go of part_005).  A frame  *)
(* is [sid, off, prDataLen, fin, dlp, ptda, ptdaC].                        *)

PRAckNotifyFrames ==
  [sid : StreamIDs, off : Offsets, prDataLen : DataLens, fin : BOOLEAN,
   dlp : BOOLEAN, ptda : PTDAs, ptdaC : PtdaCs]

\* Mutant: the offset written before the PR fields, as in the older copy
\* of Append (part_005 line 427).
PRAckNotifyAppend_OffsetFirst(f) ==
  <<TypeByte(88, f.fin, f.dlp, f.off # 0)>>
  \o VarintBytes(f.sid)
  \o (IF f.off # 0 THEN VarintBytes(f.off) ELSE <<>>)
  \o <<f.ptda>> \o VarintBytes(f.ptdaC)
  \o VarintBytes(f.prDataLen)

\* Append: type 0x58 with the flag bits, sid, PTDA, varint PtdaC,
\* [offset], varint PRDataLen.
PRAckNotifyAppend(f) ==
  <<TypeByte(88, f.fin, f.dlp, f.off # 0)>>
  \o VarintBytes(f.sid)
  \o <<f.ptda>> \o VarintBytes(f.ptdaC)
  \o (IF f.off # 0 THEN VarintBytes(f.off) ELSE <<>>)
  \o VarintBytes(f.prDataLen)

\* parsePRAckNotifyFrame: the fields in the order Append writes them.
parsePRAckNotifyFrame(bs) ==
  LET s1 == ReadByteInto(Reader(bs), "type")
      t  == s1.val["type"]
      s2 == ReadByteInto(ReadVarintInto(s1, "sid"), "ptda")
      s3 == ReadVarintInto(s2, "ptdac")
      s4 == IF (t & 4) > 0 THEN ReadVarintInto(s3, "off") ELSE s3
      s5 == ReadVarintInto(s4, "len")
  IN  [err |-> s5.err, rest |-> s5.rest,
       frame |-> IF s5.err # "nil" THEN NoFrame
                 ELSE [sid |-> s5.val["sid"], off |-> s5.val["off"],
                       prDataLen |-> s5.val["len"], fin |-> (t & 1) > 0,
                       dlp |-> (t & 2) > 0, ptda |-> s5.val["ptda"],
                       ptdaC |-> s5.val["ptdac"]]]

\* Mutant: PRDataLen counted only if DataLenPresent (the commented-out test).
PRAckNotifyLength_IfDataLenPresent(f) ==
  1 + VarintLen(f.sid)
    + (IF f.off # 0 THEN VarintLen(f.off) ELSE 0)
    + (IF f.dlp THEN VarintLen(f.prDataLen) ELSE 0)
    + 1 + VarintLen(f.ptdaC)

\* Length: PRDataLen is counted whether or not DataLenPresent is set.
PRAckNotifyLength(f) ==
  1 + VarintLen(f.sid)
    + (IF f.off # 0 THEN VarintLen(f.off) ELSE 0)
    + VarintLen(f.prDataLen)
    + 1 + VarintLen(f.ptdaC)

-----------------------------------------------------------------------------
(* PR_DATAGRAM (part_005 lines 1-119).  A frame is [len, dlp, ptda,       *)
(* ptdaC].                                                                 *)

PRDatagramFrames ==
  [len : DataLens, dlp : BOOLEAN, ptda : PTDAs, ptdaC : PtdaCs]

\* Append: 0x52 XOR the length bit, [varint length], PTDA, byte(ptdaC),
\* data.
PRDatagramAppend(f) ==
  <<IF f.dlp THEN 83 ELSE 82>>
  \o (IF f.dlp THEN VarintBytes(f.len) ELSE <<>>)
  \o <<f.ptda, f.ptdaC % 256>>
  \o Payload(f.len)

\* parsePRDatagramFrame: the data length is fixed (from the length field,
\* or as r.Len()) BEFORE the PR fields are read; then io.ReadFull of that
\* many bytes.
parsePRDatagramFrame(bs) ==
  LET s1 == ReadByteInto(Reader(bs), "type")
      dlp == (s1.val["type"] & 1) > 0
      s2 == IF dlp THEN ReadVarintInto(s1, "len")
                   ELSE [s1 EXCEPT !.val["len"] = Len(s1.rest)]
      s3 == IF dlp /\ s2.err = "nil" /\ s2.val["len"] > Len(s2.rest)
              THEN [s2 EXCEPT !.err = "EOF"] ELSE s2
      s4 == ReadVarintInto(ReadByteInto(s3, "ptda"), "ptdac")
      length == s4.val["len"]
      s5 == IF s4.err = "nil" /\ Len(s4.rest) < length
              THEN [s4 EXCEPT !.err = "EOF"] ELSE s4
  IN  [err |-> s5.err,
       rest |-> IF s5.err = "nil"
                  THEN SubSeq(s5.rest, length + 1, Len(s5.rest)) ELSE s5.rest,
       frame |-> IF s5.err # "nil" THEN NoFrame
                 ELSE [len |-> length, dlp |-> dlp, ptda |-> s5.val["ptda"],
                       ptdaC |-> s5.val["ptdac"]]]

\* Length: type, [varint length], data; the PR fields are not counted.
PRDatagramLength(f) ==
  1 + f.len + (IF f.dlp THEN VarintLen(f.len) ELSE 0)

\* Mutant: the data length is not shortened when its varint takes two bytes.
PRDatagramMaxDataLen_NoVarintAdjust(f, maxSize) ==
  LET headerLen == IF f.dlp THEN 2 ELSE 1
  IN  IF headerLen > maxSize THEN 0 ELSE maxSize - headerLen

\* MaxDataLen: the header with a one-byte length field is taken off the
\* budget, and one more byte when the length's varint needs two.  Like
\* Length, it leaves the PR fields out.
PRDatagramMaxDataLen(f, maxSize) ==
  LET headerLen  == IF f.dlp THEN 2 ELSE 1
      maxDataLen == maxSize - headerLen
  IN  CASE headerLen > maxSize                     -> 0
        [] f.dlp /\ VarintLen(maxDataLen) # 1      -> maxDataLen - 1
        [] OTHER                                   -> maxDataLen

-----------------------------------------------------------------------------
(* frameParser.parseFrame (the listing in part_000): the kind of frame a  *)
(* type byte is handed to.  Cases the listing elides are "other".         *)

parseFrameKind(typeByte, supportsDatagrams) ==
  CASE (typeByte & 248) = 8   -> "STREAM"
    [] (typeByte & 248) = 72  -> "PR_STREAM"
    [] typeByte = 80          -> "PR_ACK"
    [] typeByte = 81          -> "PR_ACK_NOTIFY"
    [] typeByte \in {82, 83}  -> IF supportsDatagrams THEN "PR_DATAGRAM"
                                                      ELSE "unknown"
    [] typeByte \in {48, 49}  -> IF supportsDatagrams THEN "DATAGRAM"
                                                      ELSE "unknown"
    [] OTHER                  -> "other"

\* The parser parseFrame calls for a kind.
parseFrameAs(kind, bs) ==
  CASE kind = "PR_STREAM"     -> parsePRStreamFrame(bs)
    [] kind = "PR_ACK_NOTIFY" -> parsePRAckNotifyFrame(bs)
    [] kind = "PR_DATAGRAM"   -> parsePRDatagramFrame(bs)
    [] OTHER -> [err |-> "not a PR parser", frame |-> NoFrame, rest |-> bs]

-----------------------------------------------------------------------------
(* The checker's state: the frame (and budget) the codecs are applied to. *)

VARIABLE input

StreamInputs   == [kind : {"PR_STREAM"}, f : PRStreamFrames, budget : Budgets]
NotifyInputs   == [kind : {"PR_ACK_NOTIFY"}, f : PRAckNotifyFrames]
DatagramInputs == [kind : {"PR_DATAGRAM"}, f : PRDatagramFrames,
                   budget : Budgets]

Init == input \in StreamInputs \cup NotifyInputs \cup DatagramInputs

\* One step per codec: take another frame of that kind.
CodecPRStream   == input' \in StreamInputs
CodecPRAckNotify == input' \in NotifyInputs
CodecPRDatagram == input' \in DatagramInputs

Next == CodecPRStream \/ CodecPRAckNotify \/ CodecPRDatagram

Spec == Init /\ [][Next]_input

\* The bytes Append writes for the current frame ("empty" frames none).
Encoded ==
  CASE input.kind = "PR_STREAM"     -> PRStreamAppend(input.f).bytes
    [] input.kind = "PR_ACK_NOTIFY" -> PRAckNotifyAppend(input.f)
    [] OTHER                        -> PRDatagramAppend(input.f)

Encodable == input.kind # "PR_STREAM" \/ PRStreamAppend(input.f).err = "nil"

-----------------------------------------------------------------------------
(* Properties.                                                             *)

\* Spec 4.1 and 8 (round trip): a PR_ACK_NOTIFY frame decodes to the frame
\* that was encoded, and the decoder consumes exactly the bytes Append wrote.
\* Append and parsePRAckNotifyFrame must agree on the order of the PR fields
\* and the offset, and on which type bits gate which fields.
PRAckNotifyRoundTrip ==
  input.kind = "PR_ACK_NOTIFY" =>
    LET r == parsePRAckNotifyFrame(PRAckNotifyAppend(input.f))
    IN  r.err = "nil" /\ r.frame = input.f /\ r.rest = <<>>

\* Length of a PR_ACK_NOTIFY frame, used by the packer to budget the
\* packet, is the number of bytes Append writes, for every flag setting.
PRAckNotifyLengthMatchesEncoding ==
  input.kind = "PR_ACK_NOTIFY" =>
    PRAckNotifyLength(input.f) = Len(PRAckNotifyAppend(input.f))

\* MaybeSplitOffFrame, whenever it returns a head: the head starts at the
\* frame's offset without FIN, the tail starts where the head ends and
\* keeps the FIN, no byte is lost or duplicated, and both halves carry the
\* frame's stream ID and PR fields.
SplitPiecesPreserveStream ==
  input.kind = "PR_STREAM" =>
    LET f == input.f
        r == PRStreamMaybeSplitOffFrame(f, input.budget)
    IN  r.err = "nil" /\ r.head # NoFrame =>
          /\ r.head.off = f.off /\ ~r.head.fin
          /\ r.tail.off = r.head.off + r.head.len /\ r.tail.fin = f.fin
          /\ r.head.len + r.tail.len = f.len
          /\ \A x \in {"sid", "dlp", "ptda", "ptdaC"} :
                r.head[x] = f[x] /\ r.tail[x] = f[x]

\* A DATAGRAM sender sizes its payload with MaxDataLen(maxSize) and the
\* packer then counts the frame with Length: the payload MaxDataLen returns
\* is the largest whose Length fits the budget, on both sides of the
\* one/two-byte varint boundary of the length field.  (Both leave the PR
\* fields out; LengthMatchesEncoding is about that.)
PRDatagramMaxDataLenFits ==
  input.kind = "PR_DATAGRAM" =>
    LET n == PRDatagramMaxDataLen(input.f, input.budget)
        sized(k) == [input.f EXCEPT !.len = k]
    IN  n > 0 =>
          /\ PRDatagramLength(sized(n)) <= input.budget
          /\ PRDatagramLength(sized(n + 1)) > input.budget

\* Spec 8 (split identity) and 4.1: for a budget above the header and below
\* the encoded length, MaybeSplitOffFrame returns normally, and a head it
\* returns fits in the budget.
SplitHeadFits ==
  input.kind = "PR_STREAM" =>
    LET f == input.f
        r == PRStreamMaybeSplitOffFrame(f, input.budget)
    IN  PRStreamLength(f) - f.len < input.budget
          /\ input.budget < PRStreamLength(f) =>
        /\ r.err = "nil"
        /\ r.head # NoFrame => PRStreamLength(r.head) <= input.budget

\* Spec 8 (round trip) and 4.1: every frame Append writes, given to the
\* frame parser (with datagram support negotiated), is handed to the parser
\* of its own kind, which returns the frame that was encoded and consumes
\* exactly its bytes.  Covers the type bytes Append and parseFrame use, the
\* order and width of the fields, and the parsers' control flow.
RoundTrip ==
  Encodable =>
    LET kind == parseFrameKind(Head(Encoded), TRUE)
        r    == parseFrameAs(kind, Encoded)
    IN  kind = input.kind /\ r.err = "nil" /\ r.frame = input.f
          /\ r.rest = <<>>

\* Length, which the packer uses to fit frames into a packet, is the number
\* of bytes Append writes, for every frame kind.
LengthMatchesEncoding ==
  Encodable =>
    Len(Encoded) = CASE input.kind = "PR_STREAM"     -> PRStreamLength(input.f)
                     [] input.kind = "PR_ACK_NOTIFY" -> PRAckNotifyLength(input.f)
                     [] OTHER                        -> PRDatagramLength(input.f)

====
