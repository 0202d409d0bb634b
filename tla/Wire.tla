-------------------------------- MODULE Wire ---------------------------------
(***************************************************************************)
(* The binary SLMP encoding of src/slmp/core.py: little-endian fields,     *)
(* device specifications, bit nibbles and the 3E and 4E frames.  A byte is *)
(* a number below 256 and a buffer a sequence of bytes; a double word is   *)
(* the pair of its words, low word first.                                  *)
(***************************************************************************)
EXTENDS Naturals, Sequences, SequencesExt

CONSTANT Malformed   (* an SlmpError of a decoder                          *)

LE(n, width) == [i \in 1..width |-> (n \div (256 ^ (i - 1))) % 256]
Number(bytes) == bytes[1] + 256 * bytes[2]
Slice(bytes, offset, length) == SubSeq(bytes, offset + 1, offset + length)
Zeros(n) == [i \in 1..n |-> 0]

EncodeDword(d) == LE(d[1], 2) \o LE(d[2], 2)
EncodeWords(ws) == FlattenSeq([i \in DOMAIN ws |-> LE(ws[i], 2)])
EncodeDwords(ds) == FlattenSeq([i \in DOMAIN ds |-> EncodeDword(ds[i])])

DecodeWords(bytes) ==
  IF Len(bytes) % 2 # 0 THEN Malformed
  ELSE [i \in 1..(Len(bytes) \div 2) |-> Number(Slice(bytes, 2 * i - 2, 2))]

DecodeDwords(bytes) ==
  IF Len(bytes) % 4 # 0 THEN Malformed
  ELSE [i \in 1..(Len(bytes) \div 4) |->
          <<Number(Slice(bytes, 4 * i - 4, 2)),
            Number(Slice(bytes, 4 * i - 2, 2))>>]

(* Two points to a byte, the first in the high nibble. *)
Bit(b) == IF b THEN 1 ELSE 0
BitBytes(count) == (count + 1) \div 2

PackBits(bits) ==
  [i \in 1..BitBytes(Len(bits)) |->
     16 * Bit(bits[2 * i - 1])
       + (IF 2 * i <= Len(bits) THEN Bit(bits[2 * i]) ELSE 0)]

Nibble(bytes, i) == LET byte == bytes[(i + 1) \div 2]
                    IN  IF i % 2 = 1 THEN byte \div 16 ELSE byte % 16

UnpackBits(bytes, count) ==
  IF \/ Len(bytes) # BitBytes(count)
     \/ \E i \in 1..count : Nibble(bytes, i) \notin {0, 1}
    THEN Malformed
    ELSE [i \in 1..count |-> Nibble(bytes, i) = 1]

DeviceCode ==
  [M |-> 144, X |-> 156, D |-> 168, W |-> 180, G |-> 171,
   LTN |-> 82, LTC |-> 80, LTS |-> 81, LCN |-> 86, LCS |-> 85, LZ |-> 98,
   S |-> 152, R |-> 175]
BitCodes == {"M", "X", "S", "LTC", "LTS", "LCS"}

DeviceSpec(ref, series) ==
  LE(ref.number, IF series = "ql" THEN 3 ELSE 4)
    \o LE(DeviceCode[ref.code], IF series = "ql" THEN 1 ELSE 2)

SpecSize(series) == IF series = "ql" THEN 4 ELSE 6

(* An Extended Device names a network (J), a module or a CPU buffer (U),   *)
(* or nothing; every entry ends in its direct memory.                      *)
LinkDirect == 249
Normal == [spec |-> 0, memory |-> 0, index |-> 0, flags |-> 0]

ExtSpec(ref, ext, series) ==
  IF ext.memory = LinkDirect
    THEN Zeros(2) \o DeviceSpec(ref, "ql") \o Zeros(2)
           \o <<ext.spec % 256, 0, LinkDirect>>
    ELSE <<ext.index, ext.flags>> \o DeviceSpec(ref, series) \o Zeros(2)
           \o LE(ext.spec, 2) \o <<ext.memory>>

(* What the builders reserve for an entry before they fill it in.          *)
ExtSpecSize(ext, series) ==
  IF ext.memory = LinkDirect THEN 11 ELSE 2 + SpecSize(series) + 4 + 1

Subcommand(bitUnit, series, ext) ==
  (IF ext THEN 128 ELSE 0) + (IF series = "ql" THEN 0 ELSE 2) + Bit(bitUnit)

Header(serial, frame, subheader) ==
  <<subheader, 0>> \o (IF frame = "4E" THEN LE(serial, 2) \o Zeros(2)
                                       ELSE <<>>)
HeaderSize(frame) == IF frame = "4E" THEN 6 ELSE 2

Route(target) == <<target.network, target.station>>
                   \o LE(target.moduleIo, 2) \o <<target.multidrop>>

EncodeRequest(frame, serial, target, timer, command, subcommand, data) ==
  Header(serial, frame, IF frame = "4E" THEN 84 ELSE 80)
    \o Route(target) \o LE(6 + Len(data), 2) \o LE(timer, 2)
    \o LE(command, 2) \o LE(subcommand, 2) \o data

(* Mutant: a frame may be longer than its length field says. *)
DecodeResponse_Trailing(bytes, frame) ==
  LET h == HeaderSize(frame)
      length == Number(Slice(bytes, h + 5, 2)) IN
  IF Len(bytes) < h + 9 \/ length < 2 THEN Malformed
  ELSE [serial |-> IF frame = "4E" THEN Number(Slice(bytes, 2, 2)) ELSE 0,
        route |-> Slice(bytes, h, 5),
        endCode |-> Number(Slice(bytes, h + 7, 2)),
        data |-> Slice(bytes, h + 9, Len(bytes) - h - 9)]

DecodeResponse(bytes, frame) ==
  LET h == HeaderSize(frame) IN
  IF Len(bytes) < h + 9 THEN Malformed
  ELSE
    LET length == Number(Slice(bytes, h + 5, 2)) IN
    IF \/ Slice(bytes, 0, 2) # <<IF frame = "4E" THEN 212 ELSE 208, 0>>
       \/ frame = "4E" /\ Slice(bytes, 4, 2) # Zeros(2)
       \/ Len(bytes) # h + 7 + length
       \/ length < 2
      THEN Malformed
      ELSE [serial |-> IF frame = "4E" THEN Number(Slice(bytes, 2, 2)) ELSE 0,
            route |-> Slice(bytes, h, 5),
            endCode |-> Number(Slice(bytes, h + 7, 2)),
            data |-> Slice(bytes, h + 9, length - 2)]
==============================================================================
