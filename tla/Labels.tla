------------------------------- MODULE Labels --------------------------------
(***************************************************************************)
(* The label requests of src/slmp/_operations.py: points named by labels,  *)
(* which may refer to the abbreviations sent along with them (%1 is the    *)
(* first), and a PLC that takes the names apart again.  A label is its     *)
(* UTF-16 code units.                                                      *)
(***************************************************************************)
EXTENDS Wire, TLC

CONSTANTS
  LabelSessions,  (* by name: the calls a caller may make, and a bound on  *)
                  (* their number                                          *)
  LabelFaults,    (* what may happen to an answer; "none" is nothing       *)
  PayloadMax,     (* the largest payload a request may have                *)
  LabelBytes,     (* the size of every label of the PLC                    *)
  Refused, Written

VARIABLES
  labelSession,   (* the name of the session                               *)
  calls, call,    (* the number of calls, and the last one                 *)
  stage,          (* "idle", "sent", "answered" or "done"                  *)
  payload, answer,
  damage, outcome,
  store           (* the labels of the PLC that were written               *)

vars ==
  <<labelSession, calls, call, stage, payload, answer, damage, outcome, store>>
------------------------------------------------------------------------------
Percent == 37
Blank == 32
IsDigit(unit) == unit \in 48..57

NameOk(label) ==
  /\ \E i \in DOMAIN label : label[i] # Blank
  /\ Len(label) <= 65535

(* The digits after a percent sign, as many as there are.                  *)
DigitsEnd(label, i) ==
  CHOOSE j \in i..Len(label) :
    /\ \A k \in (i + 1)..j : IsDigit(label[k])
    /\ j < Len(label) => ~IsDigit(label[j + 1])
Reference(label, i) ==
  FoldLeft(LAMBDA n, unit : 10 * n + (unit - 48), 0,
           SubSeq(label, i + 1, DigitsEnd(label, i)))

ReferencesOk(label, count) ==
  \A i \in DOMAIN label :
    label[i] = Percent => /\ DigitsEnd(label, i) > i
                          /\ Reference(label, i) \in 1..count

EncodeName(label) == LE(Len(label), 2) \o EncodeWords(label)

(* Bytes of an array on the wire: bits in words, bytes in pairs.           *)
WireBytes(unit, length) ==
  IF unit = 0 THEN 2 * ((length + 15) \div 16) ELSE 2 * ((length + 1) \div 2)

DataBytesOk(point) == point.unit \in {0, 1} /\ point.length \in 1..65535

Extent(point) == <<point.unit, 0>> \o LE(point.length, 2)

(* What every label request starts with, and the point of each kind.       *)
Payload(ok, points, abbreviations, entries) ==
  LET bytes == LE(Len(points), 2) \o LE(Len(abbreviations), 2)
                 \o FlattenSeq([i \in DOMAIN abbreviations |->
                                  EncodeName(abbreviations[i])])
                 \o FlattenSeq(entries)
      Named(p) == /\ NameOk(p.label)
                  /\ ReferencesOk(p.label, Len(abbreviations))
  IN
  IF /\ Len(points) \in 1..65535 /\ Len(abbreviations) <= 65535
     /\ \A i \in DOMAIN abbreviations : NameOk(abbreviations[i])
     /\ \A i \in DOMAIN points : Named(points[i])
     /\ ok
     /\ Len(bytes) <= PayloadMax
    THEN bytes ELSE Refused

ArrayRead(points, abbreviations) ==
  Payload(\A i \in DOMAIN points : DataBytesOk(points[i]),
          points, abbreviations,
          [i \in DOMAIN points |->
             EncodeName(points[i].label) \o Extent(points[i])])

ArrayWrite(points, abbreviations) ==
  Payload(\A i \in DOMAIN points :
            /\ DataBytesOk(points[i])
            /\ Len(points[i].data) = WireBytes(points[i].unit,
                                               points[i].length),
          points, abbreviations,
          [i \in DOMAIN points |->
             EncodeName(points[i].label) \o Extent(points[i])
               \o points[i].data])

RandomRead(points, abbreviations) ==
  Payload(TRUE, points, abbreviations,
          [i \in DOMAIN points |-> EncodeName(points[i].label)])

RandomWrite(points, abbreviations) ==
  Payload(\A i \in DOMAIN points : /\ Len(points[i].data) \in 1..65535
                                   /\ Len(points[i].data) % 2 = 0,
          points, abbreviations,
          [i \in DOMAIN points |->
             EncodeName(points[i].label) \o LE(Len(points[i].data), 2)
               \o points[i].data])

BuildLabels(c) ==
  CASE c.op = "arrayRead" -> ArrayRead(c.points, c.abbreviations)
    [] c.op = "arrayWrite" -> ArrayWrite(c.points, c.abbreviations)
    [] c.op = "randomRead" -> RandomRead(c.points, c.abbreviations)
    [] c.op = "randomWrite" -> RandomWrite(c.points, c.abbreviations)
------------------------------------------------------------------------------
SizeOf(meta) == Number(Slice(meta, 2, 2))

(* What follows the four bytes of metadata of a point in an answer.        *)
DataSize(meta, arrays) ==
  IF arrays THEN WireBytes(meta[2], SizeOf(meta)) ELSE SizeOf(meta)

MetaOk(meta, point, arrays) ==
  IF arrays THEN meta[2] = point.unit /\ SizeOf(meta) = point.length
            ELSE SizeOf(meta) # 0 /\ SizeOf(meta) % 2 = 0

(* The points of an answer, one after another.                             *)
ParsePoints(data, points, arrays) ==
  LET Point(s, point) ==
        IF s = Malformed \/ s.at + 4 > Len(data) THEN Malformed
        ELSE LET meta == Slice(data, s.at, 4)
                 end == s.at + 4 + DataSize(meta, arrays) IN
             IF ~MetaOk(meta, point, arrays) \/ end > Len(data)
               THEN Malformed
               ELSE [at |-> end,
                     out |-> Append(s.out,
                                    [type |-> meta[1],
                                     data |-> SubSeq(data, s.at + 5, end)])]
      all == FoldLeft(Point, [at |-> 2, out |-> <<>>], points)
  IN
  IF Len(data) < 2 \/ Number(data) # Len(points) THEN Malformed
  ELSE IF all = Malformed THEN Malformed
  ELSE IF all.at # Len(data) THEN Malformed ELSE all.out

ParseArrays(data, points) == ParsePoints(data, points, TRUE)
ParseRandom(data, points) == ParsePoints(data, points, FALSE)

DecodeLabels(c, data) ==
  IF c.op = "arrayRead" THEN ParseArrays(data, c.points)
  ELSE IF c.op = "randomRead" THEN ParseRandom(data, c.points)
  ELSE IF data # <<>> THEN Malformed ELSE Written
------------------------------------------------------------------------------
(* The PLC: it expands the references of a name, and keeps LabelBytes      *)
(* bytes for each label.                                                   *)
Expand(label, abbreviations) ==
  LET From[i \in 1..(Len(label) + 1)] ==
        IF i > Len(label) THEN <<>>
        ELSE IF label[i] = Percent
                  /\ Reference(label, i) \in DOMAIN abbreviations
          THEN abbreviations[Reference(label, i)]
                 \o From[DigitsEnd(label, i) + 1]
          ELSE <<label[i]>> \o From[i + 1]
  IN From[1]

Content(name) == IF name \in DOMAIN store THEN store[name]
                 ELSE [i \in 1..LabelBytes |-> (name[1] + i) % 256]

(* What a call is about, by the full names of its labels.                  *)
Meant(c) ==
  [i \in DOMAIN c.points |->
     [name |-> Expand(c.points[i].label, c.abbreviations),
      extent |-> IF c.op \in {"arrayRead", "arrayWrite"}
                   THEN <<c.points[i].unit, c.points[i].length>> ELSE <<>>,
      data |-> IF c.op \in {"arrayWrite", "randomWrite"}
                 THEN c.points[i].data ELSE <<>>]]

Byte(offset) == IF offset < Len(payload) THEN payload[offset + 1] ELSE 0
Numeral(offset) == Byte(offset) + 256 * Byte(offset + 1)
Part(offset, length) == [i \in 1..length |-> Byte(offset + i - 1)]

(* The point at s.at of a request, and where the next one starts.          *)
PointAt(op, s, abbreviations) ==
  LET fits == s.at + 2 + 2 * Numeral(s.at) <= Len(payload)
      chars == IF fits THEN Numeral(s.at) ELSE 0
      label == DecodeWords(Part(s.at + 2, 2 * chars))
      meta == s.at + 2 + 2 * chars
      head == CASE op \in {"arrayRead", "arrayWrite"} -> 4
                [] op = "randomWrite" -> 2
                [] OTHER -> 0
      bytes == CASE op = "arrayWrite" ->
                      WireBytes(Byte(meta), Numeral(meta + 2))
                 [] op = "randomWrite" -> Numeral(meta)
                 [] OTHER -> 0
      end == meta + head + bytes
  IN
  IF \/ ~fits \/ end > Len(payload)
     \/ \E i \in DOMAIN label :
          label[i] = Percent
            /\ Reference(label, i) \notin DOMAIN abbreviations
    THEN [at |-> Len(payload) + 1, out |-> <<>>]
  ELSE [at |-> end,
        out |-> Append(s.out,
                  [name |-> Expand(label, abbreviations),
                   extent |-> IF head = 4
                                THEN <<Byte(meta), Numeral(meta + 2)>>
                                ELSE <<>>,
                   data |-> Part(meta + head, bytes)])]

UnderstoodLabels ==
  LET names == FoldLeft(LAMBDA s, i :
                          [at |-> s.at + 2 + 2 * Numeral(s.at),
                           out |-> Append(s.out,
                             DecodeWords(Part(s.at + 2,
                                              2 * Numeral(s.at))))],
                        [at |-> 4, out |-> <<>>],
                        [i \in 1..Numeral(2) |-> i])
      points == FoldLeft(LAMBDA s, i :
                           IF s.at > Len(payload) THEN s
                           ELSE PointAt(call.op, s, names.out),
                         [at |-> names.at, out |-> <<>>],
                         [i \in 1..Numeral(0) |-> i])
  IN IF points.at = Len(payload) THEN points.out ELSE Malformed

Told(point) ==
  LET content == Content(point.name) IN
  IF point.extent = <<>>
    THEN <<7, 0>> \o LE(LabelBytes, 2) \o content
    ELSE <<7, point.extent[1]>> \o LE(point.extent[2], 2)
           \o SubSeq(content, 1, WireBytes(point.extent[1], point.extent[2]))

Stores(points) ==
  FoldLeft(LAMBDA m, point :
             (point.name :> point.data
                \o SubSeq(IF point.name \in DOMAIN m THEN m[point.name]
                          ELSE Content(point.name),
                          Len(point.data) + 1, LabelBytes)) @@ m,
           store, points)

Answers(points) == LE(Len(points), 2)
                     \o FlattenSeq([i \in DOMAIN points |-> Told(points[i])])

(* A count, a length or the number of bytes that is not the one asked for. *)
Damaged(f, data) ==
  CASE f = "none" -> data
    [] f = "short" -> SubSeq(data, 1, Len(data) - 1)
    [] f = "long" -> Append(data, 0)
    [] f = "count" -> [data EXCEPT ![1] = @ - 1]
    [] f = "extent" -> [data EXCEPT ![5] = @ + 1]
------------------------------------------------------------------------------
LabelCalls == LabelSessions[labelSession].calls
MaxCalls == LabelSessions[labelSession].most

Init ==
  /\ labelSession \in DOMAIN LabelSessions
  /\ calls = 0 /\ call = Written /\ stage = "idle"
  /\ payload = <<>> /\ answer = <<>>
  /\ damage = "none" /\ outcome = Written /\ store = <<>>

Calls(c) ==
  /\ stage \in {"idle", "done"}
  /\ calls < MaxCalls
  /\ calls' = calls + 1
  /\ call' = c
  /\ damage' = "none"

RefusesLabels ==
  \E c \in LabelCalls :
    /\ Calls(c)
    /\ BuildLabels(c) = Refused
    /\ stage' = "done" /\ outcome' = Refused
    /\ UNCHANGED <<labelSession, payload, answer, store>>

SendsLabels ==
  \E c \in LabelCalls :
    /\ Calls(c)
    /\ BuildLabels(c) # Refused
    /\ stage' = "sent"
    /\ payload' = BuildLabels(c)
    /\ UNCHANGED <<labelSession, answer, outcome, store>>

AnswersLabels ==
  /\ stage = "sent"
  /\ UnderstoodLabels # Malformed
  /\ stage' = "answered"
  /\ \E f \in LabelFaults :
       /\ damage' = f
       /\ IF call.op \in {"arrayRead", "randomRead"}
          THEN answer' = Damaged(f, Answers(UnderstoodLabels))
          ELSE /\ f \in {"none", "long"}
               /\ answer' = Damaged(f, <<>>)
  /\ store' = IF call.op \in {"arrayWrite", "randomWrite"}
                THEN Stores(UnderstoodLabels) ELSE store
  /\ UNCHANGED <<labelSession, calls, call, payload, outcome>>

DecodesLabels ==
  /\ stage = "answered"
  /\ stage' = "done"
  /\ outcome' = DecodeLabels(call, answer)
  /\ UNCHANGED <<labelSession, calls, call, payload, answer, damage, store>>

Next == RefusesLabels \/ SendsLabels \/ AnswersLabels \/ DecodesLabels
Spec == Init /\ [][Next]_vars
------------------------------------------------------------------------------
(* The PLC finds in a request the labels the caller named, references and  *)
(* all, with their extents and data, and never a reference it cannot       *)
(* expand (the builders of label payloads).                                *)
LabelsUnderstood == stage = "sent" => UnderstoodLabels = Meant(call)

(* The values of a label read are those of the labels that were named, and *)
(* as many of them; a damaged answer is an error (the parsers of label     *)
(* responses).                                                             *)
LabelValues ==
  stage = "done" /\ outcome # Refused =>
    IF damage # "none" THEN outcome = Malformed
    ELSE call.op \in {"arrayRead", "randomRead"} =>
           outcome = [i \in DOMAIN call.points |->
                        [type |-> 7,
                         data |-> LET told == Told(Meant(call)[i]) IN
                                  SubSeq(told, 5, Len(told))]]
==============================================================================
