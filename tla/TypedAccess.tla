----------------------------- MODULE TypedAccess -----------------------------
(***************************************************************************)
(* The typed helpers of src/slmp/utils.py over the device methods of a     *)
(* client (Conversation): an address and a dtype choose the command that   *)
(* carries the value, and the value becomes words, a double word or a bit  *)
(* and back.  A value is [type, of]: of is a pair, of which a bool uses    *)
(* the first number, an int is of[1] + 65536 * of[2], and a float stands   *)
(* for the float32 with the words of.                                      *)
(***************************************************************************)
EXTENDS Conversation

VARIABLES
  typed,              (* the last helper call                              *)
  value,              (* the values it returned                            *)
  promised            (* what finished writes left in the cells, for those *)
                      (* whose content no failed write has made unknown    *)

typedVars == <<vars, typed, value, promised>>
------------------------------------------------------------------------------
DwordTypes == {"D", "L", "F"}

TimerRole == [LTN |-> "current", LTS |-> "contact", LTC |-> "coil"]
LongRole == [LCN |-> "current", LCS |-> "contact"] @@ TimerRole
DwordScalars == {"LCN", "LZ"}

DtypeFits(d, dtype) ==
  /\ IsBit(d) <=> dtype = "BIT"
  /\ d.code \in DOMAIN LongRole =>
       dtype \in (IF LongRole[d.code] = "current" THEN {"D", "L"}
                                                  ELSE {"BIT"})
------------------------------------------------------------------------------
(* Values and words.                                                       *)
Whole(lo, hi) == [type |-> "int", of |-> <<lo, hi>>]
Bool(b) == [type |-> "bool", of |-> <<Bit(b), 0>>]
Float(d) == [type |-> "float", of |-> d]
Truth(v) == v.of # <<0, 0>>

DecodeWordValue(word, dtype) ==
  Whole(word, IF dtype = "S" /\ word >= 32768 THEN -1 ELSE 0)

DecodeDwordValue(d, dtype) ==
  IF dtype = "F" THEN Float(d)
  ELSE Whole(d[1], IF dtype = "L" /\ d[2] >= 32768 THEN d[2] - 65536 ELSE d[2])

DecodeWordPair(words, dtype) ==
  DecodeDwordValue(<<words[1], words[2]>>, dtype)

IsU16(v) == v.type = "int" /\ v.of[2] = 0
IsS16(v) ==
  v.type = "int" /\ v.of[2] = (IF v.of[1] < 32768 THEN 0 ELSE -1)
IsU32(v) == v.type = "int" /\ v.of[2] \in 0..65535

EncodeWordValue(v, dtype) ==
  IF IF dtype = "S" THEN IsS16(v) ELSE IsU16(v) THEN v.of[1] ELSE Refused

EncodeInteger(v, dtype) ==
  IF IF dtype = "L" THEN v.type = "int" /\ v.of[2] \in -32768..32767
                    ELSE IsU32(v)
    THEN <<v.of[1], v.of[2] % 65536>> ELSE Refused

(* What is not finite is refused; an int given for a float is left out.    *)
EncodeFloat32(v) ==
  IF v.type = "float" /\ v.of[2] % 32768 < 32640 THEN v.of ELSE Refused

EncodeDwordValue(v, dtype) ==
  IF dtype = "F" THEN EncodeFloat32(v) ELSE EncodeInteger(v, dtype)

EncodeBool(v) == IF v.type = "bool" THEN Truth(v) ELSE Refused

Encode(v, dtype) ==
  IF dtype = "BIT" THEN EncodeBool(v)
  ELSE IF dtype \in DwordTypes THEN EncodeDwordValue(v, dtype)
  ELSE EncodeWordValue(v, dtype)
------------------------------------------------------------------------------
(* The device methods the helpers call.                                    *)
ReadUnits(d, points, bit) ==
  [op |-> "read", ext |-> FALSE, at |-> d, points |-> points, bit |-> bit]
WriteUnits(d, values, bit) ==
  [op |-> "write", ext |-> FALSE, at |-> d, values |-> values, bit |-> bit]
ReadDword(d) ==
  [op |-> "readRandom", ext |-> FALSE, words |-> <<>>, dwords |-> <<d>>]
WriteWords(words, dwords) ==
  [op |-> "writeRandom", ext |-> FALSE, words |-> words, dwords |-> dwords]
WriteBits(items) == [op |-> "writeBits", ext |-> FALSE, words |-> items]
TimerPoint(d) ==
  [op |-> "longTimer", at |-> [d EXCEPT !.code = "LTN"], points |-> 1]

ReadTyped(d, dtype) ==
  IF ~DtypeFits(d, dtype) THEN Refused
  ELSE IF d.code \in DOMAIN TimerRole THEN TimerPoint(d)
  ELSE IF dtype = "BIT" THEN ReadUnits(d, 1, TRUE)
  ELSE IF dtype \notin DwordTypes THEN ReadUnits(d, 1, FALSE)
  ELSE IF d.code \in DwordScalars THEN ReadDword(d)
  ELSE ReadUnits(d, 2, FALSE)

WriteTyped(d, dtype, v) ==
  LET encoded == Encode(v, dtype)
      item == [at |-> d, value |-> encoded] IN
  IF ~DtypeFits(d, dtype) \/ encoded = Refused THEN Refused
  ELSE IF d.code \in DOMAIN LongRole
    THEN IF LongRole[d.code] = "current" THEN WriteWords(<<>>, <<item>>)
                                         ELSE WriteBits(<<item>>)
  ELSE IF dtype \in DwordTypes
    THEN IF d.code \in DwordScalars THEN WriteWords(<<>>, <<item>>)
                                    ELSE WriteUnits(d, encoded, FALSE)
  ELSE WriteUnits(d, <<encoded>>, dtype = "BIT")

(* One request for all items, in the order the caller named them.          *)
WriteNamed(items) ==
  LET Of(dtypes) ==
        LET own == SelectSeq(items, LAMBDA i : i.dtype \in dtypes) IN
        [i \in DOMAIN own |->
           [at |-> own[i].at, value |-> Encode(own[i].value, own[i].dtype)]]
      bits == Of({"BIT"})
  IN
  IF \/ items = <<>>
     \/ \E i \in DOMAIN items :
          \/ items[i].dtype = "BIT_IN_WORD"
          \/ ~DtypeFits(items[i].at, items[i].dtype)
          \/ Encode(items[i].value, items[i].dtype) = Refused
     \/ bits # <<>> /\ Len(bits) < Len(items)
    THEN Refused
  ELSE IF bits # <<>> THEN WriteBits(bits)
  ELSE WriteWords(Of({"U", "S"}), Of(DwordTypes))

ReadManyBits(d, count) ==
  IF IsBit(d) THEN ReadUnits(d, count, TRUE) ELSE Refused

ReadManyWords(d, count) ==
  IF count \in 1..960 THEN ReadUnits(d, count, FALSE) ELSE Refused

ReadManyDwords(d, count) ==
  IF count \in 1..480 /\ d.code \notin WideDwords
    THEN ReadManyWords(d, 2 * count) ELSE Refused

WriteManyBits(d, values) ==
  IF IsBit(d)
    THEN WriteUnits(d, [i \in DOMAIN values |-> Truth(values[i])], TRUE)
    ELSE Refused

WriteManyWords(d, values) ==
  IF Len(values) \in 1..960 /\ \A i \in DOMAIN values : IsU16(values[i])
    THEN WriteUnits(d, [i \in DOMAIN values |-> values[i].of[1]], FALSE)
    ELSE Refused

WriteManyDwords(d, values) ==
  IF 2 * Len(values) \in 1..960 /\ \A i \in DOMAIN values : IsU32(values[i])
    THEN WriteUnits(d, FlattenSeq([i \in DOMAIN values |-> values[i].of]),
                    FALSE)
    ELSE Refused

RouteOf(t) ==
  CASE t.op = "readTyped" -> ReadTyped(t.at, t.dtype)
    [] t.op = "writeTyped" -> WriteTyped(t.at, t.dtype, t.values[1])
    [] t.op = "writeNamed" -> WriteNamed(t.items)
    [] t.op = "readMany" /\ t.dtype = "BIT" -> ReadManyBits(t.at, t.count)
    [] t.op = "readMany" /\ t.dtype = "U" -> ReadManyWords(t.at, t.count)
    [] t.op = "readMany" /\ t.dtype = "D" -> ReadManyDwords(t.at, t.count)
    [] t.op = "writeMany" /\ t.dtype = "BIT" -> WriteManyBits(t.at, t.values)
    [] t.op = "writeMany" /\ t.dtype = "U" -> WriteManyWords(t.at, t.values)
    [] t.op = "writeMany" /\ t.dtype = "D" -> WriteManyDwords(t.at, t.values)

(* Mutant: contact and coil are swapped. *)
LongValue_Swapped(d, dtype, point) ==
  IF TimerRole[d.code] = "current" THEN DecodeDwordValue(point.current, dtype)
  ELSE Bool(IF TimerRole[d.code] = "contact" THEN point.coil
                                             ELSE point.contact)

LongValue(d, dtype, point) ==
  IF TimerRole[d.code] = "current" THEN DecodeDwordValue(point.current, dtype)
  ELSE Bool(IF TimerRole[d.code] = "contact" THEN point.contact
                                             ELSE point.coil)

(* The value a read_typed() makes of what its device method returned.      *)
ConvertOne(d, dtype, r) ==
  IF d.code \in DOMAIN TimerRole THEN LongValue(d, dtype, r[1])
  ELSE IF dtype = "BIT" THEN Bool(r[1])
  ELSE IF dtype \notin DwordTypes THEN DecodeWordValue(r[1], dtype)
  ELSE IF d.code \in DwordScalars THEN DecodeDwordValue(r.dwords[1], dtype)
  ELSE DecodeWordPair(r, dtype)

ConvertMany(dtype, r) ==
  IF dtype = "BIT" THEN [i \in DOMAIN r |-> Bool(r[i])]
  ELSE IF dtype = "U" THEN [i \in DOMAIN r |-> Whole(r[i], 0)]
  ELSE [i \in DOMAIN PairUp(r) |-> Whole(PairUp(r)[i][1], PairUp(r)[i][2])]

Converted(t, r) ==
  IF r = Malformed THEN Malformed
  ELSE IF t.op = "readTyped" THEN <<ConvertOne(t.at, t.dtype, r)>>
  ELSE IF t.op = "readMany" THEN ConvertMany(t.dtype, r)
  ELSE Done
------------------------------------------------------------------------------
(* What a call means to its caller, whatever its route: each value at the  *)
(* place of its address.                                                   *)
Stride(d, dtype) == (IF dtype = "D" THEN 2 ELSE 1)
                      * (IF IsBit(d) /\ dtype # "BIT" THEN 16 ELSE 1)
Place(d, dtype, i) == [d EXCEPT !.number = @ + Stride(d, dtype) * (i - 1)]

Entries(t, values) ==
  IF t.op = "writeNamed" THEN t.items
  ELSE [i \in DOMAIN values |->
          [at |-> Place(t.at, t.dtype, i), dtype |-> t.dtype,
           value |-> values[i]]]

Pattern(item) ==
  LET words == <<item.value.of[1], item.value.of[2] % 65536>> IN
  IF item.dtype = "BIT"
    THEN Access(item.at, "bits", 1, <<item.value = Bool(TRUE)>>)
  ELSE IF item.dtype \in DwordTypes
    THEN Access(item.at, "dword", 1, words)
  ELSE Access(item.at, "words", 1, <<words[1]>>)

Image(t, values) ==
  FoldSeq(LAMBDA item, m : Effect(Pattern(item)) @@ m, <<>>,
          Entries(t, values))

IsTypedWrite(t) == t.op \in {"writeTyped", "writeNamed", "writeMany"}
Given(t) == IF t.op \in {"writeTyped", "writeMany"} THEN t.values ELSE <<>>

(* A bit for which the caller gave no bool.                                *)
Coerced(item) == item.dtype = "BIT" /\ item.value.type # "bool"
Coerces(t) == \E i \in DOMAIN Given(t) : Coerced(Entries(t, Given(t))[i])

(* The PLC refuses a write as a whole; any other failure may have left     *)
(* anything of it behind.  Nothing is expected of a value that should not  *)
(* have been taken.                                                        *)
Promises(t, r) ==
  IF ~IsTypedWrite(t) THEN promised
  ELSE LET image == Image(t, Given(t)) IN
       IF r = Done /\ ~Coerces(t) THEN image @@ promised
       ELSE IF fault = "refused" THEN promised
       ELSE Restrict(promised, DOMAIN promised \ DOMAIN image)
------------------------------------------------------------------------------
TypedCalls == Sessions[session].typed

TypedInit == Init /\ typed = Done /\ value = Done /\ promised = <<>>

(* Refused by the helper, or by the builder it hands the request to.       *)
RefusesTyped ==
  /\ Ready
  /\ \E t \in TypedCalls :
       /\ typed' = t
       /\ LET a == RouteOf(t) IN
          IF a = Refused THEN NotSent(Done) ELSE Refuse(a)
       /\ value' = Refused
       /\ UNCHANGED promised

SendsTyped ==
  /\ Ready
  /\ \E t \in TypedCalls :
       /\ typed' = t
       /\ LET a == RouteOf(t) IN a # Refused /\ Send(a)
       /\ UNCHANGED <<value, promised>>

AnswersTyped == PlcAnswers /\ UNCHANGED <<typed, value, promised>>

DecodesTyped ==
  /\ Decodes
  /\ value' = Converted(typed, result')
  /\ promised' = Promises(typed, result')
  /\ UNCHANGED typed

TypedNext == RefusesTyped \/ SendsTyped \/ AnswersTyped \/ DecodesTyped
TypedSpec == TypedInit /\ [][TypedNext]_typedVars
------------------------------------------------------------------------------
Returned ==
  typed # Done /\ phase = "done" /\ value \notin {Refused, Malformed}

(* A read returns what the last write of the same cells put there,         *)
(* whichever helpers, dtypes and commands the two used, and unless a write *)
(* in between failed: the routes and conversions of read_typed(),          *)
(* write_typed(), write_named() and the single-request helpers.  A write   *)
(* that made bits of values that are no bools promises nothing.            *)
ReadsBack ==
  Returned /\ ~IsTypedWrite(typed) =>
    LET image == Image(typed, value) IN
    \A cell \in DOMAIN image \intersect DOMAIN promised :
      image[cell] = promised[cell]

(* The documented promise: only a bool is written to a bit, and any other  *)
(* value is rejected before a request is made of it, by every helper.      *)
BitsComeFromBools ==
  phase = "sent" /\ typed # Done /\ IsTypedWrite(typed) =>
    \A item \in ToSet(Entries(typed, Given(typed))) : ~Coerced(item)

(* What a helper read can be written back to the same address with the     *)
(* same dtype, by itself and in a named write, unless the device is read-  *)
(* only or the value a float that is not finite; and what was written can  *)
(* be read: no address is served in one direction only.                    *)
Sendable(t) == RouteOf(t) # Refused /\ Call(RouteOf(t)) # Refused

ReadingBack(t) ==
  IF t.op = "writeMany"
    THEN {[op |-> "readMany", at |-> t.at, dtype |-> t.dtype,
           count |-> Len(t.values)]}
    ELSE {[op |-> "readTyped", at |-> item.at, dtype |-> item.dtype] :
            item \in ToSet(Entries(t, Given(t)))}

WritingBack(t) ==
  {[op |-> "writeTyped", at |-> t.at, dtype |-> t.dtype, values |-> value],
   [op |-> "writeNamed", items |-> Entries(t, value)]}

NoDeadEnds ==
  /\ Returned /\ typed.op = "readTyped" =>
       \/ IsReadOnly(p, typed.at.code)
       \/ typed.dtype = "F" /\ EncodeFloat32(value[1]) = Refused
       \/ \A t \in WritingBack(typed) : Sendable(t)
  /\ Returned /\ IsTypedWrite(typed) =>
       \A t \in ReadingBack(typed) : Sendable(t)
==============================================================================
