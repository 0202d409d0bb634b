---------------------------- MODULE Conversation -----------------------------
(***************************************************************************)
(* A caller of the client's device methods and a PLC: the arguments become *)
(* a frame (Requests), the PLC takes the frame apart and does what it      *)
(* says, and the client takes the values out of the answer.  The transport *)
(* is left out (SyncClient, AsyncClient); an answer may be damaged.        *)
(***************************************************************************)
EXTENDS Requests, TLC

CONSTANTS
  Sessions,       (* by name: the profiles of a connection, the calls a    *)
                  (* caller may make on it (asks, and those of the helpers *)
                  (* of TypedAccess), a bound on their number, and what    *)
                  (* may happen to an answer                               *)
  Target,         (* the SlmpTarget of the connection                      *)
  Done            (* the result of a write                                 *)

VARIABLES
  session,        (* the name of the session                               *)
  p,              (* the profile                                           *)
  asked, ask,     (* the number of calls, and the last one                 *)
  phase,          (* "idle", "sent", "answered" or "done"                  *)
  wire,           (* the frame under way                                   *)
  fault, result,
  memory,         (* the PLC's cells that were written                     *)
  monitored       (* the entries registered with the PLC's monitor         *)

vars ==
  <<session, p, asked, ask, phase, wire, fault, result, memory, monitored>>
------------------------------------------------------------------------------
(* An access is one thing a request reads or writes: "bits" or "words"     *)
(* from a device on, or the one "dword" at it.                             *)
Access(at, kind, count, values) ==
  [at |-> at, kind |-> kind, count |-> count, values |-> values]

Reads(words, dwords) ==
  [i \in DOMAIN words |-> Access(words[i], "words", 1, <<>>)]
    \o [i \in DOMAIN dwords |-> Access(dwords[i], "dword", 1, <<>>)]

Unit(bit) == IF bit THEN "bits" ELSE "words"

(* What a call means.                                                      *)
Meaning(a) ==
  CASE a.op = "read" -> <<Access(a.at, Unit(a.bit), a.points, <<>>)>>
    [] a.op = "write" ->
         <<Access(a.at, Unit(a.bit), Len(a.values), a.values)>>
    [] a.op = "readDwords" -> <<Access(a.at, "words", 2 * a.points, <<>>)>>
    [] a.op = "writeDwords" ->
         <<Access(a.at, "words", 2 * Len(a.values), FlattenSeq(a.values))>>
    [] a.op = "longTimer" -> <<Access(a.at, "words", 4 * a.points, <<>>)>>
    [] a.op \in {"readRandom", "monitor"} -> Reads(a.words, a.dwords)
    [] a.op = "cycle" -> monitored
    [] a.op = "writeRandom" ->
         [i \in DOMAIN a.words |->
            Access(a.words[i].at, "words", 1, <<a.words[i].value>>)]
           \o [i \in DOMAIN a.dwords |->
                 Access(a.dwords[i].at, "dword", 1, a.dwords[i].value)]
    [] a.op = "writeBits" ->
         [i \in DOMAIN a.words |->
            Access(a.words[i].at, "bits", 1, <<a.words[i].value>>)]
    [] a.op = "readBlock" ->
         LET blocks == a.words \o a.bits IN
         [i \in DOMAIN blocks |->
            Access(blocks[i].at, "words", blocks[i].points, <<>>)]
    [] a.op = "writeBlock" ->
         LET blocks == a.words \o a.bits IN
         [i \in DOMAIN blocks |->
            Access(blocks[i].at, "words", Len(blocks[i].values),
                   blocks[i].values)]
    [] OTHER -> <<>>

IsWrite(a) == a.op \in {"write", "writeDwords", "writeRandom", "writeBits",
                        "writeBlock"}
HasResult(a) == ~IsWrite(a) /\ a.op # "monitor"

(* The methods of the two clients, which hand their arguments to the same  *)
(* builders and decoders.                                                  *)
CallDirect(a) ==
  CASE a.op = "read" -> ReadDevices(p, a.at, a.points, a.bit)
    [] a.op = "write" -> WriteDevices(p, a.at, a.values, a.bit)
    [] a.op = "readDwords" -> ReadDwords(p, a.at, a.points)
    [] a.op = "writeDwords" -> WriteDwords(p, a.at, a.values)

CallDirectExt(a) ==
  IF a.op = "read" THEN ReadDevicesExt(p, a.at, a.points, a.bit)
                   ELSE WriteDevicesExt(p, a.at, a.values, a.bit)

CallRandom(a) ==
  CASE a.op = "readRandom" /\ ~a.ext -> ReadRandom(p, a.words, a.dwords)
    [] a.op = "readRandom" /\ a.ext -> ReadRandomExt(p, a.words, a.dwords)
    [] a.op = "writeRandom" /\ ~a.ext ->
         WriteRandomWords(p, a.words, a.dwords)
    [] a.op = "writeRandom" /\ a.ext ->
         WriteRandomWordsExt(p, a.words, a.dwords)

CallBits(a) == IF a.ext THEN WriteRandomBitsExt(p, a.words)
                        ELSE WriteRandomBits(p, a.words)

CallMonitor(a) ==
  CASE a.op = "cycle" -> RunMonitorCycle(p, a.words, a.dwords)
    [] a.op = "monitor" /\ ~a.ext -> RegisterMonitor(p, a.words, a.dwords)
    [] a.op = "monitor" /\ a.ext -> RegisterMonitorExt(p, a.words, a.dwords)

CallBlock(a) == IF a.op = "readBlock" THEN ReadBlock(p, a.words, a.bits)
                                      ELSE WriteBlock(p, a.words, a.bits)

DirectOps == {"read", "write", "readDwords", "writeDwords"}

Call(a) ==
  CASE a.op \in {"read", "write"} /\ a.ext -> CallDirectExt(a)
    [] a.op \in DirectOps /\ (a.op \in {"read", "write"} => ~a.ext) ->
         CallDirect(a)
    [] a.op \in {"readRandom", "writeRandom"} -> CallRandom(a)
    [] a.op = "writeBits" -> CallBits(a)
    [] a.op \in {"monitor", "cycle"} -> CallMonitor(a)
    [] a.op \in {"readBlock", "writeBlock"} -> CallBlock(a)
    [] a.op = "longTimer" -> LongTimer(p, a.at.code, a.at.number, a.points)
    [] a.op = "typeName" -> ReadTypeName(p)

ResultDirect(a, data) ==
  IF a.op = "read" THEN DecodeDirect(data, a.points, a.bit)
                   ELSE DecodeReadDwords(data, a.points)

ResultTimer(a, data) ==
  LET words == DecodeDirect(data, 4 * a.points, FALSE) IN
  IF words = Malformed THEN Malformed ELSE DecodeLongTimer(words, a.points)

ResultRandom(a, data) == DecodeRandom(data, Len(a.words), Len(a.dwords))
ResultCycle(a, data) == DecodeMonitor(data, a.words, a.dwords)
ResultBlock(a, data) == DecodeBlocks(data, a.words \o a.bits)

Decode(a, data) ==
  CASE a.op \in {"read", "readDwords"} -> ResultDirect(a, data)
    [] a.op = "longTimer" -> ResultTimer(a, data)
    [] a.op = "readRandom" -> ResultRandom(a, data)
    [] a.op = "cycle" -> ResultCycle(a, data)
    [] a.op = "readBlock" -> ResultBlock(a, data)
    [] a.op = "typeName" -> DecodeTypeName(data)
    [] OTHER -> Done
------------------------------------------------------------------------------
(* The PLC's memory: one bit, or as many words as a device has, to each    *)
(* number.                                                                 *)
WordsPer(code) == CASE code = "LTN" -> 4
                    [] code \in {"LCN", "LZ"} -> 2
                    [] OTHER -> 1
Cell(d, i) == <<d.code, d.ext, d.number * WordsPer(d.code) + i>>
Default(cell) == IF cell[1] \in BitCodes THEN cell[3] % 3 = 0
                 ELSE (77 * (cell[3] % 65537) + DeviceCode[cell[1]]) % 65536
Value(cell) == IF cell \in DOMAIN memory THEN memory[cell] ELSE Default(cell)

(* The third word of a long timer shows its coil and its contact.          *)
Status(cell) ==
  Bit(Value(<<"LTC", cell[2], cell[3] \div 4>>))
    + 2 * Bit(Value(<<"LTS", cell[2], cell[3] \div 4>>))

WordAt(d, i) ==
  IF IsBit(d)
    THEN FoldSeq(LAMBDA k, sum : sum + 2 ^ k * Bit(Value(Cell(d, 16 * i + k))),
                 0, [k \in 1..16 |-> k - 1])
  ELSE IF d.code = "LTN" /\ Cell(d, i)[3] % 4 = 2 THEN Status(Cell(d, i))
  ELSE Value(Cell(d, i))

Content(c) ==
  IF c.kind = "bits" THEN [i \in 1..c.count |-> Value(Cell(c.at, i - 1))]
  ELSE IF c.kind = "words" THEN [i \in 1..c.count |-> WordAt(c.at, i - 1)]
  ELSE <<WordAt(c.at, 0), WordAt(c.at, 1)>>

Effect(c) ==
  IF c.kind # "bits" /\ IsBit(c.at)
    THEN [cell \in {Cell(c.at, i) : i \in 0..(16 * Len(c.values) - 1)} |->
            LET i == cell[3] - c.at.number IN
            (c.values[1 + i \div 16] \div 2 ^ (i % 16)) % 2 = 1]
    ELSE [cell \in {Cell(c.at, i) : i \in 0..(Len(c.values) - 1)} |->
            c.values[1 + cell[3] - Cell(c.at, 0)[3]]]

(* The accesses of a request, in the layout its subcommand announces.      *)
CodeOf(n) == IF \E c \in DOMAIN DeviceCode : DeviceCode[c] = n
               THEN CHOOSE c \in DOMAIN DeviceCode : DeviceCode[c] = n
               ELSE "unknown"
Numeral(bytes) == FoldRight(LAMBDA byte, n : 256 * n + byte, bytes, 0)

Parse(command, subcommand, data) ==
  LET ext == subcommand >= 128
      ql == subcommand % 128 < 2
      bit == subcommand % 2 = 1
      spec == SpecSize(IF ql THEN "ql" ELSE "iqr") + IF ext THEN 7 ELSE 0
      number == IF ql THEN 3 ELSE 4
      U16(offset) == Numeral(Slice(data, offset, 2))
      Device(offset) ==
        LET at == offset + IF ext THEN 2 ELSE 0
            last == data[offset + spec]
            code == Numeral(Slice(data, at + number, IF ql THEN 1 ELSE 2)) IN
        [code |-> CodeOf(code), number |-> Numeral(Slice(data, at, number)),
         ext |-> IF ~ext THEN Normal
                 ELSE [index |-> data[offset + 1], flags |-> data[offset + 2],
                       spec |-> U16(offset + spec - 3), memory |-> last]]
      Words(offset, n) == [i \in 1..n |-> U16(offset + 2 * i - 2)]
      Size(n) == Len(data) = n
      Reading(a, b) == Reads([i \in 1..a |-> Device(2 + spec * (i - 1))],
                             [i \in 1..b |-> Device(2 + spec * (a + i - 1))])
  IN
  CASE command = 1025 /\ Size(spec + 2) ->
         <<Access(Device(0), Unit(bit), U16(spec), <<>>)>>
    [] command = 5121
         /\ Size(spec + 2 + IF bit THEN BitBytes(U16(spec))
                                   ELSE 2 * U16(spec)) ->
         <<Access(Device(0), Unit(bit), U16(spec),
                  IF bit THEN UnpackBits(SubSeq(data, spec + 3, Len(data)),
                                         U16(spec))
                         ELSE Words(spec + 2, U16(spec)))>>
    [] command \in {1027, 2049} /\ Size(2 + spec * (data[1] + data[2])) ->
         Reading(data[1], data[2])
    [] command = 2050 /\ Size(0) -> monitored
    [] command = 5122 /\ ~bit
         /\ Size(2 + (spec + 2) * data[1] + (spec + 4) * data[2]) ->
         [i \in 1..data[1] |->
            LET at == 2 + (spec + 2) * (i - 1) IN
            Access(Device(at), "words", 1, <<U16(at + spec)>>)]
           \o [i \in 1..data[2] |->
                 LET at == 2 + (spec + 2) * data[1] + (spec + 4) * (i - 1) IN
                 Access(Device(at), "dword", 1, Words(at + spec, 2))]
    [] command = 5122 /\ bit
         /\ Size(1 + (spec + IF ql THEN 1 ELSE 2) * data[1]) ->
         [i \in 1..data[1] |->
            LET at == 1 + (spec + IF ql THEN 1 ELSE 2) * (i - 1) IN
            Access(Device(at), "bits", 1, <<data[at + spec + 1] = 1>>)]
    [] command = 1030 /\ Size(2 + (spec + 2) * (data[1] + data[2])) ->
         [i \in 1..(data[1] + data[2]) |->
            LET at == 2 + (spec + 2) * (i - 1) IN
            Access(Device(at), "words", U16(at + spec), <<>>)]
    [] command = 5126 ->
         LET Block(s, i) ==
               LET n == IF s.at + spec + 2 > Len(data) THEN 0
                        ELSE U16(s.at + spec)
                   end == s.at + spec + 2 + 2 * n IN
               IF end > Len(data) THEN [s EXCEPT !.at = Len(data) + 1]
               ELSE [at |-> end,
                     out |-> Append(s.out, Access(Device(s.at), "words", n,
                                            Words(s.at + spec + 2, n)))]
             all == FoldLeft(Block, [at |-> 2, out |-> <<>>],
                             [i \in 1..(data[1] + data[2]) |-> i])
         IN IF all.at = Len(data) THEN all.out ELSE Malformed
    [] command = 257 /\ Size(0) -> <<>>
    [] OTHER -> Malformed

(* A PLC that has a type name of sixteen characters and a code.            *)
TypeName == [i \in 1..16 |-> 64 + i] \o <<1, 72>>

Answer(command, accesses) ==
  IF command = 257 THEN TypeName
  ELSE IF command \in {1025, 1027, 1030, 2050}
    THEN FlattenSeq([i \in DOMAIN accesses |->
           LET content == Content(accesses[i]) IN
           IF accesses[i].kind = "bits" THEN PackBits(content)
           ELSE EncodeWords(content)])
    ELSE <<>>

Response(data, endCode) ==
  Header(asked, Profile[p].frame, IF Profile[p].frame = "4E" THEN 212 ELSE 208)
    \o Route(Target) \o LE(2 + Len(data), 2) \o LE(endCode, 2) \o data

(* What arrives: the answer, one that says too much or too little, or a    *)
(* frame that lost or gained a byte or is no response at all.              *)
Arrives(f, data) ==
  LET frame == Response(data, 0) IN
  CASE f = "none" -> frame
    [] f = "short" -> Response(SubSeq(data, 1, Len(data) - 1), 0)
    [] f = "long" -> Response(Append(data, 0), 0)
    [] f = "cut" -> SubSeq(frame, 1, Len(frame) - 1)
    [] f = "extra" -> Append(frame, 0)
    [] f = "subheader" -> [frame EXCEPT ![1] = 80]
    [] f = "refused" -> Response(Route(Target) \o Zeros(4), 49233)
------------------------------------------------------------------------------
Asks == Sessions[session].asks
MaxAsks == Sessions[session].most
Faults == Sessions[session].faults

Init ==
  /\ session \in DOMAIN Sessions
  /\ p \in Sessions[session].profiles
  /\ asked = 0 /\ phase = "idle"
  /\ ask = Done /\ wire = <<>> /\ fault = "none" /\ result = Done
  /\ memory = <<>> /\ monitored = <<>>

(* A call builds its request first, and what is refused sends nothing.     *)
Ready == phase \in {"idle", "done"} /\ asked < MaxAsks

Start(a) ==
  /\ asked' = asked + 1
  /\ ask' = a
  /\ fault' = "none"

NotSent(a) ==
  /\ Start(a)
  /\ phase' = "done" /\ result' = Refused /\ wire' = <<>>
  /\ UNCHANGED <<session, p, memory, monitored>>

Refuse(a) == Call(a) = Refused /\ NotSent(a)

Send(a) ==
  /\ Start(a)
  /\ phase' = "sent"
  /\ LET r == Call(a) IN
       /\ r # Refused
       /\ wire' = EncodeRequest(Profile[p].frame, asked', Target, 16,
                                r.command, r.subcommand, r.payload)
  /\ UNCHANGED <<session, p, result, memory, monitored>>

Refuses == Ready /\ \E a \in Asks : Refuse(a)
Sends == Ready /\ \E a \in Asks : Send(a)

Understood ==
  LET h == HeaderSize(Profile[p].frame) IN
  IF Number(Slice(wire, h + 5, 2)) # Len(wire) - h - 7 THEN Malformed
  ELSE Parse(Number(Slice(wire, h + 9, 2)), Number(Slice(wire, h + 11, 2)),
             SubSeq(wire, h + 14, Len(wire)))

(* The PLC does what it understood, its writes in either order.            *)
PlcAnswers ==
  /\ phase = "sent"
  /\ phase' = "answered"
  /\ \E f \in Faults :
       /\ fault' = f
       /\ LET command == Number(Slice(wire, HeaderSize(Profile[p].frame) + 9,
                                      2))
              accesses == Understood
          IN IF accesses = Malformed \/ f = "refused"
             THEN /\ wire' = Arrives("refused", <<>>)
                  /\ UNCHANGED <<memory, monitored>>
             ELSE /\ f = "short" => Answer(command, accesses) # <<>>
                  /\ wire' = Arrives(f, Answer(command, accesses))
                  /\ monitored' = IF command = 2049 THEN accesses
                                                    ELSE monitored
                  /\ IF command < 5121 THEN UNCHANGED memory
                     ELSE \E order \in {accesses, Reverse(accesses)} :
                            memory' = FoldSeq(LAMBDA c, m : Effect(c) @@ m,
                                              memory, order)
  /\ UNCHANGED <<session, p, asked, ask, result>>

(* An end code is an error, the client's raise_on_error being on as it is  *)
(* by default.  A write wants no data.                                     *)
Decodes ==
  /\ phase = "answered"
  /\ phase' = "done"
  /\ result' =
       LET response == DecodeResponse(wire, Profile[p].frame) IN
       IF response = Malformed THEN Malformed
       ELSE IF response.endCode # 0 THEN Malformed
       ELSE IF ~HasResult(ask) /\ response.data # <<>>
         THEN Malformed
       ELSE Decode(ask, response.data)
  /\ UNCHANGED <<session, p, asked, ask, wire, fault, memory, monitored>>

Next == Refuses \/ Sends \/ PlcAnswers \/ Decodes
Spec == Init /\ [][Next]_vars
------------------------------------------------------------------------------
(* The one builder that does not compare device numbers with their field,  *)
(* WriteRandomBitsExt, takes some that it cuts off.                        *)
CutsOff(a) ==
  /\ a.op = "writeBits" /\ a.ext
  /\ \E d \in Ats(a.words) : ~SpanFits(d, 1, EntrySeries(p, d))

(* A frame the client sends says what the caller asked for: the PLC takes  *)
(* the devices, units, counts and values of the call out of it, in every   *)
(* layout the subcommand may announce (the builders of _operations.py).    *)
(* The exception are Extended Device bits of numbers beyond their field.   *)
PlcUnderstands ==
  phase = "sent" /\ ~CutsOff(ask) => Understood = Meaning(ask)

(* The documented promise, with no exception: an address that does not fit *)
(* its field is rejected and not cut, so that the devices in a frame are   *)
(* those of the call, for every builder of _operations.py.                 *)
AddressesAreNotCut == phase = "sent" => Ats(Understood) = Ats(Meaning(ask))

(* The values a caller gets are those of the devices it named, in its      *)
(* order (the decoders of _operations.py).                                 *)
TimerAt(d) == [current |-> <<WordAt(d, 0), WordAt(d, 1)>>,
               contact |-> (WordAt(d, 2) \div 2) % 2 = 1,
               coil |-> WordAt(d, 2) % 2 = 1]

Expected ==
  LET contents == [i \in DOMAIN Meaning(ask) |-> Content(Meaning(ask)[i])]
      First(n) == [i \in 1..n |-> contents[i][1]] IN
  CASE ask.op = "read" -> contents[1]
    [] ask.op = "readDwords" -> PairUp(contents[1])
    [] ask.op = "longTimer" ->
         [i \in 1..ask.points |->
            TimerAt([ask.at EXCEPT !.number = @ + i - 1])]
    [] ask.op = "readRandom" ->
         [words |-> First(Len(ask.words)),
          dwords |-> SubSeq(contents, Len(ask.words) + 1, Len(contents))]
    [] ask.op = "cycle" ->
         [words |-> First(ask.words),
          dwords |-> SubSeq(contents, ask.words + 1, Len(contents))]
    [] ask.op = "readBlock" -> contents
    [] ask.op = "typeName" -> DecodeTypeName(TypeName)

CycleAsRegistered ==
  ask.op = "cycle" =>
    /\ ask.words = Cardinality({i \in DOMAIN monitored :
                                  monitored[i].kind = "words"})
    /\ ask.dwords = Len(monitored) - ask.words

ReadsWhatIsThere ==
  phase = "done" /\ fault = "none" /\ result # Refused
    /\ HasResult(ask) /\ CycleAsRegistered
    => result = Expected

(* A damaged answer, and one with more or less data than was asked for, is *)
(* an error and never a value; only a type name may be shorter.            *)
NeverMisread ==
  phase = "done" /\ fault # "none"
    => \/ result = Malformed
       \/ ask.op = "typeName" /\ fault \in {"short", "long"}

(* Every value of a write that was done is where the caller wanted it,     *)
(* whatever the order in which the PLC stores them, and no other cell has  *)
(* changed; again, unless the call has Extended Device bits beyond their   *)
(* field.                                                                  *)
WritesOnlyWhatWasAsked ==
  [][phase = "sent" /\ fault' # "refused" /\ ~CutsOff(ask) =>
       LET own == IF IsWrite(ask) THEN Meaning(ask) ELSE <<>> IN
       /\ \A i \in DOMAIN own : \A cell \in DOMAIN Effect(own[i]) :
            Value(cell)' = Effect(own[i])[cell]
       /\ \A cell \in DOMAIN memory' :
            \/ \E i \in DOMAIN own : cell \in DOMAIN Effect(own[i])
            \/ Value(cell)' = Value(cell)]_vars
==============================================================================
