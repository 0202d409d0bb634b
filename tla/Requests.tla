------------------------------ MODULE Requests -------------------------------
(***************************************************************************)
(* The requests of src/slmp/_operations.py: what each builder refuses and  *)
(* the command, subcommand and payload it makes of what it accepts, and    *)
(* the values each decoder takes from the data of an answer.  A device d   *)
(* is a code, a number and the Extended Device specification d.ext, Normal *)
(* when there is none; an item of a write adds the value.                  *)
(***************************************************************************)
EXTENDS Wire, Profiles

CONSTANT Refused   (* an error raised before anything is sent              *)

LongStates == {"LTC", "LTS"}
LongBlocks == {"LTN"}            (* four words a timer: value, state, spare *)
LongCurrents == LongBlocks \union {"LCN"}
CounterStates == {"LCS"}
DwordOnly == {"LZ"}
ModuleMemory == {"G"}            (* reached through a module only          *)
WideDwords == LongCurrents \union DwordOnly

IsBit(d) == d.code \in BitCodes
IsLink(d) == d.ext.memory = LinkDirect

Build(ok, command, subcommand, payload) ==
  IF ok THEN [command |-> command, subcommand |-> subcommand,
              payload |-> payload]
        ELSE Refused

(* Device numbers a request touches, and the numbers its field can hold;   *)
(* the 32-bit limit of iQ-R is beyond every number that is tried.          *)
WordSpan(d, points) ==
  IF d.code \in LongBlocks THEN (points + 3) \div 4
  ELSE IF IsBit(d) THEN 16 * points ELSE points

DirectSpan(d, points, bit) == IF bit THEN points ELSE WordSpan(d, points)

RandomSpan(d, dword) ==
  IF dword /\ d.code \in WideDwords THEN 1
  ELSE (IF dword THEN 2 ELSE 1) * (IF IsBit(d) THEN 16 ELSE 1)

SpanFits(d, points, series) ==
  series = "ql" => d.number + points - 1 <= 16777215

EntrySeries(p, d) == IF IsLink(d) THEN "ql" ELSE Series(p)

DirectReadable(d, points, bit) ==
  /\ bit => IsBit(d) /\ d.code \notin LongStates
  /\ ~bit /\ d.code \in LongBlocks => points % 4 = 0
  /\ ~bit => d.code \notin {"LCN", "LZ"}

DirectWritable(p, d, bit) ==
  /\ bit => IsBit(d) /\ d.code \notin LongStates \union CounterStates
  /\ ~IsReadOnly(p, d.code)
  /\ ~bit => d.code \notin WideDwords

RandomReadable(words, dwords) ==
  /\ \A d \in words \union dwords :
       d.code \notin LongStates \union CounterStates
  /\ \A d \in words : d.code \notin WideDwords

(* The keys of the result, one for every entry.                            *)
KeysDiffer(words, dwords) == IsInjective(words \o dwords)

Slots(d, span) ==
  {<<d.ext, d.code, n>> : n \in d.number..(d.number + span - 1)}

Disjoint(areas) ==
  \A i, j \in DOMAIN areas : i # j => areas[i] \intersect areas[j] = {}

(* Mutant: only the first numbers of two destinations are compared. *)
RandomWritable_Starts(p, words, dwords) ==
  /\ \A i \in DOMAIN words :
       /\ ~IsReadOnly(p, words[i].at.code)
       /\ words[i].at.code \notin WideDwords
  /\ \A i \in DOMAIN dwords : ~IsReadOnly(p, dwords[i].at.code)
  /\ IsInjective([i \in DOMAIN (words \o dwords) |->
                    (words \o dwords)[i].at])

RandomWritable(p, words, dwords) ==
  /\ \A i \in DOMAIN words :
       /\ ~IsReadOnly(p, words[i].at.code)
       /\ words[i].at.code \notin WideDwords
  /\ \A i \in DOMAIN dwords : ~IsReadOnly(p, dwords[i].at.code)
  /\ Disjoint([i \in DOMAIN words |->
                 Slots(words[i].at, RandomSpan(words[i].at, FALSE))]
              \o [i \in DOMAIN dwords |->
                    Slots(dwords[i].at, RandomSpan(dwords[i].at, TRUE))])

BitsWritable(p, items) ==
  /\ \A i \in DOMAIN items :
       /\ IsBit(items[i].at)
       /\ ~IsReadOnly(p, items[i].at.code)
  /\ IsInjective([i \in DOMAIN items |-> items[i].at])

BlockReadable(words, bits) ==
  /\ \A b \in words : ~IsBit(b.at) /\ b.at.code \notin {"LCN", "LZ"}
  /\ \A b \in words : b.at.code \in LongBlocks => b.points % 4 = 0
  /\ \A b \in bits : IsBit(b.at) /\ b.at.code \notin CounterStates

BlockWritable(p, words, bits) ==
  /\ \A b \in words : ~IsBit(b.at) /\ b.at.code \notin WideDwords
  /\ \A b \in bits : IsBit(b.at) /\ b.at.code \notin CounterStates
  /\ \A b \in words \union bits : ~IsReadOnly(p, b.at.code)

BlockRangesOk(words, bits) ==
  Disjoint([i \in DOMAIN words |-> Slots(words[i].at, Len(words[i].values))]
           \o [i \in DOMAIN bits |->
                 Slots(bits[i].at, 16 * Len(bits[i].values))])
------------------------------------------------------------------------------
(* Extended Device requests: the feature an entry needs, and the layout of *)
(* the whole request, which link-direct entries narrow to that of Q/L.     *)
Qualified(p, d) ==
  /\ Supported(p, d.code)
  /\ IF d.code \in ModuleMemory
       THEN d.ext.memory = 248 /\ Allowed(p, "module")
       ELSE IF IsLink(d) THEN Allowed(p, "linkDirect") ELSE d.ext.memory = 0

ExtSeries(p, ds) == IF \E d \in ds : IsLink(d) THEN "ql" ELSE Series(p)
OneLayout(p, ds) ==
  Series(p) = "iqr" => \A d, e \in ds : IsLink(d) <=> IsLink(e)

Plain(p, ds) ==
  \A d \in ds : /\ Supported(p, d.code)
               /\ d.code \notin ModuleMemory /\ d.ext = Normal
ExtOk(p, ds) == (\A d \in ds : Qualified(p, d)) /\ OneLayout(p, ds)

Specs(ds, series) ==
  FlattenSeq([i \in DOMAIN ds |-> DeviceSpec(ds[i], series)])
ExtSpecs(p, ds) ==
  FlattenSeq([i \in DOMAIN ds |-> ExtSpec(ds[i], ds[i].ext, Series(p))])

SpansFit(p, ds, dword, ext) ==
  \A d \in ds : SpanFits(d, RandomSpan(d, dword),
                         IF ext THEN EntrySeries(p, d) ELSE Series(p))
Counts(a, b) == <<Len(a), Len(b)>>
------------------------------------------------------------------------------
ReadDevices(p, d, points, bit) ==
  Build(/\ DirectPointsOk(p, points, bit, FALSE)
        /\ DirectReadable(d, points, bit)
        /\ SpanFits(d, DirectSpan(d, points, bit), Series(p))
        /\ Plain(p, {d}),
        1025, Subcommand(bit, Series(p), FALSE),
        DeviceSpec(d, Series(p)) \o LE(points, 2))

WriteDevices(p, d, values, bit) ==
  Build(/\ DirectPointsOk(p, Len(values), bit, TRUE)
        /\ DirectWritable(p, d, bit)
        /\ SpanFits(d, DirectSpan(d, Len(values), bit), Series(p))
        /\ Plain(p, {d}),
        5121, Subcommand(bit, Series(p), FALSE),
        DeviceSpec(d, Series(p)) \o LE(Len(values), 2)
          \o (IF bit THEN PackBits(values) ELSE EncodeWords(values)))

ReadDwords(p, d, count) ==
  IF count < 1 \/ d.code \in WideDwords THEN Refused
  ELSE ReadDevices(p, d, 2 * count, FALSE)

WriteDwords(p, d, values) == WriteDevices(p, d, FlattenSeq(values), FALSE)

ReadDevicesExt(p, d, points, bit) ==
  LET series == EntrySeries(p, d) IN
  Build(/\ DirectPointsOk(p, points, bit, FALSE)
        /\ DirectReadable(d, points, bit)
        /\ Qualified(p, d)
        /\ SpanFits(d, DirectSpan(d, points, bit), series),
        1025, Subcommand(bit, series, TRUE),
        ExtSpec(d, d.ext, series) \o LE(points, 2))

WriteDevicesExt(p, d, values, bit) ==
  LET series == EntrySeries(p, d) IN
  Build(/\ DirectPointsOk(p, Len(values), bit, TRUE)
        /\ DirectWritable(p, d, bit)
        /\ Qualified(p, d)
        /\ SpanFits(d, DirectSpan(d, Len(values), bit), series),
        5121, Subcommand(bit, series, TRUE),
        ExtSpec(d, d.ext, series) \o LE(Len(values), 2)
          \o (IF bit THEN PackBits(values) ELSE EncodeWords(values)))

RegisterMonitor(p, words, dwords) ==
  Build(/\ Allowed(p, "monitor")
        /\ MonitorCountsOk(p, Len(words), Len(dwords), FALSE)
        /\ Plain(p, ToSet(words \o dwords))
        /\ \A d \in ToSet(words \o dwords) : d.code \notin CounterStates
        /\ SpansFit(p, ToSet(words), FALSE, FALSE)
        /\ SpansFit(p, ToSet(dwords), TRUE, FALSE),
        2049, Subcommand(FALSE, Series(p), FALSE),
        Counts(words, dwords) \o Specs(words \o dwords, Series(p)))

RegisterMonitorExt(p, words, dwords) ==
  LET ds == ToSet(words \o dwords) IN
  Build(/\ Allowed(p, "monitor")
        /\ MonitorCountsOk(p, Len(words), Len(dwords), TRUE)
        /\ ExtOk(p, ds)
        /\ \A d \in ds : d.code \notin CounterStates
        /\ SpansFit(p, ToSet(words), FALSE, TRUE)
        /\ SpansFit(p, ToSet(dwords), TRUE, TRUE),
        2049, Subcommand(FALSE, ExtSeries(p, ds), TRUE),
        Counts(words, dwords) \o ExtSpecs(p, words \o dwords))

RunMonitorCycle(p, words, dwords) ==
  Build(Allowed(p, "monitor") /\ MonitorCountsOk(p, words, dwords, FALSE),
        2050, 0, <<>>)

ReadRandom(p, words, dwords) ==
  Build(/\ ReadCountsOk(p, Len(words), Len(dwords), FALSE)
        /\ RandomReadable(ToSet(words), ToSet(dwords))
        /\ KeysDiffer(words, dwords)
        /\ Plain(p, ToSet(words \o dwords))
        /\ SpansFit(p, ToSet(words), FALSE, FALSE)
        /\ SpansFit(p, ToSet(dwords), TRUE, FALSE),
        1027, Subcommand(FALSE, Series(p), FALSE),
        Counts(words, dwords) \o Specs(words \o dwords, Series(p)))

(* Mutant: link-direct entries leave the layout of the request alone. *)
ReadRandomExt_Wide(p, words, dwords) ==
  LET ds == ToSet(words \o dwords) IN
  Build(/\ ReadCountsOk(p, Len(words), Len(dwords), TRUE)
        /\ \A d \in ds : Qualified(p, d)
        /\ RandomReadable(ToSet(words), ToSet(dwords)),
        1027, Subcommand(FALSE, Series(p), TRUE),
        Counts(words, dwords) \o ExtSpecs(p, words \o dwords))

ReadRandomExt(p, words, dwords) ==
  LET ds == ToSet(words \o dwords) IN
  Build(/\ ReadCountsOk(p, Len(words), Len(dwords), TRUE)
        /\ ExtOk(p, ds)
        /\ RandomReadable(ToSet(words), ToSet(dwords))
        /\ SpansFit(p, ToSet(words), FALSE, TRUE)
        /\ SpansFit(p, ToSet(dwords), TRUE, TRUE)
        /\ KeysDiffer(words, dwords),
        1027, Subcommand(FALSE, ExtSeries(p, ds), TRUE),
        Counts(words, dwords) \o ExtSpecs(p, words \o dwords))
------------------------------------------------------------------------------
WriteEntries(p, words, dwords, ext) ==
  LET Spec(d) == IF ext THEN ExtSpec(d, d.ext, Series(p))
                        ELSE DeviceSpec(d, Series(p)) IN
  FlattenSeq([i \in DOMAIN words |->
                Spec(words[i].at) \o LE(words[i].value, 2)])
    \o FlattenSeq([i \in DOMAIN dwords |->
                     Spec(dwords[i].at) \o EncodeDword(dwords[i].value)])

Ats(items) == {items[i].at : i \in DOMAIN items}

WriteRandomWords(p, words, dwords) ==
  Build(/\ WriteCountsOk(p, Len(words), Len(dwords), FALSE)
        /\ RandomWritable(p, words, dwords)
        /\ SpansFit(p, Ats(words), FALSE, FALSE)
        /\ SpansFit(p, Ats(dwords), TRUE, FALSE)
        /\ Plain(p, Ats(words \o dwords)),
        5122, Subcommand(FALSE, Series(p), FALSE),
        Counts(words, dwords)
          \o WriteEntries(p, words, dwords, FALSE))

WriteRandomWordsExt(p, words, dwords) ==
  LET ds == Ats(words \o dwords) IN
  Build(/\ WriteCountsOk(p, Len(words), Len(dwords), TRUE)
        /\ ExtOk(p, ds)
        /\ RandomWritable(p, words, dwords)
        /\ SpansFit(p, Ats(words), FALSE, TRUE)
        /\ SpansFit(p, Ats(dwords), TRUE, TRUE),
        5122, Subcommand(FALSE, ExtSeries(p, ds), TRUE),
        Counts(words, dwords)
          \o WriteEntries(p, words, dwords, TRUE))

State(value, wide) == <<Bit(value)>> \o (IF wide THEN <<0>> ELSE <<>>)

WriteRandomBits(p, items) ==
  Build(/\ BitCountOk(p, Len(items), FALSE)
        /\ BitsWritable(p, items)
        /\ \A d \in Ats(items) : SpanFits(d, 1, Series(p))
        /\ Plain(p, Ats(items)),
        5122, Subcommand(TRUE, Series(p), FALSE),
        <<Len(items)>>
          \o FlattenSeq([i \in DOMAIN items |->
                DeviceSpec(items[i].at, Series(p))
                  \o State(items[i].value, Series(p) = "iqr")]))

(* Nothing compares the numbers with the width of their field, which takes *)
(* their low bytes.                                                        *)
WriteRandomBitsExt(p, items) ==
  Build(/\ BitCountOk(p, Len(items), TRUE)
        /\ ExtOk(p, Ats(items))
        /\ BitsWritable(p, items)
        /\ \A d \in Ats(items) : d.code \notin ModuleMemory,
        5122, Subcommand(TRUE, ExtSeries(p, Ats(items)), TRUE),
        <<Len(items)>>
          \o FlattenSeq([i \in DOMAIN items |->
                ExtSpec(items[i].at, items[i].at.ext, Series(p))
                  \o State(items[i].value,
                           Series(p) = "iqr" /\ ~IsLink(items[i].at))]))

PointsOf(blocks) == FoldSeq(LAMBDA b, sum : sum + b.points, 0, blocks)
ValuesOf(blocks) == FoldSeq(LAMBDA b, sum : sum + Len(b.values), 0, blocks)

ReadBlock(p, words, bits) ==
  LET blocks == words \o bits IN
  Build(/\ Allowed(p, "block")
        /\ \A b \in ToSet(blocks) : b.points >= 1
        /\ BlocksOk(p, Len(blocks), PointsOf(blocks), FALSE)
        /\ Plain(p, Ats(blocks))
        /\ BlockReadable(ToSet(words), ToSet(bits))
        /\ \A b \in ToSet(words) :
             SpanFits(b.at, WordSpan(b.at, b.points), Series(p))
        /\ \A b \in ToSet(bits) : SpanFits(b.at, 16 * b.points, Series(p)),
        1030, Subcommand(FALSE, Series(p), FALSE),
        Counts(words, bits)
          \o FlattenSeq([i \in DOMAIN blocks |->
                DeviceSpec(blocks[i].at, Series(p))
                  \o LE(blocks[i].points, 2)]))

WriteBlock(p, words, bits) ==
  LET blocks == words \o bits IN
  Build(/\ Allowed(p, "block")
        /\ \A b \in ToSet(blocks) : b.values # <<>>
        /\ BlocksOk(p, Len(blocks), ValuesOf(blocks), TRUE)
        /\ Plain(p, Ats(blocks))
        /\ BlockWritable(p, ToSet(words), ToSet(bits))
        /\ \A b \in ToSet(words) :
             SpanFits(b.at, Len(b.values), Series(p))
        /\ \A b \in ToSet(bits) :
             SpanFits(b.at, 16 * Len(b.values), Series(p))
        /\ BlockRangesOk(words, bits),
        5126, Subcommand(FALSE, Series(p), FALSE),
        Counts(words, bits)
          \o FlattenSeq([i \in DOMAIN blocks |->
                DeviceSpec(blocks[i].at, Series(p))
                  \o LE(Len(blocks[i].values), 2)
                  \o EncodeWords(blocks[i].values)]))

LongTimer(p, code, head, points) ==
  ReadDevices(p, [code |-> code, number |-> head, ext |-> Normal],
              4 * points, FALSE)

ReadTypeName(p) == Build(Allowed(p, "typeName"), 257, 0, <<>>)
------------------------------------------------------------------------------
(* The decoders: a value, or Malformed.                                    *)
DecodeDirect(data, points, bit) ==
  IF bit THEN UnpackBits(data, points)
  ELSE IF Len(data) # 2 * points THEN Malformed ELSE DecodeWords(data)

PairUp(words) ==
  [i \in 1..(Len(words) \div 2) |-> <<words[2 * i - 1], words[2 * i]>>]

DecodeReadDwords(data, count) ==
  IF Len(data) # 4 * count THEN Malformed ELSE PairUp(DecodeWords(data))

DecodeRandom(data, words, dwords) ==
  IF Len(data) # 2 * words + 4 * dwords THEN Malformed
  ELSE [words |-> DecodeWords(Slice(data, 0, 2 * words)),
        dwords |-> DecodeDwords(Slice(data, 2 * words, 4 * dwords))]

DecodeMonitor(data, words, dwords) == DecodeRandom(data, words, dwords)

DecodeBlocks(data, blocks) ==
  IF Len(data) # 2 * PointsOf(blocks) THEN Malformed
  ELSE [i \in DOMAIN blocks |->
          DecodeWords(Slice(data, 2 * PointsOf(SubSeq(blocks, 1, i - 1)),
                            2 * blocks[i].points))]

(* The first words of a timer hold its value, the third its state.         *)
DecodeLongTimer(words, points) ==
  [i \in 1..points |->
     LET block == SubSeq(words, 4 * i - 3, 4 * i) IN
     [current |-> <<block[1], block[2]>>,
      contact |-> (block[3] \div 2) % 2 = 1,
      coil |-> block[3] % 2 = 1]]

(* Sixteen bytes of text and a model code, either of which may be missing. *)
DecodeTypeName(data) ==
  [model |-> IF Len(data) >= 16 THEN Slice(data, 0, 16) ELSE <<>>,
   code |-> IF Len(data) >= 18 THEN Number(Slice(data, 16, 2)) ELSE 0]
==============================================================================
