------------------------------ MODULE MCCalls --------------------------------
(***************************************************************************)
(* What callers ask for in MCRequests.                                     *)
(***************************************************************************)
EXTENDS TypedAccess, RequestLimits

(* Sizes beyond the largest limit of each command.                         *)
LargestSizes ==
  [c \in AllCommands |->
     IF c \in DirectCommands THEN 7170
     ELSE IF c \in BlockCommands THEN 1000 ELSE 257]
------------------------------------------------------------------------------
(* Calls of the device methods: each kind of device, at the edges of its   *)
(* field.                                                                  *)
At(code, number) == [code |-> code, number |-> number, ext |-> Normal]
Link(code, number) ==
  [At(code, number) EXCEPT !.ext.spec = 2, !.ext.memory = LinkDirect]
Module(number) ==
  [At("G", number) EXCEPT !.ext.spec = 259, !.ext.memory = 248]
Indexed(code, number) ==
  [At(code, number) EXCEPT !.ext.spec = 1, !.ext.index = 3, !.ext.flags = 64]
With(d, v) == [at |-> d, value |-> v]

Top == 16777215
OwnStation == [network |-> 0, station |-> 255, moduleIo |-> 1023,
               multidrop |-> 0]

Read(d, points, bit) == [op |-> "read", ext |-> d.ext # Normal, at |-> d,
                         points |-> points, bit |-> bit]
Write(d, values, bit) == [op |-> "write", ext |-> d.ext # Normal, at |-> d,
                          values |-> values, bit |-> bit]
Many(op, w, d) ==
  [op |-> op, words |-> w, dwords |-> d,
   ext |-> \E i \in DOMAIN (w \o d) :
             LET e == (w \o d)[i] IN
             (IF op = "writeRandom" THEN e.at.ext ELSE e.ext) # Normal]
Bits(items) == [op |-> "writeBits", words |-> items,
                ext |-> \E i \in DOMAIN items : items[i].at.ext # Normal]
Sized(op, d, points) == [op |-> op, at |-> d, points |-> points]
Span(d, points) == [at |-> d, points |-> points]
Fill(d, values) == [at |-> d, values |-> values]

DirectAsks ==
  {Read(d, n, bit) :
     d \in {At("D", 0), At("D", Top), At("D", 65536), At("M", 1),
            At("M", Top - 15), At("LTN", 2), At("LTC", 2), At("LCN", 1),
            At("G", 0), Link("W", 5), Link("X", Top), Module(7),
            Indexed("D", 300)},
     n \in {0, 1, 3, 4}, bit \in BOOLEAN}
  \union
  {Write(d, <<1, 65535>>, FALSE) :
     d \in {At("D", 0), At("D", Top), At("D", Top - 1), At("M", 16),
            At("LTN", 2), At("LZ", 0), Link("W", 5), Module(7),
            Indexed("D", 300)}}
  \union
  {Write(d, <<TRUE, FALSE, TRUE>>, TRUE) :
     d \in {At("M", 0), At("D", 0), At("S", 0), At("LCS", 0),
            At("X", Top), Link("X", Top - 2)}}
  \union
  {Sized("readDwords", At(code, 3), n) : code \in {"D", "LTN", "LCN"},
                                         n \in 0..2}
  \union {Sized("longTimer", At("LTN", 3), n) : n \in 0..2}
  \union
  {[op |-> "writeDwords", at |-> At(code, 1),
    values |-> <<<<1, 65535>>, <<258, 0>>>>] : code \in {"D", "LZ"}}
  \union {[op |-> "typeName"]}

WordLists == {<<>>, <<At("D", 3)>>, <<At("D", 3), At("M", 16)>>,
              <<At("D", 3), At("D", 3)>>, <<At("D", Top), At("W", 65536)>>,
              <<At("LTN", 0)>>, <<At("LCS", 0)>>, <<At("G", 1)>>,
              <<Link("W", 5), Link("W", Top)>>, <<Link("W", 5), Module(7)>>,
              <<Module(7), Indexed("D", 300)>>}
DwordLists == {<<>>, <<At("D", 4)>>, <<At("D", 3)>>,
               <<At("LZ", 0), At("LTN", 5)>>, <<At("D", Top)>>,
               <<Link("W", 9)>>, <<Module(9)>>}

RandomAsks ==
  {Many(op, w, d) : op \in {"readRandom", "monitor"},
                    w \in WordLists, d \in DwordLists}
  \union {[op |-> "cycle", words |-> a, dwords |-> b] : a, b \in 0..2}

(* Extended bits beyond a field of three bytes.                            *)
WideBits ==
  {Bits(<<With(Link("X", Top + 1), TRUE)>>),
   Bits(<<With(Link("X", Top), TRUE), With(Link("X", Top + 2), FALSE)>>),
   Bits(<<With(Indexed("M", Top + 1), TRUE)>>)}

RandomWrites ==
  {Many("writeRandom", w, d) :
     w \in {<<>>, <<With(At("D", 3), 258)>>,
            <<With(At("D", 3), 258), With(At("M", 16), 513)>>,
            <<With(At("D", 3), 258), With(At("D", 4), 7)>>,
            <<With(Link("W", 5), 258)>>, <<With(Module(7), 258)>>},
     d \in {<<>>, <<With(At("D", 4), <<1, 65535>>)>>,
            <<With(At("D", 2), <<1, 65535>>)>>,
            <<With(At("M", 0), <<1, 65535>>)>>,
            <<With(At("LZ", 0), <<1, 2>>), With(At("LZ", 1), <<3, 4>>)>>,
            <<With(Link("W", 9), <<1, 65535>>)>>,
            <<With(Module(8), <<1, 65535>>)>>}}
  \union
  {Bits(items) :
     items \in {<<With(At("M", 0), TRUE)>>,
                <<With(At("M", 0), TRUE), With(At("LTC", 1), FALSE)>>,
                <<With(At("M", 0), TRUE), With(At("M", 0), FALSE)>>,
                <<With(At("M", Top), TRUE)>>, <<With(At("M", Top + 1), TRUE)>>,
                <<With(At("D", 0), TRUE)>>, <<With(At("S", 0), TRUE)>>,
                <<With(Link("X", Top), TRUE), With(Link("X", 0), FALSE)>>,
                <<With(Indexed("M", 4), TRUE), With(Indexed("M", 5), TRUE)>>,
                <<With(Link("X", 0), TRUE), With(Indexed("M", 5), TRUE)>>}}
  \union WideBits

BlockAsks ==
  {[op |-> "readBlock", words |-> w, bits |-> b] :
     w \in {<<>>, <<Span(At("D", 0), 2)>>,
            <<Span(At("D", 0), 1), Span(At("LTN", 1), 4)>>,
            <<Span(At("LTN", 1), 3)>>, <<Span(At("M", 0), 1)>>},
     b \in {<<>>, <<Span(At("M", 0), 2)>>, <<Span(At("M", Top - 30), 2)>>,
            <<Span(At("M", 4), 1), Span(At("X", 65536), 1)>>}}
  \union
  {[op |-> "writeBlock", words |-> w, bits |-> b] :
     w \in {<<>>, <<Fill(At("D", 0), <<1, 65535>>)>>,
            <<Fill(At("D", 0), <<1, 2>>), Fill(At("D", 2), <<3>>)>>,
            <<Fill(At("D", 0), <<1, 2>>), Fill(At("D", 1), <<3>>)>>,
            <<Fill(At("LTN", 0), <<1, 2>>)>>},
     b \in {<<>>, <<Fill(At("M", 0), <<1, 65535>>)>>,
            <<Fill(At("M", 0), <<1>>), Fill(At("M", 15), <<2>>)>>,
            <<Fill(At("M", 0), <<1>>), Fill(At("M", 16), <<2>>)>>}}

AllAsks == DirectAsks \union RandomAsks \union RandomWrites \union BlockAsks

SequenceAsks ==
  {Write(At("D", 3), <<1, 65535>>, FALSE),
   Write(At("M", 17), <<TRUE, FALSE>>, TRUE),
   Many("writeRandom", <<With(At("M", 16), 513)>>,
        <<With(At("D", 4), <<7, 8>>)>>),
   Read(At("M", 16), 3, TRUE), Read(At("D", 3), 3, FALSE),
   Many("monitor", <<At("D", 3), At("M", 16)>>, <<At("D", 4)>>),
   Many("monitor", <<Link("W", 5)>>, <<>>),
   Many("monitor", <<>>, <<At("LTN", 2)>>),
   [op |-> "cycle", words |-> 2, dwords |-> 1],
   [op |-> "cycle", words |-> 1, dwords |-> 0],
   [op |-> "cycle", words |-> 0, dwords |-> 1]}
------------------------------------------------------------------------------
(* Calls of the typed helpers: every dtype at every kind of device, with   *)
(* values at the edges of the dtype, on cells that overlap.                *)
Reading(d, dtype) == [op |-> "readTyped", at |-> d, dtype |-> dtype]
Writing(d, dtype, v) ==
  [op |-> "writeTyped", at |-> d, dtype |-> dtype, values |-> <<v>>]
Naming(d, dtype, v) == [at |-> d, dtype |-> dtype, value |-> v]
Named(items) == [op |-> "writeNamed", items |-> items]

TypedDevices ==
  {At("D", 3), At("D", 4), At("M", 17), At("LTN", 1), At("LTC", 1),
   At("LTS", 1), At("LCN", 1), At("LCS", 1), At("LZ", 1)}
Edges == [BIT |-> {Bool(TRUE), Bool(FALSE), Whole(1, 0)},
          U |-> {Whole(65535, 0), Whole(0, 1)},
          S |-> {Whole(32768, -1), Whole(32767, 0), Whole(32768, 0)},
          D |-> {Whole(1, 65535), Whole(1, -1)},
          L |-> {Whole(65535, -32768), Whole(2, 32767), Whole(2, 32768)},
          F |-> {Float(<<1, 49000>>), Float(<<0, 32640>>)}]
OneCall(devices, dtypes) ==
  {Reading(d, dtype) : d \in devices, dtype \in dtypes}
  \union
  UNION {{Writing(d, dtype, v) : v \in Edges[dtype]} :
           d \in devices, dtype \in dtypes}

NamedBits == Named(<<Naming(At("M", 17), "BIT", Bool(TRUE)),
                     Naming(At("LTC", 1), "BIT", Bool(TRUE))>>)
NamedWords == Named(<<Naming(At("D", 4), "S", Whole(40000, -1)),
                      Naming(At("LZ", 1), "F", Float(<<7, 8>>)),
                      Naming(At("D", 5), "L", Whole(5, -2)),
                      Naming(At("D", 3), "U", Whole(9, 0))>>)
NamedCalls ==
  {NamedBits, NamedWords}
  \union
  {Named(items) :
     items \in
       {<<>>,
        <<Naming(At("D", 3), "D", Whole(9, 9)),
          Naming(At("D", 4), "U", Whole(9, 0))>>,
        <<Naming(At("M", 17), "BIT", Bool(TRUE)),
          Naming(At("D", 4), "U", Whole(9, 0))>>,
        <<Naming(At("D", 4), "BIT_IN_WORD", Bool(TRUE))>>}}

ManyCalls ==
  {[op |-> "readMany", at |-> d, dtype |-> dtype, count |-> n] :
     d \in {At("D", 3), At("M", 16)}, dtype \in {"BIT", "U", "D"},
     n \in {0, 2}}
  \union
  {[op |-> "writeMany", at |-> At("M", 16), dtype |-> "BIT", values |-> v] :
     v \in {<<>>, <<Bool(TRUE), Bool(FALSE)>>, <<Whole(3, 0)>>}}
  \union
  {[op |-> "writeMany", at |-> d, dtype |-> "U", values |-> v] :
     d \in {At("D", 3), At("M", 16)},
     v \in {<<Whole(513, 0), Whole(65535, 0)>>, <<Whole(0, 1)>>}}
  \union
  {[op |-> "writeMany", at |-> d, dtype |-> "D", values |-> v] :
     d \in {At("D", 3), At("M", 16), At("LZ", 1)},
     v \in {<<>>, <<Whole(513, 65535)>>, <<Whole(0, -1)>>}}

AllTyped ==
  OneCall(TypedDevices, DOMAIN Edges) \union NamedCalls \union ManyCalls

(* Calls that meet in the same cells.                                      *)
OverlapTyped ==
  {Reading(At("D", 4), "S"), Reading(At("D", 3), "L"),
   Reading(At("M", 17), "BIT"), Reading(At("LTC", 1), "BIT"),
   Writing(At("D", 4), "S", Whole(32768, -1)),
   Writing(At("D", 3), "F", Float(<<1, 49000>>)),
   Writing(At("LTC", 1), "BIT", Bool(FALSE)),
   [op |-> "writeMany", at |-> At("M", 16), dtype |-> "U",
    values |-> <<Whole(513, 0)>>],
   [op |-> "readMany", at |-> At("M", 16), dtype |-> "BIT", count |-> 2],
   [op |-> "readMany", at |-> At("D", 3), dtype |-> "D", count |-> 1]}
  \union {Reading(At("LTN", 1), "L"), Reading(At("LZ", 1), "D"),
          Writing(At("LTN", 1), "D", Whole(1, 65535)),
          NamedBits, NamedWords}
------------------------------------------------------------------------------
(* Label calls: names with and without references.                         *)
A == <<65>>                        (* A                                     *)
One == <<37, 49>>                  (* %1                                    *)
LabelNames ==
  {A, One, One \o <<46, 66>>, <<66>> \o One, <<37, 49, 50>>,
   <<37, 48, 49>>, <<37>>, <<37, 51>>, <<32>>, One \o <<37, 50>>}
Lists == {<<>>, <<A>>, <<<<67, 68>>, A>>, <<<<32>>>>}
Pairs(Point(_, _)) ==
  {<<Point(l, 1)>> : l \in LabelNames}
  \union {<<Point(l, 2), Point(A, 1)>> : l \in LabelNames} \union {<<>>}

Bare(l, n) == [label |-> l]
Extents == <<<<0, 17>>, <<1, 3>>, <<0, 1>>, <<1, 0>>, <<2, 1>>>>
Sizing(l, n) == [label |-> l, unit |-> Extents[n][1],
                length |-> Extents[n][2]]
Bytes(n) == [i \in 1..n |-> 200 + i]
Filled(l, n) == [label |-> l, unit |-> Extents[n][1],
                 length |-> Extents[n][2], data |-> Bytes(4)]
Raw(l, n) == [label |-> l, data |-> Bytes(n + 1)]
Even(l, n) == [label |-> l, data |-> Bytes(2 * n)]

Calling(op, lists, abbreviations) ==
  {[op |-> op, points |-> ps, abbreviations |-> as] :
     ps \in lists, as \in abbreviations}

AllLabelCalls ==
  Calling("arrayRead",
          Pairs(Sizing) \union {<<Sizing(A, n)>> : n \in DOMAIN Extents},
          Lists)
  \union Calling("arrayWrite",
           Pairs(Filled) \union {<<Filled(A, n)>> : n \in DOMAIN Extents},
           Lists)
  \union Calling("randomRead", Pairs(Bare), Lists)
  \union Calling("randomWrite", Pairs(Raw) \union Pairs(Even), Lists)

SomeLabelCalls ==
  Calling("arrayRead", {<<Sizing(A, 1)>>, <<Sizing(One, 3), Sizing(A, 2)>>},
          {<<A>>, <<<<67, 68>>, A>>})
  \union Calling("arrayWrite", {<<Filled(One, 2), Filled(A, 1)>>},
                 {<<A>>, <<<<67, 68>>, A>>})
  \union Calling("randomRead", {<<Bare(One, 1)>>}, {<<A>>, <<<<67, 68>>>>})
  \union Calling("randomWrite", {<<Even(One, 1), Even(A, 2)>>},
                 {<<A>>, <<<<67, 68>>>>})
==============================================================================
