---------------------------- MODULE RangeCatalog -----------------------------
(***************************************************************************)
(* The device range catalog of src/slmp/device_ranges.py: the rules of a   *)
(* profile, the window of SD registers they read, and the point counts the *)
(* catalog ends with.  The PLC keeps the size of each device where its     *)
(* manual lays it out; the search for the last ZR register is the subject  *)
(* of RangeProbe, and is here its result.                                  *)
(*                                                                         *)
(* Groups of devices with one size (TS, TC and TN) are one item; profiles  *)
(* with the same rules are one family.                                     *)
(***************************************************************************)
EXTENDS Integers, Sequences, Profiles

CONSTANTS
  Families,   (* the range profiles of the run                             *)
  Sizes,      (* sizes that the one varied item of a PLC takes             *)
  SearchLimit (* _MAX_RUNTIME_RANGE_PROBE_COUNT                            *)

VARIABLES
  own,        (* the profile of the client                                 *)
  requested,  (* the profile the catalog is asked for                      *)
  has,        (* the PLC: how many points it has of each item              *)
  stage,
  window,     (* the SD registers that were read                           *)
  catalog     (* the entries, by item                                      *)

catalogVars == <<own, requested, has, stage, window, catalog>>

None == -1
Capped(n, limit) == IF n < limit THEN n ELSE limit
------------------------------------------------------------------------------
(* The rules.                                                              *)
NoClip == 2147483647
Word(r) == [kind |-> "word", register |-> r, clip |-> NoClip]
Dword(r) == [kind |-> "dword", register |-> r, clip |-> NoClip]
Clipped(rule) == [rule EXCEPT !.clip = 32768]
Fixed(n) == [kind |-> "fixed", register |-> 0, clip |-> n]
Unsupported == [kind |-> "unsupported", register |-> 0, clip |-> 0]
Undefined == [kind |-> "undefined", register |-> 0, clip |-> 0]

IqrRules ==
  [X |-> Dword(260), Y |-> Dword(262), M |-> Dword(264), B |-> Dword(266),
   SB |-> Dword(268), F |-> Dword(270), V |-> Dword(272), L |-> Dword(274),
   S |-> Dword(276), D |-> Dword(280), W |-> Dword(282), SW |-> Dword(284),
   R |-> Clipped(Dword(306)), T |-> Dword(288), ST |-> Dword(290),
   C |-> Dword(292), LT |-> Dword(294), LST |-> Dword(296),
   LC |-> Dword(298), Z |-> Word(300), LZ |-> Word(302),
   ZR |-> Dword(306), RD |-> Dword(308), SM |-> Fixed(4096),
   SD |-> Fixed(4096)]
MxfRules == [IqrRules EXCEPT !["SM"] = Fixed(10000), !["SD"] = Fixed(10000)]
MxrRules == [IqrRules EXCEPT !["SM"] = Fixed(4496), !["SD"] = Fixed(4496)]

IqfRules ==
  [IqrRules EXCEPT !["V"] = Unsupported, !["R"] = Dword(304),
                   !["LT"] = Unsupported, !["LST"] = Unsupported,
                   !["ZR"] = Unsupported, !["RD"] = Unsupported,
                   !["SM"] = Fixed(10000), !["SD"] = Fixed(12000)]

QcpuRules ==
  [X |-> Word(290), Y |-> Word(291), M |-> Clipped(Word(292)),
   B |-> Clipped(Word(294)), SB |-> Word(296), F |-> Word(295),
   V |-> Word(297), L |-> Word(293), S |-> Word(298),
   D |-> Clipped(Word(302)), W |-> Clipped(Word(303)), SW |-> Word(304),
   R |-> Fixed(32768), T |-> Word(299), ST |-> Word(300), C |-> Word(301),
   LT |-> Unsupported, LST |-> Unsupported, LC |-> Unsupported,
   Z |-> Fixed(10), LZ |-> Unsupported, ZR |-> Undefined,
   RD |-> Unsupported, SM |-> Fixed(1024), SD |-> Fixed(1024)]

(* LCPU, QnU and QnUDV.                                                    *)
LcpuRules ==
  [QcpuRules EXCEPT !["M"] = Dword(286), !["B"] = Dword(288),
                    !["D"] = Dword(308), !["W"] = Dword(310),
                    !["R"] = Dword(306), !["ZR"] = Dword(306),
                    !["Z"] = Fixed(20), !["SM"] = Fixed(2048),
                    !["SD"] = Fixed(2048)]
Items == DOMAIN IqrRules

Family ==
  [iqr |-> [rules |-> IqrRules, start |-> 260, count |-> 50],
   mxf |-> [rules |-> MxfRules, start |-> 260, count |-> 50],
   mxr |-> [rules |-> MxrRules, start |-> 260, count |-> 50],
   iqf |-> [rules |-> IqfRules, start |-> 260, count |-> 46],
   qcpuUnit |-> [rules |-> QcpuRules, start |-> 290, count |-> 15],
   lcpu |-> [rules |-> LcpuRules, start |-> 286, count |-> 26],
   lcpuUnit |-> [rules |-> LcpuRules, start |-> 286, count |-> 26]]

(* The profile of the client that goes with it.                            *)
ClientProfile ==
  [iqr |-> "iqr", mxf |-> "iqr", mxr |-> "iqr", iqf |-> "iqf",
   qcpuUnit |-> "qcpuUnit", lcpu |-> "builtin", lcpuUnit |-> "unit"]
Probed == {"qcpuUnit", "lcpu", "lcpuUnit"}

(* No device of a PLC has 2^31 points, and the search goes past the first  *)
(* 32768 file registers, which R shows.                                    *)
ASSUME CatalogAssumption ==
  /\ Families \subseteq DOMAIN Family
  /\ \A n \in Sizes : n \in Nat /\ n <= NoClip
  /\ SearchLimit \in Nat /\ SearchLimit >= 32768

(* Names, notations and how the client reads an address.                   *)
Devices(item) ==
  CASE item = "T" -> {"TS", "TC", "TN"}
    [] item = "ST" -> {"STS", "STC", "STN"}
    [] item = "C" -> {"CS", "CC", "CN"}
    [] item = "LT" -> {"LTS", "LTC", "LTN"}
    [] item = "LST" -> {"LSTS", "LSTC", "LSTN"}
    [] item = "LC" -> {"LCS", "LCC", "LCN"}
    [] OTHER -> {item}
Hexadecimal == {"X", "Y", "B", "SB", "W", "SW", "DX", "DY"}
Octal(p) == IF p = "iqf" THEN {"X", "Y"} ELSE {}
Radix(p, device) ==
  IF device \in Octal(p) THEN 8 ELSE IF device \in Hexadecimal THEN 16 ELSE 10

RowNotation(item) ==
  IF item \in {"X", "Y", "B", "SB", "W", "SW"} THEN 16 ELSE 10

Notation(family, item) ==
  IF family = "iqf" /\ item \in {"X", "Y"} THEN 8 ELSE RowNotation(item)
------------------------------------------------------------------------------
(* The PLC.                                                                *)
Stray == 513           (* what a register that means something else holds *)
IqLayout ==
  <<"X", "Y", "M", "B", "SB", "F", "V", "L", "S", "-", "D", "W", "SW", "-",
    "T", "ST", "C", "LT", "LST", "LC", "Z", "LZ", "R", "ZR", "RD">>
QWords ==
  <<"X", "Y", "M", "L", "B", "F", "SB", "V", "S", "T", "ST", "C", "D", "W",
    "SW">>
QDwords == [r \in {286, 288, 306, 308, 310} |->
              CASE r = 286 -> "M" [] r = 288 -> "B" [] r = 306 -> "ZR"
                [] r = 308 -> "D" [] r = 310 -> "W"]
OneWord == {"Z", "LZ"}

Low(n) == n % 65536
High(n) == n \div 65536
Half(plc, item, second) ==
  IF item = "-" \/ (second /\ item \in OneWord) THEN Stray
  ELSE IF second THEN High(plc[item]) ELSE Low(plc[item])

SdWord(family, plc, r) ==
  IF family \in {"iqr", "mxf", "mxr", "iqf"}
    THEN Half(plc, IqLayout[(r - 260) \div 2 + 1], (r - 260) % 2 = 1)
  ELSE IF r \in 290..304 THEN Capped(plc[QWords[r - 289]], 65535)
  ELSE IF r - (r % 2) \in DOMAIN QDwords
         THEN Half(plc, QDwords[r - (r % 2)], r % 2 = 1)
  ELSE Stray

(* The file registers are counted at ZR, and R shows the first 32768 of    *)
(* them; the iQ-F has R alone.  A size kept in one word is no larger.      *)
OneWordItems(family) ==
  OneWord \union IF family \notin Probed THEN {}
                 ELSE Items \ (IF family = "qcpuUnit" THEN {"ZR", "R"}
                               ELSE {"M", "B", "D", "W", "ZR", "R"})
SizeOf(family, item, n) ==
  LET rule == Family[family].rules[item] IN
  IF rule.kind = "unsupported" THEN 0
  ELSE IF item = "Z" /\ family = "qcpuUnit"
         THEN IF n >= 16 THEN 16 ELSE 10
  ELSE IF rule.kind = "fixed" THEN rule.clip
  ELSE IF item \in OneWordItems(family) THEN Capped(n, 65535) ELSE n
Plc(family, item, n) ==
  LET sized == [i \in Items |->
                  SizeOf(family, i, IF i = item THEN n ELSE 70000)]
  IN IF family = "iqf" THEN sized
     ELSE [sized EXCEPT !["R"] = Capped(sized["ZR"], 32768)]
------------------------------------------------------------------------------
CatalogInit ==
  /\ own \in Families
  /\ requested \in Families
  /\ \E i \in Items, n \in Sizes : has = Plc(own, i, n)
  /\ stage = "called"
  /\ window = <<>>
  /\ catalog = <<>>

(* The client has another profile: nothing is sent. *)
Mismatch ==
  /\ stage = "called"
  /\ requested # own
  /\ stage' = "refused"
  /\ UNCHANGED <<own, requested, has, window, catalog>>

ReadsWindow ==
  /\ stage = "called"
  /\ requested = own
  /\ LET start == Family[requested].start IN
     window' = [r \in start..start + Family[requested].count - 1 |->
                  SdWord(own, has, r)]
  /\ stage' = "read"
  /\ UNCHANGED <<own, requested, has, catalog>>

Registers(rule) ==
  CASE rule.kind = "word" -> {rule.register}
    [] rule.kind = "dword" -> {rule.register, rule.register + 1}
    [] OTHER -> {}

(* Mutant: the register pair is taken with its high word first. *)
PointCount_HighFirst(rule, sd) ==
  CASE rule.kind = "word" -> Capped(sd[rule.register], rule.clip)
    [] rule.kind = "dword" ->
         Capped((sd[rule.register] % 32768) * 65536 + sd[rule.register + 1],
                 rule.clip)
    [] rule.kind = "fixed" -> rule.clip
    [] OTHER -> None

(* _evaluate_point_count() *)
PointCount(rule, sd) ==
  CASE rule.kind = "word" -> Capped(sd[rule.register], rule.clip)
    [] rule.kind = "dword" ->
         Capped(sd[rule.register] + sd[rule.register + 1] * 65536, rule.clip)
    [] rule.kind = "fixed" -> rule.clip
    [] OTHER -> None

Upper(count) == IF count <= 0 THEN None ELSE count - 1

BuildsCatalog ==
  /\ stage = "read"
  /\ LET rules == Family[requested].rules
         missing == {i \in Items :
                       ~(Registers(rules[i]) \subseteq DOMAIN window)}
     IN IF missing # {}
          THEN stage' = "missing" /\ UNCHANGED catalog
          ELSE /\ stage' = IF requested \in Probed THEN "built" ELSE "done"
               /\ catalog' =
                    [i \in Items |->
                       LET count == PointCount(rules[i], window) IN
                       [supported |-> rules[i].kind # "unsupported",
                        count |-> count, upper |-> Upper(count),
                        notation |-> Notation(requested, i)]]
  /\ UNCHANGED <<own, requested, has, window>>

Replaced(entry, count) ==
  [entry EXCEPT !.count = count, !.upper = Upper(count)]

(* The counts that are probed replace those of the window. *)
ResolvesLimits ==
  /\ stage = "built"
  /\ LET zrCount == Capped(has["ZR"], SearchLimit)
         z == IF requested # "qcpuUnit" THEN catalog
              ELSE [catalog EXCEPT
                      !["Z"] = Replaced(@, IF has["Z"] > 15 THEN 16 ELSE 10)]
     IN catalog' = [z EXCEPT !["ZR"] = Replaced(@, zrCount),
                             !["R"] = Replaced(@, Capped(zrCount, 32768))]
  /\ stage' = "done"
  /\ UNCHANGED <<own, requested, has, window>>

(* A request fails: the exception leaves the call. *)
RequestFails ==
  /\ stage \in {"called", "built"}
  /\ requested = own
  /\ stage' = "raised"
  /\ UNCHANGED <<own, requested, has, window, catalog>>

CatalogNext ==
  \/ Mismatch \/ ReadsWindow \/ BuildsCatalog \/ ResolvesLimits \/ RequestFails

CatalogSpec == CatalogInit /\ [][CatalogNext]_catalogVars
------------------------------------------------------------------------------
(* The clips of the tables, and the end of the search.                     *)
Ceiling(item) == IF item = "ZR" THEN SearchLimit ELSE 32768

(* What a catalog says of a device is so in this PLC: it counts no point   *)
(* the PLC does not have, and it stops short of one only at a limit of its *)
(* own.  Counts the PLC has are not left out, and the window of a profile  *)
(* holds every register its rules name.                                    *)
CatalogIsTrue ==
  /\ stage # "missing"
  /\ stage = "done" =>
       \A i \in Items :
         LET e == catalog[i] IN
         IF e.count = None THEN has[i] = 0
         ELSE /\ e.count <= has[i]
              /\ e.count < has[i] => e.count = Ceiling(i)

(* Every address a catalog lists is one the client of that profile takes:  *)
(* the device is one its requests allow, and the number is written in the  *)
(* base in which parse_device() reads it.  Devices the client refuses are  *)
(* the ones the catalog calls unsupported.                                 *)
AddressesUsable ==
  stage = "done" =>
    \A i \in Items : \A d \in Devices(i) :
      LET p == ClientProfile[own]  e == catalog[i] IN
      /\ e.supported <=> Supported(p, d)
      /\ e.upper # None => e.supported /\ e.notation = Radix(p, d)

(* What read_device_range_catalog_for_plc_profile() returns is so in the   *)
(* PLC, and the client takes every address it lists: the two above.        *)
CatalogHolds == CatalogIsTrue /\ AddressesUsable
==============================================================================
