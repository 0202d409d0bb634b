----------------------------- MODULE Addresses -----------------------------
(***************************************************************************)
(* Texts of devices and addresses: parse_device() and DeviceRef.__str__()  *)
(* of core.py, parse_address(), format_address() and normalize_address()   *)
(* of utils.py.  Device codes are prefixes of each other, a hexadecimal    *)
(* number may begin with a letter, and the radix depends on the profile,   *)
(* so a device's text is a sequence of characters here.  What follows it   *)
(* is [mark, dtype, bit]; case and blanks are left out.                    *)
(***************************************************************************)
EXTENDS Integers, Sequences, SequencesExt

CONSTANTS
  Profiles,     (* families of PLC profiles                                *)
  Tails,        (* what may follow a device code in a text                 *)
  Endings       (* what may follow the device                              *)

ASSUME AddressesAssumption == Tails \subseteq Seq(STRING)

VARIABLES
  profile,
  given,        (* the text a caller passes                                *)
  place,        (* how far the calls have come                             *)
  parsed,       (* what parse_address() makes of it                        *)
  normalized,   (* what normalize_address() makes of it                    *)
  again         (* what parse_address() makes of parsed.text               *)

textVars == <<profile, given, place, parsed, normalized, again>>

Rejected == [refused |-> TRUE]
Accepted(x) == x # Rejected
------------------------------------------------------------------------------
(* The tables.                                                             *)
BitDevices ==
  {<<"S", "M">>, <<"X">>, <<"Y">>, <<"M">>, <<"L">>, <<"F">>, <<"V">>,
   <<"B">>, <<"S">>, <<"T", "S">>, <<"T", "C">>, <<"L", "T", "S">>,
   <<"L", "T", "C">>, <<"S", "T", "S">>, <<"S", "T", "C">>,
   <<"L", "S", "T", "S">>, <<"L", "S", "T", "C">>, <<"C", "S">>,
   <<"C", "C">>, <<"L", "C", "S">>, <<"L", "C", "C">>, <<"S", "B">>,
   <<"D", "X">>, <<"D", "Y">>}

WordDevices ==
  {<<"S", "D">>, <<"D">>, <<"W">>, <<"T", "N">>, <<"L", "T", "N">>,
   <<"S", "T", "N">>, <<"L", "S", "T", "N">>, <<"C", "N">>,
   <<"L", "C", "N">>, <<"S", "W">>, <<"Z">>, <<"L", "Z">>, <<"R">>,
   <<"Z", "R">>, <<"R", "D">>, <<"G">>, <<"H", "G">>}

Codes == BitDevices \cup WordDevices
HexDevices ==
  {<<"X">>, <<"Y">>, <<"B">>, <<"W">>, <<"S", "B">>, <<"S", "W">>,
   <<"D", "X">>, <<"D", "Y">>}

LongTimerCodes ==
  {<<"L", "T", "S">>, <<"L", "T", "C">>, <<"L", "T", "N">>,
   <<"L", "S", "T", "S">>, <<"L", "S", "T", "C">>, <<"L", "S", "T", "N">>}
LongCounterCodes == {<<"L", "C", "S">>, <<"L", "C", "C">>, <<"L", "C", "N">>}

Unsupported(p) ==
  CASE p = "iqf" -> LongTimerCodes \cup {<<"D", "X">>, <<"D", "Y">>, <<"V">>,
                                     <<"Z", "R">>, <<"R", "D">>}
    [] p = "qcpu" -> LongTimerCodes \cup LongCounterCodes
                       \cup {<<"L", "Z">>, <<"R", "D">>}
    [] OTHER -> {}

Radix(code, p) ==
  IF p = "iqf" /\ code \in {<<"X">>, <<"Y">>} THEN 8
  ELSE IF code \in HexDevices THEN 16 ELSE 10

Digits == <<"0", "1", "2", "3", "4", "5", "6", "7", "8", "9",
            "A", "B", "C", "D", "E", "F">>
DigitsOf(radix) == {Digits[i] : i \in 1 .. radix}
ValueOf(digit) == (CHOOSE i \in 1 .. 16 : Digits[i] = digit) - 1
------------------------------------------------------------------------------
(* parse_device()                                                          *)
(* _DEVICE_CODE_CANDIDATES, the longest first                               *)
CodeOf(text) ==
  CHOOSE c \in Codes :
    /\ IsPrefix(c, text)
    /\ \A o \in Codes : IsPrefix(o, text) => Len(o) <= Len(c)

(* int(num_txt, base)                                                      *)
Number(digits, radix) ==
  LET upTo[i \in 0 .. Len(digits)] ==
        IF i = 0 THEN 0 ELSE radix * upTo[i - 1] + ValueOf(digits[i])
  IN  upTo[Len(digits)]

(* The pattern of _split_device_text(), but for letters in the middle that *)
(* are no digits: those are refused below.                                 *)
WellFormed(text) ==
  /\ text # <<>> /\ text[1] \notin DigitsOf(10)
  /\ text[Len(text)] \in DigitsOf(16)

ParseDevice(text, p) ==
  IF ~WellFormed(text) \/ \A c \in Codes : ~IsPrefix(c, text) THEN Rejected
  ELSE LET code == CodeOf(text)
           digits == SubSeq(text, Len(code) + 1, Len(text))
           radix == Radix(code, p)
       IN  IF code \in Unsupported(p) \/ digits = <<>>
                \/ \E i \in DOMAIN digits :
                     digits[i] \notin DigitsOf(radix)
           THEN Rejected
           ELSE [code |-> code, number |-> Number(digits, radix)]

(* DeviceRef.__str__()                                                     *)
NumberText(n, radix) ==
  LET text[m \in 0 .. n] ==
        IF m < radix THEN <<Digits[m + 1]>>
        ELSE Append(text[m \div radix], Digits[(m % radix) + 1])
  IN  text[n]

(* Mutant: iQ-F X and Y are printed in hexadecimal.                        *)
Str_NoOctal(ref, p) ==
  ref.code \o NumberText(ref.number, Radix(ref.code, "iqr"))

Str(ref, p) == ref.code \o NumberText(ref.number, Radix(ref.code, p))
------------------------------------------------------------------------------
(* The AddressSpec functions.                                              *)
DtypeFits(ref, dtype) == (ref.code \in BitDevices) <=> (dtype = "BIT")

(* _parse_address(): a text needs a dtype or a bit                         *)
Complete(address) == address.suffix.mark # "none"

ParseAddress(address, p) ==
  LET ref == ParseDevice(address.device, p)
      suffix == address.suffix
  IN  IF ~Complete(address) \/ ref = Rejected
           \/ (suffix.mark = "." /\ ref.code \in BitDevices)
           \/ (suffix.mark = ":" /\ ~DtypeFits(ref, suffix.dtype))
      THEN Rejected
      ELSE [ref |-> ref, text |-> [device |-> Str(ref, p), suffix |-> suffix]]

(* format_address() of a parsed address                                    *)
FormatAddress(address, p) ==
  LET ref == ParseDevice(address.text.device, p)
  IN  IF ref = Rejected THEN Rejected
      ELSE [device |-> Str(ref, p), suffix |-> address.text.suffix]

(* normalize_address() looks at the dtype only: a bit of any device passes *)
NormalizeAddress(address, p) ==
  LET ref == ParseDevice(address.device, p)
      suffix == address.suffix
  IN  IF ~Complete(address) \/ ref = Rejected
           \/ (suffix.mark = ":" /\ ~DtypeFits(ref, suffix.dtype))
      THEN Rejected
      ELSE [device |-> Str(ref, p), suffix |-> suffix]
------------------------------------------------------------------------------
TextInit ==
  /\ profile \in Profiles
  /\ given \in [device : {c \o t : c \in Codes, t \in Tails},
                suffix : Endings]
  /\ place = "given"
  /\ parsed = Rejected /\ normalized = Rejected /\ again = Rejected

Parses ==
  /\ place = "given"
  /\ parsed' = ParseAddress(given, profile)
  /\ normalized' = NormalizeAddress(given, profile)
  /\ place' = IF Accepted(parsed') THEN "parsed" ELSE "refused"
  /\ UNCHANGED <<profile, given, again>>

ParsesAgain ==
  /\ place = "parsed"
  /\ again' = ParseAddress(parsed.text, profile)
  /\ place' = "again"
  /\ UNCHANGED <<profile, given, parsed, normalized>>

TextNext == Parses \/ ParsesAgain

TextSpec == TextInit /\ [][TextNext]_textVars
------------------------------------------------------------------------------
(* The text that parse_address() returns names the device it returns: read *)
(* or formatted again, by the rules of code prefixes and radixes, it is    *)
(* the same device and the same text.                                      *)
(* (core.py:380-395, :723-728, :145-152 and utils.py:771-780)              *)
RoundTrip ==
  place = "again" =>
    /\ again = parsed
    /\ FormatAddress(parsed, profile) = parsed.text

(* parse_address() and normalize_address() make one text of an address     *)
(* that parse_address() takes, and of one with a dtype they refuse the     *)
(* same.  (utils.py:726-755, :803-812)                                     *)
OneText ==
  /\ Accepted(parsed) => normalized = parsed.text
  /\ place = "refused" /\ given.suffix.mark # "." => normalized = Rejected

(* The text of an address names one device, and the functions of addresses *)
(* make one text of it: the two above.                                     *)
TextsAgree == RoundTrip /\ OneText
=============================================================================
