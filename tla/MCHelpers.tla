------------------------------ MODULE MCHelpers ------------------------------
(***************************************************************************)
(* BitInWord, NamedRead, WriteProbes and Addresses for TLC: the helpers    *)
(* and the test tools, which share no state.  A behaviour is one of        *)
(* callers that update a word, one named read, one run of a tool, or one   *)
(* text that is parsed.                                                    *)
(***************************************************************************)
EXTENDS BitInWord, NamedRead, WriteProbes, Addresses

CONSTANTS c1, c2   (* two words of the PLC                                 *)

Address(code, number, dtype) ==
  [text |-> "", code |-> code, number |-> number, dtype |-> dtype, bit |-> 0]
BitIn(code, number, bit) ==
  [Address(code, number, "BIT_IN_WORD") EXCEPT !.bit = bit]
Respelt(a) == [a EXCEPT !.text = "lower"]

(* Every route of an address, and neighbours that share one.               *)
Readable ==
  {Address("D", 1, "U"), Address("D", 1, "S"), Respelt(Address("D", 1, "U")),
   Address("D", 2, "F"), Address("D", 1, "D"), BitIn("D", 1, 3),
   BitIn("D", 2, 3), Address("M", 17, "BIT"), Address("M", 16, "BIT"),
   Address("B", 17, "BIT"), Address("LCN", 1, "D")}
Others ==
  {Address("LTN", 1, "D"), Address("LCS", 1, "BIT"), Address("G", 0, "U"),
   Address("LZ", 0, "L"), BitIn("LCN", 1, 0), Address("D", 1, "BIT"),
   Address("M", 16, "U"), BitIn("M", 16, 1)}

AddressLists ==
  {<<>>} \union {<<a>> : a \in Readable \union Others}
    \union {<<a, b>> : a, b \in Readable \union Others}
    \union {<<a, b, c>> : a, b, c \in Readable}

(* Lists of one or two rows: spans of the probes that overlap, or labels.  *)
Words == {c1, c2}
RowsOf(rowKind) ==
  {[kind |-> rowKind, cells |-> cells] : cells \in {<<c1>>, <<c1, c2>>}}
AllRowLists ==
  UNION {RowsOf(k) \X RowsOf(k) : k \in {"span", "label"}}
    \union {<<r>> : r \in RowsOf("span") \union RowsOf("label")}

(* Texts of numbers, at the edges of the radixes, with leading zeros,      *)
(* digits of another radix and letters that extend a device code; and what *)
(* may follow a device in a text.                                          *)
NumberTexts ==
  {<<>>, <<"0">>, <<"7">>, <<"8">>, <<"9">>, <<"A">>, <<"C">>, <<"F">>,
   <<"1", "0">>, <<"0", "7">>, <<"1", "F">>, <<"B", "0">>, <<"D", "9">>,
   <<"7", "7">>, <<"9", "9">>, <<"1", "0", "0">>, <<"0", "A", "F">>,
   <<"X", "1">>, <<"S", "1">>, <<"R", "2">>, <<"Q">>}

AddressEnds ==
  {[mark |-> ":", dtype |-> d, bit |-> 0] : d \in {"U", "BIT", "F"}}
    \cup {[mark |-> ".", dtype |-> "BIT_IN_WORD", bit |-> b] : b \in {0, 15}}
    \cup {[mark |-> "none", dtype |-> "none", bit |-> 0]}

VARIABLE part   (* what a behaviour is about                               *)

NoUpdate == Init /\ orphans = "dropped"
NoRead ==
  /\ asked = <<>> /\ polling = FALSE /\ step = "refused"
  /\ entries = <<>> /\ words = <<>> /\ dwords = <<>>
  /\ version = 0 /\ answer = NoAnswer /\ result = <<>> /\ yields = 0
NoTool ==
  /\ rows = <<>> /\ mode = "restore" /\ phase = "read"
  /\ before = <<>> /\ test = <<>> /\ verdict = "none" /\ report = <<>>
  /\ nature = [c \in Cells |-> "plain"]
  /\ mem = [c \in Cells |-> 0] /\ origin = mem
  /\ overdue = {} /\ moved = {} /\ failed = FALSE
NoText ==
  /\ profile = "iqr" /\ place = "refused"
  /\ given = [device |-> <<>>, suffix |-> CHOOSE e \in AddressEnds : TRUE]
  /\ parsed = Rejected /\ normalized = Rejected /\ again = Rejected

HelpersInit ==
  \/ part = "update" /\ Init /\ NoRead /\ NoTool /\ NoText
  \/ part = "named" /\ ReadInit /\ NoUpdate /\ NoTool /\ NoText
  \/ part = "tool" /\ ToolInit /\ NoUpdate /\ NoRead /\ NoText
  \/ part = "text" /\ TextInit /\ NoUpdate /\ NoRead /\ NoTool
Updates ==
  part = "update" /\ Next /\ UNCHANGED <<part, readVars, toolVars, textVars>>
NamedReads ==
  part = "named" /\ ReadNext /\ UNCHANGED <<part, vars, toolVars, textVars>>
ToolRuns ==
  part = "tool" /\ ToolNext /\ UNCHANGED <<part, vars, readVars, textVars>>
Texts ==
  part = "text" /\ TextNext /\ UNCHANGED <<part, vars, readVars, toolVars>>
HelpersNext == Updates \/ NamedReads \/ ToolRuns \/ Texts
HelpersSpec ==
  HelpersInit
    /\ [][HelpersNext]_<<part, vars, readVars, toolVars, textVars>>
==============================================================================
