------------------------------ MODULE NamedRead ------------------------------
(***************************************************************************)
(* A named read of src/slmp/utils.py: a list of addresses is compiled, one *)
(* after the other, into the two device lists of one random read, and each *)
(* value is later picked out of the answer by the index its address was    *)
(* given.  poll() compiles once and reads again and again.                 *)
(* Memory is abstract: a value is the token of what was read and of the    *)
(* version of the PLC's memory it was read from.                           *)
(***************************************************************************)
EXTENDS Integers, Sequences

CONSTANTS
  Lists,        (* the address lists a caller may pass                     *)
  RandomLimit,  (* the point limit of a random read                        *)
  MaxVersion,   (* bound: changes of the PLC's memory                      *)
  MaxYields     (* bound: reads of a poll                                  *)

(* An address has a device, a dtype, a bit, and a spelling: the result is  *)
(* keyed by the text, and texts may differ for one address.                *)
Dtypes == {"BIT", "U", "S", "D", "L", "F", "BIT_IN_WORD"}
Addresses ==
  [text : STRING, code : STRING, number : Nat, dtype : Dtypes, bit : Nat]

ASSUME NamedReadAssumption ==
  /\ Lists \subseteq Seq(Addresses)
  /\ RandomLimit \in Nat

BitCodes == {"M", "B", "LTC", "LCS"}
PlainBitCodes == {"M", "B"}
LongTimers == [LTN |-> "current", LTC |-> "coil", LCN |-> "current",
               LCS |-> "contact"]
WordDtypes == {"U", "S"}
DwordDtypes == {"D", "L", "F"}

Device(code, number) == [code |-> code, number |-> number]
DeviceOf(a) == Device(a.code, a.number)
IsBit(a) == a.code \in BitCodes
Batchable(a) == ~IsBit(a) /\ a.code # "G"

TypeFits(a) ==
  /\ a.dtype = "BIT_IN_WORD" => ~IsBit(a)
  /\ a.dtype # "BIT_IN_WORD" =>
       /\ IsBit(a) <=> a.dtype = "BIT"
       /\ a.code \in DOMAIN LongTimers =>
            IF LongTimers[a.code] = "current" THEN a.dtype \in {"D", "L"}
                                              ELSE a.dtype = "BIT"

Routable(a) == a.code \in DOMAIN LongTimers => a.code = "LCN"

(* Where an address is read from: a word, a double word, or not at all;    *)
(* a bit device is read as a bit of the word that starts at a multiple of  *)
(* sixteen.                                                                *)
Kind(a) ==
  IF a.code = "LCN" THEN "DWORD"
  ELSE IF a.dtype = "BIT" /\ a.code \in PlainBitCodes THEN "WORD"
  ELSE IF ~Batchable(a) THEN "none"
  ELSE IF a.dtype \in WordDtypes \union {"BIT_IN_WORD"} THEN "WORD"
  ELSE IF a.dtype \in DwordDtypes THEN "DWORD" ELSE "none"

Source(a) ==
  IF a.dtype = "BIT" /\ a.code \in PlainBitCodes
    THEN Device(a.code, a.number - (a.number % 16)) ELSE DeviceOf(a)

Entry(a, index) ==
  LET plainBit == a.dtype = "BIT" /\ a.code \in PlainBitCodes IN
  [address |-> a, kind |-> Kind(a), index |-> index,
   dtype |-> IF plainBit THEN "BIT_IN_WORD" ELSE a.dtype,
   bit |-> IF plainBit THEN a.number % 16 ELSE a.bit]

Listed(ds, d) == \E i \in DOMAIN ds : ds[i] = d
With(ds, d) == IF Listed(ds, d) THEN ds ELSE Append(ds, d)

(* Mutant: a device that is listed already gets the last index. *)
IndexIn_Last(ds, d) == Len(With(ds, d))

IndexIn(ds, d) == IF Listed(ds, d) THEN CHOOSE i \in DOMAIN ds : ds[i] = d
                                   ELSE Len(ds) + 1
------------------------------------------------------------------------------
VARIABLES
  asked,        (* the list                                                *)
  polling,      (* the call is a poll                                      *)
  step,           (* "compile", "prepare", "send", "sent", "answered",       *)
                (* "waits", "done" or "refused"                            *)
  entries, words, dwords,    (* the read plan                              *)
  version,      (* the version of the PLC's memory                         *)
  answer,       (* the word and double word values of the last answer      *)
  result, yields

readVars ==
  <<asked, polling, step, entries, words, dwords, version, answer, result,
    yields>>
plan == <<entries, words, dwords>>

NoAnswer == [words |-> <<>>, dwords |-> <<>>, version |-> 0]

ReadInit ==
  /\ asked \in Lists
  /\ polling \in BOOLEAN
  /\ step = IF asked = <<>> \/ \E i, j \in DOMAIN asked :
                               i # j /\ asked[i] = asked[j]
            THEN "refused" ELSE "compile"
  /\ entries = <<>> /\ words = <<>> /\ dwords = <<>>
  /\ version = 0 /\ answer = NoAnswer /\ result = <<>> /\ yields = 0

Current == asked[Len(entries) + 1]
Compiling == step = "compile" /\ Len(entries) < Len(asked)

Refuses == step' = "refused" /\ UNCHANGED plan

CompileRefused ==
  /\ Compiling
  /\ ~TypeFits(Current) \/ ~Routable(Current)
  /\ Refuses
  /\ UNCHANGED <<asked, polling, version, answer, result, yields>>

(* A bit of a long counter is listed twice: as a word, which no random     *)
(* read takes, and as a double word.                                       *)
CompileWord ==
  /\ Compiling
  /\ TypeFits(Current) /\ Routable(Current)
  /\ Kind(Current) = "WORD"
  /\ words' = With(words, Source(Current))
  /\ entries' = Append(entries,
                       Entry(Current, IndexIn(words, Source(Current))))
  /\ UNCHANGED <<asked, polling, step, dwords, version, answer, result,
                 yields>>

CompileDword ==
  /\ Compiling
  /\ TypeFits(Current) /\ Routable(Current)
  /\ Kind(Current) = "DWORD"
  /\ words' = IF Current.dtype = "BIT_IN_WORD"
                THEN With(words, Source(Current)) ELSE words
  /\ dwords' = With(dwords, Source(Current))
  /\ entries' = Append(entries,
                       Entry(Current, IndexIn(dwords, Source(Current))))
  /\ UNCHANGED <<asked, polling, step, version, answer, result, yields>>

CompileUnbatched ==
  /\ Compiling
  /\ TypeFits(Current) /\ Routable(Current)
  /\ Kind(Current) = "none"
  /\ entries' = Append(entries, Entry(Current, 0))
  /\ UNCHANGED <<asked, polling, step, words, dwords, version, answer, result,
                 yields>>

CompileEnds ==
  /\ step = "compile" /\ Len(entries) = Len(asked)
  /\ step' = IF \E i \in DOMAIN entries : entries[i].kind = "none"
             THEN "refused" ELSE "prepare"
  /\ UNCHANGED <<asked, polling, plan, version, answer, result, yields>>

(* What the builder of the random read accepts.                            *)
KeysDiffer ==
  /\ \A i, j \in DOMAIN words : i # j => words[i] # words[j]
  /\ \A i, j \in DOMAIN dwords : i # j => dwords[i] # dwords[j]
  /\ \A i \in DOMAIN words : ~Listed(dwords, words[i])

Preparable ==
  /\ Len(words) + Len(dwords) \in 1..RandomLimit
  /\ \A i \in DOMAIN words : words[i].code \notin {"LTN", "LCN", "LZ"}
  /\ KeysDiffer

Prepares ==
  /\ step = "prepare"
  /\ step' = IF Preparable THEN "send" ELSE "refused"
  /\ UNCHANGED <<asked, polling, plan, version, answer, result, yields>>
------------------------------------------------------------------------------
SendsPlan ==
  /\ step = "send"
  /\ step' = "sent"
  /\ UNCHANGED <<asked, polling, plan, version, answer, result, yields>>

PlcChanges ==
  /\ version < MaxVersion
  /\ version' = version + 1
  /\ UNCHANGED <<asked, polling, step, plan, answer, result, yields>>

(* The PLC answers with the values of one scan.                            *)
PlcAnswers ==
  /\ step = "sent"
  /\ step' = "answered"
  /\ answer' =
       [words |-> [i \in DOMAIN words |-> <<"word", words[i]>>],
        dwords |-> [i \in DOMAIN dwords |-> <<"dword", dwords[i]>>],
        version |-> version]
  /\ UNCHANGED <<asked, polling, plan, version, result, yields>>

(* A bit of a word is a bit device of its own when the word is one of bit  *)
(* devices.                                                                *)
BitOf(word, bit) ==
  LET d == word[2] IN
  IF d.code \in BitCodes THEN <<"bit", Device(d.code, d.number + bit)>>
                         ELSE <<"bit", d, bit>>

Value(e, from) ==
  IF e.kind = "WORD"
    THEN IF e.dtype = "BIT_IN_WORD" THEN BitOf(from.words[e.index], e.bit)
         ELSE <<e.dtype, from.words[e.index]>>
    ELSE <<e.dtype, from.dwords[e.index]>>

(* Mutant: the entries are given the values in their own order. *)
Decodes_InOrder ==
  /\ step = "answered"
  /\ result' = [i \in DOMAIN entries |->
                  [address |-> entries[i].address,
                   value |-> IF i \in DOMAIN words
                             THEN Value([entries[i] EXCEPT !.index = i],
                                        answer)
                             ELSE Value(entries[i], answer),
                   version |-> answer.version]]
  /\ yields' = yields + 1
  /\ step' = IF polling /\ yields' < MaxYields THEN "waits" ELSE "done"
  /\ UNCHANGED <<asked, polling, plan, version, answer>>

Decodes ==
  /\ step = "answered"
  /\ result' = [i \in DOMAIN entries |->
                  [address |-> entries[i].address,
                   value |-> Value(entries[i], answer),
                   version |-> answer.version]]
  /\ yields' = yields + 1
  /\ step' = IF polling /\ yields' < MaxYields THEN "waits" ELSE "done"
  /\ UNCHANGED <<asked, polling, plan, version, answer>>

(* The interval of a poll is over.                                         *)
PollsAgain ==
  /\ step = "waits"
  /\ step' = "send"
  /\ UNCHANGED <<asked, polling, plan, version, answer, result, yields>>

ReadNext ==
  \/ CompileRefused \/ CompileWord \/ CompileDword \/ CompileUnbatched
  \/ CompileEnds \/ Prepares
  \/ SendsPlan \/ PlcChanges \/ PlcAnswers \/ Decodes \/ PollsAgain

ReadSpec == ReadInit /\ [][ReadNext]_readVars
------------------------------------------------------------------------------
ReadTypeOK ==
  /\ step \in {"compile", "prepare", "send", "sent", "answered", "waits",
             "done", "refused"}
  /\ Len(entries) <= Len(asked)
  /\ \A i \in DOMAIN words :
       words[i].code \in BitCodes => words[i].number % 16 = 0

(* Every entry of a plan points at the device of its own address, and no   *)
(* device is listed twice: an index into the wrong list, or one that is    *)
(* stale, would give an address the value of another (_compile_read_plan). *)
Home(e, ws, dws) ==
  LET ds == IF e.kind = "WORD" THEN ws ELSE dws IN
  e.kind # "none" => /\ e.index \in DOMAIN ds
                     /\ ds[e.index] = Source(e.address)

PlanIsSound ==
  /\ \A i \in DOMAIN entries :
       /\ entries[i] = Entry(asked[i], entries[i].index)
       /\ Home(entries[i], words, dwords)
  /\ \A i, j \in DOMAIN words : i # j => words[i] # words[j]
  /\ \A i, j \in DOMAIN dwords : i # j => dwords[i] # dwords[j]

(* What an address means.                                                  *)
Meaning(a) ==
  IF a.dtype = "BIT" THEN <<"bit", DeviceOf(a)>>
  ELSE IF a.dtype = "BIT_IN_WORD" THEN <<"bit", DeviceOf(a), a.bit>>
  ELSE IF a.dtype \in WordDtypes THEN <<a.dtype, <<"word", DeviceOf(a)>>>>
  ELSE <<a.dtype, <<"dword", DeviceOf(a)>>>>

(* A result has one value for each address that was asked for, the value   *)
(* of that very device or bit, and all of them from one moment (read_named *)
(* and each cycle of poll()).                                              *)
ValuesAreTheirs ==
  step \in {"waits", "done"} =>
    /\ Len(result) = Len(asked)
    /\ \A i \in DOMAIN asked :
         /\ result[i].address = asked[i]
         /\ result[i].value = Meaning(asked[i])
         /\ result[i].version = answer.version
==============================================================================
