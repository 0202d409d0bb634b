---------------------------- MODULE RequestLimits ----------------------------
(***************************************************************************)
(* A request that its caller makes larger and larger, up to the first size *)
(* the builders of src/slmp/_operations.py refuse: the limits of Profiles  *)
(* against the width of the fields that carry the counts and the lengths.  *)
(***************************************************************************)
EXTENDS Profiles

CONSTANTS
  Commands,   (* the commands that are tried                               *)
  Steps,      (* bound: how many points of a block are added at a time     *)
  MaxPoints   (* bound: points of a request, by command                    *)

VARIABLES
  plc,        (* the PLC profile                                           *)
  command, ext,
  words,      (* word points, bit points, or points of all blocks          *)
  dwords,     (* double-word points                                        *)
  blocks      (* blocks                                                    *)

sizeVars == <<plc, command, ext, words, dwords, blocks>>

RandomCommands == {"readRandom", "monitor", "writeRandom"}
BlockCommands == {"readBlock", "writeBlock"}
DirectCommands == {"readWords", "readBits", "writeWords", "writeBits"}
AllCommands == RandomCommands \union BlockCommands \union DirectCommands
                 \union {"randomBits"}

ASSUME RequestLimitsAssumption ==
  /\ Commands \subseteq AllCommands
  /\ Steps \subseteq Nat \ {0}
  /\ MaxPoints \in [AllCommands -> Nat]

Accepted ==
  \/ command = "readRandom" /\ ReadCountsOk(plc, words, dwords, ext)
  \/ command = "monitor" /\ MonitorCountsOk(plc, words, dwords, ext)
  \/ command = "writeRandom" /\ WriteCountsOk(plc, words, dwords, ext)
  \/ command = "randomBits" /\ BitCountOk(plc, words, ext)
  \/ /\ command \in BlockCommands
     /\ BlocksOk(plc, blocks, words, command = "writeBlock")
  \/ /\ command \in DirectCommands
     /\ DirectPointsOk(plc, words, command \in {"readBits", "writeBits"},
                       command \in {"writeWords", "writeBits"})

(* The size of one entry, and of the data it carries.                      *)
Entry == (IF Series(plc) = "ql" THEN 4 ELSE 6) + (IF ext THEN 7 ELSE 0)

PayloadBytes ==
  IF command \in {"readRandom", "monitor"} THEN 2 + Entry * (words + dwords)
  ELSE IF command = "writeRandom"
    THEN 2 + (Entry + 2) * words + (Entry + 4) * dwords
  ELSE IF command = "randomBits"
    THEN 1 + (Entry + (IF Series(plc) = "iqr" THEN 2 ELSE 1)) * words
  ELSE IF command = "readBlock" THEN 2 + (Entry + 2) * blocks
  ELSE IF command = "writeBlock" THEN 2 + (Entry + 2) * blocks + 2 * words
  ELSE IF command = "writeWords" THEN Entry + 2 + 2 * words
  ELSE IF command = "writeBits" THEN Entry + 2 + (words + 1) \div 2
  ELSE Entry + 2

ResponseBytes ==
  IF command \in {"readRandom", "monitor"} THEN 2 * words + 4 * dwords
  ELSE IF command \in {"readBlock", "readWords"} THEN 2 * words
  ELSE IF command = "readBits" THEN (words + 1) \div 2 ELSE 0

SizeInit ==
  /\ plc \in Names
  /\ command \in Commands
  /\ ext \in (IF command \in BlockCommands THEN {FALSE} ELSE BOOLEAN)
  /\ words = 0 /\ dwords = 0 /\ blocks = 0

(* A caller stops at the first size that is refused.                       *)
Growing == words + dwords = 0 \/ Accepted

AddWords ==
  /\ Growing
  /\ \E n \in Steps :
       /\ words + n <= MaxPoints[command]
       /\ n = 1 \/ command \in BlockCommands
       /\ words' = words + n
       /\ blocks' = IF command \in BlockCommands THEN blocks + 1 ELSE blocks
  /\ UNCHANGED <<plc, command, ext, dwords>>

AddDword ==
  /\ Growing
  /\ command \in RandomCommands
  /\ dwords < MaxPoints[command]
  /\ dwords' = dwords + 1
  /\ UNCHANGED <<plc, command, ext, words, blocks>>

SizeNext == AddWords \/ AddDword
SizeSpec == SizeInit /\ [][SizeNext]_sizeVars
------------------------------------------------------------------------------
(* The shape of a request: its counts, and one point or more in a block.   *)
SizeTypeOK ==
  /\ plc \in Names
  /\ command \in AllCommands
  /\ ext \in BOOLEAN
  /\ words \in Nat /\ dwords \in Nat /\ blocks \in Nat
  /\ blocks <= words
  /\ command \notin RandomCommands => dwords = 0

(* What the builders accept can be written down: each count fits the one   *)
(* or two bytes of its field, the payload fits the length field of a frame *)
(* and a UDP datagram, and so does the answer (_validate_request_payload_  *)
(* length() and the to_bytes() of the builders never fail after the limits *)
(* were checked).                                                          *)
CountsFit ==
  /\ command \in RandomCommands \union {"randomBits"} =>
       words < 256 /\ dwords < 256
  /\ command \in BlockCommands => blocks < 256
  /\ words < 65536

AcceptedFits ==
  Accepted => /\ CountsFit
              /\ PayloadBytes <= PayloadLimit("udp", plc)
              /\ ResponseBytes + 2 + 13 <= 65507
==============================================================================
