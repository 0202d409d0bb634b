------------------------------ MODULE RangeProbe -----------------------------
(***************************************************************************)
(* The device range catalog of src/slmp/device_ranges.py for a profile     *)
(* whose limits are probed: one window of SD registers, Z15 on a QCPU, and *)
(* the search for the last readable ZR register by doubling and bisection. *)
(*                                                                         *)
(* All reads are made in one turn of the operation queue, but close() does *)
(* not wait for it.  The synchronous and the asynchronous function are the *)
(* same text with an await; one model stands for both.                     *)
(***************************************************************************)
EXTENDS Integers

CONSTANTS
  MaxCount,     (* _MAX_RUNTIME_RANGE_PROBE_COUNT                          *)
  RLimit,       (* 32768: the R registers are the first ZR registers       *)
  ProbesZ       (* the profile is one of _QCPU_RUNTIME_RANGE_PROFILES      *)

ASSUME ProbeAssumption ==
  /\ MaxCount \in Nat \ {0, 1}
  /\ RLimit \in Nat
  /\ ProbesZ \in BOOLEAN

VARIABLES
  readable,  (* the ZR registers of the PLC: which it lets the client read *)
  z15,       (* whether it lets it read Z15                                *)
  busy,      (* whether it may refuse a register that is readable          *)
  place,     (* where the call stands                                      *)
  low, high, left, right,  (* the local variables of the search            *)
  zCount,    (* z_count; 0 for None                                        *)
  zrCount,   (* zr_count                                                   *)
  rCount,    (* the point count of R in the catalog                        *)
  closed,    (* close() came after the turn was taken                      *)
  probes     (* history: ZR reads that were answered                       *)

plcVars == <<readable, z15, busy>>
bounds == <<low, high, left, right>>
counts == <<zCount, zrCount, rCount>>
searchVars == <<plcVars, place, bounds, counts, closed, probes>>

upperLimit == MaxCount - 1
Smaller(a, b) == IF a < b THEN a ELSE b

(* The history wraps here, far above what ProbesAreFew allows. *)
ProbesCap == 2 * MaxCount

Searching == {"zero", "double", "bisect"}
Places == {"window", "z", "check", "published", "raised"} \union Searching

SearchInit ==
  /\ readable \in [0..upperLimit -> BOOLEAN]
  /\ z15 \in BOOLEAN
  /\ busy \in BOOLEAN
  /\ place = "window"
  /\ low = 0 /\ high = 0 /\ left = 0 /\ right = 0
  /\ zCount = 0 /\ zrCount = 0 /\ rCount = 0
  /\ closed = FALSE
  /\ probes = 0

(* _can_read_one_word(): an answer, or an end code, which counts as no.    *)
(* No request is sent after a close().  An end code is handed over even if *)
(* a close() came while it was awaited.                                    *)
Yes(canRead) == ~closed /\ canRead /\ UNCHANGED closed
No(canRead) == ~closed /\ (~canRead \/ busy) /\ closed' \in BOOLEAN

Counted == probes' = (probes + 1) % ProbesCap
ProbeYes(n) == Yes(readable[n]) /\ Counted
ProbeNo(n) == No(readable[n]) /\ Counted

(* A read fails otherwise (closed, timeout, transport): nothing is made of *)
(* it, the exception leaves the whole call.                                *)
ReadFails ==
  /\ \/ place \in {"window", "z", "zero", "double"}
     \/ place = "bisect" /\ left <= right
  /\ place' = "raised"
  /\ UNCHANGED <<plcVars, bounds, counts, closed, probes>>

ReadWindow ==
  /\ place = "window"
  /\ ~closed
  /\ place' = IF ProbesZ THEN "z" ELSE "zero"
  /\ UNCHANGED <<plcVars, bounds, counts, closed, probes>>

ProbeZ ==
  /\ place = "z"
  /\ \/ Yes(z15) /\ zCount' = 16
     \/ No(z15) /\ zCount' = 10
  /\ place' = "zero"
  /\ UNCHANGED <<plcVars, bounds, zrCount, rCount, probes>>

Found(n) ==
  /\ zrCount' = n
  /\ place' = "check"
  /\ UNCHANGED <<zCount, rCount>>

ProbeZero ==
  /\ place = "zero"
  /\ \/ /\ ProbeYes(0)
        /\ low' = 0 /\ high' = 1
        /\ place' = "double"
        /\ UNCHANGED <<left, right, counts>>
     \/ /\ ProbeNo(0)
        /\ Found(0)
        /\ UNCHANGED bounds
  /\ UNCHANGED plcVars

StartBisection ==
  /\ left' = low + 1
  /\ right' = high - 1
  /\ place' = "bisect"
  /\ UNCHANGED <<low, high, counts>>

(* Mutant: the step does not double. *)
Doubles_ByOne ==
  /\ place = "double"
  /\ high < upperLimit
  /\ \/ /\ ProbeYes(high)
        /\ low' = high
        /\ high' = high + 1
        /\ UNCHANGED <<place, left, right, counts>>
     \/ ProbeNo(high) /\ StartBisection
  /\ UNCHANGED plcVars

Doubles ==
  /\ place = "double"
  /\ high < upperLimit
  /\ \/ /\ ProbeYes(high)
        /\ low' = high
        /\ high' = Smaller(upperLimit, high * 2 + 1)
        /\ UNCHANGED <<place, left, right, counts>>
     \/ ProbeNo(high) /\ StartBisection
  /\ UNCHANGED plcVars

ProbeTop ==
  /\ place = "double"
  /\ high = upperLimit
  /\ \/ ProbeYes(high) /\ Found(MaxCount) /\ UNCHANGED bounds
     \/ ProbeNo(high) /\ StartBisection
  /\ UNCHANGED plcVars

middle == left + ((right - left) \div 2)

Bisects ==
  /\ place = "bisect"
  /\ left <= right
  /\ \/ /\ ProbeYes(middle)
        /\ low' = middle
        /\ left' = middle + 1
        /\ UNCHANGED right
     \/ /\ ProbeNo(middle)
        /\ right' = middle - 1
        /\ UNCHANGED <<low, left>>
  /\ UNCHANGED <<plcVars, place, high, counts>>

(* Mutant: the count is the first address that was refused. *)
EndsBisection_NextAddress ==
  /\ place = "bisect"
  /\ left > right
  /\ Found(left + 1)
  /\ UNCHANGED <<plcVars, bounds, closed, probes>>

(* Mutant: the address of the last register is taken for the count. *)
EndsBisection_LastAddress ==
  /\ place = "bisect"
  /\ left > right
  /\ Found(low)
  /\ UNCHANGED <<plcVars, bounds, closed, probes>>

EndsBisection ==
  /\ place = "bisect"
  /\ left > right
  /\ Found(low + 1)
  /\ UNCHANGED <<plcVars, bounds, closed, probes>>

(* Mutant: the generation is not read before the catalog is returned. *)
Publishes_NoCheck ==
  /\ place = "check"
  /\ place' = "published"
  /\ rCount' = Smaller(zrCount, RLimit)
  /\ UNCHANGED <<plcVars, bounds, zCount, zrCount, closed, probes>>

(* The catalog is completed; ensure_current() decides whether it is given. *)
Publishes ==
  /\ place = "check"
  /\ place' = IF closed THEN "raised" ELSE "published"
  /\ rCount' = Smaller(zrCount, RLimit)
  /\ UNCHANGED <<plcVars, bounds, zCount, zrCount, closed, probes>>

Close ==
  /\ place \notin {"published", "raised"}
  /\ ~closed
  /\ closed' = TRUE
  /\ UNCHANGED <<plcVars, place, bounds, counts, probes>>

SearchStep ==
  \/ ReadWindow \/ ProbeZ \/ ProbeZero \/ Doubles \/ ProbeTop \/ Bisects
  \/ EndsBisection \/ Publishes \/ ReadFails

SearchNext == SearchStep \/ Close

SearchSpec == SearchInit /\ [][SearchNext]_searchVars
------------------------------------------------------------------------------
Addresses == 0..upperLimit

TypeOK ==
  /\ readable \in [Addresses -> BOOLEAN]
  /\ z15 \in BOOLEAN
  /\ busy \in BOOLEAN
  /\ place \in Places
  /\ low \in Addresses /\ high \in Addresses
  /\ left \in 0..MaxCount /\ right \in -1..upperLimit
  /\ zCount \in {0, 10, 16}
  /\ zrCount \in 0..MaxCount
  /\ rCount \in 0..MaxCount
  /\ closed \in BOOLEAN
  /\ probes \in Nat

(* The count that is published ends at a register that was read.  An end   *)
(* code the PLC gave for another reason can make it too small, never name  *)
(* a register beyond the last one that answered.                           *)
NeverOverstates ==
  place = "published" /\ zrCount > 0 => readable[zrCount - 1]

(* With a PLC that refuses only what it does not have, the next register   *)
(* is not readable: for registers without gaps the count is exact.         *)
EndsAtBoundary ==
  place = "published" /\ ~busy /\ zrCount < MaxCount
    => ~readable[zrCount]

(* A catalog is never returned from a generation that was closed, although *)
(* the search goes on after an end code that came with the close().        *)
NoCatalogAfterClose == place = "published" => ~closed

(* Two to the n. *)
power[n \in 0..MaxCount] == IF n = 0 THEN 1 ELSE 2 * power[n - 1]

(* The search holds its turn for a number of requests that is logarithmic  *)
(* in the range: each of its halves takes at most one request per bit.     *)
ProbesAreFew == probes > 2 => power[(probes - 1) \div 2] <= MaxCount
==============================================================================
