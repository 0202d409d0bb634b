------------------------------ MODULE Profiles -------------------------------
(***************************************************************************)
(* The PLC profiles of src/slmp/capability_profiles.py and core.py, those  *)
(* with equal entries merged into one, and the point limits the request    *)
(* builders check.                                                         *)
(***************************************************************************)
EXTENDS Naturals

NoLimit == 0   (* an entry the table of a profile does not have            *)

DirectLimits(bitMax) ==
  [wordRead |-> 960, wordWrite |-> 960, bitRead |-> bitMax,
   bitWrite |-> bitMax]

(* Limits of the random and monitor commands; Ext is for Extended Device   *)
(* entries.                                                                *)
IqrLimits ==
  [read |-> 96, write |-> 80, weighted |-> 960, bits |-> 94, monitor |-> 96,
   readExt |-> 96, writeExt |-> 80, weightedExt |-> 960, bitsExt |-> 94,
   monitorExt |-> 96, direct |-> DirectLimits(7168)]

IqfLimits ==
  [IqrLimits EXCEPT !.read = 192, !.write = 160, !.weighted = 1920,
                    !.bits = 188, !.monitor = 192,
                    !.direct = DirectLimits(3584)]

QlLimits(readExt) ==
  [IqfLimits EXCEPT !.readExt = readExt, !.writeExt = 160,
                    !.weightedExt = 1920, !.bitsExt = 188,
                    !.monitorExt = 192, !.direct = DirectLimits(7168)]

(* The units were measured apart, and agree. *)
QlUnitLimits(readExt) == QlLimits(readExt)

ReadOnly == {"S"}
IqrBlocked(hg) == IF hg = "supported" THEN {} ELSE {"hg"}
QlBlocked == {"typeName", "block", "module", "linkDirect", "hg"}
QlUnitBlocked == {"hg"}

(* Devices a PLC does not have.                                            *)
LongTimers == {"LTS", "LTC", "LTN", "LSTS", "LSTC", "LSTN"}
IqfLacks == LongTimers \union {"DX", "DY", "V", "ZR", "RD"}
QlLacks == LongTimers \union {"LCS", "LCC", "LCN", "LZ", "RD"}

(* What a profile settles for the connection.                              *)
Profile ==
  [iqr |-> [series |-> "iqr", frame |-> "4E", limits |-> IqrLimits,
            blocked |-> IqrBlocked("supported"), readOnly |-> ReadOnly,
            lacks |-> {}],
   iql |-> [series |-> "iqr", frame |-> "4E", limits |-> IqrLimits,
            blocked |-> IqrBlocked("blocked"), readOnly |-> ReadOnly,
            lacks |-> {}],
   iqf |-> [series |-> "ql", frame |-> "3E", limits |-> IqfLimits,
            blocked |-> {"monitor", "linkDirect", "hg"}, readOnly |-> {},
            lacks |-> IqfLacks],
   builtin |-> [series |-> "ql", frame |-> "3E", limits |-> QlLimits(192),
                blocked |-> QlBlocked, readOnly |-> ReadOnly,
                lacks |-> QlLacks],
   qcpuUnit |-> [series |-> "ql", frame |-> "4E",
                 limits |-> QlUnitLimits(185),
                 blocked |-> QlUnitBlocked, readOnly |-> {},
                 lacks |-> QlLacks],
   unit |-> [series |-> "ql", frame |-> "4E",
             limits |-> QlUnitLimits(192),
             blocked |-> QlUnitBlocked, readOnly |-> {},
             lacks |-> QlLacks]]
Names == {"iqr", "iql", "iqf", "builtin", "qcpuUnit", "unit"}

Series(p) == Profile[p].series
Allowed(p, feature) == feature \notin Profile[p].blocked
Supported(p, code) == code \notin Profile[p].lacks
IsReadOnly(p, code) == code \in Profile[p].readOnly

(* The feature an Extended Device entry needs, by its direct memory.       *)
ExtFeature(code, memory) ==
  IF memory = 249 THEN "linkDirect"
  ELSE IF code = "HG" \/ memory = 250 THEN "hg"
  ELSE IF code = "G" \/ memory = 248 THEN "module" ELSE "none"

(* The largest payload a request may have; it bounds the length field of   *)
(* the frame and, on UDP, the datagram.                                    *)
PayloadLimit(transport, p) ==
  IF transport # "udp" THEN 65535 - 6
  ELSE 65507 - (IF Profile[p].frame = "4E" THEN 19 ELSE 15)
------------------------------------------------------------------------------
Narrow(p, ext) == ext \/ Series(p) = "iqr"
Limit(limit, fallback) == IF limit = NoLimit THEN fallback ELSE limit

DirectPointsOk(p, points, bit, write) ==
  LET direct == Profile[p].limits.direct IN
  points \in 1..(IF bit THEN IF write THEN direct.bitWrite ELSE direct.bitRead
                ELSE IF write THEN direct.wordWrite ELSE direct.wordRead)

ReadCountsOk(p, words, dwords, ext) ==
  LET limits == Profile[p].limits IN
  words + dwords \in
    1..Limit(IF ext THEN limits.readExt ELSE limits.read,
             IF Narrow(p, ext) THEN 96 ELSE 192)

MonitorCountsOk(p, words, dwords, ext) ==
  LET limits == Profile[p].limits IN
  words + dwords \in
    1..Limit(IF ext THEN limits.monitorExt ELSE limits.monitor,
             IF Narrow(p, ext) THEN 96 ELSE 192)

BitCountOk(p, points, ext) ==
  LET limits == Profile[p].limits IN
  points \in 1..Limit(IF ext THEN limits.bitsExt ELSE limits.bits,
                      IF Narrow(p, ext) THEN 94 ELSE 188)

WriteCountsOk(p, words, dwords, ext) ==
  LET limits == Profile[p].limits IN
  /\ words + dwords \in 1..(IF ext THEN limits.writeExt ELSE limits.write)
  /\ 12 * words + 14 * dwords
       <= (IF ext THEN limits.weightedExt ELSE limits.weighted)

(* Blocks are limited in number and in points; a write block also counts   *)
(* its header.                                                             *)
BlockLimit(p) == IF Series(p) = "iqr" THEN 60 ELSE 120
BlockOverhead(p) == IF Series(p) = "iqr" THEN 9 ELSE 4

(* Mutant: only the points are limited, and not the number of blocks. *)
BlocksOk_Points(p, blocks, points, write) ==
  /\ blocks >= 1
  /\ points + (IF write THEN blocks * BlockOverhead(p) ELSE 0)
       <= (IF write THEN Profile[p].limits.direct.wordWrite
                    ELSE Profile[p].limits.direct.wordRead)

BlocksOk(p, blocks, points, write) ==
  /\ blocks \in 1..BlockLimit(p)
  /\ points + (IF write THEN blocks * BlockOverhead(p) ELSE 0)
       <= (IF write THEN Profile[p].limits.direct.wordWrite
                    ELSE Profile[p].limits.direct.wordRead)
==============================================================================
