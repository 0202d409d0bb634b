---------------------------- MODULE MCSyncClient -----------------------------
(* The setups of SyncClient for TLC. *)
EXTENDS SyncClient

CONSTANTS t1, t2, t3

(* Callers that start the same operations are interchangeable; the one of  *)
(* the longer sequence is a thread of its own.                             *)
AllThreads == {t1, t2, t3}
Symmetry == Permutations({t1, t2})

(* Two callers and a close(), every kind of operation and of answer.       *)
Tcp ==
  [callers |-> {t1, t2}, transport |-> "tcp", frame |-> "3E", modulus |-> 1,
   kinds |-> AllKinds, codes |-> AllCodes,
   ops |-> 2, closes |-> 1, foreign |-> 0]

(* Two callers and a frame of another route among the answers.             *)
Foreign ==
  [Tcp EXCEPT !.kinds = {"read", "write"}, !.codes = {"ok", "bad"},
              !.foreign = 1]

(* The same on UDP with serial numbers: datagrams that are late, foreign   *)
(* or duplicated, in a receive buffer that outlives its request.           *)
Udp ==
  [Foreign EXCEPT !.transport = "udp", !.frame = "4E", !.modulus = 65536]

(* One caller, more operations and closes, and a serial number that wraps  *)
(* while answers of its last bearer are under way.                         *)
Sequence ==
  [Tcp EXCEPT !.callers = {t3}, !.frame = "4E", !.modulus = 2,
              !.kinds = {"read", "write", "reset"}, !.codes = {"ok", "junk"},
              !.ops = 3, !.closes = 2, !.foreign = 1]

AllSetups ==
  [tcp |-> Tcp, foreign |-> Foreign, udp |-> Udp, sequence |-> Sequence]

RaceSetups ==
  [race |-> [Tcp EXCEPT !.callers = {t3}, !.kinds = {"write"},
                        !.codes = {"ok"}]]
==============================================================================
