---------------------------- MODULE MCAsyncClient ----------------------------
(* The setups of AsyncClient for TLC. *)
EXTENDS AsyncClient

CONSTANTS t1, t2, t3

(* Callers that start the same operations are interchangeable; the one of  *)
(* the longer sequence is a task of its own.                               *)
AllTasks == {t1, t2, t3}
Symmetry == Permutations({t1, t2})

(* TCP, two tasks and a close(): every kind of operation and of answer,    *)
(* frames without serial numbers, and a trace hook that suspends.          *)
Tcp ==
  [callers |-> {t1, t2}, transport |-> "tcp", frame |-> "3E", modulus |-> 1,
   traceHook |-> TRUE, kinds |-> AllKinds, codes |-> AllCodes,
   ops |-> 2, closes |-> 1, extra |-> 0]

(* TCP, and a frame of another route among the answers.                    *)
Foreign ==
  [Tcp EXCEPT !.traceHook = FALSE, !.kinds = {"read", "write"},
              !.codes = {"ok", "bad"}, !.extra = 1]

(* UDP: datagrams that are late, out of order, foreign or duplicated, and  *)
(* endpoints whose loss is reported late.                                  *)
Udp ==
  [Tcp EXCEPT !.transport = "udp", !.frame = "4E", !.modulus = 65536,
              !.traceHook = FALSE, !.kinds = {"read", "write", "reset"},
              !.codes = {"ok", "bad"}, !.extra = 1]

(* UDP, one task, more operations and closes, frames without serial        *)
(* numbers: no datagram is duplicated, but the PLC may answer late.        *)
Sequence ==
  [Udp EXCEPT !.callers = {t3}, !.frame = "3E", !.codes = {"ok", "junk"},
              !.ops = 3, !.closes = 2, !.extra = 0]

AllSetups ==
  [tcp |-> Tcp, foreign |-> Foreign, udp |-> Udp, sequence |-> Sequence]
==============================================================================
