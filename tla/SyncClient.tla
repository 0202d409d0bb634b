------------------------------ MODULE SyncClient -----------------------------
(***************************************************************************)
(* SlmpClient of src/slmp/client.py: the life of an operation from its     *)
(* turn to its result, with close() running beside it on another thread.   *)
(*                                                                         *)
(* Operations run under the operation gate (OperationTurn, which SyncQueue *)
(* implements); close() does not: it invalidates the gate and then, as a   *)
(* separate step nobody excludes, retires the transport.  One action here  *)
(* is a stretch of code between two reads or writes of state that close()  *)
(* can change: the gate's generation, self._sock, and the socket object.   *)
(* The turn excludes other operations, so what only operations change      *)
(* (_serial, _active_state_changing) may move inside a larger action.      *)
(***************************************************************************)
EXTENDS Naturals, Sequences, FiniteSets, SequencesExt

CONSTANTS
  Threads,       (* the threads that start operations                      *)
  NoThread,
  NoSocket,      (* None in self._sock                                     *)
  Setups         (* the clients that are tried, by name: options, callers  *)
                 (* and environment, each with its bounds                  *)

AllKinds == {"read", "write", "reset", "connect"}

(* ok: success with the payload the command expects;  ng: a non-zero end   *)
(* code;  junk: success with a payload the command decoder rejects;  bad:  *)
(* a frame decode_response rejects, or error information that names        *)
(* another request;  foreign: a well-formed frame of another route.        *)
AllCodes == {"ok", "ng", "junk", "bad"}

ASSUME SyncClientAssumption ==
  /\ NoThread \notin Threads
  /\ \A name \in DOMAIN Setups : LET s == Setups[name] IN
       /\ s.callers \subseteq Threads
       /\ s.kinds \subseteq AllKinds /\ s.codes \subseteq AllCodes
       /\ s.frame \in {"3E", "4E"} /\ s.transport \in {"tcp", "udp"}
       /\ s.modulus \in Nat \ {0}
       /\ s.ops \in Nat /\ s.closes \in Nat /\ s.foreign \in Nat
       /\ NoSocket \notin 1..s.ops

VARIABLES
  setup,       (* the name of the client's setup                           *)
  holder, line, stale, (* the operation gate                               *)
  sock,        (* self._sock                                               *)
  sockState,   (* each socket object: unused, open or closed               *)
  inbox,       (* the frames a socket has received and nobody read         *)
  unanswered,  (* the requests the PLC got on a socket and may yet answer  *)
  activeSC,    (* self._active_state_changing                              *)
  ops,         (* operations started; also numbers the requests            *)
  nextSerial,  (* self._serial                                             *)
  serial,      (* the serial number of each thread's request               *)
  foreign,     (* frames of other routes and duplicates so far             *)
  closer,      (* close(): idle, or the step after which it stands         *)
  closerSock,  (* the local variable sock of its _close_transport()        *)
  closes,      (* calls of close() so far                                  *)
  pc,          (* where each thread stands in its operation                *)
  kind, req,   (* its operation and the number of its request              *)
  local,       (* its local variable sock                                  *)
  answer,      (* the code of the response it correlated                   *)
  result,      (* what its last operation returned or raised               *)
  (* history, read by properties only: *)
  sending,     (* none; tried: the send was reached; left: the request may *)
               (* have left on a socket                                    *)
  overtaken,   (* close() came before the answer was correlated (decoded,  *)
               (* for a read)                                              *)
  raced,       (* the turn was granted while close() was between its steps *)
  matched,     (* the number of the request the accepted frame answers     *)
  sockGen      (* the number of close() calls before each socket was opened*)

gateVars == <<holder, line, stale>>
netVars == <<sockState, inbox, unanswered, foreign>>
serialVars == <<nextSerial, serial>>
opVars == <<ops, serialVars>>
closeVars == <<closer, closerSock, closes>>
threadVars == <<pc, kind, req, local, answer, result>>
historyVars == <<sending, overtaken, raced, matched, sockGen>>
vars == <<setup, gateVars, sock, netVars, activeSC, opVars, closeVars,
          threadVars, historyVars>>

Kinds == Setups[setup].kinds            (* the operations started           *)
Transport == Setups[setup].transport
Frame == Setups[setup].frame            (* 3E frames have no serial number  *)
SerialModulus == Setups[setup].modulus  (* _next_serial wraps there: 2^16   *)
Codes == Setups[setup].codes            (* the answers the PLC gives        *)
MaxOps == Setups[setup].ops             (* bound: operations started        *)
MaxCloses == Setups[setup].closes       (* bound: close() calls             *)
MaxForeign == Setups[setup].foreign     (* bound: frames of another route,  *)
                                        (* and duplicates                   *)

(* Every operation opens at most one socket: socket s is the s-th opened.  *)
Sockets == 1..MaxOps
Serials == 0..(SerialModulus - 1)

(* What travels: requests by their number, and frames with their code; the *)
(* frame of another route has the number 0.                                *)
Requests == [req : 1..MaxOps, serial : Serials]
Frames == [req : 0..MaxOps, serial : Serials, code : AllCodes]

Gate == INSTANCE OperationTurn

Places == {"idle", "queued", "begin", "connecting", "adopt", "adopted",
           "check", "grab", "send", "receive", "wait", "settle", "restore",
           "decode", "sentOnly", "traced", "leave"}
Failures == {"closed", "timeout", "transport", "protocol", "notConnected",
             "cancelled", "internal"}
Results == Failures \union {"none", "done", "endCode", "outcomeUnknown"}

Init ==
  /\ setup \in DOMAIN Setups
  /\ Gate!Init
  /\ sock = NoSocket
  /\ sockState = [s \in Sockets |-> "unused"]
  /\ inbox = [s \in Sockets |-> <<>>]
  /\ unanswered = [s \in Sockets |-> {}]
  /\ activeSC = FALSE
  /\ ops = 0
  /\ nextSerial = 0
  /\ serial = [t \in Threads |-> 0]
  /\ foreign = 0
  /\ closer = "idle" /\ closerSock = NoSocket /\ closes = 0
  /\ pc = [t \in Threads |-> "idle"]
  /\ kind = [t \in Threads |-> "read"]
  /\ req = [t \in Threads |-> 0]
  /\ local = [t \in Threads |-> NoSocket]
  /\ answer = [t \in Threads |-> "ok"]
  /\ result = [t \in Threads |-> "none"]
  /\ sending = [t \in Threads |-> "none"]
  /\ overtaken = [t \in Threads |-> FALSE]
  /\ raced = [t \in Threads |-> FALSE]
  /\ matched = [t \in Threads |-> 0]
  /\ sockGen = [s \in Sockets |-> 0]

Goto(t, place) == pc' = [pc EXCEPT ![t] = place]
Current(t) == Gate!IsCurrent(t)
------------------------------------------------------------------------------
(* Starting an operation: the request is validated and the turn asked for. *)
Start(t, k) ==
  /\ t \in Setups[setup].callers
  /\ pc[t] = "idle"
  /\ ops < MaxOps
  /\ ops' = ops + 1
  /\ kind' = [kind EXCEPT ![t] = k]
  /\ req' = [req EXCEPT ![t] = ops + 1]
  /\ local' = [local EXCEPT ![t] = NoSocket]
  /\ answer' = [answer EXCEPT ![t] = "ok"]
  /\ result' = [result EXCEPT ![t] = "none"]
  /\ sending' = [sending EXCEPT ![t] = "none"]
  /\ overtaken' = [overtaken EXCEPT ![t] = FALSE]
  /\ matched' = [matched EXCEPT ![t] = 0]
  /\ UNCHANGED <<sock, netVars, activeSC, closeVars, sockGen>>

(* _next_serial(), called first thing in the turn.  3E frames carry none.  *)
TakeSerial(t, k) ==
  IF k = "connect" \/ Frame = "3E"
    THEN UNCHANGED serialVars
    ELSE /\ serial' = [serial EXCEPT ![t] = nextSerial]
         /\ nextSerial' = (nextSerial + 1) % SerialModulus

StartFree(t, k) ==
  /\ Start(t, k)
  /\ TakeSerial(t, k)
  /\ Gate!TakeFree(t)
  /\ raced' = [raced EXCEPT ![t] = closer # "idle"]
  /\ Goto(t, "begin")

StartQueued(t, k) ==
  /\ Start(t, k)
  /\ holder # NoThread \/ line # <<>>
  /\ Gate!Join(t)
  /\ raced' = [raced EXCEPT ![t] = FALSE]
  /\ Goto(t, "queued")
  /\ UNCHANGED serialVars

TurnGranted(t) ==
  /\ pc[t] = "queued"
  /\ Gate!Take(t)
  /\ TakeSerial(t, kind[t])
  /\ raced' = [raced EXCEPT ![t] = closer # "idle"]
  /\ Goto(t, "begin")
  /\ UNCHANGED <<sock, netVars, activeSC, ops, closeVars, kind, req, local,
                 answer, result, sending, overtaken, matched, sockGen>>

TurnRefused(t) ==
  /\ pc[t] = "queued"
  /\ Gate!Refuse(t)
  /\ result' = [result EXCEPT ![t] = "closed"]
  /\ Goto(t, "idle")
  /\ UNCHANGED <<sock, netVars, activeSC, opVars, closeVars, kind, req, local,
                 answer, historyVars>>

Leave(t) ==
  /\ pc[t] = "leave"
  /\ Gate!Release(t)
  /\ Goto(t, "idle")
  /\ UNCHANGED <<sock, netVars, activeSC, opVars, closeVars, kind, req, local,
                 answer, result, historyVars>>
------------------------------------------------------------------------------
(* _classify_exchange_failure(): what the caller is told of a failure.     *)
Classify(failure, stateChanging, attemptedSend) ==
  IF failure # "internal" /\ stateChanging /\ attemptedSend
    THEN "outcomeUnknown" ELSE failure

(* socket.close(): what the socket had received or was owed is lost.       *)
CloseSocket(s) ==
  /\ sockState' = [u \in Sockets |-> IF u = s THEN "closed" ELSE sockState[u]]
  /\ inbox' = [u \in Sockets |-> IF u = s THEN <<>> ELSE inbox[u]]
  /\ unanswered' = [u \in Sockets |-> IF u = s THEN {} ELSE unanswered[u]]

(* _close_transport() by the holder of the turn.  Its three steps are one  *)
(* here: only close() runs beside them, and close() itself only clears.    *)
CloseTransport ==
  /\ sock' = NoSocket
  /\ CloseSocket(sock)

(* Mutant: the failure escapes without giving the turn back. *)
Fail_KeepsTurn(t, failure, attemptedSend) ==
  /\ result' = [result EXCEPT ![t] = failure]
  /\ CloseTransport
  /\ activeSC' = FALSE
  /\ Goto(t, "idle")
  /\ UNCHANGED <<gateVars, foreign, opVars, closeVars, kind, req, local,
                 answer, overtaken, raced, matched, sockGen>>

(* The except BaseException of _send_and_receive() and the except and the  *)
(* finally of _send_no_response_unlocked(): a close wins over the failure, *)
(* the transport is retired, the failure is classified.  attemptedSend is  *)
(* the local variable attempted_send at the point of the failure.          *)
Fail(t, failure, attemptedSend) ==
  LET final == IF Current(t) THEN failure ELSE "closed"
      stateChanging == kind[t] = "reset" \/ activeSC
  IN  /\ result' = [result EXCEPT
                      ![t] = Classify(final, stateChanging, attemptedSend)]
      /\ CloseTransport
      /\ activeSC' = FALSE
      /\ Goto(t, "leave")
      /\ UNCHANGED <<gateVars, foreign, opVars, closeVars, kind, req, local,
                     answer, overtaken, raced, matched, sockGen>>

(* A failure of _connect_unlocked() under connect() only ends the call. *)
FailConnect(t, failure) ==
  IF kind[t] = "connect"
    THEN /\ result' = [result EXCEPT ![t] = failure]
         /\ Goto(t, "leave")
         /\ UNCHANGED <<gateVars, sock, netVars, activeSC, opVars, closeVars,
                        kind, req, local, answer, historyVars>>
    ELSE Fail(t, failure, FALSE) /\ UNCHANGED sending

------------------------------------------------------------------------------
(* _request_unlocked() up to _connect_unlocked(): a serial number is taken,*)
(* _active_state_changing is set, the generation checked, self._sock read. *)
AfterConnect(t) == IF kind[t] = "connect" THEN "leave" ELSE "check"

Begin(t) ==
  /\ pc[t] = "begin"
  /\ IF ~Current(t)
       THEN FailConnect(t, "closed")
       ELSE /\ activeSC' = (kind[t] = "write")
            /\ IF sock = NoSocket
                 THEN /\ Goto(t, "connecting")
                      /\ UNCHANGED result
                 ELSE /\ Goto(t, AfterConnect(t))
                      /\ result' = [result EXCEPT
                           ![t] = IF kind[t] = "connect" THEN "done" ELSE @]
            /\ UNCHANGED <<gateVars, sock, netVars, opVars, closeVars, kind,
                           req, local, answer, historyVars>>

(* _open_ipv4_socket_before_deadline(): a socket, or a failure.  A result  *)
(* that comes after a close or after the deadline is not handed over.      *)
ConnectOpens(t) ==
  /\ pc[t] = "connecting"
  /\ Current(t)
  /\ \E s \in Sockets :
       /\ s = Cardinality({u \in Sockets : sockState[u] # "unused"}) + 1
       /\ sockState' = [sockState EXCEPT ![s] = "open"]
       /\ sockGen' = [sockGen EXCEPT ![s] = closes]
       /\ local' = [local EXCEPT ![t] = s]
  /\ Goto(t, "adopt")
  /\ UNCHANGED <<gateVars, sock, inbox, unanswered, foreign, activeSC, opVars,
                 closeVars, kind, req, answer, result, sending, overtaken,
                 raced, matched>>

ConnectFails(t) ==
  /\ pc[t] = "connecting"
  /\ IF Current(t)
       THEN \E f \in {"timeout", "transport", "cancelled"} : FailConnect(t, f)
       ELSE FailConnect(t, "closed")

(* self._sock = sock, and then the generation is read once more. *)
Adopt(t) ==
  /\ pc[t] = "adopt"
  /\ sock' = local[t]
  /\ Goto(t, "adopted")
  /\ UNCHANGED <<gateVars, netVars, activeSC, opVars, closeVars, kind, req,
                 local, answer, result, historyVars>>

(* Mutant: the generation is not read again after the socket is adopted. *)
CheckAdopted_NoCheck(t) ==
  /\ pc[t] = "adopted"
  /\ Goto(t, AfterConnect(t))
  /\ result' = [result EXCEPT
       ![t] = IF kind[t] = "connect" THEN "done" ELSE @]
  /\ UNCHANGED <<sock, netVars, activeSC>>
  /\ UNCHANGED <<gateVars, opVars, closeVars, kind, req, local, answer,
                 historyVars>>

CheckAdopted(t) ==
  /\ pc[t] = "adopted"
  /\ IF Current(t)
       THEN /\ Goto(t, AfterConnect(t))
            /\ result' = [result EXCEPT
                 ![t] = IF kind[t] = "connect" THEN "done" ELSE @]
            /\ UNCHANGED <<sock, netVars, activeSC>>
       ELSE /\ result' = [result EXCEPT ![t] = "closed"]
            /\ CloseTransport
            /\ activeSC' = FALSE
            /\ UNCHANGED foreign
            /\ Goto(t, "leave")
  /\ UNCHANGED <<gateVars, opVars, closeVars, kind, req, local, answer,
                 historyVars>>
------------------------------------------------------------------------------
(* Between the connection and the send: the generation, then self._sock.   *)
(* A missing socket is SlmpNotConnectedError in an exchange; elsewhere it  *)
(* is an assertion or an attribute of None, classified as neither.         *)
NoSocketFailure(t, inExchange) ==
  IF ~Current(t) THEN "closed"
  ELSE IF kind[t] = "reset" THEN "internal" ELSE inExchange

Check(t) ==
  /\ pc[t] = "check"
  /\ IF Current(t) /\ sock # NoSocket
       THEN /\ Goto(t, "grab")
            /\ UNCHANGED <<gateVars, sock, netVars, activeSC, opVars,
                           closeVars, kind, req, local, answer, result,
                           historyVars>>
       ELSE /\ Fail(t, NoSocketFailure(t, "notConnected"), FALSE)
            /\ UNCHANGED sending

(* sock = self._sock: an exchange keeps to the socket it read here.        *)
Grab(t) ==
  /\ pc[t] = "grab"
  /\ local' = [local EXCEPT ![t] = sock]
  /\ Goto(t, "send")
  /\ UNCHANGED <<gateVars, sock, netVars, activeSC, opVars, closeVars, kind,
                 req, answer, result, historyVars>>

(* The socket the send uses: a send-only command reads self._sock again.   *)
SendSocket(t) == IF kind[t] = "reset" THEN sock ELSE local[t]
Usable(s) == s # NoSocket /\ sockState[s] = "open"
SocketFailures(s) == IF s = NoSocket THEN {"internal"}
                     ELSE {"timeout", "transport", "cancelled"}

Send(t) ==
  /\ pc[t] = "send"
  /\ Usable(SendSocket(t))
  /\ sending' = [sending EXCEPT ![t] = "left"]
  /\ unanswered' = [unanswered EXCEPT ![SendSocket(t)] =
                    @ \union {[req |-> req[t], serial |-> serial[t]]}]
  /\ Goto(t, IF kind[t] = "reset" THEN "sentOnly" ELSE "receive")
  /\ UNCHANGED <<gateVars, sock, sockState, inbox, foreign, activeSC, opVars,
                 closeVars, kind, req, local, answer, result, overtaken,
                 raced, matched, sockGen>>

(* settimeout() fails, or the deadline has passed: nothing was attempted.  *)
SendNotAttempted(t) ==
  /\ pc[t] = "send"
  /\ \E f \in SocketFailures(SendSocket(t)) : Fail(t, f, FALSE)
  /\ UNCHANGED sending

(* Mutant: attempted_send is set after the send returns. *)
SendFails_LateFlag(t) ==
  /\ pc[t] = "send"
  /\ \E f \in SocketFailures(SendSocket(t)) : Fail(t, f, FALSE)
  /\ \E reached \in IF Usable(SendSocket(t)) THEN {"tried", "left"}
                    ELSE {"tried"} :
       sending' = [sending EXCEPT ![t] = reached]

(* sendall() or send() fails: some or all of the request may have left.    *)
SendFails(t) ==
  /\ pc[t] = "send"
  /\ \E f \in SocketFailures(SendSocket(t)) : Fail(t, f, TRUE)
  /\ \E reached \in IF Usable(SendSocket(t)) THEN {"tried", "left"}
                    ELSE {"tried"} :
       sending' = [sending EXCEPT ![t] = reached]

(* The entry of _receive_frame(): the generation, then assert self._sock.  *)
(* It reads self._sock once more after the assertion; finding None there   *)
(* ends as finding it in the assertion does.                               *)
Receive(t) ==
  /\ pc[t] = "receive"
  /\ IF Current(t) /\ sock # NoSocket
       THEN /\ Goto(t, "wait")
            /\ UNCHANGED <<gateVars, sock, netVars, activeSC, opVars,
                           closeVars, kind, req, local, answer, result,
                           historyVars>>
       ELSE /\ Fail(t, NoSocketFailure(t, "internal"), TRUE)
            /\ UNCHANGED sending

(* _response_matches_request(): route, then the serial number if any.      *)
Matches(t, frame) ==
  /\ frame.req # 0
  /\ Frame = "4E" => frame.serial = serial[t]

(* A complete frame is read; one that matches another request is dropped.  *)
ReadFrame(t) ==
  /\ pc[t] = "wait"
  /\ Usable(local[t])
  /\ inbox[local[t]] # <<>>
  /\ LET frame == Head(inbox[local[t]]) IN
       IF frame.code = "bad"
         THEN Fail(t, "protocol", TRUE) /\ UNCHANGED sending
         ELSE /\ inbox' = [inbox EXCEPT ![local[t]] = Tail(@)]
              /\ IF Matches(t, frame)
                   THEN /\ answer' = [answer EXCEPT ![t] = frame.code]
                        /\ matched' = [matched EXCEPT ![t] = frame.req]
                        /\ Goto(t, "settle")
                   ELSE /\ Goto(t, "receive")
                        /\ UNCHANGED <<answer, matched>>
              /\ UNCHANGED <<gateVars, sock, sockState, unanswered, foreign,
                             activeSC, opVars, closeVars, kind, req, local,
                             result, sending, overtaken, raced, sockGen>>

(* The deadline, the peer, KeyboardInterrupt, or a socket closed meanwhile.*)
WaitFails(t) ==
  /\ pc[t] = "wait"
  /\ \E f \in {"timeout", "transport", "cancelled"} : Fail(t, f, TRUE)
  /\ UNCHANGED sending

(* Mutant: the correlated answer is taken whatever the generation. *)
Settle_NoCheck(t) ==
  /\ pc[t] = "settle"
  /\ IF sock = local[t]
       THEN Goto(t, "restore") /\ UNCHANGED activeSC
       ELSE Goto(t, "decode") /\ activeSC' = FALSE
  /\ UNCHANGED <<gateVars, sock, netVars, opVars, closeVars, kind, req, local,
                 answer, result, historyVars>>

(* The answer is correlated: the generation decides, and the idle timeout  *)
(* is put back on the socket if it is still the client's.                  *)
Settle(t) ==
  /\ pc[t] = "settle"
  /\ IF Current(t)
       THEN /\ IF sock = local[t]
                 THEN Goto(t, "restore") /\ UNCHANGED activeSC
                 ELSE Goto(t, "decode") /\ activeSC' = FALSE
            /\ UNCHANGED <<gateVars, sock, netVars, opVars, closeVars, kind,
                           req, local, answer, result, historyVars>>
       ELSE Fail(t, "closed", TRUE) /\ UNCHANGED sending

RestoreTimeout(t) ==
  /\ pc[t] = "restore"
  /\ IF Usable(local[t])
       THEN /\ Goto(t, "decode")
            /\ activeSC' = FALSE
            /\ UNCHANGED <<gateVars, sock, netVars, opVars, closeVars, kind,
                           req, local, answer, result, historyVars>>
       ELSE Fail(t, "transport", TRUE) /\ UNCHANGED sending

(* The end code is definitive.  A read is published only if no close came  *)
(* before its decoding; an acknowledgement is published whatever came.     *)
ReadResult(t) ==
  IF answer[t] = "ng" THEN "endCode"
  ELSE IF ~Current(t) THEN "closed"
  ELSE IF answer[t] = "junk" THEN "protocol" ELSE "done"

(* Mutant: the code of the answer is returned as it came. *)
WriteResult_RawCode(t) == answer[t]

WriteResult(t) ==
  CASE answer[t] = "ng"   -> "endCode"
    [] answer[t] = "junk" -> "outcomeUnknown"
    [] OTHER              -> "done"

Decode(t) ==
  /\ pc[t] = "decode"
  /\ result' = [result EXCEPT
       ![t] = IF kind[t] = "read" THEN ReadResult(t) ELSE WriteResult(t)]
  /\ IF kind[t] = "write" /\ answer[t] = "junk"
       THEN CloseTransport /\ UNCHANGED foreign
       ELSE UNCHANGED <<sock, netVars>>
  /\ Goto(t, "leave")
  /\ UNCHANGED <<gateVars, activeSC, opVars, closeVars, kind, req, local,
                 answer, historyVars>>

(* Mutant: a send-only command keeps its transport. *)
SentOnly_KeepsSocket(t) ==
  /\ pc[t] = "sentOnly"
  /\ Goto(t, "traced")
  /\ UNCHANGED <<gateVars, sock, netVars, activeSC, opVars, closeVars, kind,
                 req, local, answer, result, historyVars>>

(* A send-only command: no answer is awaited, the transport is retired,    *)
(* and the generation is read on both sides of that.                       *)
SentOnly(t) ==
  /\ pc[t] = "sentOnly"
  /\ IF Current(t)
       THEN /\ CloseTransport
            /\ Goto(t, "traced")
            /\ UNCHANGED <<gateVars, foreign, activeSC, opVars, closeVars,
                           kind, req, local, answer, result, historyVars>>
       ELSE Fail(t, "closed", TRUE) /\ UNCHANGED sending

Traced(t) ==
  /\ pc[t] = "traced"
  /\ result' = [result EXCEPT
       ![t] = IF Current(t) THEN "done" ELSE Classify("closed", TRUE, TRUE)]
  /\ Goto(t, "leave")
  /\ UNCHANGED <<gateVars, sock, netVars, activeSC, opVars, closeVars, kind,
                 req, local, answer, historyVars>>
------------------------------------------------------------------------------
(* close() on a thread of its own: invalidate(), then _close_transport(),  *)
(* whose read of self._sock, assignment of None and sock.close() are three *)
(* steps.                                                                  *)
Undecided(t) ==
  \/ pc[t] \notin {"idle", "leave", "restore", "decode"}
  \/ pc[t] \in {"restore", "decode"} /\ kind[t] = "read"

CloseInvalidates ==
  /\ closer = "idle"
  /\ closes < MaxCloses
  /\ closes' = closes + 1
  /\ Gate!Close
  /\ closer' = "invalidated"
  /\ overtaken' = [t \in Threads |-> overtaken[t] \/ Undecided(t)]
  /\ UNCHANGED <<sock, netVars, activeSC, opVars, closerSock, threadVars,
                 sending, raced, matched, sockGen>>

CloseReads ==
  /\ closer = "invalidated"
  /\ closerSock' = sock
  /\ closer' = "read"
  /\ UNCHANGED <<gateVars, sock, netVars, activeSC, opVars, closes, threadVars,
                 historyVars>>

CloseClears ==
  /\ closer = "read"
  /\ sock' = NoSocket
  /\ closer' = IF closerSock = NoSocket THEN "idle" ELSE "cleared"
  /\ UNCHANGED <<gateVars, netVars, activeSC, opVars, closerSock, closes,
                 threadVars, historyVars>>

CloseCloses ==
  /\ closer = "cleared"
  /\ CloseSocket(closerSock)
  /\ closer' = "idle"
  /\ closerSock' = NoSocket
  /\ UNCHANGED <<gateVars, sock, foreign, activeSC, opVars, closes, threadVars,
                 historyVars>>
------------------------------------------------------------------------------
(* The PLC answers a request, soon or late, on the socket it came from; a  *)
(* frame for a closed socket is lost.  It may answer a send-only command.  *)
PlcAnswers(s) ==
  /\ sockState[s] = "open"
  /\ \E r \in unanswered[s], c \in Codes :
       /\ unanswered' = [unanswered EXCEPT ![s] = @ \ {r}]
       /\ inbox' = [inbox EXCEPT ![s] = Append(@,
                   [req |-> r.req, serial |-> r.serial, code |-> c])]
  /\ UNCHANGED <<gateVars, sock, sockState, foreign, activeSC, opVars,
                 closeVars, threadVars, historyVars>>

(* A frame of another route, or, on UDP, a duplicate of a datagram in the  *)
(* receive buffer, which the socket keeps for a later operation.           *)
ForeignArrives(s) ==
  /\ sockState[s] = "open"
  /\ foreign < MaxForeign
  /\ foreign' = foreign + 1
  /\ \E f \in {[req |-> 0, serial |-> 0, code |-> "ok"]} \union
              IF Transport = "udp" THEN ToSet(inbox[s]) ELSE {} :
       inbox' = [inbox EXCEPT ![s] = Append(@, f)]
  /\ UNCHANGED <<gateVars, sock, sockState, unanswered, activeSC, opVars,
                 closeVars, threadVars, historyVars>>

Operation(t) ==
  \/ TurnGranted(t) \/ TurnRefused(t) \/ Begin(t) \/ ConnectOpens(t)
  \/ ConnectFails(t) \/ Adopt(t) \/ CheckAdopted(t) \/ Check(t) \/ Grab(t)
  \/ Send(t) \/ SendNotAttempted(t) \/ SendFails(t) \/ Receive(t)
  \/ ReadFrame(t) \/ WaitFails(t) \/ Settle(t) \/ RestoreTimeout(t)
  \/ Decode(t) \/ SentOnly(t) \/ Traced(t) \/ Leave(t)

Next ==
  /\ UNCHANGED setup
  /\ \/ \E t \in Threads :
          \/ Operation(t)
          \/ \E k \in Kinds : StartFree(t, k) \/ StartQueued(t, k)
     \/ CloseInvalidates \/ CloseReads \/ CloseClears \/ CloseCloses
     \/ \E s \in Sockets : PlcAnswers(s) \/ ForeignArrives(s)

Spec == Init /\ [][Next]_vars

(* A thread that can go on does: the deadline bounds every wait.  Nobody   *)
(* has to start an operation, to close the client, or to answer.           *)
Proceeds(t) == UNCHANGED setup /\ Operation(t)
FairSpec == Spec /\ \A t \in Threads : WF_vars(Proceeds(t))
------------------------------------------------------------------------------
TypeOK ==
  /\ setup \in DOMAIN Setups
  /\ Gate!TypeOK
  /\ sock \in Sockets \union {NoSocket}
  /\ sockState \in [Sockets -> {"unused", "open", "closed"}]
  /\ inbox \in [Sockets -> Seq(Frames)]
  /\ unanswered \in [Sockets -> SUBSET Requests]
  /\ activeSC \in BOOLEAN
  /\ ops \in 0..MaxOps
  /\ nextSerial \in Serials
  /\ serial \in [Threads -> Serials]
  /\ foreign \in 0..MaxForeign
  /\ closer \in {"idle", "invalidated", "read", "cleared"}
  /\ closerSock \in Sockets \union {NoSocket}
  /\ closes \in 0..MaxCloses
  /\ pc \in [Threads -> Places]
  /\ kind \in [Threads -> AllKinds]
  /\ req \in [Threads -> 0..MaxOps]
  /\ local \in [Threads -> Sockets \union {NoSocket}]
  /\ answer \in [Threads -> AllCodes]
  /\ result \in [Threads -> Results]
  /\ sending \in [Threads -> {"none", "tried", "left"}]
  /\ overtaken \in [Threads -> BOOLEAN]
  /\ raced \in [Threads -> BOOLEAN]
  /\ matched \in [Threads -> 0..MaxOps]
  /\ sockGen \in [Sockets -> 0..MaxCloses]

Finished(t) == pc[t] \in {"leave", "idle"} /\ result[t] # "none"
Definitive == {"done", "endCode", "outcomeUnknown"}

(* The documented contract: a state-changing request that may have left    *)
(* ends with its acknowledgement, an end code, or SlmpOutcomeUnknownError; *)
(* never with an error a caller could take for "not applied".              *)
OutcomeContract ==
  \A t \in Threads :
    Finished(t) /\ kind[t] \in {"write", "reset"} /\ sending[t] = "left"
      => result[t] \in Definitive

(* The same for every operation whose turn was not granted between the two *)
(* halves of a close().                                                    *)
OutcomeContractUnraced ==
  \A t \in Threads :
    ~raced[t] /\ Finished(t) /\ kind[t] \in {"write", "reset"}
    /\ sending[t] = "left"
      => result[t] \in Definitive

(* An answer is only ever taken for the request it answers, although a 3E  *)
(* frame carries no serial number, a 4E number wraps, and the PLC may      *)
(* answer after the client stopped waiting or answer a send-only command.  *)
AnswerIsMine ==
  \A t \in Threads : matched[t] \in {0, req[t]}

(* What an operation reports is earned: success never by one that close()   *)
(* overtook before its answer was correlated (or decoded, for a read);      *)
(* SlmpOutcomeUnknownError only by a state-changing operation whose send was*)
(* reached (one that failed before it is told its exact failure, and may be *)
(* retried); an assertion, or None where a socket was expected, only by one *)
(* whose turn was granted between the two halves of a close().              *)
OutcomesAreEarned ==
  \A t \in Threads :
    /\ result[t] = "done" => ~overtaken[t]
    /\ result[t] = "outcomeUnknown"
         => kind[t] \in {"write", "reset"} /\ sending[t] # "none"
    /\ result[t] = "internal" => raced[t]

(* The transport of a closed generation is retired with it: when no        *)
(* close() is running and the holder of the turn, if any, was not          *)
(* overtaken, self._sock is a socket opened since the last close().        *)
ClosedGenerationRetired ==
  closer = "idle" /\ holder \notin stale /\ sock # NoSocket
    => sockGen[sock] = closes

(* Every operation ends and gives its turn back.                           *)
EveryOperationEnds ==
  \A t \in Threads : pc[t] # "idle" ~> pc[t] = "idle"
==============================================================================
