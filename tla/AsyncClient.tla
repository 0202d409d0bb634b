----------------------------- MODULE AsyncClient -----------------------------
(***************************************************************************)
(* AsyncSlmpClient of src/slmp/async_client.py on TCP and on UDP: the life *)
(* of an operation from its turn to its outcome, with close(), with        *)
(* cancellation at every await, and with the callbacks of the transport.   *)
(*                                                                         *)
(* One event loop runs everything: a task runs on until it suspends, so a  *)
(* task that stands at a place of Running excludes every other step.  The  *)
(* turns are those of OperationTurn, which AsyncQueue implements.  close() *)
(* is one action: it invalidates the gate and clears the transport before  *)
(* its first await, after which it changes nothing.                        *)
(***************************************************************************)
EXTENDS Naturals, Sequences, FiniteSets, SequencesExt

CONSTANTS
  Tasks, NoTask,
  NoConn,        (* None in self._writer or self._udp_transport            *)
  Setups         (* the clients that are tried, by name: options, callers  *)
                 (* and environment, each with its bounds                  *)

AllKinds == {"read", "write", "reset", "connect"}

(* ok: success with the payload the command expects;  ng: a non-zero end   *)
(* code;  junk: success with a payload the command decoder rejects;  bad:  *)
(* a frame decode_response rejects, or error information that names        *)
(* another request.                                                        *)
AllCodes == {"ok", "ng", "junk", "bad"}

ASSUME AsyncClientAssumption ==
  /\ NoTask \notin Tasks
  /\ \A name \in DOMAIN Setups : LET s == Setups[name] IN
       /\ s.callers \subseteq Tasks
       /\ s.kinds \subseteq AllKinds /\ s.codes \subseteq AllCodes
       /\ s.frame \in {"3E", "4E"} /\ s.transport \in {"tcp", "udp"}
       /\ s.modulus \in Nat \ {0} /\ s.traceHook \in BOOLEAN
       /\ s.ops \in Nat /\ s.closes \in Nat /\ s.extra \in Nat
       /\ NoConn \notin 1..s.ops

VARIABLES
  setup,       (* the name of the client's setup                           *)
  holder, line, stale, (* the operation gate                               *)
  conn,        (* self._reader and _writer, or _udp_transport and _protocol*)
  connState,   (* unused, open, closing (connection_lost to come) or closed*)
  inbox,       (* frames received and not read; UDP: datagrams under way   *)
  unanswered,  (* requests the PLC got on a connection and may yet answer  *)
  extra,       (* duplicates and foreign frames so far                     *)
  waiter,      (* the response future of each UDP protocol, with its answer*)
  activeSC,    (* self._active_state_changing                              *)
  ops, nextSerial, closes,
  pc,          (* where each task stands in its operation                  *)
  kind, req, serial,  (* its operation, the number and serial of its request*)
  local,       (* the connection it opened, or whose answer it awaits      *)
  answer,      (* the code of the response it correlated                   *)
  outcome,     (* what it raises or returns; pending until pc is idle      *)
  (* history, read by properties only: *)
  sent,        (* the request may have left                                *)
  overtaken,   (* close() came before the answer was correlated (decoded,  *)
               (* for a read)                                              *)
  opened,      (* the number of close() calls before the operation began   *)
  cut,         (* cancelled at an await outside the failure handlers       *)
  matched,     (* the number of the request the accepted frame answers     *)
  connGen      (* the number of close() calls before a connection opened   *)

gateVars == <<holder, line, stale>>
netVars == <<connState, inbox, unanswered, extra, waiter>>
clientVars == <<conn, activeSC, ops, nextSerial, closes>>
taskVars == <<pc, kind, req, serial, local, answer, outcome>>
historyVars == <<sent, overtaken, opened, cut, matched, connGen>>
vars == <<setup, gateVars, netVars, clientVars, taskVars, historyVars>>

Kinds == Setups[setup].kinds            (* the operations started           *)
Transport == Setups[setup].transport
Frame == Setups[setup].frame            (* 3E frames have no serial number  *)
SerialModulus == Setups[setup].modulus  (* 2^16 in the code                 *)
TraceHook == Setups[setup].traceHook    (* a hook is set: it may suspend    *)
Codes == Setups[setup].codes            (* the answers the PLC gives        *)
MaxOps == Setups[setup].ops             (* bound: operations started        *)
MaxCloses == Setups[setup].closes       (* bound: close() calls             *)
MaxExtra == Setups[setup].extra         (* bound: duplicated frames and     *)
                                        (* frames of other routes           *)

(* A connection is a (reader, writer) pair or a (UDP transport, protocol)  *)
(* pair; an operation opens at most one, so c is the c-th opened.          *)
Conns == 1..MaxOps
Serials == 0..(SerialModulus - 1)
Requests == [req : 1..MaxOps, serial : Serials]
Frames == [req : 0..MaxOps, serial : Serials, code : AllCodes]

Gate == INSTANCE OperationTurn WITH Threads <- Tasks, NoThread <- NoTask

Running == {"begin", "send", "discarded", "sent", "decode", "leave"}
Awaiting == {"queued", "resolving", "opening", "discarding", "draining",
             "receiving", "cleanup", "tracing"}
Places == {"idle"} \union Running \union Awaiting
Failures == {"closed", "timeout", "transport", "protocol", "cancelled",
             "internal"}
Outcomes == Failures \union {"none", "sent", "done", "endCode",
                             "outcomeUnknown"}
WaiterStates == {"none", "pending", "answered", "closed", "transport",
                 "protocol"}
Waiters == [state : WaiterStates, expected : Serials, frame : Frames]
NoFrame == [req |-> 0, serial |-> 0, code |-> "ok"]
NoWaiter == [state |-> "none", expected |-> 0, frame |-> NoFrame]

Init ==
  /\ setup \in DOMAIN Setups
  /\ Gate!Init
  /\ conn = NoConn
  /\ connState = [c \in Conns |-> "unused"]
  /\ inbox = [c \in Conns |-> <<>>]
  /\ unanswered = [c \in Conns |-> {}]
  /\ waiter = [c \in Conns |-> NoWaiter]
  /\ extra = 0 /\ activeSC = FALSE
  /\ ops = 0 /\ nextSerial = 0 /\ closes = 0
  /\ pc = [t \in Tasks |-> "idle"]
  /\ kind = [t \in Tasks |-> "read"]
  /\ req = [t \in Tasks |-> 0]
  /\ serial = [t \in Tasks |-> 0]
  /\ local = [t \in Tasks |-> NoConn]
  /\ answer = [t \in Tasks |-> "ok"]
  /\ outcome = [t \in Tasks |-> "none"]
  /\ sent = [t \in Tasks |-> FALSE]
  /\ overtaken = [t \in Tasks |-> FALSE]
  /\ opened = [t \in Tasks |-> 0]
  /\ cut = [t \in Tasks |-> FALSE]
  /\ matched = [t \in Tasks |-> 0]
  /\ connGen = [c \in Conns |-> 0]

Goto(t, place) == pc' = [pc EXCEPT ![t] = place]
Ends(t, o) == Goto(t, "leave") /\ outcome' = [outcome EXCEPT ![t] = o]
Current(t) == Gate!IsCurrent(t)
Idle == \A t \in Tasks : pc[t] \notin Running
Suspended(t, places) == Idle /\ pc[t] \in places
------------------------------------------------------------------------------
(* A request is validated and the turn asked for. *)
Start(t, k) ==
  /\ t \in Setups[setup].callers
  /\ Suspended(t, {"idle"})
  /\ ops < MaxOps
  /\ ops' = ops + 1
  /\ kind' = [kind EXCEPT ![t] = k]
  /\ req' = [req EXCEPT ![t] = ops + 1]
  /\ outcome' = [outcome EXCEPT ![t] = "none"]
  /\ sent' = [sent EXCEPT ![t] = FALSE]
  /\ overtaken' = [overtaken EXCEPT ![t] = FALSE]
  /\ opened' = [opened EXCEPT ![t] = closes]
  /\ cut' = [cut EXCEPT ![t] = FALSE]
  /\ matched' = [matched EXCEPT ![t] = 0]
  /\ UNCHANGED <<netVars, conn, activeSC, nextSerial, closes, serial, local,
                 answer, connGen>>

StartFree(t, k) ==
  /\ Start(t, k)
  /\ Gate!TakeFree(t)
  /\ Goto(t, "begin")

StartQueued(t, k) ==
  /\ Start(t, k)
  /\ holder # NoTask \/ line # <<>>
  /\ Gate!Join(t)
  /\ Goto(t, "queued")

TurnGranted(t) ==
  /\ Suspended(t, {"queued"})
  /\ Gate!Take(t)
  /\ Goto(t, "begin")
  /\ UNCHANGED <<netVars, clientVars, kind, req, serial, local, answer,
                 outcome, historyVars>>

TurnRefused(t) ==
  /\ Suspended(t, {"queued"})
  /\ Gate!Refuse(t)
  /\ outcome' = [outcome EXCEPT ![t] = "closed"]
  /\ Goto(t, "idle")
  /\ UNCHANGED <<netVars, clientVars, kind, req, serial, local, answer,
                 historyVars>>

CancelledInLine(t) ==
  /\ Suspended(t, {"queued"})
  /\ Gate!GiveUp(t)
  /\ outcome' = [outcome EXCEPT ![t] = "cancelled"]
  /\ Goto(t, "idle")
  /\ UNCHANGED <<netVars, clientVars, kind, req, serial, local, answer,
                 historyVars>>

(* The turn is given back, and the local variables of the call are gone.   *)
Leave(t) ==
  /\ pc[t] = "leave"
  /\ Gate!Release(t)
  /\ activeSC' = FALSE
  /\ Goto(t, "idle")
  /\ local' = [local EXCEPT ![t] = NoConn]
  /\ answer' = [answer EXCEPT ![t] = "ok"]
  /\ UNCHANGED <<netVars, conn, ops, nextSerial, closes, kind, req, serial,
                 outcome, historyVars>>
------------------------------------------------------------------------------
(* _classify_exchange_failure(): what the caller is told of a failure.     *)
Classify(failure, stateChanging, attemptedSend) ==
  IF failure # "internal" /\ stateChanging /\ attemptedSend
    THEN "outcomeUnknown" ELSE failure

(* fail_pending(): a pending response future gets the error, and only it.  *)
FailPending(c, error) ==
  [d \in Conns |-> IF d = c /\ waiter[d].state = "pending"
                     THEN [waiter[d] EXCEPT !.state = error] ELSE waiter[d]]

(* forget_response_wait(): the response future of a request is dropped.    *)
Forget(c) == [d \in Conns |-> IF d = c THEN NoWaiter ELSE waiter[d]]

(* _close_tcp_unlocked() up to its await, or _close_udp_unlocked(): what   *)
(* the connection was owed is lost; a TCP reader keeps what it buffered.   *)
Retire ==
  /\ conn' = NoConn
  /\ connState' = [c \in Conns |->
       IF c # conn THEN connState[c]
       ELSE IF Transport = "udp" THEN "closing" ELSE "closed"]
  /\ inbox' = [c \in Conns |->
       IF c = conn /\ Transport = "udp" THEN <<>> ELSE inbox[c]]
  /\ unanswered' = [c \in Conns |-> IF c = conn THEN {} ELSE unanswered[c]]

(* Mutant: the transport survives a deadline. *)
RetireThen_KeepsAfterTimeout(t, o) ==
  /\ outcome' = [outcome EXCEPT ![t] = o]
  /\ Goto(t, IF o = "sent" THEN "sent" ELSE "leave")
  /\ IF o = "timeout" THEN UNCHANGED <<conn, connState, inbox, unanswered>>
                      ELSE Retire
  /\ waiter' = Forget(local[t])
  /\ UNCHANGED <<gateVars, extra, activeSC, ops, nextSerial, closes, kind,
                 req, serial, local, answer, opened, overtaken, connGen>>

(* The transport is retired and the outcome o reported; on TCP the task    *)
(* waits first until the connection is closed.                             *)
RetireThen(t, o) ==
  /\ outcome' = [outcome EXCEPT ![t] = o]
  /\ Goto(t, IF Transport = "tcp" /\ conn # NoConn THEN "cleanup"
             ELSE IF o = "sent" THEN "sent" ELSE "leave")
  /\ Retire
  /\ waiter' = Forget(local[t])
  /\ UNCHANGED <<gateVars, extra, activeSC, ops, nextSerial, closes, kind,
                 req, serial, local, answer, opened, overtaken, connGen>>

(* Mutant: the failure escapes without giving the turn back. *)
Fail_KeepsTurn(t, failure, attemptedSend) ==
  /\ outcome' = [outcome EXCEPT ![t] = failure]
  /\ Goto(t, "idle")
  /\ Retire
  /\ waiter' = Forget(local[t])
  /\ UNCHANGED <<gateVars, extra, activeSC, ops, nextSerial, closes, kind,
                 req, serial, local, answer, historyVars>>

(* The except BaseException of _send_and_receive() and the except and the  *)
(* finally of _send_no_response(): a close wins over the failure.          *)
Fail(t, failure, attemptedSend) ==
  /\ RetireThen(t, Classify(IF Current(t) THEN failure ELSE "closed",
                            kind[t] = "reset" \/ activeSC, attemptedSend))
  /\ UNCHANGED <<sent, cut, matched>>

(* A failure of _connect_unlocked(): under connect() it ends the call.     *)
FailConnect(t, failure) ==
  IF kind[t] = "connect"
    THEN /\ Ends(t, failure)
         /\ UNCHANGED <<gateVars, netVars, clientVars, kind, req, serial,
                        local, answer, historyVars>>
    ELSE Fail(t, failure, FALSE)
------------------------------------------------------------------------------
(* _next_serial().  A 3E frame carries no serial number. *)
TakeSerial(t) ==
  IF kind[t] = "connect" \/ Frame = "3E"
    THEN UNCHANGED <<serial, nextSerial>>
    ELSE /\ serial' = [serial EXCEPT ![t] = nextSerial]
         /\ nextSerial' = (nextSerial + 1) % SerialModulus

(* _request_unlocked() and _send_no_response() up to the first await: the  *)
(* serial number, _active_state_changing, and the early return of          *)
(* _connect_unlocked() when there is a transport.                          *)
Begin(t) ==
  /\ pc[t] = "begin"
  /\ activeSC' = (kind[t] = "write")
  /\ TakeSerial(t)
  /\ IF conn = NoConn THEN Goto(t, "resolving") /\ UNCHANGED outcome
     ELSE IF kind[t] = "connect" THEN Ends(t, "done")
     ELSE Goto(t, "send") /\ UNCHANGED outcome
  /\ UNCHANGED <<gateVars, netVars, conn, ops, closes, kind, req, local,
                 answer, historyVars>>

(* What an await may end with besides its result. *)
Interruptions == {"timeout", "transport", "cancelled"}

Resolved(t) ==
  /\ Suspended(t, {"resolving"})
  /\ Current(t)
  /\ Goto(t, "opening")
  /\ UNCHANGED <<gateVars, netVars, clientVars, kind, req, serial, local,
                 answer, outcome, historyVars>>

(* The await of the resolver or of the connection fails, or the resolver   *)
(* answers after a close.                                                  *)
ConnectFails(t) ==
  \/ /\ Suspended(t, {"resolving", "opening"})
     /\ \E f \in Interruptions : FailConnect(t, f)
  \/ /\ Suspended(t, {"resolving"})
     /\ ~Current(t)
     /\ FailConnect(t, "closed")

Opens(t, c) ==
  /\ Suspended(t, {"opening"})
  /\ c = Cardinality({d \in Conns : connState[d] # "unused"}) + 1
  /\ connGen' = [connGen EXCEPT ![c] = closes]
  /\ local' = [local EXCEPT ![t] = c]
  /\ UNCHANGED <<gateVars, inbox, unanswered, extra, waiter, activeSC, ops,
                 nextSerial, closes, kind, req, serial, answer, sent,
                 overtaken, opened, cut, matched>>

(* The connection is there, in time and in the generation of the turn: it  *)
(* becomes the client's with no await in between.                          *)
Adopts(t, c) ==
  /\ Opens(t, c)
  /\ Current(t)
  /\ connState' = [connState EXCEPT ![c] = "open"]
  /\ conn' = c
  /\ IF kind[t] = "connect" THEN Ends(t, "done")
                            ELSE Goto(t, "send") /\ UNCHANGED outcome

(* Mutant: the connection that is refused is not closed. *)
Discards_KeepsOpen(t, c) ==
  /\ Opens(t, c)
  /\ \E f \in IF Current(t) THEN {"timeout", "transport"} ELSE {"closed"} :
       outcome' = [outcome EXCEPT ![t] = f]
  /\ connState' = [connState EXCEPT ![c] = "open"]
  /\ Goto(t, "discarding")
  /\ UNCHANGED conn

(* It comes after a close or after the deadline, or a socket option fails. *)
Discards(t, c) ==
  /\ Opens(t, c)
  /\ \E f \in IF Current(t) THEN {"timeout", "transport"} ELSE {"closed"} :
       outcome' = [outcome EXCEPT ![t] = f]
  /\ connState' = [connState EXCEPT
       ![c] = IF Transport = "udp" THEN "closing" ELSE "closed"]
  /\ \E place \in {"discarded"} \union
                  IF Transport = "tcp" THEN {"discarding"} ELSE {} :
       Goto(t, place)
  /\ UNCHANGED conn

(* The await of wait_closed() ends, also by a cancellation, which is       *)
(* swallowed there.                                                        *)
DiscardEnds(t) ==
  /\ Suspended(t, {"discarding"})
  /\ Goto(t, "discarded")
  /\ UNCHANGED <<gateVars, netVars, clientVars, kind, req, serial, local,
                 answer, outcome, historyVars>>

Discarded(t) == pc[t] = "discarded" /\ FailConnect(t, outcome[t])
------------------------------------------------------------------------------
(* begin_response_wait(): a new response future, with the identity of the  *)
(* request.                                                                *)
NewWaiter(t) == [NoWaiter EXCEPT !.state = "pending", !.expected = serial[t]]

(* The request is handed to the transport.  On UDP there is no await in    *)
(* it, and a response future is installed before.                          *)
Send(t) ==
  /\ pc[t] = "send"
  /\ sent' = [sent EXCEPT ![t] = TRUE]
  /\ IF Transport = "udp" /\ kind[t] = "reset"
       THEN /\ RetireThen(t, "sent")
            /\ UNCHANGED <<cut, matched>>
       ELSE /\ unanswered' = [unanswered EXCEPT ![conn] =
                 @ \union {[req |-> req[t], serial |-> serial[t]]}]
            /\ waiter' = IF Transport = "tcp" THEN waiter
                         ELSE [waiter EXCEPT ![conn] = NewWaiter(t)]
            /\ local' = [local EXCEPT ![t] = conn]
            /\ Goto(t, IF Transport = "tcp" THEN "draining" ELSE "receiving")
            /\ UNCHANGED <<gateVars, connState, inbox, extra, clientVars,
                           kind, req, serial, answer, outcome, overtaken,
                           opened, cut, matched, connGen>>

(* _receive_frame() asserts self._reader: without one the task would end   *)
(* outside the SlmpError classes, unless a close accounts for it.          *)
Drained(t) ==
  /\ Suspended(t, {"draining"})
  /\ CASE kind[t] = "reset" ->
            IF Current(t)
              THEN RetireThen(t, "sent") /\ UNCHANGED <<sent, cut, matched>>
              ELSE Fail(t, "closed", TRUE)
       [] kind[t] # "reset" /\ conn # local[t] -> Fail(t, "internal", TRUE)
       [] OTHER ->
            /\ Goto(t, "receiving")
            /\ UNCHANGED <<gateVars, netVars, clientVars, kind, req, serial,
                           local, answer, outcome, historyVars>>

(* _response_matches_request(): route, then the serial number if any.      *)
Matches(expected, frame) ==
  /\ frame.req # 0
  /\ Frame = "4E" => frame.serial = expected

(* The answer is correlated, in the generation of the turn.                *)
Accept(t, frame) ==
  /\ Current(t)
  /\ answer' = [answer EXCEPT ![t] = frame.code]
  /\ matched' = [matched EXCEPT ![t] = frame.req]
  /\ activeSC' = FALSE
  /\ Goto(t, IF TraceHook THEN "tracing" ELSE "decode")
  /\ UNCHANGED <<gateVars, connState, unanswered, extra, conn, ops,
                 nextSerial, closes, kind, req, serial, local, outcome,
                 sent, overtaken, opened, cut, connGen>>

(* TCP: one complete frame is read; one for another request is dropped.    *)
ReadFrame(t) ==
  /\ Suspended(t, {"receiving"}) /\ Transport = "tcp"
  /\ inbox[local[t]] # <<>>
  /\ LET frame == Head(inbox[local[t]])
         rest == [inbox EXCEPT ![local[t]] = Tail(@)]
     IN  CASE frame.code = "bad" -> Fail(t, "protocol", TRUE)
           [] frame.code # "bad" /\ Matches(serial[t], frame) ->
                \/ Accept(t, frame) /\ inbox' = rest /\ UNCHANGED waiter
                \/ ~Current(t) /\ Fail(t, "closed", TRUE)
           [] OTHER ->
                /\ inbox' = rest
                /\ UNCHANGED <<gateVars, connState, unanswered, extra, waiter,
                               clientVars, taskVars, historyVars>>

(* datagram_received(): a datagram that no response future awaits, or that *)
(* is not its answer, is discarded.                                        *)
DatagramReceived(c) ==
  /\ Idle /\ Transport = "udp" /\ connState[c] = "open"
  /\ \E i \in DOMAIN inbox[c] :
       LET frame == inbox[c][i]
           verdict == IF frame.code = "bad" THEN "protocol" ELSE "answered"
       IN  /\ inbox' = [inbox EXCEPT ![c] = RemoveAt(@, i)]
           /\ IF /\ waiter[c].state = "pending"
                 /\ frame.code = "bad" \/ Matches(waiter[c].expected, frame)
                THEN waiter' = [waiter EXCEPT
                       ![c] = [@ EXCEPT !.state = verdict, !.frame = frame]]
                ELSE UNCHANGED waiter
  /\ UNCHANGED <<gateVars, connState, unanswered, extra, clientVars, taskVars,
                 historyVars>>

(* UDP: the response future is done and its task resumes.                  *)
WaiterResumes(t) ==
  /\ Suspended(t, {"receiving"}) /\ Transport = "udp"
  /\ waiter[local[t]].state # "pending"
  /\ LET w == waiter[local[t]] IN
       IF w.state = "answered"
         THEN \/ Accept(t, w.frame) /\ waiter' = Forget(local[t])
                 /\ UNCHANGED inbox
              \/ ~Current(t) /\ Fail(t, "closed", TRUE)
         ELSE Fail(t, w.state, TRUE)

(* Mutant: attempted_send is set only when the answer is there. *)
ExchangeFails_NotAttempted(t) ==
  /\ Suspended(t, {"draining", "receiving"})
  /\ \E f \in Interruptions :
       /\ f = "transport" => Transport = "tcp"
       /\ Fail(t, f, FALSE)

(* The deadline, the peer or a cancellation ends the exchange.             *)
ExchangeFails(t) ==
  /\ Suspended(t, {"draining", "receiving"})
  /\ \E f \in Interruptions :
       /\ f = "transport" => Transport = "tcp"
       /\ Fail(t, f, TRUE)

(* wait_closed() returns and the pending outcome is raised.                *)
CleanupEnds(t) ==
  /\ Suspended(t, {"cleanup"})
  /\ Goto(t, IF outcome[t] = "sent" THEN "sent" ELSE "leave")
  /\ UNCHANGED <<gateVars, netVars, clientVars, kind, req, serial, local,
                 answer, outcome, historyVars>>

(* A send-only command once its transport is retired.                      *)
Sent(t) ==
  /\ pc[t] = "sent" \/ (Suspended(t, {"tracing"}) /\ kind[t] = "reset")
  /\ IF pc[t] = "sent" /\ TraceHook
       THEN Goto(t, "tracing") /\ UNCHANGED outcome
       ELSE \E interrupted \in {FALSE, pc[t] = "tracing"} :
              Ends(t, IF Current(t) /\ ~interrupted THEN "done"
                      ELSE Classify("closed", TRUE, TRUE))
  /\ UNCHANGED <<gateVars, netVars, clientVars, kind, req, serial, local,
                 answer, historyVars>>

Traced(t) ==
  /\ Suspended(t, {"tracing"}) /\ kind[t] # "reset"
  /\ Goto(t, "decode")
  /\ UNCHANGED <<gateVars, netVars, clientVars, kind, req, serial, local,
                 answer, outcome, historyVars>>

(* A cancellation at an await that no handler covers: CancelledError       *)
(* leaves the operation as it is, whatever was sent.                       *)
Cut(t) ==
  /\ Suspended(t, {"cleanup", "tracing"})
  /\ pc[t] = "tracing" => kind[t] # "reset"
  /\ Ends(t, "cancelled")
  /\ cut' = [cut EXCEPT ![t] = TRUE]
  /\ UNCHANGED <<gateVars, netVars, clientVars, kind, req, serial, local,
                 answer, sent, overtaken, opened, matched, connGen>>

(* Mutant: the code of the answer is returned as it came. *)
Decoded_RawCode(t) == answer[t]

(* The end code is definitive.  A read is published only if no close came  *)
(* before its decoding.                                                    *)
Decoded(t) ==
  IF answer[t] = "ng" THEN "endCode"
  ELSE IF kind[t] = "read" /\ ~Current(t) THEN "closed"
  ELSE IF answer[t] = "junk" THEN "protocol" ELSE "done"

(* A malformed acknowledgement retires the transport. *)
Decode(t) ==
  /\ pc[t] = "decode"
  /\ IF kind[t] = "write" /\ answer[t] = "junk"
       THEN RetireThen(t, "outcomeUnknown") /\ UNCHANGED <<sent, cut, matched>>
       ELSE /\ Ends(t, Decoded(t))
            /\ UNCHANGED <<gateVars, netVars, clientVars, kind, req, serial,
                           local, answer, historyVars>>
------------------------------------------------------------------------------
Undecided(t) ==
  \/ pc[t] \notin {"idle", "leave", "cleanup", "tracing"}
  \/ pc[t] = "tracing" /\ kind[t] # "write"
  \/ pc[t] = "cleanup" /\ outcome[t] = "sent"

(* close(): its wait for the closed connection changes nothing any more.   *)
Close ==
  /\ Idle /\ closes < MaxCloses
  /\ closes' = closes + 1
  /\ Gate!Close
  /\ Retire
  /\ waiter' = FailPending(conn, "closed")
  /\ overtaken' = [t \in Tasks |-> overtaken[t] \/ Undecided(t)]
  /\ UNCHANGED <<extra, activeSC, ops, nextSerial, taskVars, sent, opened,
                 cut, matched, connGen>>

(* error_received() comes while the endpoint is open, connection_lost()    *)
(* without an error once it was closed.                                    *)
LossError(c) == IF connState[c] = "open" THEN "transport" ELSE "closed"

(* Mutant: a lost transport retires whatever endpoint the client has now.  *)
TransportLost_AnyGeneration(c) ==
  /\ Idle /\ Transport = "udp"
  /\ connState[c] \in {"open", "closing"}
  /\ waiter' = FailPending(c, LossError(c))
  /\ connState' = [d \in Conns |->
       IF d = c /\ connState[c] = "closing" THEN "closed"
       ELSE IF d = conn THEN "closing" ELSE connState[d]]
  /\ conn' = NoConn
  /\ UNCHANGED <<gateVars, inbox, unanswered, extra, activeSC, ops,
                 nextSerial, closes, taskVars, historyVars>>

(* The loss of an endpoint is reported: its own response future fails, and *)
(* the client forgets the endpoint if it is still the current one.         *)
TransportLost(c) ==
  /\ Idle /\ Transport = "udp"
  /\ connState[c] \in {"open", "closing"}
  /\ waiter' = FailPending(c, LossError(c))
  /\ connState' = [connState EXCEPT
       ![c] = IF @ = "closing" THEN "closed"
              ELSE IF conn = c THEN "closing" ELSE @]
  /\ conn' = IF conn = c THEN NoConn ELSE conn
  /\ UNCHANGED <<gateVars, inbox, unanswered, extra, activeSC, ops,
                 nextSerial, closes, taskVars, historyVars>>

(* The PLC answers a request, soon or late, on the connection it came from.*)
PlcAnswers(c) ==
  /\ Idle /\ connState[c] = "open"
  /\ \E r \in unanswered[c], code \in Codes :
       /\ unanswered' = [unanswered EXCEPT ![c] = @ \ {r}]
       /\ inbox' = [inbox EXCEPT ![c] = Append(@,
                      [req |-> r.req, serial |-> r.serial, code |-> code])]
  /\ UNCHANGED <<gateVars, connState, extra, waiter, clientVars, taskVars,
                 historyVars>>

(* A frame of another route, or, on UDP, a duplicate of a datagram.        *)
ExtraArrives(c) ==
  /\ Idle /\ connState[c] = "open"
  /\ extra < MaxExtra
  /\ extra' = extra + 1
  /\ \E f \in {NoFrame} \union
              IF Transport = "udp" THEN ToSet(inbox[c]) ELSE {} :
       inbox' = [inbox EXCEPT ![c] = Append(@, f)]
  /\ UNCHANGED <<gateVars, connState, unanswered, waiter, clientVars, taskVars,
                 historyVars>>

(* What a task does without suspending (or after the hook of a send-only   *)
(* command), and what resumes a task that is suspended.                    *)
RunsOn(t) ==
  \/ Begin(t) \/ Discarded(t) \/ Send(t) \/ Sent(t) \/ Decode(t)
  \/ Leave(t)

Resumes(t) ==
  \/ TurnGranted(t) \/ TurnRefused(t) \/ Resolved(t) \/ ConnectFails(t)
  \/ \E c \in Conns : Adopts(t, c) \/ Discards(t, c)
  \/ DiscardEnds(t) \/ Drained(t) \/ ReadFrame(t) \/ WaiterResumes(t)
  \/ ExchangeFails(t) \/ CleanupEnds(t) \/ Traced(t)

Next ==
  /\ UNCHANGED setup
  /\ \/ \E t \in Tasks :
          \/ RunsOn(t) \/ Resumes(t) \/ CancelledInLine(t) \/ Cut(t)
          \/ \E k \in Kinds : StartFree(t, k) \/ StartQueued(t, k)
     \/ Close
     \/ \E c \in Conns :
          \/ DatagramReceived(c) \/ TransportLost(c) \/ PlcAnswers(c)
          \/ ExtraArrives(c)

Spec == Init /\ [][Next]_vars

(* The event loop runs every task that can go on: the deadline bounds      *)
(* every await of an exchange, and wait_closed() and the trace hook return.*)
(* Nobody has to start an operation, to cancel or close, or to answer.     *)
Runs(t) == UNCHANGED setup /\ RunsOn(t)
Continues(t) == UNCHANGED setup /\ Resumes(t)
FairSpec ==
  Spec /\ \A t \in Tasks : WF_vars(Runs(t)) /\ WF_vars(Continues(t))
------------------------------------------------------------------------------
TypeOK ==
  /\ setup \in DOMAIN Setups
  /\ Gate!TypeOK
  /\ conn \in Conns \union {NoConn}
  /\ connState \in [Conns -> {"unused", "open", "closing", "closed"}]
  /\ inbox \in [Conns -> Seq(Frames)]
  /\ unanswered \in [Conns -> SUBSET Requests]
  /\ extra \in 0..MaxExtra
  /\ waiter \in [Conns -> Waiters]
  /\ activeSC \in BOOLEAN
  /\ ops \in 0..MaxOps /\ nextSerial \in Serials /\ closes \in 0..MaxCloses
  /\ pc \in [Tasks -> Places]
  /\ kind \in [Tasks -> AllKinds]
  /\ req \in [Tasks -> 0..MaxOps]
  /\ serial \in [Tasks -> Serials]
  /\ local \in [Tasks -> Conns \union {NoConn}]
  /\ answer \in [Tasks -> AllCodes]
  /\ outcome \in [Tasks -> Outcomes]
  /\ sent \in [Tasks -> BOOLEAN] /\ overtaken \in [Tasks -> BOOLEAN]
  /\ cut \in [Tasks -> BOOLEAN]
  /\ opened \in [Tasks -> 0..MaxCloses]
  /\ matched \in [Tasks -> 0..MaxOps]
  /\ connGen \in [Conns -> 0..MaxCloses]

Finished(t) == pc[t] = "idle" /\ outcome[t] # "none"
StateChanging(t) == kind[t] \in {"write", "reset"}
Definitive == {"done", "endCode", "outcomeUnknown"}

(* The documented contract: a state-changing request that may have left    *)
(* ends with its acknowledgement, an end code or SlmpOutcomeUnknownError.  *)
(* The exception is a task cancelled while it waits for the cleanup of its *)
(* exchange or for the trace hook: it ends cancelled.                      *)
OutcomeContractUncut ==
  \A t \in Tasks :
    Finished(t) /\ StateChanging(t) /\ sent[t] /\ ~cut[t]
      => outcome[t] \in Definitive

(* An answer is only ever taken for the request it answers, although the   *)
(* PLC may answer after a timeout or a cancellation, or answer a send-only *)
(* command.                                                                *)
AnswerIsMine == \A t \in Tasks : matched[t] \in {0, req[t]}

(* What an operation reports is earned: success never by one that close()   *)
(* overtook before its answer was correlated (or decoded, for a read); an   *)
(* unknown outcome only by a state-changing request that reached the        *)
(* transport; SlmpClosedError only after a close() that came during the     *)
(* operation, so that the delayed loss of an old UDP endpoint never reaches *)
(* it; and no task ends outside the SlmpError classes: a reader that close()*)
(* took away from it is reported as the close.                              *)
OutcomesAreEarned ==
  \A t \in Tasks :
    /\ Finished(t) /\ outcome[t] = "done" => ~overtaken[t]
    /\ outcome[t] = "outcomeUnknown" => StateChanging(t) /\ sent[t]
    /\ outcome[t] = "closed" => closes > opened[t]
    /\ outcome[t] # "internal"

(* The client's transport is open and of the current generation, and no    *)
(* other connection stays open.                                            *)
OneLiveConnection ==
  /\ conn # NoConn => connState[conn] = "open" /\ connGen[conn] = closes
  /\ \A c \in Conns : connState[c] = "open" => conn = c

(* Every operation ends and gives its turn back.                           *)
EveryOperationEnds == \A t \in Tasks : pc[t] # "idle" ~> pc[t] = "idle"
==============================================================================
