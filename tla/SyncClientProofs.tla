-------------------------- MODULE SyncClientProofs ---------------------------
(***************************************************************************)
(* For any number of threads, operations, closes and foreign frames, and   *)
(* for any interleaving: what SyncClient promises.                         *)
(*                                                                         *)
(* The inductive invariant says what a thread may rely on at each place of *)
(* its operation. The gate lets one thread into a turn (HoldsTurn), and    *)
(* what that thread has sent follows from where it stands (Standing).      *)
(* close() does not wait for the turn, so what it may have done meanwhile  *)
(* has to be said of every place (Overtaking, Generations): that makes the *)
(* outcomes right. Answers are correlated for two reasons, either of which *)
(* is enough (Correlation): who gives up a request gives up its socket, so *)
(* that nothing old is in the socket a request is sent on; and serial      *)
(* numbers that do not wrap tell the requests apart.                       *)
(***************************************************************************)
EXTENDS SyncClient, SequenceLemmas, FiniteSetTheorems, TLAPS

InTurn == Places \ {"idle", "queued"}
BeforeSend == {"queued", "begin", "connecting", "adopt", "adopted", "check",
               "grab", "send"}
AfterSend == {"receive", "wait", "settle", "restore", "decode", "sentOnly",
              "traced"}
Exchanging == {"check", "grab", "send"} \union AfterSend

InLine(t) == \E i \in DOMAIN line : line[i] = t

(* Exactly the holder of the gate stands in a turn, and who waits for it   *)
(* is in line.                                                             *)
HoldsTurn ==
  \A t \in Threads :
    /\ pc[t] \in InTurn <=> holder = t
    /\ pc[t] = "queued" => InLine(t)

(* What the place of a thread says of its operation.                       *)
Standing ==
  \A t \in Threads :
    /\ pc[t] # "idle" => req[t] # 0
    /\ pc[t] \notin {"idle", "leave"} => result[t] = "none"
    /\ pc[t] \in BeforeSend => sending[t] = "none"
    /\ pc[t] \in AfterSend => sending[t] = "left"
    /\ pc[t] \in Exchanging => kind[t] # "connect"
    /\ pc[t] \in {"sentOnly", "traced"} => kind[t] = "reset"
    /\ pc[t] \in AfterSend \ {"sentOnly", "traced"} => kind[t] # "reset"
    /\ pc[t] \in InTurn \ {"begin", "decode", "leave"}
         => (activeSC <=> kind[t] = "write")

(* Who was overtaken is told so before it goes on; who was not, and did    *)
(* not get its turn inside a close(), has no close() beside it and has its *)
(* socket.                                                                 *)
Overtaking ==
  \A t \in Threads :
    /\ overtaken[t] /\ pc[t] # "idle" => t \in stale
    /\ pc[t] \in {"restore", "decode"} /\ kind[t] # "read" => ~overtaken[t]
    /\ pc[t] \in InTurn /\ t \notin stale /\ ~raced[t] =>
         /\ closer = "idle"
         /\ pc[t] \in {"adopted", "check", "grab", "send", "receive",
                        "wait"}
              => sock # NoSocket
         /\ pc[t] = "send" => local[t] # NoSocket

(* Sockets are opened one after the other, nobody holds one that was never *)
(* opened, and one that is not open holds no messages.                     *)
InOrder ==
  \E n \in 0..MaxOps : {u \in Sockets : sockState[u] # "unused"} = 1..n

IsOpened(s) == s # NoSocket => sockState[s] # "unused"

SocketsKnown ==
  /\ InOrder
  /\ IsOpened(sock) /\ IsOpened(closerSock)
  /\ \A t \in Threads : IsOpened(local[t])
  /\ \A u \in Sockets :
       sockState[u] # "open" => inbox[u] = <<>> /\ unanswered[u] = {}

(* The socket that is adopted was opened since the last close(), unless    *)
(* its owner is about to be told of that close().                          *)
Generations ==
  /\ \A t \in Threads :
       pc[t] = "adopt" =>
         /\ local[t] # NoSocket
         /\ t \notin stale => sockGen[local[t]] = closes
  /\ closer \in {"idle", "cleared"} /\ sock # NoSocket
       => \/ sockGen[sock] = closes
          \/ \E t \in Threads :
               holder = t /\ t \in stale /\ pc[t] = "adopted"
------------------------------------------------------------------------------
(* No frame arrives twice: only UDP duplicates, and only if it can.        *)
NoDuplicates == Transport = "tcp" \/ MaxForeign = 0

(* Every request has a serial number of its own. *)
Signed == Frame = "4E" /\ MaxOps < SerialModulus

(* No answer is in the socket or under way, except of other routes.        *)
Quiet(s) ==
  /\ unanswered[s] = {}
  /\ \A i \in DOMAIN inbox[s] : inbox[s][i].req = 0

(* There is at most one answer in a socket or under way to it.             *)
AtMostOne(s) ==
  /\ \A m, n \in unanswered[s] : m = n
  /\ \A i \in DOMAIN inbox[s] :
       inbox[s][i].req # 0 =>
         /\ unanswered[s] = {}
         /\ \A j \in DOMAIN inbox[s] : inbox[s][j].req # 0 => i = j

(* All answers there are to the request of this thread.                    *)
OnlyMine(t, s) ==
  /\ \A m \in unanswered[s] : m.req = req[t]
  /\ \A i \in DOMAIN inbox[s] : inbox[s][i].req \in {0, req[t]}

OneConversation ==
  /\ \A s \in Sockets : AtMostOne(s)
  /\ \/ sock = NoSocket
     \/ Quiet(sock)
     \/ \E t \in Threads : pc[t] \in {"receive", "wait", "sentOnly"}
  /\ \A t \in Threads :
       /\ pc[t] = "adopt" => local[t] # NoSocket /\ Quiet(local[t])
       /\ pc[t] = "send" => local[t] = NoSocket \/ Quiet(local[t])
       /\ pc[t] \in {"receive", "wait"} =>
            local[t] # NoSocket /\ OnlyMine(t, local[t])
       /\ pc[t] \in {"send", "receive", "wait"}
            => sock \in {NoSocket, local[t]}

(* The requests that are under way on a socket or answered in it.          *)
Header(m) == [req |-> m.req, serial |-> m.serial]
Carried(s) ==
  {Header(m) : m \in unanswered[s]}
    \union {Header(inbox[s][i]) : i \in DOMAIN inbox[s]}

(* The thread has taken the serial number of its request. *)
HasSerial(t) == pc[t] \in InTurn /\ kind[t] # "connect"

SerialsDiffer ==
  /\ nextSerial + Len(line) <= ops
  /\ \A t \in Threads : HasSerial(t) => serial[t] < nextSerial
  /\ \A s \in Sockets : \A m \in Carried(s) :
       m.req # 0 =>
         /\ m.serial < nextSerial
         /\ \A t \in Threads :
              HasSerial(t) /\ m.serial = serial[t] => m.req = req[t]

Correlation ==
  /\ NoDuplicates => OneConversation
  /\ Signed => SerialsDiffer
  /\ NoDuplicates \/ Signed => AnswerIsMine

IInv ==
  /\ TypeOK /\ HoldsTurn /\ Standing /\ Overtaking
  /\ OutcomeContractUnraced /\ OutcomesAreEarned
  /\ SocketsKnown /\ Generations
  /\ Correlation
------------------------------------------------------------------------------
(* What the assumption on the setups gives: the bounds are numbers, the    *)
(* sets of a client's options are subsets of the known ones, and the names *)
(* for no socket and no thread are nobody's.                               *)
LEMMA SetupFacts ==
  ASSUME setup \in DOMAIN Setups
  PROVE  /\ MaxOps \in Nat /\ MaxCloses \in Nat /\ MaxForeign \in Nat
         /\ SerialModulus \in Nat \ {0}
         /\ Kinds \subseteq AllKinds /\ Codes \subseteq AllCodes
         /\ Setups[setup].callers \subseteq Threads
         /\ NoSocket \notin Sockets /\ NoThread \notin Threads
         /\ Frame \in {"3E", "4E"} /\ Transport \in {"tcp", "udp"}
BY SyncClientAssumption
   DEF MaxOps, MaxCloses, MaxForeign, SerialModulus, Kinds, Codes, Sockets,
       Frame, Transport

(* A client keeps its setup, and everything that is read from it.          *)
LEMMA SetupKept ==
  ASSUME UNCHANGED setup
  PROVE  /\ MaxOps' = MaxOps /\ MaxCloses' = MaxCloses
         /\ MaxForeign' = MaxForeign /\ SerialModulus' = SerialModulus
         /\ Sockets' = Sockets /\ Serials' = Serials
         /\ Requests' = Requests /\ Frames' = Frames
         /\ Frame' = Frame /\ Transport' = Transport
BY DEF MaxOps, MaxCloses, MaxForeign, SerialModulus, Sockets, Serials,
       Requests, Frames,
       Frame, Transport

(* The gate removes a thread from its line with the RemoveFirst of         *)
(* SequencesExt, whose facts SequenceLemmas proves.                        *)
LEMMA GateRemoves ==
  ASSUME NEW s, NEW e
  PROVE  Gate!RemoveFirst(s, e) = RemoveFirst(s, e)
BY DEF Gate!RemoveFirst, Gate!RemoveAt, Gate!SelectInSeq, Gate!Min,
       RemoveFirst, RemoveAt, SelectInSeq, Min

(* _close_socket() leaves every socket in its type: what was in it and     *)
(* what it was owed are gone.                                              *)
LEMMA ClosedTypes ==
  ASSUME TypeOK, NEW s, CloseSocket(s)
  PROVE  /\ sockState' \in [Sockets -> {"unused", "open", "closed"}]
         /\ inbox' \in [Sockets -> Seq(Frames)]
         /\ unanswered' \in [Sockets -> SUBSET Requests]
<1>1. <<>> \in Seq(Frames)
  OBVIOUS
<1>2. inbox' \in [Sockets -> Seq(Frames)]
  BY <1>1 DEF CloseSocket, TypeOK
<1> QED BY <1>2 DEF CloseSocket, TypeOK

(* An exchange that fails (_request_unlocked(), its except clauses) stores *)
(* an outcome the caller can be told, and closes a socket.                 *)
LEMMA FailTypes ==
  ASSUME TypeOK, UNCHANGED setup, NEW t \in Threads, NEW f \in Failures,
         NEW a \in BOOLEAN, Fail(t, f, a),
         sending' \in [Threads -> {"none", "tried", "left"}]
  PROVE  TypeOK'
<1>1. result' \in [Threads -> Results]
  BY DEF Fail, TypeOK, Results, Failures, Classify
<1>2. pc' \in [Threads -> Places] /\ activeSC' \in BOOLEAN
  BY DEF Fail, TypeOK, Goto, Places
<1>3. CloseSocket(sock) /\ sock' \in Sockets \union {NoSocket}
  BY DEF Fail, CloseTransport
<1> QED
  BY <1>1, <1>2, <1>3, ClosedTypes, SetupKept
     DEF Fail, TypeOK, Gate!TypeOK, gateVars, opVars, serialVars, closeVars

(* The same of a _connect_unlocked() that fails, with or without an        *)
(* operation around it.                                                    *)
LEMMA FailConnectTypes ==
  ASSUME TypeOK, UNCHANGED setup, NEW t \in Threads, NEW f \in Failures,
         FailConnect(t, f)
  PROVE  TypeOK'
<1>1. CASE kind[t] = "connect"
  <2>1. result' \in [Threads -> Results] /\ pc' \in [Threads -> Places]
    BY ZenonT(60), <1>1 DEF FailConnect, TypeOK, Goto, Places, Results
  <2> QED
    BY <1>1, <2>1, SetupKept
       DEF FailConnect, TypeOK, Gate!TypeOK, gateVars, netVars, opVars,
           serialVars, closeVars, historyVars
<1>2. CASE kind[t] # "connect"
  <2>1. Fail(t, f, FALSE) /\ UNCHANGED sending
    BY <1>2 DEF FailConnect
  <2> QED BY <2>1, FailTypes DEF TypeOK
<1> QED BY <1>1, <1>2

(* _next_serial() wraps within the serial numbers.                         *)
LEMMA SerialTypes ==
  ASSUME TypeOK, NEW t \in Threads, NEW k, TakeSerial(t, k)
  PROVE  serial' \in [Threads -> Serials] /\ nextSerial' \in Serials
<1>1. SerialModulus \in Nat \ {0} /\ nextSerial \in Nat
  BY SetupFacts DEF TypeOK, Serials
<1>2. (nextSerial + 1) % SerialModulus \in Serials
  BY <1>1 DEF Serials
<1> QED BY ZenonT(60), <1>2 DEF TakeSerial, TypeOK, serialVars

(* A new operation has a number within the bound.                          *)
LEMMA StartTypes ==
  ASSUME TypeOK, NEW t \in Threads, NEW k \in Kinds, Start(t, k)
  PROVE  /\ ops' \in 0..MaxOps /\ kind' \in [Threads -> AllKinds]
         /\ req' \in [Threads -> 0..MaxOps]
         /\ local' \in [Threads -> Sockets \union {NoSocket}]
         /\ answer' \in [Threads -> AllCodes]
         /\ result' \in [Threads -> Results]
         /\ sending' \in [Threads -> {"none", "tried", "left"}]
         /\ overtaken' \in [Threads -> BOOLEAN]
         /\ matched' \in [Threads -> 0..MaxOps]
<1>1. ops + 1 \in 1..MaxOps /\ k \in AllKinds /\ MaxOps \in Nat
  BY SetupFacts DEF TypeOK, Start
<1> QED BY <1>1 DEF Start, TypeOK, AllCodes, Results

(* Every step keeps the types. A request that is sent has the number of an *)
(* operation, which follows from Standing.                                 *)
LEMMA TypeStep ==
  ASSUME TypeOK, Standing, [Next]_vars
  PROVE  TypeOK'
<1>0. UNCHANGED setup
  BY DEF Next, vars
<1> USE <1>0, SetupKept, SetupFacts
        DEF TypeOK, Gate!TypeOK, gateVars, netVars, opVars, serialVars,
            closeVars, historyVars
<1> DEFINE NewPlace(t) == \E p \in Places : Goto(t, p)
<1>a. ASSUME NEW t \in Threads, NewPlace(t)
      PROVE  pc' \in [Threads -> Places]
  BY <1>a DEF Goto
<1> HIDE DEF NewPlace
<1>1. ASSUME NEW t \in Threads, NEW k \in Kinds, StartFree(t, k)
      PROVE  TypeOK'
  <2>1. TakeSerial(t, k) /\ Start(t, k)
    BY <1>1 DEF StartFree
  <2>2. NewPlace(t) /\ raced' \in [Threads -> BOOLEAN]
    BY <1>1 DEF StartFree, Places, NewPlace
  <2>3. holder' \in Threads \union {NoThread} /\ UNCHANGED <<line, stale>>
    BY <1>1 DEF StartFree, Gate!TakeFree
  <2> QED BY <2>1, <2>2, <2>3, <1>a, SerialTypes, StartTypes DEF Start
<1>2. ASSUME NEW t \in Threads, NEW k \in Kinds, StartQueued(t, k)
      PROVE  TypeOK'
  <2>1. Start(t, k) /\ UNCHANGED serialVars
    BY <1>2 DEF StartQueued
  <2>2. NewPlace(t) /\ raced' \in [Threads -> BOOLEAN]
    BY <1>2 DEF StartQueued, Places, NewPlace
  <2>3. line' \in Seq(Threads) /\ UNCHANGED <<holder, stale>>
    BY <1>2 DEF StartQueued, Gate!Join
  <2> QED BY ZenonT(60), <2>1, <2>2, <2>3, <1>a, StartTypes DEF Start
<1>3. ASSUME NEW t \in Threads, TurnGranted(t) PROVE TypeOK'
  <2>1. TakeSerial(t, kind[t])
    BY <1>3 DEF TurnGranted
  <2>2. NewPlace(t) /\ raced' \in [Threads -> BOOLEAN]
    BY <1>3 DEF TurnGranted, Places, NewPlace
  <2>3. /\ line' \in Seq(Threads) /\ stale' = stale
        /\ holder' \in Threads \union {NoThread}
    BY <1>3 DEF TurnGranted, Gate!Take
  <2> QED BY <1>3, <2>1, <2>2, <2>3, <1>a, SerialTypes DEF TurnGranted
<1>4. ASSUME NEW t \in Threads, TurnRefused(t) PROVE TypeOK'
  <2>1. line' \in Seq(Threads) /\ stale' \subseteq Threads
    BY <1>4, GateRemoves, RemoveFirstIsSeq DEF TurnRefused, Gate!Refuse
  <2>2. NewPlace(t) /\ result' \in [Threads -> Results]
    BY <1>4 DEF TurnRefused, Places, NewPlace, Results, Failures
  <2>3. UNCHANGED holder
    BY <1>4 DEF TurnRefused, Gate!Refuse
  <2> QED BY <1>4, <2>1, <2>2, <2>3, <1>a DEF TurnRefused
<1>5. ASSUME NEW t \in Threads, Begin(t) PROVE TypeOK'
  <2>1. CASE ~Current(t)
    BY <1>5, <2>1, FailConnectTypes DEF Begin, Failures
  <2>2. CASE Current(t)
    <3>1. NewPlace(t)
      BY <1>5, <2>2 DEF Begin, Places, NewPlace, AfterConnect
    <3>2. result' \in [Threads -> Results] /\ activeSC' \in BOOLEAN
      BY <1>5, <2>2 DEF Begin, Results
    <3> QED BY <1>5, <2>2, <3>1, <3>2, <1>a DEF Begin
  <2> QED BY <2>1, <2>2
<1>6. ASSUME NEW t \in Threads, ConnectOpens(t) PROVE TypeOK'
  <2>1. NewPlace(t)
    BY <1>6 DEF ConnectOpens, Places, NewPlace
  <2>2. PICK s \in Sockets :
          /\ sockState' = [sockState EXCEPT ![s] = "open"]
          /\ sockGen' = [sockGen EXCEPT ![s] = closes]
          /\ local' = [local EXCEPT ![t] = s]
    BY <1>6 DEF ConnectOpens
  <2> QED BY <1>6, <2>1, <2>2, <1>a DEF ConnectOpens
<1>7. ASSUME NEW t \in Threads, ConnectFails(t) PROVE TypeOK'
  <2>1. \E f \in Failures : FailConnect(t, f)
    BY <1>7 DEF ConnectFails, Failures
  <2> QED BY <2>1, FailConnectTypes
<1>8. ASSUME NEW t \in Threads, Adopt(t) PROVE TypeOK'
  <2>1. NewPlace(t) /\ sock' \in Sockets \union {NoSocket}
    BY <1>8 DEF Adopt, Places, NewPlace
  <2> QED BY <1>8, <2>1, <1>a DEF Adopt
<1>9. ASSUME NEW t \in Threads, CheckAdopted(t) PROVE TypeOK'
  <2>1. NewPlace(t) /\ result' \in [Threads -> Results]
    BY <1>9
       DEF CheckAdopted, Places, NewPlace, AfterConnect, Results, Failures
  <2>2. UNCHANGED foreign /\ activeSC' \in BOOLEAN
    BY <1>9 DEF CheckAdopted
  <2>3. \/ UNCHANGED <<sock, sockState, inbox, unanswered>>
        \/ CloseSocket(sock) /\ sock' = NoSocket
    BY <1>9 DEF CheckAdopted, CloseTransport
  <2> QED BY <1>9, <2>1, <2>2, <2>3, <1>a, ClosedTypes DEF CheckAdopted
<1>10. ASSUME NEW t \in Threads, Check(t) PROVE TypeOK'
  <2>1. CASE Current(t) /\ sock # NoSocket
    <3>1. NewPlace(t)
      BY <1>10, <2>1 DEF Check, Places, NewPlace
    <3> QED BY <1>10, <2>1, <3>1, <1>a DEF Check
  <2>2. CASE ~(Current(t) /\ sock # NoSocket)
    <3>1. NoSocketFailure(t, "notConnected") \in Failures
      BY DEF NoSocketFailure, Failures
    <3> QED BY <1>10, <2>2, <3>1, FailTypes DEF Check
  <2> QED BY <2>1, <2>2
<1>11. ASSUME NEW t \in Threads, Grab(t) PROVE TypeOK'
  <2>1. NewPlace(t) /\ local' \in [Threads -> Sockets \union {NoSocket}]
    BY <1>11 DEF Grab, Places, NewPlace
  <2> QED BY <1>11, <2>1, <1>a DEF Grab
<1>12. ASSUME NEW t \in Threads, Send(t) PROVE TypeOK'
  <2>1. SendSocket(t) \in Sockets
    BY <1>12 DEF Send, SendSocket, Usable
  <2>2. [req |-> req[t], serial |-> serial[t]] \in Requests
    BY <1>12 DEF Send, Standing, Requests
  <2>3. unanswered' \in [Sockets -> SUBSET Requests]
    BY <1>12, <2>1, <2>2 DEF Send
  <2>4. NewPlace(t) /\ sending' \in [Threads -> {"none", "tried", "left"}]
    BY <1>12 DEF Send, Places, NewPlace
  <2> QED BY <1>12, <2>3, <2>4, <1>a DEF Send
<1>13. ASSUME NEW t \in Threads, SendNotAttempted(t) PROVE TypeOK'
  <2>1. \E f \in Failures : Fail(t, f, FALSE)
    BY <1>13 DEF SendNotAttempted, SocketFailures, Failures
  <2> QED BY <1>13, <2>1, FailTypes DEF SendNotAttempted
<1>14. ASSUME NEW t \in Threads, SendFails(t) PROVE TypeOK'
  <2>1. sending' \in [Threads -> {"none", "tried", "left"}]
    BY <1>14 DEF SendFails
  <2>2. \E f \in Failures : Fail(t, f, TRUE)
    BY <1>14 DEF SendFails, SocketFailures, Failures
  <2> QED BY <2>1, <2>2, FailTypes
<1>15. ASSUME NEW t \in Threads, Receive(t) PROVE TypeOK'
  <2>1. CASE Current(t) /\ sock # NoSocket
    <3>1. NewPlace(t)
      BY <1>15, <2>1 DEF Receive, Places, NewPlace
    <3> QED BY <1>15, <2>1, <3>1, <1>a DEF Receive
  <2>2. CASE ~(Current(t) /\ sock # NoSocket)
    <3>1. NoSocketFailure(t, "internal") \in Failures
      BY DEF NoSocketFailure, Failures
    <3> QED BY <1>15, <2>2, <3>1, FailTypes DEF Receive
  <2> QED BY <2>1, <2>2
<1>16. ASSUME NEW t \in Threads, ReadFrame(t) PROVE TypeOK'
  <2> DEFINE frame == Head(inbox[local[t]])
  <2>1. local[t] \in Sockets /\ frame \in Frames
    BY <1>16 DEF ReadFrame, Usable
  <2>2. CASE frame.code = "bad"
    BY <1>16, <2>2, FailTypes DEF ReadFrame, Failures
  <2>3. CASE frame.code # "bad"
    <3>1. inbox' = [inbox EXCEPT ![local[t]] = Tail(@)]
      BY <1>16, <2>3 DEF ReadFrame
    <3>4. Tail(inbox[local[t]]) \in Seq(Frames)
      BY <1>16, <2>1 DEF ReadFrame
    <3>5. inbox' \in [Sockets -> Seq(Frames)]
      BY <2>1, <3>1, <3>4
    <3>2. NewPlace(t)
      BY <1>16, <2>3 DEF ReadFrame, Places, NewPlace
    <3>3. /\ answer' \in [Threads -> AllCodes]
          /\ matched' \in [Threads -> 0..MaxOps]
      BY <1>16, <2>1, <2>3 DEF ReadFrame, Frames
    <3> QED BY <1>16, <2>3, <3>2, <3>3, <3>5,
              <1>a DEF ReadFrame
  <2> QED BY <2>2, <2>3
<1>17. ASSUME NEW t \in Threads, WaitFails(t) PROVE TypeOK'
  BY ZenonT(60), <1>17, FailTypes DEF WaitFails, Failures
<1>18. ASSUME NEW t \in Threads, Settle(t) PROVE TypeOK'
  <2>1. CASE Current(t)
    <3>1. NewPlace(t) /\ activeSC' \in BOOLEAN
      BY <1>18, <2>1 DEF Settle, Places, NewPlace
    <3> QED BY <1>18, <2>1, <3>1, <1>a DEF Settle
  <2>2. CASE ~Current(t)
    BY <1>18, <2>2, FailTypes DEF Settle, Failures
  <2> QED BY <2>1, <2>2
<1>19. ASSUME NEW t \in Threads, RestoreTimeout(t) PROVE TypeOK'
  <2>1. CASE Usable(local[t])
    <3>1. NewPlace(t) /\ activeSC' \in BOOLEAN
      BY <1>19, <2>1 DEF RestoreTimeout, Places, NewPlace
    <3> QED BY <1>19, <2>1, <3>1, <1>a DEF RestoreTimeout
  <2>2. CASE ~Usable(local[t])
    BY <1>19, <2>2, FailTypes DEF RestoreTimeout, Failures
  <2> QED BY <2>1, <2>2
<1>20. ASSUME NEW t \in Threads, Decode(t) PROVE TypeOK'
  <2>1. NewPlace(t) /\ result' \in [Threads -> Results]
    BY <1>20
       DEF Decode, Places, NewPlace, ReadResult, WriteResult, Results,
           Failures
  <2>2. /\ UNCHANGED foreign
        /\ \/ UNCHANGED <<sock, sockState, inbox, unanswered>>
           \/ CloseSocket(sock) /\ sock' = NoSocket
    BY <1>20 DEF Decode, CloseTransport
  <2> QED BY <1>20, <2>1, <2>2, <1>a, ClosedTypes DEF Decode
<1>21. ASSUME NEW t \in Threads, SentOnly(t) PROVE TypeOK'
  <2>1. CASE Current(t)
    <3>1. NewPlace(t)
      BY <1>21, <2>1 DEF SentOnly, Places, NewPlace
    <3>2. CloseSocket(sock) /\ sock' = NoSocket
      BY <1>21, <2>1 DEF SentOnly, CloseTransport
    <3> QED BY <1>21, <2>1, <3>1, <3>2, <1>a, ClosedTypes DEF SentOnly
  <2>2. CASE ~Current(t)
    BY <1>21, <2>2, FailTypes DEF SentOnly, Failures
  <2> QED BY <2>1, <2>2
<1>22. ASSUME NEW t \in Threads, Traced(t) PROVE TypeOK'
  <2>1. NewPlace(t) /\ result' \in [Threads -> Results]
    BY <1>22 DEF Traced, Places, NewPlace, Results, Classify, Failures
  <2> QED BY <1>22, <2>1, <1>a DEF Traced
<1>23. ASSUME NEW t \in Threads, Leave(t) PROVE TypeOK'
  <2>1. NewPlace(t)
    BY <1>23 DEF Leave, Places, NewPlace
  <2> QED BY <1>23, <2>1, <1>a DEF Leave, Gate!Release
<1>24. ASSUME CloseInvalidates PROVE TypeOK'
  <2>1. /\ overtaken' \in [Threads -> BOOLEAN]
        /\ closes' \in 0..MaxCloses
    BY <1>24 DEF CloseInvalidates, Undecided
  <2>2. stale' \subseteq Threads
    <3>1. Gate!ToSet(line) = {line[i] : i \in DOMAIN line}
      BY DEF Gate!ToSet
    <3>2. Gate!ToSet(line) \subseteq Threads
      BY <3>1
    <3> QED BY <1>24, <3>2 DEF CloseInvalidates, Gate!Close
  <2> QED
    BY <1>24, <2>1, <2>2 DEF CloseInvalidates, Gate!Close, threadVars
<1>25. ASSUME CloseReads PROVE TypeOK'
  BY <1>25 DEF CloseReads, threadVars
<1>26. ASSUME CloseClears PROVE TypeOK'
  BY <1>26 DEF CloseClears, threadVars
<1>27. ASSUME CloseCloses PROVE TypeOK'
  BY <1>27, ClosedTypes DEF CloseCloses, threadVars
<1>28. ASSUME NEW s \in Sockets, PlcAnswers(s) PROVE TypeOK'
  <2>1. PICK r \in unanswered[s], c \in Codes :
          /\ unanswered' = [unanswered EXCEPT ![s] = @ \ {r}]
          /\ inbox' = [inbox EXCEPT ![s] = Append(@,
                 [req |-> r.req, serial |-> r.serial, code |-> c])]
    BY <1>28 DEF PlcAnswers
  <2>2. r \in Requests /\ c \in AllCodes
    BY <2>1
  <2>3. [req |-> r.req, serial |-> r.serial, code |-> c] \in Frames
    BY <2>2 DEF Requests, Frames
  <2>4. /\ inbox' \in [Sockets -> Seq(Frames)]
        /\ unanswered' \in [Sockets -> SUBSET Requests]
    BY <2>1, <2>3
  <2> QED BY <1>28, <2>4 DEF PlcAnswers, threadVars
<1>29. ASSUME NEW s \in Sockets, ForeignArrives(s) PROVE TypeOK'
  <2>1. [req |-> 0, serial |-> 0, code |-> "ok"] \in Frames
    BY DEF Frames, Serials, AllCodes
  <2>2. ToSet(inbox[s]) \subseteq Frames
    BY DEF ToSet
  <2>3. inbox' \in [Sockets -> Seq(Frames)]
    BY <1>29, <2>1, <2>2 DEF ForeignArrives
  <2>4. foreign' \in 0..MaxForeign
    <3>1. foreign \in Nat /\ foreign < MaxForeign /\ foreign' = foreign + 1
      BY <1>29 DEF ForeignArrives
    <3> QED BY SMTT(30), <3>1
  <2> QED BY <1>29, <2>3, <2>4 DEF ForeignArrives, threadVars
<1>30. CASE UNCHANGED vars
  BY <1>30 DEF vars, threadVars
<1> QED
  BY <1>1, <1>2, <1>3, <1>4, <1>5, <1>6, <1>7, <1>8, <1>9, <1>10, <1>11,
     <1>12, <1>13, <1>14, <1>15, <1>16, <1>17, <1>18, <1>19, <1>20, <1>21,
     <1>22, <1>23, <1>24, <1>25, <1>26, <1>27, <1>28, <1>29, <1>30
     DEF Next, Operation
------------------------------------------------------------------------------
(* The steps inside a turn, and those of nobody's operation.               *)
Inside(t) ==
  \/ Begin(t) \/ ConnectOpens(t) \/ ConnectFails(t) \/ Adopt(t)
  \/ CheckAdopted(t) \/ Check(t) \/ Grab(t) \/ Send(t) \/ SendNotAttempted(t)
  \/ SendFails(t) \/ Receive(t) \/ ReadFrame(t) \/ WaitFails(t) \/ Settle(t)
  \/ RestoreTimeout(t) \/ Decode(t) \/ SentOnly(t) \/ Traced(t)

Outside ==
  \/ CloseReads \/ CloseClears \/ CloseCloses
  \/ \E s \in Sockets : PlcAnswers(s) \/ ForeignArrives(s)

InsideFrame(t) ==
  /\ pc[t] \in InTurn \ {"leave"}
  /\ \E p \in InTurn : Goto(t, p)
  /\ UNCHANGED <<gateVars, opVars, closeVars, kind, req, overtaken, raced>>

(* A failure inside a turn leads to the end of the turn, and leaves the    *)
(* gate, close() and every other thread alone.                             *)
LEMMA FailFrame ==
  ASSUME NEW t \in Threads, NEW f, NEW a, Fail(t, f, a),
         pc[t] \in InTurn \ {"leave"}
  PROVE  InsideFrame(t)
BY DEF Fail, InsideFrame, InTurn, Places

(* The same of a connection that fails.                                    *)
LEMMA FailConnectFrame ==
  ASSUME NEW t \in Threads, NEW f, FailConnect(t, f),
         pc[t] \in InTurn \ {"leave"}
  PROVE  InsideFrame(t)
<1>1. CASE kind[t] = "connect"
  BY <1>1 DEF FailConnect, InsideFrame, InTurn, Places, historyVars
<1>2. CASE kind[t] # "connect"
  BY <1>2, FailFrame DEF FailConnect
<1> QED BY <1>1, <1>2

(* All steps of a thread inside its turn but the last: they stay in the    *)
(* turn, and leave the gate, close(), the operations and the history of    *)
(* closes alone.                                                           *)
LEMMA InsideSteps ==
  ASSUME NEW t \in Threads, Inside(t)
  PROVE  InsideFrame(t)
<1> DEFINE Stays == \E p \in InTurn : Goto(t, p)
<1>0. /\ pc[t] \in InTurn \ {"leave"}
  BY DEF Inside, Begin, ConnectOpens, ConnectFails, Adopt, CheckAdopted,
         Check, Grab, Send, SendNotAttempted, SendFails, Receive, ReadFrame,
         WaitFails, Settle, RestoreTimeout, Decode, SentOnly, Traced, InTurn,
         Places
<1> USE <1>0
<1>1. ASSUME NEW p \in Places \ {"idle", "queued"}, Goto(t, p) PROVE Stays
  BY <1>1 DEF InTurn
<1> HIDE DEF Stays
<1> SUFFICES ASSUME \A f, a : ~Fail(t, f, a), \A f : ~FailConnect(t, f)
             PROVE  InsideFrame(t)
  BY FailFrame, FailConnectFrame
<1> USE DEF historyVars, Places
<1>2. CASE Begin(t)
  BY <1>1, <1>2 DEF Begin, AfterConnect, InsideFrame, Stays
<1>3. CASE ConnectOpens(t) \/ Adopt(t) \/ CheckAdopted(t) \/ Grab(t) \/ Send(t)
  BY <1>1, <1>3
     DEF ConnectOpens, Adopt, CheckAdopted, Grab, Send, AfterConnect,
         InsideFrame, Stays
<1>4. CASE Check(t) \/ Receive(t) \/ Settle(t) \/ RestoreTimeout(t)
  BY <1>1, <1>4
     DEF Check, Receive, Settle, RestoreTimeout, InsideFrame, Stays
<1>5. CASE ReadFrame(t)
  BY <1>1, <1>5 DEF ReadFrame, InsideFrame, Stays
<1>6. CASE Decode(t) \/ SentOnly(t) \/ Traced(t)
  BY <1>1, <1>6 DEF Decode, SentOnly, Traced, InsideFrame, Stays
<1>7. CASE \/ ConnectFails(t) \/ SendNotAttempted(t) \/ SendFails(t)
           \/ WaitFails(t)
  BY <1>7 DEF ConnectFails, SendNotAttempted, SendFails, WaitFails
<1> QED
  BY <1>2, <1>3, <1>4, <1>5, <1>6, <1>7 DEF Inside

(* close() after its invalidation, and the PLC, do nothing to the gate and *)
(* to the threads.                                                         *)
LEMMA OutsideSteps ==
  ASSUME Outside
  PROVE  UNCHANGED <<gateVars, activeSC, opVars, threadVars, historyVars,
                     closes>>
BY DEF Outside, CloseReads, CloseClears, CloseCloses, PlcAnswers,
       ForeignArrives, closeVars

(* The turn: a thread enters it when it takes the free gate or is granted  *)
(* it, and leaves it when it releases the gate.                            *)
LEMMA TurnStep ==
  ASSUME TypeOK, HoldsTurn, [Next]_vars
  PROVE  HoldsTurn'
<1>0. /\ line \in Seq(Threads) /\ pc \in [Threads -> Places]
      /\ holder \in Threads \union {NoThread} /\ NoThread \notin Threads
  BY SetupFacts DEF TypeOK, Gate!TypeOK
<1> USE <1>0 DEF InTurn, Places, gateVars, Goto
<1>1. ASSUME NEW t \in Threads, NEW k \in Kinds, StartFree(t, k)
      PROVE  HoldsTurn'
  BY <1>1 DEF HoldsTurn, InLine, StartFree, Start, Gate!TakeFree
<1>2. ASSUME NEW t \in Threads, NEW k \in Kinds, StartQueued(t, k)
      PROVE  HoldsTurn'
  <2>1. /\ pc[t] = "idle" /\ pc' = [pc EXCEPT ![t] = "queued"]
        /\ line' = Append(line, t) /\ UNCHANGED holder
    BY <1>2 DEF StartQueued, Start, Gate!Join
  <2>2. /\ line'[Len(line) + 1] = t /\ Len(line) + 1 \in DOMAIN line'
        /\ \A i \in DOMAIN line : i \in DOMAIN line' /\ line'[i] = line[i]
    BY <2>1
  <2> QED BY <2>1, <2>2 DEF HoldsTurn, InLine
<1>3. ASSUME NEW t \in Threads, TurnGranted(t) PROVE HoldsTurn'
  <2>1. /\ pc[t] = "queued" /\ pc' = [pc EXCEPT ![t] = "begin"]
        /\ line # <<>> /\ t = line[1]
        /\ holder = NoThread /\ holder' = t /\ line' = Tail(line)
    BY <1>3 DEF TurnGranted, Gate!Take
  <2>2. \A i \in DOMAIN line :
          i # 1 => i - 1 \in DOMAIN line' /\ line'[i - 1] = line[i]
    BY <2>1
  <2>3. ASSUME NEW u \in Threads, u # t, InLine(u) PROVE InLine(u)'
    BY <2>1, <2>2, <2>3 DEF InLine
  <2> QED BY <2>1, <2>3 DEF HoldsTurn
<1>4. ASSUME NEW t \in Threads, TurnRefused(t) PROVE HoldsTurn'
  <2>1. /\ pc[t] = "queued" /\ pc' = [pc EXCEPT ![t] = "idle"]
        /\ line' = RemoveFirst(line, t) /\ UNCHANGED holder /\ t # holder
    BY <1>4, GateRemoves DEF TurnRefused, Gate!Refuse
  <2>2. \A i \in DOMAIN line :
          line[i] # t => \E j \in DOMAIN line' : line'[j] = line[i]
    BY <2>1, RemoveFirstKeeps
  <2>3. ASSUME NEW u \in Threads, u # t, InLine(u) PROVE InLine(u)'
    BY <2>2, <2>3 DEF InLine
  <2> QED BY <2>1, <2>3 DEF HoldsTurn
<1>5. ASSUME NEW t \in Threads, Leave(t) PROVE HoldsTurn'
  BY <1>5 DEF HoldsTurn, InLine, Leave, Gate!Release
<1>6. ASSUME NEW t \in Threads, Inside(t) PROVE HoldsTurn'
  BY <1>6, InsideSteps DEF HoldsTurn, InLine, InsideFrame
<1>7. CASE CloseInvalidates
  BY <1>7 DEF HoldsTurn, InLine, CloseInvalidates, Gate!Close, threadVars
<1>8. CASE Outside
  BY <1>8, OutsideSteps DEF HoldsTurn, InLine, threadVars
<1>9. CASE UNCHANGED vars
  BY <1>9 DEF HoldsTurn, InLine, vars, threadVars
<1> QED
  BY <1>1, <1>2, <1>3, <1>4, <1>5, <1>6, <1>7, <1>8, <1>9
     DEF Next, Operation, Inside, Outside
(* A failure ends the operation with its classification and no transport:  *)
(* nothing is claimed of a thread that leaves but its request.             *)
LEMMA FailStanding ==
  ASSUME TypeOK, Standing, NEW t \in Threads, NEW f, NEW a, Fail(t, f, a),
         HoldsTurn, pc[t] \in InTurn \ {"leave"},
         \A u \in Threads \ {t} : sending'[u] = sending[u]
  PROVE  Standing'
BY SetupFacts
   DEF TypeOK, Standing, HoldsTurn, Fail, Goto, InTurn, Places, BeforeSend,
       AfterSend, Exchanging

(* Every step moves a thread to a place it stands at rightly.              *)
LEMMA StandingStep ==
  ASSUME TypeOK, HoldsTurn, Standing, [Next]_vars
  PROVE  Standing'
<1>0. /\ pc \in [Threads -> Places] /\ kind \in [Threads -> AllKinds]
      /\ req \in [Threads -> 0..MaxOps] /\ result \in [Threads -> Results]
      /\ sending \in [Threads -> {"none", "tried", "left"}]
      /\ NoThread \notin Threads /\ ops \in Nat
      /\ \A t, u \in Threads :
           pc[t] \in InTurn /\ pc[u] \in InTurn => t = u
  BY SetupFacts DEF TypeOK, HoldsTurn
<1> USE <1>0
        DEF Standing, InTurn, Places, BeforeSend, AfterSend, Exchanging, Goto,
            threadVars, historyVars
<1>1. ASSUME NEW t \in Threads, NEW k \in Kinds, StartFree(t, k)
      PROVE  Standing'
  BY <1>1 DEF StartFree, Start
<1>2. ASSUME NEW t \in Threads, NEW k \in Kinds, StartQueued(t, k)
      PROVE  Standing'
  BY <1>2 DEF StartQueued, Start
<1>3. ASSUME NEW t \in Threads, TurnGranted(t) PROVE Standing'
  BY <1>3 DEF TurnGranted
<1>4. ASSUME NEW t \in Threads, TurnRefused(t) PROVE Standing'
  BY <1>4 DEF TurnRefused
<1>5. ASSUME NEW t \in Threads, Leave(t) PROVE Standing'
  BY <1>5 DEF Leave
<1>6. ASSUME NEW t \in Threads, Begin(t) PROVE Standing'
  <2>1. CASE Current(t)
    <3>1. /\ pc[t] = "begin" /\ activeSC' = (kind[t] = "write")
          /\ UNCHANGED <<kind, req, sending>>
      BY <1>6, <2>1 DEF Begin
    <3>2. CASE sock = NoSocket
      <4>1. Goto(t, "connecting") /\ UNCHANGED result
        BY <1>6, <2>1, <3>2 DEF Begin
      <4> QED BY ZenonT(60), <3>1, <4>1
    <3>3. CASE sock # NoSocket /\ kind[t] = "connect"
      <4>1. Goto(t, "leave") /\ result' = [result EXCEPT ![t] = "done"]
        BY <1>6, <2>1, <3>3 DEF Begin, AfterConnect
      <4> QED BY <3>1, <4>1
    <3>4. CASE sock # NoSocket /\ kind[t] # "connect"
      <4>1. Goto(t, "check") /\ UNCHANGED result
        BY <1>6, <2>1, <3>4 DEF Begin, AfterConnect
      <4> QED BY ZenonT(60), <3>1, <3>4, <4>1
    <3> QED BY <3>2, <3>3, <3>4
  <2>2. CASE ~Current(t) /\ kind[t] = "connect"
    BY <1>6, <2>2 DEF Begin, FailConnect
  <2>3. CASE ~Current(t) /\ kind[t] # "connect"
    BY <1>6, <2>3, FailStanding DEF Begin, FailConnect
  <2> QED BY <2>1, <2>2, <2>3
<1>7. ASSUME NEW t \in Threads, ConnectOpens(t) PROVE Standing'
  BY <1>7 DEF ConnectOpens
<1>8. ASSUME NEW t \in Threads, ConnectFails(t) PROVE Standing'
  <2>1. PICK f : FailConnect(t, f)
    BY <1>8 DEF ConnectFails
  <2>2. CASE kind[t] = "connect"
    BY <1>8, <2>1, <2>2 DEF ConnectFails, FailConnect
  <2>3. CASE kind[t] # "connect"
    BY <1>8, <2>1, <2>3, FailStanding DEF ConnectFails, FailConnect
  <2> QED BY <2>2, <2>3
<1>9. ASSUME NEW t \in Threads, Adopt(t) PROVE Standing'
  BY <1>9 DEF Adopt
<1>10. ASSUME NEW t \in Threads, CheckAdopted(t) PROVE Standing'
  BY <1>10 DEF CheckAdopted, AfterConnect
<1>11. ASSUME NEW t \in Threads, Check(t) PROVE Standing'
  <2>1. CASE Current(t) /\ sock # NoSocket
    BY <1>11, <2>1 DEF Check
  <2>2. CASE ~(Current(t) /\ sock # NoSocket)
    BY <1>11, <2>2, FailStanding DEF Check
  <2> QED BY <2>1, <2>2
<1>12. ASSUME NEW t \in Threads, Grab(t) PROVE Standing'
  BY <1>12 DEF Grab
<1>13. ASSUME NEW t \in Threads, Send(t) PROVE Standing'
  BY <1>13 DEF Send
<1>14. ASSUME NEW t \in Threads, SendNotAttempted(t) PROVE Standing'
  BY <1>14, FailStanding DEF SendNotAttempted
<1>15. ASSUME NEW t \in Threads, SendFails(t) PROVE Standing'
  <2>1. \A u \in Threads \ {t} : sending'[u] = sending[u]
    BY <1>15 DEF SendFails
  <2> QED BY <1>15, <2>1, FailStanding DEF SendFails
<1>16. ASSUME NEW t \in Threads, Receive(t) PROVE Standing'
  <2>1. CASE Current(t) /\ sock # NoSocket
    BY <1>16, <2>1 DEF Receive
  <2>2. CASE ~(Current(t) /\ sock # NoSocket)
    BY <1>16, <2>2, FailStanding DEF Receive
  <2> QED BY <2>1, <2>2
<1>17. ASSUME NEW t \in Threads, ReadFrame(t) PROVE Standing'
  <2>1. CASE Head(inbox[local[t]]).code = "bad"
    BY <1>17, <2>1, FailStanding DEF ReadFrame
  <2>2. CASE Head(inbox[local[t]]).code # "bad"
    <3>1. /\ pc[t] = "wait"
          /\ \E p \in {"settle", "receive"} : Goto(t, p)
          /\ UNCHANGED <<activeSC, kind, req, result, sending>>
      BY <1>17, <2>2 DEF ReadFrame
    <3> QED BY <3>1
  <2> QED BY <2>1, <2>2
<1>18. ASSUME NEW t \in Threads, WaitFails(t) PROVE Standing'
  BY <1>18, FailStanding DEF WaitFails
<1>19. ASSUME NEW t \in Threads, Settle(t) PROVE Standing'
  <2>1. CASE Current(t)
    BY <1>19, <2>1 DEF Settle
  <2>2. CASE ~Current(t)
    BY <1>19, <2>2, FailStanding DEF Settle
  <2> QED BY <2>1, <2>2
<1>20. ASSUME NEW t \in Threads, RestoreTimeout(t) PROVE Standing'
  <2>1. CASE Usable(local[t])
    BY <1>20, <2>1 DEF RestoreTimeout
  <2>2. CASE ~Usable(local[t])
    BY <1>20, <2>2, FailStanding DEF RestoreTimeout
  <2> QED BY <2>1, <2>2
<1>21. ASSUME NEW t \in Threads, Decode(t) PROVE Standing'
  BY <1>21 DEF Decode
<1>22. ASSUME NEW t \in Threads, SentOnly(t) PROVE Standing'
  <2>1. CASE Current(t)
    BY <1>22, <2>1 DEF SentOnly
  <2>2. CASE ~Current(t)
    BY <1>22, <2>2, FailStanding DEF SentOnly
  <2> QED BY <2>1, <2>2
<1>23. ASSUME NEW t \in Threads, Traced(t) PROVE Standing'
  BY <1>23 DEF Traced
<1>24. CASE CloseInvalidates
  BY <1>24 DEF CloseInvalidates
<1>25. CASE Outside
  BY <1>25, OutsideSteps
<1>26. CASE UNCHANGED vars
  BY <1>26 DEF vars
<1> QED
  BY <1>1, <1>2, <1>3, <1>4, <1>5, <1>6, <1>7, <1>8, <1>9, <1>10, <1>11,
     <1>12, <1>13, <1>14, <1>15, <1>16, <1>17, <1>18, <1>19, <1>20, <1>21,
     <1>22, <1>23, <1>24, <1>25, <1>26
     DEF Next, Operation, Outside
(* What a failure leaves behind: nothing in the turn but the release.      *)
LEMMA FailOvertaking ==
  ASSUME TypeOK, HoldsTurn, Overtaking, NEW t \in Threads, NEW f, NEW a,
         Fail(t, f, a), pc[t] \in InTurn \ {"leave"}
  PROVE  Overtaking'
<1>1. /\ pc' = [pc EXCEPT ![t] = "leave"]
      /\ UNCHANGED <<stale, closer, overtaken, raced, kind, local>>
  BY DEF Fail, Goto, gateVars, closeVars
<1>2. /\ pc \in [Threads -> Places]
      /\ \A u \in Threads \ {t} : pc[u] \notin InTurn
  BY SetupFacts DEF TypeOK, HoldsTurn
<1> QED BY <1>1, <1>2 DEF Overtaking, InTurn, Places

(* close() marks every thread in a turn or in line as stale before it      *)
(* touches the transport, so a thread that passes ensure_current() has     *)
(* been overtaken by nobody and still has its socket.                      *)
LEMMA OvertakingStep ==
  ASSUME TypeOK, HoldsTurn, Standing, Overtaking, Generations, [Next]_vars
  PROVE  Overtaking'
<1>0. /\ pc \in [Threads -> Places] /\ kind \in [Threads -> AllKinds]
      /\ local \in [Threads -> Sockets \union {NoSocket}]
      /\ overtaken \in [Threads -> BOOLEAN]
      /\ raced \in [Threads -> BOOLEAN]
      /\ NoThread \notin Threads
      /\ \A t, u \in Threads :
           pc[t] \in InTurn /\ pc[u] \in InTurn => t = u
      /\ line \in Seq(Threads)
  BY SetupFacts DEF TypeOK, Gate!TypeOK, HoldsTurn
<1> USE <1>0
        DEF Overtaking, InTurn, Places, Goto, Current, Gate!IsCurrent,
            gateVars, closeVars, threadVars, historyVars
<1>1. ASSUME NEW t \in Threads, NEW k \in Kinds, StartFree(t, k)
      PROVE  Overtaking'
  BY ZenonT(60), <1>1 DEF StartFree, Start, Gate!TakeFree
<1>2. ASSUME NEW t \in Threads, NEW k \in Kinds, StartQueued(t, k)
      PROVE  Overtaking'
  BY <1>2 DEF StartQueued, Start, Gate!Join
<1>3. ASSUME NEW t \in Threads, TurnGranted(t) PROVE Overtaking'
  BY <1>3 DEF TurnGranted, Gate!Take
<1>4. ASSUME NEW t \in Threads, TurnRefused(t) PROVE Overtaking'
  BY <1>4 DEF TurnRefused, Gate!Refuse
<1>5. ASSUME NEW t \in Threads, Leave(t) PROVE Overtaking'
  BY <1>5 DEF Leave, Gate!Release
<1>6. ASSUME NEW t \in Threads, Begin(t) PROVE Overtaking'
  <2>1. CASE Current(t)
    <3>1. /\ pc[t] = "begin" /\ UNCHANGED sock
          /\ UNCHANGED <<stale, closer, overtaken, raced, kind, local>>
      BY <1>6, <2>1 DEF Begin
    <3>2. CASE sock = NoSocket
      BY <1>6, <2>1, <3>1, <3>2 DEF Begin
    <3>3. CASE sock # NoSocket
      BY <1>6, <2>1, <3>1, <3>3 DEF Begin, AfterConnect
    <3> QED BY <3>2, <3>3
  <2>2. CASE ~Current(t) /\ kind[t] = "connect"
    BY <1>6, <2>2 DEF Begin, FailConnect
  <2>3. CASE ~Current(t) /\ kind[t] # "connect"
    BY <1>6, <2>3, FailOvertaking DEF Begin, FailConnect
  <2> QED BY <2>1, <2>2, <2>3
<1>7. ASSUME NEW t \in Threads, ConnectOpens(t) PROVE Overtaking'
  BY <1>7 DEF ConnectOpens
<1>8. ASSUME NEW t \in Threads, ConnectFails(t) PROVE Overtaking'
  <2>1. PICK f : FailConnect(t, f)
    BY <1>8 DEF ConnectFails
  <2>2. CASE kind[t] = "connect"
    BY <1>8, <2>1, <2>2 DEF ConnectFails, FailConnect
  <2>3. CASE kind[t] # "connect"
    BY <1>8, <2>1, <2>3, FailOvertaking DEF ConnectFails, FailConnect
  <2> QED BY <2>2, <2>3
<1>9. ASSUME NEW t \in Threads, Adopt(t) PROVE Overtaking'
  BY <1>9 DEF Adopt, Generations
<1>10. ASSUME NEW t \in Threads, CheckAdopted(t) PROVE Overtaking'
  BY <1>10 DEF CheckAdopted, AfterConnect
<1>11. ASSUME NEW t \in Threads, Check(t) PROVE Overtaking'
  <2>1. CASE Current(t) /\ sock # NoSocket
    BY <1>11, <2>1 DEF Check
  <2>2. CASE ~(Current(t) /\ sock # NoSocket)
    BY <1>11, <2>2, FailOvertaking DEF Check
  <2> QED BY <2>1, <2>2
<1>12. ASSUME NEW t \in Threads, Grab(t) PROVE Overtaking'
  BY <1>12 DEF Grab
<1>13. ASSUME NEW t \in Threads, Send(t) PROVE Overtaking'
  BY <1>13 DEF Send
<1>14. ASSUME NEW t \in Threads, SendNotAttempted(t) PROVE Overtaking'
  BY <1>14, FailOvertaking DEF SendNotAttempted
<1>15. ASSUME NEW t \in Threads, SendFails(t) PROVE Overtaking'
  BY <1>15, FailOvertaking DEF SendFails
<1>16. ASSUME NEW t \in Threads, Receive(t) PROVE Overtaking'
  <2>1. CASE Current(t) /\ sock # NoSocket
    BY <1>16, <2>1 DEF Receive
  <2>2. CASE ~(Current(t) /\ sock # NoSocket)
    BY <1>16, <2>2, FailOvertaking DEF Receive
  <2> QED BY <2>1, <2>2
<1>17. ASSUME NEW t \in Threads, ReadFrame(t) PROVE Overtaking'
  <2>1. CASE Head(inbox[local[t]]).code = "bad"
    BY <1>17, <2>1, FailOvertaking DEF ReadFrame
  <2>2. CASE Head(inbox[local[t]]).code # "bad"
    <3>1. /\ pc[t] = "wait"
          /\ \E p \in {"settle", "receive"} : Goto(t, p)
          /\ UNCHANGED <<stale, closer, overtaken, raced, kind, local, sock>>
      BY <1>17, <2>2 DEF ReadFrame
    <3> QED BY <3>1
  <2> QED BY <2>1, <2>2
<1>18. ASSUME NEW t \in Threads, WaitFails(t) PROVE Overtaking'
  BY <1>18, FailOvertaking DEF WaitFails
<1>19. ASSUME NEW t \in Threads, Settle(t) PROVE Overtaking'
  <2>1. CASE Current(t)
    BY <1>19, <2>1 DEF Settle
  <2>2. CASE ~Current(t)
    BY <1>19, <2>2, FailOvertaking DEF Settle
  <2> QED BY <2>1, <2>2
<1>20. ASSUME NEW t \in Threads, RestoreTimeout(t) PROVE Overtaking'
  <2>1. CASE Usable(local[t])
    BY <1>20, <2>1 DEF RestoreTimeout
  <2>2. CASE ~Usable(local[t])
    BY <1>20, <2>2, FailOvertaking DEF RestoreTimeout
  <2> QED BY <2>1, <2>2
<1>21. ASSUME NEW t \in Threads, Decode(t) PROVE Overtaking'
  BY <1>21 DEF Decode
<1>22. ASSUME NEW t \in Threads, SentOnly(t) PROVE Overtaking'
  <2>1. CASE Current(t)
    BY <1>22, <2>1 DEF SentOnly
  <2>2. CASE ~Current(t)
    BY <1>22, <2>2, FailOvertaking DEF SentOnly
  <2> QED BY <2>1, <2>2
<1>23. ASSUME NEW t \in Threads, Traced(t) PROVE Overtaking'
  BY <1>23 DEF Traced
<1>24. CASE CloseInvalidates
  <2>1. \A u \in Threads : pc[u] # "idle" => u \in stale'
    <3>1. Gate!ToSet(line) = {line[i] : i \in DOMAIN line}
      BY DEF Gate!ToSet
    <3>2. \A u \in Threads : InLine(u) => u \in Gate!ToSet(line)
      BY <3>1 DEF InLine
    <3>3. \A u \in Threads : pc[u] \in InTurn => holder = u
      BY DEF HoldsTurn
    <3> QED BY <1>24, <3>2, <3>3 DEF CloseInvalidates, Gate!Close, HoldsTurn
  <2>2. UNCHANGED threadVars /\ UNCHANGED raced
    BY <1>24 DEF CloseInvalidates
  <2>3. \A u \in Threads :
          overtaken'[u] = (overtaken[u] \/ Undecided(u))
    BY <1>24 DEF CloseInvalidates
  <2> QED BY <2>1, <2>2, <2>3 DEF Undecided
<1>25. CASE CloseReads
  BY <1>25 DEF CloseReads
<1>26. CASE CloseClears
  BY <1>26 DEF CloseClears
<1>27. CASE CloseCloses
  BY <1>27 DEF CloseCloses
<1>28. CASE \E s \in Sockets : PlcAnswers(s) \/ ForeignArrives(s)
  BY <1>28 DEF PlcAnswers, ForeignArrives
<1>29. CASE UNCHANGED vars
  BY <1>29 DEF vars
<1> QED
  BY <1>1, <1>2, <1>3, <1>4, <1>5, <1>6, <1>7, <1>8, <1>9, <1>10, <1>11,
     <1>12, <1>13, <1>14, <1>15, <1>16, <1>17, <1>18, <1>19, <1>20, <1>21,
     <1>22, <1>23, <1>24, <1>25, <1>26, <1>27, <1>28, <1>29
     DEF Next, Operation
(* What the caller is told of a failure: of a state-changing request that  *)
(* was handed to a socket, that its outcome is unknown, and of no other.   *)
Outcomes == OutcomeContractUnraced /\ OutcomesAreEarned

(* What a failure tells the caller (_classify_exchange_failure() and the   *)
(* close that wins over it): the unknown outcome of a state-changing       *)
(* request that was handed to a socket, and of no other.                   *)
LEMMA FailOutcomes ==
  ASSUME TypeOK, Standing, Outcomes,
         NEW t \in Threads, NEW f \in Failures, NEW a \in BOOLEAN,
         Fail(t, f, a), pc[t] \in InTurn \ {"leave"},
         f = "internal" /\ Current(t) => raced[t],
         a => sending'[t] # "none" /\ pc[t] \in InTurn \ {"begin", "decode"},
         ~a => sending'[t] = "none",
         \A u \in Threads \ {t} : sending'[u] = sending[u]
  PROVE  Outcomes'
<1> DEFINE final == IF Current(t) THEN f ELSE "closed"
           changes == kind[t] = "reset" \/ activeSC
           told == Classify(final, changes, a)
<1>1. /\ result' = [result EXCEPT ![t] = told]
      /\ pc' = [pc EXCEPT ![t] = "leave"]
      /\ UNCHANGED <<kind, overtaken, raced>>
  BY DEF Fail, Goto
<1>2. told \in Failures \union {"outcomeUnknown"}
  BY DEF Classify, Failures
<1>3. told = "internal" => raced[t]
  BY DEF Classify
<1>4. told = "outcomeUnknown" => a /\ changes
  BY DEF Classify, Failures
<1>5. told # "outcomeUnknown" => \/ told = "internal" \/ ~a
                                 \/ kind[t] \notin {"write", "reset"}
  BY DEF Classify, Standing
<1>6. changes /\ a => kind[t] \in {"write", "reset"}
  BY DEF Standing
<1>7. result'[t] = told /\ \A u \in Threads \ {t} : result'[u] = result[u]
  BY <1>1 DEF TypeOK
<1> HIDE DEF told, changes
<1>8. OutcomesAreEarned'
  BY <1>1, <1>2, <1>3, <1>4, <1>6, <1>7
     DEF Outcomes, OutcomesAreEarned, Failures
<1>9. OutcomeContractUnraced'
  BY <1>1, <1>2, <1>3, <1>5, <1>7
     DEF Outcomes, OutcomeContractUnraced, TypeOK, Finished, Definitive,
         Failures
<1> QED BY <1>8, <1>9 DEF Outcomes

(* Every step that ends an operation earns the outcome it reports.         *)
LEMMA OutcomesStep ==
  ASSUME TypeOK, HoldsTurn, Standing, Overtaking, Outcomes, [Next]_vars
  PROVE  Outcomes'
<1>0. /\ pc \in [Threads -> Places] /\ kind \in [Threads -> AllKinds]
      /\ overtaken \in [Threads -> BOOLEAN]
      /\ raced \in [Threads -> BOOLEAN]
      /\ sending \in [Threads -> {"none", "tried", "left"}]
      /\ result \in [Threads -> Results]
      /\ answer \in [Threads -> AllCodes]
  BY DEF TypeOK
<1>a. ASSUME NEW t \in Threads, Current(t), pc[t] # "idle"
      PROVE  ~overtaken[t]
  BY <1>a DEF Current, Gate!IsCurrent, Overtaking
<1> USE <1>0
        DEF Outcomes, OutcomeContractUnraced, OutcomesAreEarned, Finished,
            Definitive, InTurn, Places, BeforeSend, AfterSend, Goto,
            threadVars, historyVars
<1>1. ASSUME NEW t \in Threads, NEW k \in Kinds, StartFree(t, k)
      PROVE  Outcomes'
  BY <1>1 DEF StartFree, Start
<1>2. ASSUME NEW t \in Threads, NEW k \in Kinds, StartQueued(t, k)
      PROVE  Outcomes'
  BY <1>2 DEF StartQueued, Start
<1>3. ASSUME NEW t \in Threads, TurnGranted(t) PROVE Outcomes'
  BY <1>3 DEF TurnGranted, Standing
<1>4. ASSUME NEW t \in Threads, TurnRefused(t) PROVE Outcomes'
  BY <1>4 DEF TurnRefused, Standing
<1>5. ASSUME NEW t \in Threads, Leave(t) PROVE Outcomes'
  BY <1>5 DEF Leave
<1>6. ASSUME NEW t \in Threads, Begin(t) PROVE Outcomes'
  <2>1. CASE Current(t)
    BY <1>6, <2>1, <1>a DEF Begin, AfterConnect, Standing
  <2>2. CASE ~Current(t) /\ kind[t] = "connect"
    BY <1>6, <2>2 DEF Begin, FailConnect
  <2>3. CASE ~Current(t) /\ kind[t] # "connect"
    BY ZenonT(60), <1>6, <2>3, FailOutcomes
       DEF Begin, FailConnect, Standing, Failures
  <2> QED BY <2>1, <2>2, <2>3
<1>7. ASSUME NEW t \in Threads, ConnectOpens(t) PROVE Outcomes'
  BY <1>7 DEF ConnectOpens, Standing
<1>8. ASSUME NEW t \in Threads, ConnectFails(t) PROVE Outcomes'
  <2>1. PICK f \in Failures \ {"internal"} : FailConnect(t, f)
    BY <1>8 DEF ConnectFails, Failures
  <2>2. CASE kind[t] = "connect"
    BY <1>8, <2>1, <2>2 DEF ConnectFails, FailConnect, Failures
  <2>3. CASE kind[t] # "connect"
    BY ZenonT(60), <1>8, <2>1, <2>3, FailOutcomes
       DEF ConnectFails, FailConnect, Standing
  <2> QED BY <2>2, <2>3
<1>9. ASSUME NEW t \in Threads, Adopt(t) PROVE Outcomes'
  BY <1>9 DEF Adopt, Standing
<1>10. ASSUME NEW t \in Threads, CheckAdopted(t) PROVE Outcomes'
  BY <1>10, <1>a DEF CheckAdopted, AfterConnect, Standing
<1>11. ASSUME NEW t \in Threads, Check(t) PROVE Outcomes'
  <2>1. CASE Current(t) /\ sock # NoSocket
    BY <1>11, <2>1 DEF Check, Standing
  <2>2. CASE ~(Current(t) /\ sock # NoSocket)
    <3>1. /\ NoSocketFailure(t, "notConnected") \in Failures
          /\ Current(t) => raced[t]
      BY <1>11, <2>2
         DEF NoSocketFailure, Failures, Overtaking, Check, Current,
             Gate!IsCurrent
    <3> QED BY ZenonT(60), <1>11, <2>2, <3>1, FailOutcomes DEF Check, Standing
  <2> QED BY <2>1, <2>2
<1>12. ASSUME NEW t \in Threads, Grab(t) PROVE Outcomes'
  BY <1>12 DEF Grab, Standing
<1>13. ASSUME NEW t \in Threads, Send(t) PROVE Outcomes'
  BY <1>13 DEF Send, Standing
<1>b. ASSUME NEW t \in Threads, pc[t] = "send",
             NEW f \in SocketFailures(SendSocket(t))
      PROVE  f \in Failures /\ (f = "internal" /\ Current(t) => raced[t])
  BY <1>b
     DEF SocketFailures, SendSocket, Failures, Overtaking, Current,
         Gate!IsCurrent
<1>14. ASSUME NEW t \in Threads, SendNotAttempted(t) PROVE Outcomes'
  BY ZenonT(60), <1>14, <1>b, FailOutcomes DEF SendNotAttempted, Standing
<1>15. ASSUME NEW t \in Threads, SendFails(t) PROVE Outcomes'
  <2>1. /\ sending'[t] # "none"
        /\ \A u \in Threads \ {t} : sending'[u] = sending[u]
    BY <1>15 DEF SendFails
  <2> QED BY <1>15, <2>1, <1>b, FailOutcomes DEF SendFails
<1>16. ASSUME NEW t \in Threads, Receive(t) PROVE Outcomes'
  <2>1. CASE Current(t) /\ sock # NoSocket
    BY <1>16, <2>1 DEF Receive, Standing
  <2>2. CASE ~(Current(t) /\ sock # NoSocket)
    <3>1. /\ NoSocketFailure(t, "internal") \in Failures
          /\ Current(t) => raced[t]
      BY <1>16, <2>2
         DEF NoSocketFailure, Failures, Overtaking, Receive, Current,
             Gate!IsCurrent
    <3> QED BY <1>16, <2>2, <3>1, FailOutcomes DEF Receive, Standing
  <2> QED BY <2>1, <2>2
<1>17. ASSUME NEW t \in Threads, ReadFrame(t) PROVE Outcomes'
  <2>1. CASE Head(inbox[local[t]]).code = "bad"
    BY <1>17, <2>1, FailOutcomes DEF ReadFrame, Standing, Failures
  <2>2. CASE Head(inbox[local[t]]).code # "bad"
    <3>1. /\ pc[t] = "wait"
          /\ \E p \in {"settle", "receive"} : Goto(t, p)
          /\ UNCHANGED <<kind, result, sending, overtaken, raced>>
      BY <1>17, <2>2 DEF ReadFrame
    <3> QED BY <3>1 DEF Standing
  <2> QED BY <2>1, <2>2
<1>18. ASSUME NEW t \in Threads, WaitFails(t) PROVE Outcomes'
  <2>1. PICK f \in Failures \ {"internal"} : Fail(t, f, TRUE)
    BY <1>18 DEF WaitFails, Failures
  <2> QED BY <1>18, <2>1, FailOutcomes DEF WaitFails, Standing
<1>19. ASSUME NEW t \in Threads, Settle(t) PROVE Outcomes'
  <2>1. CASE Current(t)
    BY <1>19, <2>1 DEF Settle, Standing
  <2>2. CASE ~Current(t)
    BY <1>19, <2>2, FailOutcomes DEF Settle, Standing, Failures
  <2> QED BY <2>1, <2>2
<1>20. ASSUME NEW t \in Threads, RestoreTimeout(t) PROVE Outcomes'
  <2>1. CASE Usable(local[t])
    BY <1>20, <2>1 DEF RestoreTimeout, Standing
  <2>2. CASE ~Usable(local[t])
    BY <1>20, <2>2, FailOutcomes DEF RestoreTimeout, Standing, Failures
  <2> QED BY <2>1, <2>2
<1>21. ASSUME NEW t \in Threads, Decode(t) PROVE Outcomes'
  <2>1. /\ pc[t] = "decode" /\ Goto(t, "leave")
        /\ UNCHANGED <<kind, sending, overtaken, raced>>
    BY <1>21 DEF Decode
  <2>2. CASE kind[t] = "read"
    <3>1. result' = [result EXCEPT ![t] = ReadResult(t)]
      BY <1>21, <2>2 DEF Decode
    <3>2. /\ ReadResult(t) \in {"endCode", "closed", "protocol", "done"}
          /\ ReadResult(t) = "done" => ~overtaken[t]
      BY <2>1, <1>a DEF ReadResult
    <3> QED BY <2>1, <2>2, <3>1, <3>2
  <2>3. CASE kind[t] # "read"
    <3>1. result' = [result EXCEPT ![t] = WriteResult(t)]
      BY <1>21, <2>3 DEF Decode
    <3>2. WriteResult(t) \in Definitive
      BY DEF WriteResult
    <3>3. /\ ~overtaken[t] /\ sending[t] = "left"
          /\ kind[t] \in {"write", "reset"}
      BY <2>1, <2>3 DEF Overtaking, Standing, Exchanging, AllKinds
    <3> QED BY <2>1, <3>1, <3>2, <3>3
  <2> QED BY <2>2, <2>3
<1>22. ASSUME NEW t \in Threads, SentOnly(t) PROVE Outcomes'
  <2>1. CASE Current(t)
    BY <1>22, <2>1 DEF SentOnly, Standing
  <2>2. CASE ~Current(t)
    BY <1>22, <2>2, FailOutcomes DEF SentOnly, Standing, Failures
  <2> QED BY <2>1, <2>2
<1>23. ASSUME NEW t \in Threads, Traced(t) PROVE Outcomes'
  BY <1>23, <1>a DEF Traced, Standing, Classify
<1>24. CASE CloseInvalidates
  BY <1>24 DEF CloseInvalidates, Undecided, Standing
<1>25. CASE Outside
  BY <1>25, OutsideSteps
<1>26. CASE UNCHANGED vars
  BY <1>26 DEF vars
<1> QED
  BY <1>1, <1>2, <1>3, <1>4, <1>5, <1>6, <1>7, <1>8, <1>9, <1>10, <1>11,
     <1>12, <1>13, <1>14, <1>15, <1>16, <1>17, <1>18, <1>19, <1>20, <1>21,
     <1>22, <1>23, <1>24, <1>25, <1>26
     DEF Next, Operation, Outside
------------------------------------------------------------------------------
(* What a step inside a turn does to the sockets, if it is not one of the  *)
(* five that open, adopt, grab, write to or read one: it retires the       *)
(* client's socket, and with it the operation; or it leaves them alone.    *)
Retires(t) ==
  /\ CloseSocket(sock) /\ sock' = NoSocket
  /\ UNCHANGED <<local, sockGen>>
  /\ pc'[t] \in {"leave", "traced"}

LeavesAlone(t) ==
  /\ UNCHANGED <<sock, sockState, inbox, unanswered, local, sockGen>>
  /\ pc'[t] \in {"connecting", "check", "grab", "wait", "restore", "decode",
                 "leave"}
  /\ pc'[t] = "wait" <=> pc[t] = "receive"
  /\ pc[t] \notin {"wait", "sentOnly"}

(* What the steps of a turn do to the sockets: they retire the transport,  *)
(* leave every socket alone, or are one of five named steps.               *)
LEMMA InsideSockets ==
  ASSUME TypeOK, NEW t \in Threads, Inside(t)
  PROVE  \/ Retires(t) \/ LeavesAlone(t)
         \/ ConnectOpens(t) \/ Adopt(t) \/ Grab(t) \/ Send(t)
         \/ ReadFrame(t) /\ Head(inbox[local[t]]).code # "bad"
<1>0. pc \in [Threads -> Places]
  BY DEF TypeOK
<1> USE <1>0 DEF netVars, historyVars, Goto
<1>1. ASSUME NEW f, NEW a, Fail(t, f, a) PROVE Retires(t)
  BY <1>1 DEF Fail, CloseTransport, Retires
<1>2. ASSUME NEW f, FailConnect(t, f), pc[t] \in {"begin", "connecting"}
      PROVE  Retires(t) \/ LeavesAlone(t)
  BY <1>1, <1>2 DEF FailConnect, LeavesAlone
<1>3. CASE Begin(t) \/ ConnectFails(t)
  BY <1>2, <1>3 DEF Begin, ConnectFails, LeavesAlone, AfterConnect
<1>4. CASE CheckAdopted(t)
  BY <1>4
     DEF CheckAdopted, CloseTransport, Retires, LeavesAlone, AfterConnect
<1>5. CASE Check(t) \/ Receive(t)
  BY <1>1, <1>5 DEF Check, Receive, LeavesAlone
<1>6. CASE Settle(t) \/ RestoreTimeout(t)
  BY <1>1, <1>6 DEF Settle, RestoreTimeout, LeavesAlone
<1>7. CASE SendNotAttempted(t) \/ SendFails(t) \/ WaitFails(t)
  BY <1>1, <1>7 DEF SendNotAttempted, SendFails, WaitFails
<1>8. CASE ReadFrame(t)
  BY <1>1, <1>8 DEF ReadFrame
<1>9. CASE Decode(t) \/ Traced(t)
  BY <1>9 DEF Decode, Traced, CloseTransport, Retires, LeavesAlone
<1>10. CASE SentOnly(t)
  BY <1>1, <1>10 DEF SentOnly, CloseTransport, Retires
<1> QED
  BY <1>3, <1>4, <1>5, <1>6, <1>7, <1>8, <1>9, <1>10 DEF Inside

(* The socket that connect() returns is the first that was never opened.   *)
LEMMA NextSocket ==
  ASSUME TypeOK, SocketsKnown, NEW t \in Threads, ConnectOpens(t)
  PROVE  \E s \in Sockets :
           /\ sockState[s] = "unused"
           /\ {u \in Sockets : sockState[u] # "unused"} = 1..(s - 1)
           /\ sockState' = [sockState EXCEPT ![s] = "open"]
           /\ sockGen' = [sockGen EXCEPT ![s] = closes]
           /\ local' = [local EXCEPT ![t] = s]
<1> DEFINE opened == {u \in Sockets : sockState[u] # "unused"}
<1>1. PICK n \in 0..MaxOps : opened = 1..n
  BY DEF SocketsKnown, InOrder
<1>2. n \in Int /\ 1 \in Int
  OBVIOUS
<1>3. Cardinality(1..n) = n
  <2>1. Cardinality(1..n) = IF 1 > n THEN 0 ELSE n - 1 + 1
    BY <1>2, FS_Interval
  <2> QED BY <2>1
<1>4. PICK s \in Sockets :
        /\ s = Cardinality(opened) + 1
        /\ sockState' = [sockState EXCEPT ![s] = "open"]
        /\ sockGen' = [sockGen EXCEPT ![s] = closes]
        /\ local' = [local EXCEPT ![t] = s]
  BY DEF ConnectOpens
<1>5. s = n + 1 /\ s - 1 = n
  <2> HIDE DEF opened
  <2> QED BY <1>1, <1>2, <1>3, <1>4
<1>6. s \notin opened
  BY <1>1, <1>5
<1> QED BY <1>1, <1>4, <1>5, <1>6

(* A socket that is closed was opened, and holds nothing any more.         *)
LEMMA ClosedSockets ==
  ASSUME TypeOK, SocketsKnown, UNCHANGED setup,
         NEW s, IsOpened(s), CloseSocket(s),
         sock' \in {sock, NoSocket}, closerSock' \in {closerSock, NoSocket},
         UNCHANGED local
  PROVE  SocketsKnown'
<1>1. \A u \in Sockets : sockState'[u] = "unused" <=> sockState[u] = "unused"
  BY SetupFacts DEF CloseSocket, IsOpened, SocketsKnown, TypeOK
<1>2. {u \in Sockets : sockState[u] # "unused"}
        = {u \in Sockets : sockState'[u] # "unused"}
  BY <1>1
<1>3. InOrder'
  BY <1>2, SetupKept DEF SocketsKnown, InOrder
<1>4. IsOpened(sock)' /\ IsOpened(closerSock)'
      /\ \A t \in Threads : IsOpened(local[t])'
  BY <1>1 DEF SocketsKnown, IsOpened, TypeOK
<1>5. \A u \in Sockets :
        sockState'[u] # "open" => inbox'[u] = <<>> /\ unanswered'[u] = {}
  BY DEF CloseSocket, SocketsKnown, TypeOK
<1> QED BY <1>3, <1>4, <1>5, SetupKept DEF SocketsKnown

(* Every step keeps the order of the sockets and the emptiness of closed   *)
(* ones.                                                                   *)
LEMMA SocketsStep ==
  ASSUME TypeOK, SocketsKnown, [Next]_vars
  PROVE  SocketsKnown'
<1>0. UNCHANGED setup
  BY DEF Next, vars
<1>a. /\ sock \in Sockets \union {NoSocket}
      /\ closerSock \in Sockets \union {NoSocket}
      /\ sockState \in [Sockets -> {"unused", "open", "closed"}]
      /\ local \in [Threads -> Sockets \union {NoSocket}]
      /\ unanswered \in [Sockets -> SUBSET Requests]
      /\ inbox \in [Sockets -> Seq(Frames)]
      /\ NoSocket \notin Sockets
  BY SetupFacts DEF TypeOK
<1> USE <1>0, <1>a, SetupKept
<1>1. ASSUME NEW t \in Threads, NEW k \in Kinds, Start(t, k)
      PROVE  SocketsKnown'
  BY <1>1 DEF Start, SocketsKnown, InOrder, IsOpened, netVars, closeVars
<1>2. ASSUME NEW t \in Threads, TurnGranted(t) \/ TurnRefused(t) \/ Leave(t)
      PROVE  SocketsKnown'
  BY <1>2
     DEF TurnGranted, TurnRefused, Leave, SocketsKnown, InOrder, IsOpened,
         netVars, closeVars
<1>3. ASSUME NEW t \in Threads, Inside(t) PROVE SocketsKnown'
  <2>0. UNCHANGED closerSock
    BY <1>3, InsideSteps DEF InsideFrame, closeVars
  <2>1. CASE Retires(t)
    BY <2>0, <2>1, ClosedSockets DEF Retires, SocketsKnown
  <2>2. CASE LeavesAlone(t)
    BY <2>0, <2>2 DEF LeavesAlone, SocketsKnown, InOrder, IsOpened
  <2>3. CASE ConnectOpens(t)
    <3>1. PICK s \in Sockets :
             /\ sockState[s] = "unused"
             /\ {u \in Sockets : sockState[u] # "unused"} = 1..(s - 1)
             /\ sockState' = [sockState EXCEPT ![s] = "open"]
             /\ local' = [local EXCEPT ![t] = s]
      BY <2>3, NextSocket
    <3>2. s \in 0..MaxOps /\ s \in Nat
      BY SetupFacts DEF Sockets, TypeOK
    <3>3. {u \in Sockets : sockState'[u] # "unused"} = 1..(s - 1) \union {s}
      BY <3>1
    <3>4. 1..(s - 1) \union {s} = 1..s
      BY <3>1, <3>2 DEF Sockets
    <3>5. InOrder'
      BY <3>2, <3>3, <3>4 DEF InOrder
    <3>6. UNCHANGED <<sock, inbox, unanswered>>
      BY <2>3 DEF ConnectOpens
    <3> QED BY <2>0, <3>1, <3>5, <3>6 DEF SocketsKnown, IsOpened
  <2>4. CASE Adopt(t) \/ Grab(t)
    BY <2>0, <2>4 DEF Adopt, Grab, SocketsKnown, InOrder, IsOpened, netVars
  <2>5. CASE Send(t)
    <3>1. /\ sockState[SendSocket(t)] = "open"
          /\ UNCHANGED <<sock, sockState, inbox, local>>
          /\ \A u \in Sockets \ {SendSocket(t)} :
               unanswered'[u] = unanswered[u]
      BY <2>5 DEF Send, Usable
    <3> QED BY <2>0, <3>1 DEF SocketsKnown, InOrder, IsOpened
  <2>6. CASE ReadFrame(t) /\ Head(inbox[local[t]]).code # "bad"
    <3>1. /\ sockState[local[t]] = "open"
          /\ UNCHANGED <<sock, sockState, unanswered, local>>
          /\ \A u \in Sockets \ {local[t]} : inbox'[u] = inbox[u]
      BY <2>6 DEF ReadFrame, Usable
    <3> QED BY <2>0, <3>1 DEF SocketsKnown, InOrder, IsOpened
  <2> QED BY <1>3, <2>1, <2>2, <2>3, <2>4, <2>5, <2>6, InsideSockets
<1>4. CASE CloseInvalidates \/ CloseReads \/ CloseClears
  BY <1>4
     DEF CloseInvalidates, CloseReads, CloseClears, SocketsKnown, InOrder,
         IsOpened, netVars, closeVars, threadVars
<1>5. CASE CloseCloses
  <2>1. /\ CloseSocket(closerSock) /\ closerSock' = NoSocket
        /\ UNCHANGED <<sock, local>>
    BY <1>5 DEF CloseCloses, threadVars
  <2> QED BY <2>1, ClosedSockets DEF SocketsKnown
<1>6. ASSUME NEW s \in Sockets, PlcAnswers(s) \/ ForeignArrives(s)
      PROVE  SocketsKnown'
  <2>1. /\ sockState[s] = "open"
        /\ UNCHANGED <<sock, closerSock, local, sockState>>
        /\ \A u \in Sockets \ {s} :
             inbox'[u] = inbox[u] /\ unanswered'[u] = unanswered[u]
    BY <1>6 DEF PlcAnswers, ForeignArrives, closeVars, threadVars
  <2> QED BY <2>1 DEF SocketsKnown, InOrder, IsOpened
<1>7. CASE UNCHANGED vars
  BY <1>7
     DEF vars, SocketsKnown, InOrder, IsOpened, netVars, closeVars,
         threadVars
<1> QED
  BY <1>1, <1>2, <1>3, <1>4, <1>5, <1>6, <1>7
     DEF Next, Operation, Inside, StartFree, StartQueued

(* A socket that is assigned to the client is of the generation that is    *)
(* current, or its owner finds out in the next check of the gate.          *)
LEMMA GenerationsStep ==
  ASSUME TypeOK, HoldsTurn, SocketsKnown, Generations, [Next]_vars
  PROVE  Generations'
<1>a. /\ sock \in Sockets \union {NoSocket}
      /\ sockGen \in [Sockets -> 0..MaxCloses]
      /\ local \in [Threads -> Sockets \union {NoSocket}]
      /\ pc \in [Threads -> Places]
      /\ NoSocket \notin Sockets /\ NoThread \notin Threads
      /\ \A t, u \in Threads :
           pc[t] \in InTurn /\ pc[u] \in InTurn => t = u
      /\ \A t \in Threads : pc[t] \in InTurn => holder = t
  BY SetupFacts DEF TypeOK, HoldsTurn
<1> USE <1>a DEF Generations, Goto, InTurn, Places
<1>1. ASSUME NEW t \in Threads, NEW k \in Kinds, StartFree(t, k)
      PROVE  Generations'
  BY <1>1 DEF StartFree, Start, Gate!TakeFree, closeVars
<1>2. ASSUME NEW t \in Threads, NEW k \in Kinds, StartQueued(t, k)
      PROVE  Generations'
  BY <1>2 DEF StartQueued, Start, Gate!Join, closeVars
<1>3. ASSUME NEW t \in Threads, TurnGranted(t) PROVE Generations'
  BY <1>3 DEF TurnGranted, Gate!Take, closeVars
<1>4. ASSUME NEW t \in Threads, TurnRefused(t) PROVE Generations'
  BY <1>4 DEF TurnRefused, Gate!Refuse, closeVars, historyVars
<1>5. ASSUME NEW t \in Threads, Leave(t) PROVE Generations'
  BY <1>5 DEF Leave, Gate!Release, closeVars, historyVars
<1>6. ASSUME NEW t \in Threads, Inside(t) PROVE Generations'
  <2>0. /\ UNCHANGED <<holder, stale, closer, closes>>
        /\ \A u \in Threads \ {t} : pc'[u] = pc[u] /\ pc[u] \notin InTurn
    BY <1>6, InsideSteps DEF InsideFrame, closeVars, gateVars
  <2>1. CASE ConnectOpens(t)
    <3>1. PICK s \in Sockets :
             /\ sockState[s] = "unused"
             /\ sockGen' = [sockGen EXCEPT ![s] = closes]
             /\ local' = [local EXCEPT ![t] = s]
      BY <2>1, NextSocket
    <3>2. sock # s /\ UNCHANGED sock
      BY <2>1, <3>1 DEF ConnectOpens, SocketsKnown, IsOpened
    <3>3. pc[t] = "connecting" /\ Goto(t, "adopt")
      BY <2>1 DEF ConnectOpens
    <3> QED BY <2>0, <3>1, <3>2, <3>3
  <2>2. CASE Adopt(t)
    <3>1. /\ pc[t] = "adopt" /\ Goto(t, "adopted") /\ sock' = local[t]
          /\ UNCHANGED <<local, sockGen>>
      BY <2>2 DEF Adopt, historyVars
    <3> QED BY <2>0, <3>1
  <2>3. CASE CheckAdopted(t)
    <3>1. /\ pc[t] = "adopted" /\ pc'[t] # "adopt"
          /\ UNCHANGED <<local, sockGen>>
          /\ \/ sock' = NoSocket
             \/ UNCHANGED sock /\ t \notin stale
      BY <2>3
         DEF CheckAdopted, AfterConnect, CloseTransport, Current,
             Gate!IsCurrent, historyVars
    <3> QED BY <2>0, <3>1
  <2>4. CASE ~ConnectOpens(t) /\ ~Adopt(t) /\ ~CheckAdopted(t)
    <3>1. /\ UNCHANGED sockGen
          /\ sock' = NoSocket \/ UNCHANGED sock
      BY <1>6, <2>4, InsideSockets
         DEF Retires, LeavesAlone, Grab, Send, ReadFrame, historyVars
    <3>2. pc'[t] # "adopt" /\ pc[t] # "adopted"
      <4>1. ASSUME NEW f, NEW a, Fail(t, f, a) PROVE pc'[t] = "leave"
        BY <4>1 DEF Fail
      <4>2. ASSUME NEW f, FailConnect(t, f) PROVE pc'[t] = "leave"
        BY <4>1, <4>2 DEF FailConnect
      <4>3. CASE Begin(t) \/ ConnectFails(t)
        BY <4>2, <4>3 DEF Begin, ConnectFails, AfterConnect
      <4>4. CASE \/ Check(t) \/ Receive(t) \/ Settle(t) \/ RestoreTimeout(t)
                 \/ SentOnly(t)
        BY ZenonT(60), <4>1, <4>4
           DEF Check, Receive, Settle, RestoreTimeout, SentOnly
      <4>5. CASE \/ SendNotAttempted(t) \/ SendFails(t) \/ WaitFails(t)
        BY <4>1, <4>5 DEF SendNotAttempted, SendFails, WaitFails
      <4>6. CASE Grab(t) \/ Send(t) \/ Decode(t) \/ Traced(t)
        BY <4>6 DEF Grab, Send, Decode, Traced
      <4>7. CASE ReadFrame(t)
        BY ZenonT(60), <4>1, <4>7 DEF ReadFrame
      <4> QED
        BY <1>6, <2>4, <4>3, <4>4, <4>5, <4>6, <4>7 DEF Inside
    <3> QED BY <2>0, <3>1, <3>2
  <2> QED BY <2>1, <2>2, <2>3, <2>4
<1>7. CASE CloseInvalidates
  BY <1>7 DEF CloseInvalidates, Gate!Close, threadVars
<1>8. CASE CloseReads
  BY <1>8 DEF CloseReads, threadVars, gateVars, historyVars
<1>9. CASE CloseClears
  BY <1>9 DEF CloseClears, threadVars, gateVars, historyVars
<1>10. CASE CloseCloses
  BY <1>10 DEF CloseCloses, threadVars, gateVars, historyVars
<1>11. CASE \E s \in Sockets : PlcAnswers(s) \/ ForeignArrives(s)
  BY <1>11
     DEF PlcAnswers, ForeignArrives, threadVars, gateVars, historyVars,
         closeVars
<1>12. CASE UNCHANGED vars
  BY <1>12 DEF vars, threadVars, gateVars, historyVars, closeVars
<1> QED
  BY <1>1, <1>2, <1>3, <1>4, <1>5, <1>6, <1>7, <1>8, <1>9, <1>10, <1>11,
     <1>12
     DEF Next, Operation, Inside
------------------------------------------------------------------------------
(* A socket from which messages are only taken away carries no more than   *)
(* before.                                                                 *)
LEMMA FewerMessages ==
  ASSUME TypeOK, NEW s \in Sockets,
         \/ inbox'[s] = inbox[s] /\ unanswered'[s] = unanswered[s]
         \/ inbox'[s] = <<>> /\ unanswered'[s] = {}
         \/ /\ inbox[s] # <<>> /\ inbox'[s] = Tail(inbox[s])
            /\ unanswered'[s] = unanswered[s]
  PROVE  /\ Quiet(s) => Quiet(s)'
         /\ AtMostOne(s) => AtMostOne(s)'
         /\ \A t \in Threads :
              UNCHANGED req /\ OnlyMine(t, s) => OnlyMine(t, s)'
         /\ Carried(s)' \subseteq Carried(s)
<1>1. inbox[s] \in Seq(Frames)
  BY DEF TypeOK
<1>2. CASE inbox'[s] = inbox[s] /\ unanswered'[s] = unanswered[s]
  BY <1>2 DEF Quiet, AtMostOne, OnlyMine, Carried
<1>3. CASE inbox'[s] = <<>> /\ unanswered'[s] = {}
  BY <1>3 DEF Quiet, AtMostOne, OnlyMine, Carried
<1>4. CASE /\ inbox[s] # <<>> /\ inbox'[s] = Tail(inbox[s])
           /\ unanswered'[s] = unanswered[s]
  <2>1. \A i \in DOMAIN inbox'[s] :
          /\ i + 1 \in DOMAIN inbox[s]
          /\ inbox'[s][i] = inbox[s][i + 1]
    BY <1>1, <1>4
  <2>2. \A i, j \in DOMAIN inbox'[s] : i + 1 = j + 1 => i = j
    BY <1>1, <1>4
  <2> QED
    BY <1>4, <2>1, <2>2 DEF Quiet, AtMostOne, OnlyMine, Carried
<1> QED BY <1>2, <1>3, <1>4

(* The PLC answers a request: the answer takes the place of the request.   *)
LEMMA AnsweredMessages ==
  ASSUME TypeOK, NEW s \in Sockets, PlcAnswers(s)
  PROVE  /\ Quiet(s) => Quiet(s)'
         /\ AtMostOne(s) => AtMostOne(s)'
         /\ \A t \in Threads :
              UNCHANGED req /\ OnlyMine(t, s) => OnlyMine(t, s)'
         /\ Carried(s)' \subseteq Carried(s)
<1>1. PICK r \in unanswered[s], c \in Codes :
        /\ unanswered' = [unanswered EXCEPT ![s] = @ \ {r}]
        /\ inbox' = [inbox EXCEPT ![s] = Append(@,
               [req |-> r.req, serial |-> r.serial, code |-> c])]
  BY DEF PlcAnswers
<1> DEFINE f == [req |-> r.req, serial |-> r.serial, code |-> c]
           q == inbox[s]
<1>2. /\ unanswered'[s] = unanswered[s] \ {r}
      /\ inbox'[s] = Append(q, f)
      /\ q \in Seq(Frames) /\ r \in Requests
  BY <1>1 DEF TypeOK
<1>3. f.req = r.req /\ f.req # 0 /\ Header(f) = Header(r)
  BY <1>2 DEF Requests, Header
<1> HIDE DEF f
<1>4. /\ DOMAIN inbox'[s] = DOMAIN q \union {Len(q) + 1}
      /\ Len(q) + 1 \notin DOMAIN q
      /\ inbox'[s][Len(q) + 1] = f
      /\ \A i \in DOMAIN q : inbox'[s][i] = q[i]
  BY <1>2
<1>5. Quiet(s) => Quiet(s)'
  BY <1>1 DEF Quiet
<1>6. ASSUME AtMostOne(s) PROVE AtMostOne(s)'
  <2>1. unanswered'[s] = {}
    BY <1>2, <1>6 DEF AtMostOne
  <2>2. \A i \in DOMAIN q : q[i].req = 0
    BY <1>6 DEF AtMostOne
  <2>3. \A i \in DOMAIN inbox'[s] :
          inbox'[s][i].req # 0 => i = Len(q) + 1
    BY <2>2, <1>4
  <2> QED BY <2>1, <2>3 DEF AtMostOne
<1>7. ASSUME NEW t \in Threads, UNCHANGED req, OnlyMine(t, s)
      PROVE  OnlyMine(t, s)'
  BY <1>2, <1>3, <1>4, <1>7 DEF OnlyMine
<1>8. Carried(s)' \subseteq Carried(s)
  BY <1>2, <1>3, <1>4 DEF Carried
<1> QED BY <1>5, <1>6, <1>7, <1>8

(* A frame of another route answers nobody; a datagram that arrives once   *)
(* more was there before.                                                  *)
LEMMA ForeignMessages ==
  ASSUME TypeOK, NEW s \in Sockets, ForeignArrives(s)
  PROVE  /\ NoDuplicates =>
              /\ Quiet(s) => Quiet(s)'
              /\ AtMostOne(s) => AtMostOne(s)'
              /\ \A t \in Threads :
                   UNCHANGED req /\ OnlyMine(t, s) => OnlyMine(t, s)'
         /\ \A m \in Carried(s)' : m.req # 0 => m \in Carried(s)
<1> DEFINE q == inbox[s]
<1>1. PICK f \in {[req |-> 0, serial |-> 0, code |-> "ok"]} \union
                 IF Transport = "udp" THEN ToSet(q) ELSE {} :
        inbox' = [inbox EXCEPT ![s] = Append(@, f)]
  BY DEF ForeignArrives
<1>2. /\ inbox'[s] = Append(q, f) /\ q \in Seq(Frames)
      /\ unanswered' = unanswered
  BY <1>1 DEF TypeOK, ForeignArrives
<1>a. ToSet(q) = {q[i] : i \in DOMAIN q}
  BY DEF ToSet
<1>b. \/ f = [req |-> 0, serial |-> 0, code |-> "ok"]
      \/ Transport = "udp" /\ f \in ToSet(q)
  BY <1>1
<1>3. \/ f.req = 0
      \/ Transport = "udp" /\ \E i \in DOMAIN q : f = q[i]
  <2>1. CASE f = [req |-> 0, serial |-> 0, code |-> "ok"]
    BY <2>1
  <2>2. CASE Transport = "udp" /\ f \in ToSet(q)
    BY <1>a, <2>2
  <2> QED BY <1>b, <2>1, <2>2
<1>4. /\ DOMAIN inbox'[s] = DOMAIN q \union {Len(q) + 1}
      /\ Len(q) + 1 \notin DOMAIN q
      /\ inbox'[s][Len(q) + 1] = f
      /\ \A i \in DOMAIN q : inbox'[s][i] = q[i]
  <2>1. f \in Frames
    <3>1. [req |-> 0, serial |-> 0, code |-> "ok"] \in Frames
      BY SetupFacts DEF TypeOK, Frames, Serials, AllCodes
    <3>2. \A i \in DOMAIN q : q[i] \in Frames
      BY <1>2
    <3> QED BY <1>a, <1>b, <3>1, <3>2
  <2> QED BY <1>2, <2>1
<1>5. NoDuplicates => f.req = 0
  <2>1. foreign \in 0..MaxForeign /\ foreign < MaxForeign /\ MaxForeign \in Nat
    BY SetupFacts DEF TypeOK, ForeignArrives
  <2> QED BY <1>3, <2>1 DEF NoDuplicates
<1>6. Header(f).req = f.req
  BY DEF Header
<1>7. NoDuplicates =>
        /\ Quiet(s) => Quiet(s)'
        /\ AtMostOne(s) => AtMostOne(s)'
        /\ \A t \in Threads :
             UNCHANGED req /\ OnlyMine(t, s) => OnlyMine(t, s)'
  BY <1>2, <1>4, <1>5 DEF Quiet, AtMostOne, OnlyMine
<1>8. \A m \in Carried(s)' : m.req # 0 => m \in Carried(s)
  BY <1>2, <1>3, <1>4, <1>6 DEF Carried
<1> QED BY <1>7, <1>8

(* No other socket is concerned by an arrival.                             *)
LEMMA Elsewhere ==
  ASSUME TypeOK, NEW s \in Sockets, PlcAnswers(s) \/ ForeignArrives(s),
         NEW u \in Sockets, u # s
  PROVE  inbox'[u] = inbox[u] /\ unanswered'[u] = unanswered[u]
BY DEF TypeOK, PlcAnswers, ForeignArrives
(* While no frame arrives twice, the client and the PLC hold one           *)
(* conversation on the client's socket: it is quiet when a request is      *)
(* sent, because whoever gives up a request gives up the socket.           *)
LEMMA ConversationStep ==
  ASSUME TypeOK, HoldsTurn, Standing, SocketsKnown,
         NoDuplicates, OneConversation, [Next]_vars
  PROVE  OneConversation'
<1>0. UNCHANGED setup
  BY DEF Next, vars
<1>a. /\ sock \in Sockets \union {NoSocket}
      /\ local \in [Threads -> Sockets \union {NoSocket}]
      /\ pc \in [Threads -> Places]
      /\ unanswered \in [Sockets -> SUBSET Requests]
      /\ inbox \in [Sockets -> Seq(Frames)]
      /\ NoSocket \notin Sockets /\ Sockets' = Sockets
      /\ \A t, u \in Threads :
           pc[t] \in InTurn /\ pc[u] \in InTurn => t = u
  BY <1>0, SetupFacts, SetupKept DEF TypeOK, HoldsTurn
<1> USE <1>a DEF Goto, InTurn, Places
(* If the places stay, or change among those before a send or after an     *)
(* answer, and the messages are the same, then so is the conversation.     *)
<1>b. ASSUME UNCHANGED <<inbox, unanswered, req>>,
             sock' \in {sock, NoSocket},
             \A t \in Threads :
               \/ pc'[t] = pc[t] /\ local'[t] = local[t]
               \/ /\ pc[t] \notin {"receive", "wait", "sentOnly"}
                  /\ pc'[t] \notin {"adopt", "send", "receive", "wait"}
      PROVE  OneConversation'
  <2>1. \A s \in Sockets : AtMostOne(s)'
    BY <1>b DEF OneConversation, AtMostOne
  <2>2. \A s : Quiet(s) => Quiet(s)'
    BY <1>b DEF Quiet
  <2>3. \A t \in Threads : \A s : OnlyMine(t, s) => OnlyMine(t, s)'
    BY <1>b DEF OnlyMine
  <2>4. sock' = NoSocket \/ Quiet(sock)'
          \/ \E t \in Threads : pc'[t] \in {"receive", "wait", "sentOnly"}
    BY <1>b, <2>2 DEF OneConversation, Quiet
  <2>5. \A t \in Threads :
          /\ pc'[t] = "adopt" => local'[t] # NoSocket /\ Quiet(local[t])'
          /\ pc'[t] = "send" => local'[t] = NoSocket \/ Quiet(local[t])'
          /\ pc'[t] \in {"receive", "wait"} =>
               local'[t] # NoSocket /\ OnlyMine(t, local[t])'
          /\ pc'[t] \in {"send", "receive", "wait"} =>
               sock' \in {NoSocket, local'[t]}
    BY <1>b, <2>2, <2>3 DEF OneConversation, Quiet, OnlyMine
  <2> QED BY <2>1, <2>4, <2>5 DEF OneConversation
(* If only messages go, and no thread moves.                               *)
<1>c. ASSUME \A s \in Sockets :
               /\ Quiet(s) => Quiet(s)'
               /\ AtMostOne(s) => AtMostOne(s)'
               /\ \A t \in Threads : OnlyMine(t, s) => OnlyMine(t, s)',
             UNCHANGED <<sock, pc, local>>
      PROVE  OneConversation'
  <2>1. sock' = NoSocket \/ Quiet(sock)'
          \/ \E t \in Threads : pc'[t] \in {"receive", "wait", "sentOnly"}
    BY <1>c DEF OneConversation, Quiet
  <2>2. ASSUME NEW t \in Threads
        PROVE  /\ pc'[t] = "adopt" => local'[t] # NoSocket
                                      /\ Quiet(local[t])'
               /\ pc'[t] = "send" => local'[t] = NoSocket \/ Quiet(local[t])'
    BY <1>c DEF OneConversation, Quiet
  <2>3. ASSUME NEW t \in Threads, pc'[t] \in {"receive", "wait"}
        PROVE  local'[t] # NoSocket /\ OnlyMine(t, local[t])'
    <3>1. local[t] \in Sockets /\ OnlyMine(t, local[t])
      BY <1>c, <2>3 DEF OneConversation
    <3> DEFINE s == local[t]
    <3>2. OnlyMine(t, s)'
      <4> HIDE DEF s
      <4>1. ASSUME NEW u \in Sockets, OnlyMine(t, u) PROVE OnlyMine(t, u)'
        BY <1>c, <4>1
      <4> QED BY <1>c, <3>1, <4>1 DEF OnlyMine, s
    <3> QED BY <1>c, <3>1, <3>2
  <2> QED BY <1>c, <2>1, <2>2, <2>3 DEF OneConversation
<1>1. ASSUME NEW t \in Threads, NEW k \in Kinds, Start(t, k),
             pc'[t] \in {"queued", "begin"},
             \A u \in Threads \ {t} : pc'[u] = pc[u]
      PROVE  OneConversation'
  <2>1. /\ UNCHANGED <<inbox, unanswered, sock>> /\ pc[t] = "idle"
        /\ \A u \in Threads \ {t} :
             local'[u] = local[u] /\ req'[u] = req[u]
    BY <1>1 DEF Start, netVars
  <2>2. \A s : /\ Quiet(s) <=> Quiet(s)'
               /\ AtMostOne(s) <=> AtMostOne(s)'
    BY <2>1 DEF Quiet, AtMostOne
  <2>3. \A u \in Threads \ {t} : \A s : OnlyMine(u, s) => OnlyMine(u, s)'
    BY <2>1 DEF OnlyMine
  <2>4. sock' = NoSocket \/ Quiet(sock)'
          \/ \E u \in Threads : pc'[u] \in {"receive", "wait", "sentOnly"}
    BY <1>1, <2>1, <2>2 DEF OneConversation, Quiet
  <2>5. \A u \in Threads :
          /\ pc'[u] = "adopt" => local'[u] # NoSocket /\ Quiet(local[u])'
          /\ pc'[u] = "send" => local'[u] = NoSocket \/ Quiet(local[u])'
          /\ pc'[u] \in {"receive", "wait"} =>
               local'[u] # NoSocket /\ OnlyMine(u, local[u])'
          /\ pc'[u] \in {"send", "receive", "wait"} =>
               sock' \in {NoSocket, local'[u]}
    BY <1>1, <2>1, <2>2, <2>3 DEF OneConversation, Quiet, OnlyMine
  <2> QED BY <2>2, <2>4, <2>5 DEF OneConversation
<1>2. ASSUME NEW t \in Threads, TurnGranted(t) \/ TurnRefused(t) \/ Leave(t)
      PROVE  OneConversation'
  BY <1>2, <1>b DEF TurnGranted, TurnRefused, Leave, netVars
<1>3. ASSUME NEW t \in Threads, Inside(t) PROVE OneConversation'
  <2>0. /\ UNCHANGED req
        /\ \A u \in Threads \ {t} : pc'[u] = pc[u] /\ pc[u] \notin InTurn
        /\ pc'[t] \in InTurn
    BY SMTT(30), <1>3, InsideSteps DEF InsideFrame
  <2> USE <2>0
  <2>1. CASE Retires(t)
    <3>1. \A s \in Sockets : AtMostOne(s)'
      BY <2>1, FewerMessages DEF Retires, CloseSocket, OneConversation
    <3>2. sock' = NoSocket
      BY <2>1 DEF Retires
    <3>3. \A u \in Threads :
            pc'[u] \notin {"adopt", "send", "receive", "wait"}
      BY <2>1 DEF Retires
    <3> QED BY <3>1, <3>2, <3>3 DEF OneConversation
  <2>2. CASE LeavesAlone(t)
    <3>1. CASE pc[t] # "receive"
      BY <2>2, <3>1, <1>b DEF LeavesAlone
    <3>2. CASE pc[t] = "receive"
      <4>1. /\ pc'[t] = "wait"
            /\ UNCHANGED <<sock, inbox, unanswered, local>>
        BY <2>2, <3>2 DEF LeavesAlone
      <4> QED
        BY <3>2, <4>1 DEF OneConversation, Quiet, AtMostOne, OnlyMine
    <3> QED BY <3>1, <3>2
  <2>3. CASE ConnectOpens(t)
    <3>1. PICK s \in Sockets :
            /\ sockState[s] = "unused"
            /\ local' = [local EXCEPT ![t] = s]
      BY <2>3, NextSocket
    <3>2. /\ pc[t] = "connecting" /\ pc'[t] = "adopt"
          /\ UNCHANGED <<sock, inbox, unanswered>>
      BY <2>3 DEF ConnectOpens
    <3>3. inbox[s] = <<>> /\ unanswered[s] = {}
      BY <3>1 DEF SocketsKnown
    <3>4. local'[t] = s /\ Quiet(s)'
      BY <3>1, <3>2, <3>3 DEF Quiet
    <3>5. sock = NoSocket \/ Quiet(sock)
      BY <3>2 DEF OneConversation
    <3>6. sock' = NoSocket \/ Quiet(sock)'
      BY <3>2, <3>5 DEF Quiet
    <3>7. \A u \in Sockets : AtMostOne(u)'
      BY <3>2 DEF OneConversation, AtMostOne
    <3>8. Quiet(local[t])'
      BY <3>4 DEF Quiet
    <3> QED BY <3>1, <3>2, <3>4, <3>6, <3>7, <3>8 DEF OneConversation
  <2>4. CASE Adopt(t)
    <3>1. /\ pc[t] = "adopt" /\ pc'[t] = "adopted" /\ sock' = local[t]
          /\ UNCHANGED <<inbox, unanswered, local>>
      BY <2>4 DEF Adopt, netVars
    <3>2. Quiet(local[t])
      BY <3>1 DEF OneConversation
    <3>3. Quiet(sock)'
      BY <3>1, <3>2 DEF Quiet
    <3>4. \A u \in Sockets : AtMostOne(u)'
      BY <3>1 DEF OneConversation, AtMostOne
    <3> QED BY <3>1, <3>3, <3>4 DEF OneConversation
  <2>5. CASE Grab(t)
    <3>1. /\ pc[t] = "grab" /\ pc'[t] = "send"
          /\ local' = [local EXCEPT ![t] = sock]
          /\ UNCHANGED <<inbox, unanswered, sock>>
      BY <2>5 DEF Grab, netVars
    <3>2. sock = NoSocket \/ Quiet(sock)
      BY <3>1 DEF OneConversation
    <3>3. sock' = NoSocket \/ Quiet(sock)'
      BY <3>1, <3>2 DEF Quiet
    <3>4. local'[t] = sock'
      BY <3>1
    <3>5. local'[t] = NoSocket \/ Quiet(local[t])'
      BY <3>3, <3>4 DEF Quiet
    <3>6. \A u \in Sockets : AtMostOne(u)'
      BY <3>1 DEF OneConversation, AtMostOne
    <3> QED BY <3>1, <3>3, <3>4, <3>5, <3>6 DEF OneConversation
  <2>6. CASE Send(t)
    <3> DEFINE m == [req |-> req[t], serial |-> serial[t]]
    <3>1. /\ pc[t] = "send" /\ SendSocket(t) # NoSocket
          /\ pc'[t] \in {"receive", "sentOnly"}
          /\ unanswered' = [unanswered EXCEPT ![SendSocket(t)] =
                              @ \union {m}]
          /\ UNCHANGED <<inbox, sock, local>>
      BY <2>6 DEF Send, Usable
    <3>2. SendSocket(t) = local[t] /\ local[t] \in Sockets
      BY <3>1 DEF OneConversation, SendSocket
    <3>3. Quiet(local[t])
      BY <3>1, <3>2 DEF OneConversation
    <3>4. unanswered'[local[t]] = {m}
      BY <3>1, <3>2, <3>3 DEF Quiet
    <3>5. \A u \in Sockets : AtMostOne(u)'
      <4>1. ASSUME NEW u \in Sockets, u # local[t] PROVE AtMostOne(u)'
        BY <3>1, <3>2, <4>1 DEF OneConversation, AtMostOne
      <4>2. AtMostOne(local[t])'
        BY <3>1, <3>3, <3>4 DEF AtMostOne, Quiet
      <4>3. ASSUME NEW u \in Sockets, u = local[t] PROVE AtMostOne(u)'
        BY <3>1, <4>2, <4>3 DEF AtMostOne
      <4> QED BY <4>1, <4>3
    <3>6. m.req = req[t]
      OBVIOUS
    <3>7. OnlyMine(t, local[t])'
      BY <3>1, <3>3, <3>4, <3>6 DEF OnlyMine, Quiet
    <3>8. sock' \in {NoSocket, local'[t]} /\ local'[t] # NoSocket
      BY <3>1, <3>2 DEF OneConversation
    <3> QED BY <3>1, <3>5, <3>7, <3>8 DEF OneConversation
  <2>7. CASE ReadFrame(t) /\ Head(inbox[local[t]]).code # "bad"
    <3> DEFINE s == local[t]
               frame == Head(inbox[s])
    <3>1. /\ pc[t] = "wait" /\ s \in Sockets /\ inbox[s] # <<>>
          /\ inbox' = [inbox EXCEPT ![s] = Tail(@)]
          /\ UNCHANGED <<sock, local, unanswered>>
          /\ pc'[t] = IF Matches(t, frame) THEN "settle" ELSE "receive"
      BY <2>7 DEF ReadFrame, Usable
    <3>2. inbox'[s] = Tail(inbox[s])
          /\ \A u \in Sockets \ {s} : inbox'[u] = inbox[u]
      BY <3>1
    <3>3. \A u \in Sockets :
            /\ AtMostOne(u)'
            /\ OnlyMine(t, u) => OnlyMine(t, u)'
      BY <3>1, <3>2, FewerMessages DEF OneConversation
    <3>4. OnlyMine(t, s) /\ sock \in {NoSocket, s}
      BY <3>1 DEF OneConversation
    <3>5. OnlyMine(t, local[t])' /\ sock' \in {NoSocket, local'[t]}
      BY <3>1, <3>3, <3>4 DEF OnlyMine
    <3>6. CASE pc'[t] = "receive"
      BY <3>1, <3>3, <3>5, <3>6 DEF OneConversation
    <3>7. CASE Matches(t, frame)
      <4>1. inbox[s][1] = frame /\ frame.req # 0 /\ 1 \in DOMAIN inbox[s]
            /\ inbox[s] \in Seq(Frames)
        BY <3>1, <3>7 DEF Matches
      <4>2. /\ unanswered[s] = {}
            /\ \A j \in DOMAIN inbox[s] : inbox[s][j].req # 0 => j = 1
        BY <3>1, <4>1 DEF OneConversation, AtMostOne
      <4>3. \A i \in DOMAIN inbox'[s] :
              /\ i + 1 \in DOMAIN inbox[s] /\ i + 1 # 1
              /\ inbox'[s][i] = inbox[s][i + 1]
        BY <3>1, <3>2, <4>1
      <4>4. Quiet(s)'
        BY <3>1, <4>2, <4>3 DEF Quiet
      <4>5. sock' = NoSocket \/ Quiet(sock)'
        BY <3>1, <3>4, <4>4 DEF Quiet
      <4> QED BY <3>1, <3>3, <3>7, <4>5 DEF OneConversation
    <3> QED BY <3>1, <3>6, <3>7
  <2> QED
    BY <1>3, <2>1, <2>2, <2>3, <2>4, <2>5, <2>6, <2>7, InsideSockets
<1>4. CASE CloseInvalidates \/ CloseReads \/ CloseClears
  BY <1>4, <1>b
     DEF CloseInvalidates, CloseReads, CloseClears, netVars, threadVars
<1>5. CASE CloseCloses
  <2>1. CloseSocket(closerSock) /\ UNCHANGED <<sock, pc, local, req>>
    BY <1>5 DEF CloseCloses, threadVars
  <2> QED BY <2>1, <1>c, FewerMessages DEF CloseSocket
<1>6. ASSUME NEW s \in Sockets, PlcAnswers(s) \/ ForeignArrives(s)
      PROVE  OneConversation'
  <2>1. UNCHANGED <<sock, pc, local, req>>
    BY <1>6 DEF PlcAnswers, ForeignArrives, threadVars
  <2>2. \A u \in Sockets :
          /\ Quiet(u) => Quiet(u)'
          /\ AtMostOne(u) => AtMostOne(u)'
          /\ \A t \in Threads : OnlyMine(t, u) => OnlyMine(t, u)'
    BY <1>6, <2>1, AnsweredMessages, ForeignMessages, Elsewhere,
       FewerMessages
  <2> QED BY <2>1, <2>2, <1>c
<1>7. CASE UNCHANGED vars
  BY <1>7, <1>b DEF vars, netVars, threadVars
<1> QED
  BY <1>1, <1>2, <1>3, <1>4, <1>5, <1>6, <1>7
     DEF Next, Operation, Inside, StartFree, StartQueued
(* A step that brings no message but of other routes, takes no serial      *)
(* number and starts nothing, keeps the serial numbers apart.              *)
LEMMA SerialsStay ==
  ASSUME SerialsDiffer, UNCHANGED <<setup, ops, nextSerial, serial, req>>,
         ops \in Nat, nextSerial \in Nat, Len(line) \in Nat,
         Len(line)' \in Nat, Len(line)' <= Len(line),
         \A t \in Threads : HasSerial(t)' => HasSerial(t),
         \A s \in Sockets : \A m \in Carried(s)' :
           m.req # 0 => m \in Carried(s)
  PROVE  SerialsDiffer'
<1>1. nextSerial' + Len(line)' <= ops'
  BY DEF SerialsDiffer
<1> QED BY <1>1, SetupKept DEF SerialsDiffer

(* A thread whose turn begins takes a serial number nobody has.            *)
LEMMA SerialTaken ==
  ASSUME TypeOK, HoldsTurn, Signed, SerialsDiffer, UNCHANGED setup,
         NEW t \in Threads, NEW k, TakeSerial(t, k), kind'[t] = k,
         holder = NoThread, pc'[t] = "begin",
         Len(line)' \in Nat, ops' \in Nat,
         nextSerial + 1 + Len(line)' <= ops', ops' <= MaxOps,
         \A u \in Threads \ {t} : pc'[u] = pc[u],
         UNCHANGED <<inbox, unanswered>>
  PROVE  SerialsDiffer'
<1>1. /\ nextSerial \in Nat /\ SerialModulus \in Nat /\ MaxOps \in Nat
      /\ serial \in [Threads -> Serials] /\ Sockets' = Sockets
  BY SetupFacts, SetupKept DEF TypeOK, Serials
<1>2. nextSerial + 1 < SerialModulus
  BY <1>1 DEF Signed
<1>3. \A u \in Threads \ {t} : ~HasSerial(u)'
  BY SetupFacts DEF TypeOK, HoldsTurn, HasSerial
<1>4. \A s \in Sockets : Carried(s)' = Carried(s)
  BY DEF Carried
<1>5. CASE k = "connect"
  <2>1. UNCHANGED <<nextSerial, serial>> /\ ~HasSerial(t)'
    BY <1>5 DEF TakeSerial, HasSerial, serialVars
  <2>2. nextSerial' + Len(line)' <= ops'
    BY <1>1, <2>1
  <2> QED BY <1>1, <1>3, <1>4, <2>1, <2>2 DEF SerialsDiffer
<1>6. CASE k # "connect"
  <2>1. /\ serial'[t] = nextSerial
        /\ nextSerial' = (nextSerial + 1) % SerialModulus
    BY <1>1, <1>6 DEF TakeSerial, Signed
  <2>2. nextSerial' = nextSerial + 1
    BY <1>1, <1>2, <2>1
  <2>3. nextSerial' + Len(line)' <= ops' /\ serial'[t] < nextSerial'
    BY <1>1, <2>1, <2>2
  <2>4. ASSUME NEW s \in Sockets, NEW m \in Carried(s)', m.req # 0
        PROVE  m.serial < nextSerial' /\ m.serial # serial'[t]
    <3>1. m.serial < nextSerial /\ m.serial \in Nat
      <4>1. m \in Carried(s)
        BY <1>4, <2>4
      <4>2. m.serial \in Serials
        <5>1. \A r \in unanswered[s] : r.serial \in Serials
          BY DEF TypeOK, Requests
        <5>2. \A i \in DOMAIN inbox[s] : inbox[s][i] \in Frames
          BY DEF TypeOK
        <5>3. \A i \in DOMAIN inbox[s] : inbox[s][i].serial \in Serials
          BY <5>2 DEF Frames
        <5> QED BY <4>1, <5>1, <5>3 DEF Carried, Header
      <4> QED BY <2>4, <4>1, <4>2, <1>1 DEF SerialsDiffer, Serials
    <3> QED BY <1>1, <2>1, <2>2, <3>1
  <2> QED BY <1>1, <1>3, <2>3, <2>4 DEF SerialsDiffer
<1> QED BY <1>5, <1>6

(* Numbers that do not wrap tell the requests apart, whatever arrives      *)
(* twice, late or never.                                                   *)
LEMMA SerialsStep ==
  ASSUME TypeOK, HoldsTurn, Standing, SocketsKnown,
         Signed, SerialsDiffer, [Next]_vars
  PROVE  SerialsDiffer'
<1>0. UNCHANGED setup
  BY DEF Next, vars
<1>a. /\ line \in Seq(Threads) /\ ops \in Nat /\ nextSerial \in Nat
      /\ Len(line) \in Nat /\ MaxOps \in Nat /\ ops <= MaxOps
      /\ pc \in [Threads -> Places] /\ kind \in [Threads -> AllKinds]
      /\ inbox \in [Sockets -> Seq(Frames)]
      /\ unanswered \in [Sockets -> SUBSET Requests]
      /\ local \in [Threads -> Sockets \union {NoSocket}]
      /\ NoSocket \notin Sockets
  BY SMTT(30), SetupFacts DEF TypeOK, Gate!TypeOK, Serials
<1> USE <1>0, <1>a DEF Goto
<1>1. ASSUME NEW t \in Threads, NEW k \in Kinds, StartFree(t, k)
      PROVE  SerialsDiffer'
  <2>1. /\ TakeSerial(t, k) /\ holder = NoThread
        /\ UNCHANGED <<line, inbox, unanswered>>
        /\ ops' = ops + 1 /\ ops < MaxOps
        /\ kind'[t] = k /\ pc'[t] = "begin"
        /\ \A u \in Threads \ {t} : pc'[u] = pc[u]
    BY <1>1 DEF StartFree, Start, Gate!TakeFree, netVars
  <2>2. /\ nextSerial + 1 + Len(line)' <= ops' /\ ops' <= MaxOps
        /\ ops' \in Nat /\ Len(line)' \in Nat
    BY <2>1 DEF SerialsDiffer
  <2> QED BY <2>1, <2>2, SerialTaken
<1>2. ASSUME NEW t \in Threads, NEW k \in Kinds, StartQueued(t, k)
      PROVE  SerialsDiffer'
  <2>1. /\ UNCHANGED <<nextSerial, serial, inbox, unanswered>>
        /\ line' = Append(line, t) /\ ops' = ops + 1 /\ pc[t] = "idle"
        /\ pc'[t] = "queued" /\ \A u \in Threads \ {t} :
             pc'[u] = pc[u] /\ req'[u] = req[u] /\ kind'[u] = kind[u]
    BY <1>2
       DEF StartQueued, Start, Gate!Join, netVars, serialVars, TypeOK
  <2>2. nextSerial' + Len(line)' <= ops'
    BY <2>1 DEF SerialsDiffer
  <2>3. /\ ~HasSerial(t)'
        /\ \A u \in Threads \ {t} : HasSerial(u)' => HasSerial(u)
    BY <2>1 DEF HasSerial, InTurn
  <2>4. \A s \in Sockets : Carried(s)' = Carried(s)
    BY <2>1 DEF Carried
  <2> QED BY <2>1, <2>2, <2>3, <2>4, SetupKept DEF SerialsDiffer
<1>3. ASSUME NEW t \in Threads, TurnGranted(t) PROVE SerialsDiffer'
  <2>1. /\ TakeSerial(t, kind[t]) /\ holder = NoThread
        /\ line # <<>> /\ line' = Tail(line)
        /\ UNCHANGED <<ops, kind, inbox, unanswered>>
        /\ pc'[t] = "begin" /\ \A u \in Threads \ {t} : pc'[u] = pc[u]
    BY <1>3 DEF TurnGranted, Gate!Take, netVars
  <2>2. /\ nextSerial + 1 + Len(line)' <= ops' /\ ops' <= MaxOps
        /\ ops' \in Nat /\ Len(line)' \in Nat
    BY <2>1 DEF SerialsDiffer
  <2> QED BY <2>1, <2>2, SerialTaken
<1>4. ASSUME NEW t \in Threads, TurnRefused(t) PROVE SerialsDiffer'
  <2>1. /\ line' = RemoveFirst(line, t) /\ pc'[t] = "idle"
        /\ UNCHANGED <<ops, nextSerial, serial, kind, req, inbox, unanswered>>
        /\ \A u \in Threads \ {t} : pc'[u] = pc[u]
    BY <1>4, GateRemoves
       DEF TurnRefused, Gate!Refuse, netVars, opVars, serialVars
  <2>2. Len(line)' <= Len(line) /\ Len(line)' \in Nat
    BY <2>1, RemoveFirstKeeps
  <2>3. \A u \in Threads : HasSerial(u)' => HasSerial(u)
    BY <2>1 DEF HasSerial, InTurn
  <2>4. \A s \in Sockets : Carried(s)' = Carried(s)
    BY <2>1 DEF Carried
  <2> QED BY <2>1, <2>2, <2>3, <2>4, SerialsStay
<1>5. ASSUME NEW t \in Threads, Leave(t) PROVE SerialsDiffer'
  <2>1. /\ UNCHANGED <<ops, nextSerial, serial, kind, req, inbox,
                       unanswered, line>>
        /\ pc'[t] = "idle" /\ \A u \in Threads \ {t} : pc'[u] = pc[u]
    BY <1>5 DEF Leave, Gate!Release, netVars, opVars, serialVars
  <2>2. \A u \in Threads : HasSerial(u)' => HasSerial(u)
    BY <2>1 DEF HasSerial, InTurn
  <2>3. \A s \in Sockets : Carried(s)' = Carried(s)
    BY <2>1 DEF Carried
  <2> QED BY <2>1, <2>2, <2>3, SerialsStay
<1>6. ASSUME NEW t \in Threads, Inside(t) PROVE SerialsDiffer'
  <2>1. /\ UNCHANGED <<ops, nextSerial, serial, kind, req, line>>
        /\ pc[t] \in InTurn
        /\ \A u \in Threads \ {t} : pc'[u] = pc[u] /\ pc[u] \notin InTurn
    BY <1>6, InsideSteps, SetupFacts
       DEF InsideFrame, opVars, serialVars, gateVars, HoldsTurn, TypeOK
  <2>2. \A u \in Threads : HasSerial(u)' => HasSerial(u)
    BY <2>1 DEF HasSerial
  <2>3. CASE ~Send(t)
    <3>1. \A s \in Sockets : Carried(s)' \subseteq Carried(s)
      <4>1. CASE Retires(t)
        BY <4>1, FewerMessages DEF Retires, CloseSocket
      <4>2. CASE LeavesAlone(t)
        BY <4>2 DEF LeavesAlone, Carried
      <4>3. CASE ConnectOpens(t) \/ Adopt(t) \/ Grab(t)
        BY <4>3 DEF ConnectOpens, Adopt, Grab, netVars, Carried
      <4>4. CASE ReadFrame(t) /\ Head(inbox[local[t]]).code # "bad"
        <5>1. /\ local[t] \in Sockets /\ inbox[local[t]] # <<>>
              /\ inbox' = [inbox EXCEPT ![local[t]] = Tail(@)]
              /\ UNCHANGED unanswered
          BY <4>4 DEF ReadFrame, Usable
        <5>2. /\ inbox'[local[t]] = Tail(inbox[local[t]])
              /\ \A u \in Sockets \ {local[t]} : inbox'[u] = inbox[u]
          BY <5>1
        <5> QED BY <5>1, <5>2, FewerMessages
      <4> QED BY <1>6, <2>3, <4>1, <4>2, <4>3, <4>4, InsideSockets
    <3> QED BY <2>1, <2>2, <3>1, SerialsStay
  <2>4. CASE Send(t)
    <3> DEFINE m == [req |-> req[t], serial |-> serial[t]]
    <3>1. /\ pc[t] = "send" /\ UNCHANGED inbox
          /\ SendSocket(t) \in Sockets
          /\ unanswered' = [unanswered EXCEPT ![SendSocket(t)] =
                              @ \union {m}]
      BY <2>4 DEF Send, Usable, SendSocket, netVars, TypeOK
    <3>2. HasSerial(t)
      BY <2>1, <3>1 DEF HasSerial, Standing, Exchanging
    <3>3. Header(m) = m /\ m.req = req[t] /\ m.serial = serial[t]
      BY DEF Header
    <3>4. ASSUME NEW s \in Sockets
          PROVE  Carried(s)' \subseteq Carried(s) \union {m}
      <4>1. unanswered'[s] \subseteq unanswered[s] \union {m}
        BY <3>1
      <4> QED BY <3>1, <3>3, <4>1 DEF Carried
    <3> HIDE DEF m
    <3>5. serial[t] < nextSerial
      BY <3>2 DEF SerialsDiffer
    <3>6. ASSUME NEW s \in Sockets, NEW n \in Carried(s)', n.req # 0
          PROVE  /\ n.serial < nextSerial
                 /\ \A u \in Threads :
                      HasSerial(u)' /\ n.serial = serial[u] => n.req = req[u]
      <4>1. CASE n \in Carried(s)
        BY <2>2, <3>6, <4>1 DEF SerialsDiffer
      <4>2. CASE n = m
        BY <2>1, <3>3, <3>5, <4>2 DEF HasSerial
      <4> QED BY <3>4, <3>6, <4>1, <4>2
    <3> QED BY <2>1, <2>2, <3>6, SetupKept DEF SerialsDiffer
  <2> QED BY <2>3, <2>4
<1>7. CASE CloseInvalidates \/ CloseReads \/ CloseClears
  <2>1. UNCHANGED <<ops, nextSerial, serial, kind, req, pc, inbox,
                    unanswered, line>>
    BY <1>7
       DEF CloseInvalidates, Gate!Close, CloseReads, CloseClears, gateVars,
           netVars, opVars, serialVars, threadVars
  <2>2. \A u \in Threads : HasSerial(u)' => HasSerial(u)
    BY <2>1 DEF HasSerial
  <2>3. \A s \in Sockets : Carried(s)' = Carried(s)
    BY <2>1 DEF Carried
  <2> QED BY <2>1, <2>2, <2>3, SerialsStay
<1>8. ASSUME \/ CloseCloses
             \/ \E s \in Sockets : PlcAnswers(s) \/ ForeignArrives(s)
      PROVE  SerialsDiffer'
  <2>1. UNCHANGED <<ops, nextSerial, serial, kind, req, pc, line>>
    BY <1>8
       DEF CloseCloses, PlcAnswers, ForeignArrives, gateVars, opVars,
           serialVars, threadVars
  <2>2. \A u \in Threads : HasSerial(u)' => HasSerial(u)
    BY <2>1 DEF HasSerial
  <2>3. \A s \in Sockets : \A m \in Carried(s)' :
          m.req # 0 => m \in Carried(s)
    <3>1. CASE CloseCloses
      BY <3>1, FewerMessages DEF CloseCloses, CloseSocket
    <3>2. ASSUME NEW s \in Sockets, PlcAnswers(s) \/ ForeignArrives(s),
                 NEW u \in Sockets
          PROVE  \A m \in Carried(u)' : m.req # 0 => m \in Carried(u)
      BY <3>2, AnsweredMessages, ForeignMessages, Elsewhere, FewerMessages
    <3> QED BY <1>8, <3>1, <3>2
  <2> QED BY <2>1, <2>2, <2>3, SerialsStay
<1>9. CASE UNCHANGED vars
  <2>1. UNCHANGED <<ops, nextSerial, serial, kind, req, pc, inbox,
                    unanswered, line>>
    BY <1>9 DEF vars, gateVars, netVars, opVars, serialVars, threadVars
  <2>2. \A u \in Threads : HasSerial(u)' => HasSerial(u)
    BY <2>1 DEF HasSerial
  <2>3. \A s \in Sockets : Carried(s)' = Carried(s)
    BY <2>1 DEF Carried
  <2> QED BY <2>1, <2>2, <2>3, SerialsStay
<1> QED
  BY <1>1, <1>2, <1>3, <1>4, <1>5, <1>6, <1>7, <1>8, <1>9
     DEF Next, Operation, Inside
(* _response_matches_request() takes a frame for the answer only if it is: *)
(* by what is in the socket, or by its serial number.                      *)
LEMMA AnswerStep ==
  ASSUME TypeOK, Standing, NoDuplicates => OneConversation,
         Signed => SerialsDiffer, NoDuplicates \/ Signed, AnswerIsMine,
         [Next]_vars
  PROVE  AnswerIsMine'
<1> USE DEF TypeOK, AnswerIsMine
<1>1. ASSUME NEW t \in Threads, NEW k \in Kinds, Start(t, k)
      PROVE  AnswerIsMine'
  BY <1>1 DEF Start
<1>2. ASSUME NEW t \in Threads, TurnGranted(t) \/ TurnRefused(t) \/ Leave(t)
      PROVE  AnswerIsMine'
  BY <1>2 DEF TurnGranted, TurnRefused, Leave, historyVars
<1>3. ASSUME NEW t \in Threads, ReadFrame(t) PROVE AnswerIsMine'
  <2> DEFINE s == local[t]
             frame == Head(inbox[s])
  <2>1. UNCHANGED req
    BY <1>3, InsideSteps DEF Inside, InsideFrame
  <2>2. CASE UNCHANGED matched
    BY <2>1, <2>2
  <2>3. CASE ~UNCHANGED matched
    <3>1. /\ pc[t] = "wait" /\ s \in Sockets /\ inbox[s] # <<>>
          /\ Matches(t, frame)
          /\ matched' = [matched EXCEPT ![t] = frame.req]
      BY <1>3, <2>3 DEF ReadFrame, Usable, Fail
    <3>2. 1 \in DOMAIN inbox[s] /\ inbox[s][1] = frame /\ frame \in Frames
      BY <3>1
    <3>3. CASE NoDuplicates
      <4>1. OnlyMine(t, s)
        BY <3>1, <3>3 DEF OneConversation
      <4> QED BY <2>1, <3>1, <3>2, <4>1 DEF OnlyMine, Matches
    <3>4. CASE Signed
      <4>1. frame.req # 0 /\ frame.serial = serial[t]
        BY <3>1, <3>4 DEF Matches, Signed
      <4>2. /\ Header(frame) \in Carried(s)
            /\ Header(frame).req = frame.req
            /\ Header(frame).serial = frame.serial
        BY <3>2 DEF Carried, Header
      <4>3. HasSerial(t)
        BY <3>1
           DEF Standing, HasSerial, InTurn, Places, Exchanging, AfterSend
      <4>4. frame.req = req[t]
        BY <3>1, <3>4, <4>1, <4>2, <4>3 DEF SerialsDiffer
      <4> QED BY <2>1, <3>1, <4>4
    <3> QED BY <3>3, <3>4
  <2> QED BY <2>2, <2>3
<1>4. ASSUME NEW t \in Threads, Inside(t), ~ReadFrame(t)
      PROVE  AnswerIsMine'
  <2>1. UNCHANGED req
    BY <1>4, InsideSteps DEF InsideFrame
  <2>2. UNCHANGED matched
    BY <1>4
       DEF Inside, Begin, ConnectOpens, ConnectFails, Adopt, CheckAdopted,
           Check, Grab, Send, SendNotAttempted, SendFails, Receive,
           WaitFails, Settle, RestoreTimeout, Decode, SentOnly, Traced,
           FailConnect, Fail, historyVars
  <2> QED BY <2>1, <2>2
<1>5. CASE CloseInvalidates
  BY <1>5 DEF CloseInvalidates, threadVars
<1>6. CASE Outside
  BY <1>6, OutsideSteps DEF threadVars, historyVars
<1>7. CASE UNCHANGED vars
  BY <1>7 DEF vars, threadVars, historyVars
<1> QED
  BY <1>1, <1>2, <1>3, <1>4, <1>5, <1>6, <1>7
     DEF Next, Operation, Inside, Outside, StartFree, StartQueued
------------------------------------------------------------------------------
(* A client that was just made satisfies the invariant.                    *)
LEMMA InitInvariant == Init => IInv
<1> SUFFICES ASSUME Init PROVE IInv
  OBVIOUS
<1>0. /\ setup \in DOMAIN Setups
      /\ MaxOps \in Nat /\ MaxCloses \in Nat /\ MaxForeign \in Nat
      /\ 0 \in Serials /\ NoThread \notin Threads /\ NoSocket \notin Sockets
  BY SetupFacts DEF Init, Serials
<1>1. TypeOK
  <2>1. <<>> \in Seq(Threads) /\ <<>> \in Seq(Frames)
    OBVIOUS
  <2>2. /\ Gate!TypeOK
        /\ sock \in Sockets \union {NoSocket}
        /\ sockState \in [Sockets -> {"unused", "open", "closed"}]
        /\ inbox \in [Sockets -> Seq(Frames)]
        /\ unanswered \in [Sockets -> SUBSET Requests]
        /\ activeSC \in BOOLEAN
    BY <2>1 DEF Init, Gate!Init, Gate!TypeOK
  <2>3. /\ ops \in 0..MaxOps /\ nextSerial \in Serials
        /\ serial \in [Threads -> Serials] /\ foreign \in 0..MaxForeign
        /\ closer \in {"idle", "invalidated", "read", "cleared"}
        /\ closerSock \in Sockets \union {NoSocket}
        /\ closes \in 0..MaxCloses
        /\ matched \in [Threads -> 0..MaxOps]
        /\ sockGen \in [Sockets -> 0..MaxCloses]
        /\ req \in [Threads -> 0..MaxOps]
        /\ local \in [Threads -> Sockets \union {NoSocket}]
    BY <1>0 DEF Init
  <2>4. /\ pc \in [Threads -> Places] /\ kind \in [Threads -> AllKinds]
        /\ answer \in [Threads -> AllCodes]
        /\ result \in [Threads -> Results]
        /\ sending \in [Threads -> {"none", "tried", "left"}]
        /\ overtaken \in [Threads -> BOOLEAN]
        /\ raced \in [Threads -> BOOLEAN]
    BY DEF Init, Places, Results, AllKinds, AllCodes
  <2> QED BY <1>0, <2>2, <2>3, <2>4 DEF TypeOK
<1>2. HoldsTurn /\ Standing /\ Overtaking
  BY <1>0
     DEF Init, Gate!Init, HoldsTurn, Standing, Overtaking, InTurn, Places,
         BeforeSend, AfterSend, Exchanging
<1>3. OutcomeContractUnraced /\ OutcomesAreEarned
  BY DEF Init, OutcomeContractUnraced, OutcomesAreEarned, Finished
<1>4. SocketsKnown
  <2>1. {u \in Sockets : sockState[u] # "unused"} = {}
    BY DEF Init
  <2>2. 1..0 = {} /\ 0 \in 0..MaxOps
    BY <1>0
  <2>3. InOrder
    BY <2>1, <2>2 DEF InOrder
  <2> QED BY <2>3 DEF Init, SocketsKnown, IsOpened
<1>5. Generations
  BY DEF Init, Generations
<1>6. OneConversation
  BY DEF Init, OneConversation, AtMostOne
<1>7. SerialsDiffer
  BY DEF Init, Gate!Init, SerialsDiffer, HasSerial, InTurn, Carried
<1>8. AnswerIsMine
  BY DEF Init, AnswerIsMine
<1> QED
  BY <1>1, <1>2, <1>3, <1>4, <1>5, <1>6, <1>7, <1>8 DEF IInv, Correlation

(* Every step of a thread, of close() and of the PLC keeps the invariant.  *)
LEMMA Invariance == IInv /\ [Next]_vars => IInv'
<1> SUFFICES ASSUME IInv, [Next]_vars PROVE IInv'
  OBVIOUS
<1> USE DEF IInv
<1>1. TypeOK'
  BY TypeStep
<1>2. HoldsTurn'
  BY TurnStep
<1>3. Standing'
  BY StandingStep
<1>4. Overtaking'
  BY OvertakingStep
<1>5. OutcomeContractUnraced' /\ OutcomesAreEarned'
  BY OutcomesStep DEF Outcomes
<1>6. SocketsKnown'
  BY SocketsStep
<1>7. Generations'
  BY GenerationsStep
<1>8. Correlation'
  <2>0. UNCHANGED setup
    BY DEF Next, vars
  <2>1. (NoDuplicates' <=> NoDuplicates) /\ (Signed' <=> Signed)
    BY <2>0, SetupKept DEF NoDuplicates, Signed
  <2>2. NoDuplicates => OneConversation'
    BY ConversationStep DEF Correlation
  <2>3. Signed => SerialsDiffer'
    BY SerialsStep DEF Correlation
  <2>4. NoDuplicates \/ Signed => AnswerIsMine'
    BY AnswerStep DEF Correlation
  <2> QED BY <2>1, <2>2, <2>3, <2>4 DEF Correlation
<1> QED BY <1>1, <1>2, <1>3, <1>4, <1>5, <1>6, <1>7, <1>8

(* The inductive invariant holds whatever the threads, the setups and the  *)
(* interleaving: the turn, the places, the closes, the sockets and the     *)
(* correlation of answers.                                                 *)
THEOREM Invariant == Spec => []IInv
<1> QED BY InitInvariant, Invariance, PTL DEF Spec

(* The variables of the client keep their types, for any number of         *)
(* threads, operations, closes and frames.                                 *)
THEOREM Typing == Spec => []TypeOK
<1>1. IInv => TypeOK
  BY DEF IInv
<1> QED BY <1>1, Invariant, PTL

(* The documented contract of src/slmp/client.py: a state-changing request *)
(* that may have left ends with an acknowledgement, an end code or         *)
(* SlmpOutcomeUnknownError. The exception is a thread that gets its turn   *)
(* while close() stands between its own steps.                             *)
THEOREM ContractKept == Spec => []OutcomeContractUnraced
<1>1. IInv => OutcomeContractUnraced
  BY DEF IInv
<1> QED BY <1>1, Invariant, PTL

(* No operation reports a success that a close() came before, an unknown   *)
(* outcome without a state-changing request that was handed to a socket,   *)
(* or an error outside the SlmpError classes unless its turn came while    *)
(* close() stood between its own steps.                                    *)
THEOREM OutcomesEarned == Spec => []OutcomesAreEarned
<1>1. IInv => OutcomesAreEarned
  BY DEF IInv
<1> QED BY <1>1, Invariant, PTL

(* Once close() is over, the client has no socket of the generations       *)
(* before it, unless its owner is about to close it.                       *)
THEOREM TransportRetired == Spec => []ClosedGenerationRetired
<1>1. IInv => ClosedGenerationRetired
  BY DEF IInv, Generations, ClosedGenerationRetired
<1> QED BY <1>1, Invariant, PTL

(* A response is taken for the request it answers: always over TCP, and    *)
(* over UDP while no datagram is duplicated, since a late answer dies with *)
(* its socket; and always with 4E frames whose serial numbers do not wrap, *)
(* whatever is lost, late or duplicated.                                   *)
THEOREM AnswersCorrelated ==
  Spec => [](NoDuplicates \/ Signed => AnswerIsMine)
<1>1. IInv => (NoDuplicates \/ Signed => AnswerIsMine)
  BY DEF IInv, Correlation
<1> QED BY <1>1, Invariant, PTL
==============================================================================
