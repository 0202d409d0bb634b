-------------------------- MODULE AsyncClientProofs --------------------------
(***************************************************************************)
(* For any number of tasks, operations, closes and extra frames, and for   *)
(* any order in which the event loop runs them: what AsyncClient promises. *)
(*                                                                         *)
(* The inductive invariant says what a task may rely on when it runs again *)
(* at each place of its operation. The gate lets one task into a turn      *)
(* (HoldsTurn), and what that task has sent follows from where it stands   *)
(* (Standing). close() does not wait for the turn, but it marks the tasks  *)
(* and takes the transport from them without an await in between, so a     *)
(* task finds a transport or knows that it lost it (Overtaking,            *)
(* Transports): that makes the outcomes right (Settled, Earned) and leaves *)
(* one connection open (OneLiveConnection, which needs that connections    *)
(* are opened one after the other). Answers are correlated for two         *)
(* reasons, either of which is enough (Correlation): who gives up a        *)
(* request gives up its connection, so that nothing old is on the          *)
(* connection a request is sent on; and serial numbers that do not wrap    *)
(* tell the requests apart.                                                *)
(***************************************************************************)
EXTENDS AsyncClient, SequenceLemmas, FiniteSetTheorems, TLAPS

InTurn == Places \ {"idle", "queued"}
Connecting == {"resolving", "opening", "discarding", "discarded"}
BeforeSend == Connecting \union {"queued", "begin", "send"}
Answering == {"draining", "receiving"}
AfterSend == Answering \union {"sent", "tracing", "decode"}

InLine(t) == \E i \in DOMAIN line : line[i] = t

(* Exactly the holder of the gate stands in a turn, who waits for it is in *)
(* line, and nobody else is marked by a close().                           *)
HoldsTurn ==
  \A t \in Tasks :
    /\ pc[t] \in InTurn <=> holder = t
    /\ pc[t] = "queued" => InLine(t)
    /\ t \in stale => holder = t \/ InLine(t)

(* What the place of a task says of its operation.                         *)
Stands(t) ==
  /\ pc[t] # "idle" => req[t] # 0
  /\ pc[t] \in BeforeSend => ~sent[t]
  /\ pc[t] \in AfterSend => sent[t]
  /\ pc[t] \in AfterSend \union {"send", "cleanup"} => kind[t] # "connect"
  /\ pc[t] = "sent" => kind[t] = "reset"
  /\ pc[t] \in {"receiving", "decode"} => kind[t] # "reset"
  /\ pc[t] \in Connecting \union Answering \union {"send"}
       => (activeSC <=> kind[t] = "write")
  /\ pc[t] \in {"discarding", "discarded"}
       => outcome[t] \in {"closed", "timeout", "transport"}
  /\ pc[t] = "cleanup" /\ outcome[t] = "sent" => kind[t] = "reset" /\ sent[t]

Standing == \A t \in Tasks : Stands(t)

(* A close() that came while the operation could still fail marks it.      *)
Overtaking ==
  \A t \in Tasks :
    /\ opened[t] <= closes
    /\ t \in stale => opened[t] < closes
    /\ overtaken[t] /\ pc[t] # "idle" => t \in stale
    /\ pc[t] = "begin" => t \notin stale
    /\ pc[t] \in {"tracing", "decode"} /\ kind[t] = "write" => ~overtaken[t]

(* The task awaits a response future. *)
Awaits(t) == pc[t] = "receiving" /\ Transport = "udp"

(* The transport and the task in the turn: who connects has none, who      *)
(* exchanges has one or lost it, and a response future that is pending is  *)
(* the one of the task that awaits it.                                     *)
Transports ==
  /\ \A t \in Tasks :
       /\ pc[t] \in Connecting => conn = NoConn
       /\ pc[t] = "send" => conn # NoConn
       /\ pc[t] \in Answering
            => local[t] # NoConn /\ conn \in {NoConn, local[t]}
       /\ pc[t] = "draining"
            => Transport = "tcp" /\ (t \notin stale => conn = local[t])
       /\ Awaits(t) =>
            /\ waiter[local[t]].state # "none"
            /\ waiter[local[t]].state = "closed" => t \in stale
            /\ waiter[local[t]].expected = serial[t]
  /\ \A c \in Conns :
       waiter[c].state = "pending" =>
         /\ conn = c
         /\ \E t \in Tasks : Awaits(t) /\ local[t] = c

(* The contract, from the moment the outcome is settled.                   *)
Settled ==
  \A t \in Tasks :
    /\ pc[t] \in {"idle", "leave", "cleanup"}
    /\ StateChanging(t) /\ sent[t] /\ ~cut[t]
    => \/ outcome[t] \in Definitive
       \/ pc[t] = "cleanup" /\ outcome[t] = "sent"

Earned ==
  \A t \in Tasks :
    /\ pc[t] \in {"idle", "leave", "cleanup"} /\ outcome[t] = "done"
         => ~overtaken[t]
    /\ outcome[t] = "outcomeUnknown" => StateChanging(t) /\ sent[t]
    /\ outcome[t] = "closed" => opened[t] < closes
    /\ outcome[t] # "internal"

(* Connections are opened one after the other, and one that was never      *)
(* opened holds no messages.                                               *)
InOrder ==
  \E n \in 0..MaxOps : {c \in Conns : connState[c] # "unused"} = 1..n

Unopened ==
  \A c \in Conns :
    connState[c] = "unused" => inbox[c] = <<>> /\ unanswered[c] = {}
------------------------------------------------------------------------------
(* No frame arrives twice: only UDP duplicates, and only if it can.        *)
NoDuplicates == Transport = "tcp" \/ MaxExtra = 0

(* Every request has a serial number of its own. *)
Signed == Frame = "4E" /\ MaxOps < SerialModulus

(* No answer is on the connection or under way, except of other routes.    *)
Quiet(c) ==
  /\ unanswered[c] = {}
  /\ \A i \in DOMAIN inbox[c] : inbox[c][i].req = 0

(* There is at most one answer on a connection or under way on it.         *)
AtMostOne(c) ==
  /\ \A m, n \in unanswered[c] : m = n
  /\ \A i \in DOMAIN inbox[c] :
       inbox[c][i].req # 0 =>
         /\ unanswered[c] = {}
         /\ \A j \in DOMAIN inbox[c] : inbox[c][j].req # 0 => i = j

(* All answers there are to the request of this task.                      *)
OnlyMine(t, c) ==
  /\ \A m \in unanswered[c] : m.req = req[t]
  /\ \A i \in DOMAIN inbox[c] : inbox[c][i].req \in {0, req[t]}

OneConversation ==
  /\ \A c \in Conns : AtMostOne(c)
  /\ conn = NoConn \/ Quiet(conn) \/ \E t \in Tasks : pc[t] \in Answering
  /\ \A t \in Tasks :
       /\ pc[t] \in Answering => OnlyMine(t, local[t])
       /\ Awaits(t) /\ waiter[local[t]].state = "answered"
            => Quiet(local[t])

(* The requests that are under way on a connection or answered on it.      *)
Header(m) == [req |-> m.req, serial |-> m.serial]
Carried(c) ==
  {Header(m) : m \in unanswered[c]}
    \union {Header(inbox[c][i]) : i \in DOMAIN inbox[c]}

(* The task has taken the serial number of its request. *)
HasSerial(t) == pc[t] \in InTurn \ {"begin"} /\ kind[t] # "connect"

Beginning == IF \E t \in Tasks : pc[t] = "begin" THEN 1 ELSE 0

SerialsDiffer ==
  /\ nextSerial + Len(line) + Beginning <= ops
  /\ \A t \in Tasks : HasSerial(t) => serial[t] < nextSerial
  /\ \A c \in Conns : \A m \in Carried(c) :
       m.req # 0 =>
         /\ m.serial < nextSerial
         /\ \A t \in Tasks :
              HasSerial(t) /\ m.serial = serial[t] => m.req = req[t]

(* What a response future holds is the answer its task awaits.             *)
WaiterIsMine ==
  \A t \in Tasks :
    Awaits(t) /\ waiter[local[t]].state = "answered"
      => waiter[local[t]].frame.req = req[t]

Correlation ==
  /\ NoDuplicates => OneConversation
  /\ Signed => SerialsDiffer
  /\ NoDuplicates \/ Signed => AnswerIsMine /\ WaiterIsMine

IInv ==
  /\ TypeOK /\ HoldsTurn /\ Standing /\ Overtaking /\ Transports
  /\ Settled /\ Earned
  /\ InOrder /\ Unopened /\ OneLiveConnection
  /\ Correlation
------------------------------------------------------------------------------
(* What the assumption on the setups gives: the bounds are numbers, the    *)
(* sets of a client's options are subsets of the known ones, and the names *)
(* for no connection and no task are nobody's.                             *)
LEMMA SetupFacts ==
  ASSUME setup \in DOMAIN Setups
  PROVE  /\ MaxOps \in Nat /\ MaxCloses \in Nat /\ MaxExtra \in Nat
         /\ SerialModulus \in Nat \ {0}
         /\ Kinds \subseteq AllKinds /\ Codes \subseteq AllCodes
         /\ Setups[setup].callers \subseteq Tasks
         /\ NoConn \notin Conns /\ NoTask \notin Tasks
         /\ Frame \in {"3E", "4E"} /\ Transport \in {"tcp", "udp"}
BY AsyncClientAssumption
   DEF MaxOps, MaxCloses, MaxExtra, SerialModulus, Kinds, Codes, Conns,
       Frame, Transport

(* A client keeps its setup, and everything that is read from it.          *)
LEMMA SetupKept ==
  ASSUME UNCHANGED setup
  PROVE  /\ MaxOps' = MaxOps /\ MaxCloses' = MaxCloses
         /\ MaxExtra' = MaxExtra /\ SerialModulus' = SerialModulus
         /\ Conns' = Conns /\ Serials' = Serials
         /\ Requests' = Requests /\ Frames' = Frames /\ Waiters' = Waiters
         /\ Frame' = Frame /\ Transport' = Transport
BY DEF MaxOps, MaxCloses, MaxExtra, SerialModulus, Conns, Serials, Requests,
       Frames, Waiters, Frame, Transport

(* The gate removes a task from its line with the RemoveFirst of           *)
(* SequencesExt, whose facts SequenceLemmas proves.                        *)
LEMMA GateRemoves ==
  ASSUME NEW s, NEW e
  PROVE  Gate!RemoveFirst(s, e) = RemoveFirst(s, e)
BY DEF Gate!RemoveFirst, Gate!RemoveAt, Gate!SelectInSeq, Gate!Min,
       RemoveFirst, RemoveAt, SelectInSeq, Min

(* The members of a line are the tasks at its places.                      *)
LEMMA GateMembers ==
  ASSUME NEW S, NEW s \in Seq(S)
  PROVE  /\ Gate!ToSet(s) \subseteq S
         /\ \A e : e \in Gate!ToSet(s) <=> \E i \in DOMAIN s : s[i] = e
BY DEF Gate!ToSet

(* The future that does not exist yet, and the frame it does not hold,     *)
(* have their types.                                                       *)
LEMMA NoFrameTypes ==
  ASSUME setup \in DOMAIN Setups
  PROVE  NoFrame \in Frames /\ NoWaiter \in Waiters
<1>1. NoFrame \in Frames
  BY SetupFacts DEF NoFrame, Frames, Serials, AllCodes
<1> QED
  BY <1>1, SetupFacts DEF NoWaiter, Waiters, WaiterStates, Serials

(* A future that is forgotten or failed (_SlmpUdpProtocol.request(),       *)
(* _fail_pending()) keeps its type.                                        *)
LEMMA WaiterTypes ==
  ASSUME TypeOK
  PROVE  /\ \A c : Forget(c) \in [Conns -> Waiters]
         /\ \A c : \A e \in WaiterStates :
              FailPending(c, e) \in [Conns -> Waiters]
<1>1. ASSUME NEW c, NEW e \in WaiterStates, NEW d \in Conns
      PROVE  [waiter[d] EXCEPT !.state = e] \in Waiters
  BY ZenonT(60) DEF TypeOK, Waiters
<1> QED BY <1>1, NoFrameTypes DEF TypeOK, Forget, FailPending

(* _retire_transport() leaves the connections in their types.              *)
LEMMA RetireTypes ==
  ASSUME TypeOK, Retire
  PROVE  /\ conn' \in Conns \union {NoConn}
         /\ connState' \in [Conns -> {"unused", "open", "closing", "closed"}]
         /\ inbox' \in [Conns -> Seq(Frames)]
         /\ unanswered' \in [Conns -> SUBSET Requests]
<1>1. <<>> \in Seq(Frames)
  OBVIOUS
<1>2. inbox' \in [Conns -> Seq(Frames)]
  BY <1>1 DEF Retire, TypeOK
<1> QED BY <1>2 DEF Retire, TypeOK

(* The same for the task that retires the transport and goes on to its     *)
(* cleanup or its end.                                                     *)
LEMMA RetireThenTypes ==
  ASSUME TypeOK, UNCHANGED setup, NEW t \in Tasks, NEW o \in Outcomes,
         RetireThen(t, o), sent' \in [Tasks -> BOOLEAN],
         cut' = cut, matched' = matched
  PROVE  TypeOK'
<1>1. outcome' \in [Tasks -> Outcomes] /\ pc' \in [Tasks -> Places]
  BY DEF RetireThen, TypeOK, Goto, Places, Running, Awaiting
<1>2. waiter' \in [Conns -> Waiters]
  BY WaiterTypes DEF RetireThen
<1> QED
  BY <1>1, <1>2, RetireTypes, SetupKept
     DEF RetireThen, TypeOK, Gate!TypeOK, gateVars

(* An exchange that fails (_request_unlocked(), its except clauses) stores *)
(* an outcome the caller can be told.                                      *)
LEMMA FailTypes ==
  ASSUME TypeOK, UNCHANGED setup, NEW t \in Tasks, NEW f \in Failures,
         NEW a \in BOOLEAN, Fail(t, f, a)
  PROVE  TypeOK'
<1> DEFINE o == Classify(IF Current(t) THEN f ELSE "closed",
                         kind[t] = "reset" \/ activeSC, a)
<1>1. o \in Outcomes
  BY DEF Classify, Failures, Outcomes
<1>2. RetireThen(t, o) /\ UNCHANGED <<sent, cut, matched>>
  BY DEF Fail
<1> HIDE DEF o
<1> QED BY <1>1, <1>2, RetireThenTypes DEF TypeOK

(* The same of a _connect_unlocked() that fails, with or without an        *)
(* operation around it.                                                    *)
LEMMA FailConnectTypes ==
  ASSUME TypeOK, UNCHANGED setup, NEW t \in Tasks, NEW f \in Failures,
         FailConnect(t, f)
  PROVE  TypeOK'
<1>1. CASE kind[t] = "connect"
  <2>1. outcome' \in [Tasks -> Outcomes] /\ pc' \in [Tasks -> Places]
    BY <1>1 DEF FailConnect, TypeOK, Ends, Goto, Places, Running, Outcomes
  <2> QED
    BY <1>1, <2>1, SetupKept
       DEF FailConnect, TypeOK, Gate!TypeOK, gateVars, netVars, clientVars,
           historyVars
<1>2. CASE kind[t] # "connect"
  BY <1>2, FailTypes DEF FailConnect
<1> QED BY <1>1, <1>2

(* _next_serial() wraps within the serial numbers.                         *)
LEMMA SerialTypes ==
  ASSUME TypeOK, NEW t \in Tasks, TakeSerial(t)
  PROVE  serial' \in [Tasks -> Serials] /\ nextSerial' \in Serials
<1>1. SerialModulus \in Nat \ {0} /\ nextSerial \in Nat
  BY SetupFacts DEF TypeOK, Serials
<1>2. (nextSerial + 1) % SerialModulus \in Serials
  BY <1>1 DEF Serials
<1> QED BY <1>2 DEF TakeSerial, TypeOK

(* A new operation has a number within the bound.                          *)
LEMMA StartTypes ==
  ASSUME TypeOK, NEW t \in Tasks, NEW k \in Kinds, Start(t, k)
  PROVE  /\ ops' \in 0..MaxOps /\ kind' \in [Tasks -> AllKinds]
         /\ req' \in [Tasks -> 0..MaxOps]
         /\ outcome' \in [Tasks -> Outcomes]
         /\ sent' \in [Tasks -> BOOLEAN]
         /\ overtaken' \in [Tasks -> BOOLEAN]
         /\ opened' \in [Tasks -> 0..MaxCloses]
         /\ cut' \in [Tasks -> BOOLEAN]
         /\ matched' \in [Tasks -> 0..MaxOps]
<1>1. ops + 1 \in 1..MaxOps /\ k \in AllKinds /\ MaxOps \in Nat
  BY SetupFacts DEF TypeOK, Start
<1> QED BY <1>1 DEF Start, TypeOK, Outcomes

(* Every step keeps the types. A request that is sent has the number of an *)
(* operation, which follows from Standing, and a connection to be sent on, *)
(* which follows from Transports.                                          *)
LEMMA TypeStep ==
  ASSUME TypeOK, Standing, Transports, [Next]_vars
  PROVE  TypeOK'
<1>0. UNCHANGED setup
  BY DEF Next, vars
<1> USE <1>0, SetupKept, SetupFacts
        DEF TypeOK, Gate!TypeOK, gateVars, netVars, clientVars, taskVars,
            historyVars
<1> DEFINE NewPlace(t) == \E p \in Places : Goto(t, p)
<1>a. ASSUME NEW t \in Tasks, NewPlace(t)
      PROVE  pc' \in [Tasks -> Places]
  BY <1>a DEF Goto
<1> HIDE DEF NewPlace
<1> DEFINE NewOutcome(t) == \E o \in Outcomes :
                              outcome' = [outcome EXCEPT ![t] = o]
<1>b. ASSUME NEW t \in Tasks, NewOutcome(t)
      PROVE  outcome' \in [Tasks -> Outcomes]
  BY <1>b
<1> HIDE DEF NewOutcome
<1>c. ASSUME NEW t \in Tasks, NEW o \in Outcomes, Ends(t, o)
      PROVE  NewPlace(t) /\ NewOutcome(t)
  BY <1>c DEF Ends, Places, Running, NewPlace, NewOutcome
<1>d. ASSUME NEW t \in Tasks, NEW p, Goto(t, p),
             p \in {"idle", "begin", "send", "discarded", "sent", "decode",
                    "leave", "queued", "resolving", "opening", "discarding",
                    "draining", "receiving", "cleanup", "tracing"}
      PROVE  NewPlace(t)
  BY <1>d DEF Places, Running, Awaiting, NewPlace
<1>1. ASSUME NEW t \in Tasks, NEW k \in Kinds, StartFree(t, k)
      PROVE  TypeOK'
  <2>1. Start(t, k) /\ NewPlace(t)
    BY <1>1, <1>d DEF StartFree
  <2>2. holder' \in Tasks \union {NoTask} /\ UNCHANGED <<line, stale>>
    BY <1>1 DEF StartFree, Gate!TakeFree
  <2> QED BY <2>1, <2>2, <1>a, StartTypes DEF Start
<1>2. ASSUME NEW t \in Tasks, NEW k \in Kinds, StartQueued(t, k)
      PROVE  TypeOK'
  <2>1. Start(t, k) /\ NewPlace(t)
    BY <1>2, <1>d DEF StartQueued
  <2>2. line' \in Seq(Tasks) /\ UNCHANGED <<holder, stale>>
    BY <1>2 DEF StartQueued, Gate!Join
  <2> QED BY <2>1, <2>2, <1>a, StartTypes DEF Start
<1>3. ASSUME NEW t \in Tasks, TurnGranted(t) PROVE TypeOK'
  <2>1. NewPlace(t)
    BY <1>3, <1>d DEF TurnGranted
  <2>2. /\ line' \in Seq(Tasks) /\ stale' = stale
        /\ holder' \in Tasks \union {NoTask}
    BY <1>3 DEF TurnGranted, Gate!Take
  <2> QED BY <1>3, <2>1, <2>2, <1>a DEF TurnGranted
<1>4. ASSUME NEW t \in Tasks, TurnRefused(t) \/ CancelledInLine(t)
      PROVE  TypeOK'
  <2>1. line' \in Seq(Tasks) /\ stale' \subseteq Tasks /\ holder' = holder
    BY <1>4, GateRemoves, RemoveFirstIsSeq
       DEF TurnRefused, CancelledInLine, Gate!Refuse, Gate!GiveUp
  <2>2. NewPlace(t)
    BY <1>4, <1>d DEF TurnRefused, CancelledInLine
  <2>3. NewOutcome(t)
    BY <1>4 DEF TurnRefused, CancelledInLine, Outcomes, Failures, NewOutcome
  <2> QED
    BY <1>4, <2>1, <2>2, <2>3, <1>a, <1>b DEF TurnRefused, CancelledInLine
<1>5. ASSUME NEW t \in Tasks, Leave(t) PROVE TypeOK'
  <2>1. NewPlace(t)
    BY <1>5, <1>d DEF Leave
  <2>2. answer' \in [Tasks -> AllCodes]
    BY <1>5 DEF Leave, AllCodes
  <2> QED BY <1>5, <2>1, <2>2, <1>a DEF Leave, Gate!Release
<1>6. ASSUME NEW t \in Tasks, Begin(t) PROVE TypeOK'
  <2>1. NewPlace(t)
    BY <1>6, <1>c, <1>d DEF Begin, Outcomes
  <2>2. outcome' = outcome \/ NewOutcome(t)
    BY <1>6, <1>c DEF Begin, Outcomes
  <2>3. TakeSerial(t) /\ activeSC' \in BOOLEAN
    BY <1>6 DEF Begin
  <2> QED BY <1>6, <2>1, <2>2, <2>3, <1>a, <1>b, SerialTypes DEF Begin
<1>7. ASSUME NEW t \in Tasks,
             \/ Resolved(t) \/ DiscardEnds(t) \/ CleanupEnds(t) \/ Traced(t)
      PROVE  TypeOK'
  <2>1. NewPlace(t)
    BY <1>7, <1>d DEF Resolved, DiscardEnds, CleanupEnds, Traced
  <2> QED
    BY <1>7, <2>1, <1>a DEF Resolved, DiscardEnds, CleanupEnds, Traced
<1>8. ASSUME NEW t \in Tasks, ConnectFails(t) PROVE TypeOK'
  <2>1. \E f \in Failures : FailConnect(t, f)
    BY <1>8 DEF ConnectFails, Interruptions, Failures
  <2> QED BY <2>1, FailConnectTypes
<1>9. ASSUME NEW t \in Tasks, NEW c \in Conns, Adopts(t, c) PROVE TypeOK'
  <2>1. NewPlace(t)
    BY <1>9, <1>c, <1>d DEF Adopts, Outcomes
  <2>2. outcome' = outcome \/ NewOutcome(t)
    BY <1>9, <1>c DEF Adopts, Outcomes
  <2>3. /\ connGen' \in [Conns -> 0..MaxCloses]
        /\ local' \in [Tasks -> Conns \union {NoConn}]
    BY <1>9 DEF Adopts, Opens
  <2> QED
    BY <1>9, <2>1, <2>2, <2>3, <1>a, <1>b DEF Adopts, Opens
<1>10. ASSUME NEW t \in Tasks, NEW c \in Conns, Discards(t, c)
       PROVE  TypeOK'
  <2>1. NewPlace(t)
    BY <1>10, <1>d DEF Discards
  <2>2. NewOutcome(t)
    BY <1>10 DEF Discards, Outcomes, Failures, NewOutcome
  <2>3. /\ connGen' \in [Conns -> 0..MaxCloses]
        /\ local' \in [Tasks -> Conns \union {NoConn}]
    BY <1>10 DEF Discards, Opens
  <2> QED
    BY <1>10, <2>1, <2>2, <2>3, <1>a, <1>b DEF Discards, Opens
<1>11. ASSUME NEW t \in Tasks, Discarded(t) PROVE TypeOK'
  <2>1. outcome[t] \in Failures
    BY <1>11 DEF Discarded, Standing, Stands, Failures, Connecting
  <2> QED BY <1>11, <2>1, FailConnectTypes DEF Discarded
<1>12. ASSUME NEW t \in Tasks, Send(t) PROVE TypeOK'
  <2>1. sent' \in [Tasks -> BOOLEAN]
    BY <1>12 DEF Send
  <2>2. CASE Transport = "udp" /\ kind[t] = "reset"
    <3>1. RetireThen(t, "sent") /\ UNCHANGED <<cut, matched>>
      BY <1>12, <2>2 DEF Send
    <3> QED BY <2>1, <3>1, RetireThenTypes DEF Outcomes
  <2>3. CASE ~(Transport = "udp" /\ kind[t] = "reset")
    <3>1. conn \in Conns
      BY <1>12 DEF Send, Transports
    <3>2. [req |-> req[t], serial |-> serial[t]] \in Requests
      BY <1>12 DEF Send, Standing, Stands, Requests
    <3>3. unanswered' \in [Conns -> SUBSET Requests]
      <4>1. unanswered[conn] \union {[req |-> req[t], serial |-> serial[t]]}
              \in SUBSET Requests
        BY <3>1, <3>2
      <4>2. unanswered' = [unanswered EXCEPT ![conn] =
              @ \union {[req |-> req[t], serial |-> serial[t]]}]
        BY <1>12, <2>3 DEF Send
      <4> QED BY <4>1, <4>2
    <3>4. NewPlace(t)
      BY <1>12, <2>3, <1>d DEF Send
    <3>5. NewWaiter(t) \in Waiters
      BY NoFrameTypes DEF NewWaiter, Waiters, WaiterStates
    <3>6. waiter' \in [Conns -> Waiters]
      BY ZenonT(60), <1>12, <2>3, <3>1, <3>5 DEF Send
    <3>7. local' \in [Tasks -> Conns \union {NoConn}]
      BY <1>12, <2>3, <3>1 DEF Send
    <3>8. /\ UNCHANGED <<gateVars, connState, inbox, extra, clientVars, kind>>
          /\ UNCHANGED <<req, serial, answer, outcome, overtaken, opened, cut,
                         matched, connGen>>
      BY <1>12, <2>3 DEF Send
    <3> QED BY <2>1, <3>3, <3>4, <3>6, <3>7, <3>8, <1>a
  <2> QED BY <2>2, <2>3
<1>13. ASSUME NEW t \in Tasks, Drained(t) PROVE TypeOK'
  <2>1. \/ RetireThen(t, "sent") /\ UNCHANGED <<sent, cut, matched>>
        \/ Fail(t, "closed", TRUE) \/ Fail(t, "internal", TRUE)
        \/ /\ Goto(t, "receiving")
           /\ UNCHANGED <<gateVars, netVars, clientVars, kind, req, serial,
                          local, answer, outcome, historyVars>>
    BY <1>13 DEF Drained
  <2> QED
    BY ZenonT(60), <2>1, <1>a, <1>d, FailTypes, RetireThenTypes
       DEF Failures, Outcomes
<1>14. ASSUME NEW t \in Tasks, NEW frame \in Frames, Accept(t, frame),
              inbox' \in [Conns -> Seq(Frames)],
              waiter' \in [Conns -> Waiters]
       PROVE  TypeOK'
  <2>1. NewPlace(t)
    BY <1>14, <1>d DEF Accept
  <2>2. /\ answer' \in [Tasks -> AllCodes]
        /\ matched' \in [Tasks -> 0..MaxOps]
    BY <1>14 DEF Accept, Frames
  <2> QED BY <1>14, <2>1, <2>2, <1>a DEF Accept
<1>15. ASSUME NEW t \in Tasks, ReadFrame(t) PROVE TypeOK'
  <2> DEFINE c == local[t]
             frame == Head(inbox[c])
             rest == [inbox EXCEPT ![c] = Tail(@)]
  <2>1. c \in Conns /\ inbox[c] # <<>>
    BY <1>15 DEF ReadFrame, Suspended, Transports, Answering
  <2>2. frame \in Frames /\ rest \in [Conns -> Seq(Frames)]
    BY SMTT(30), <2>1
  <2>3. \/ Fail(t, "protocol", TRUE) \/ Fail(t, "closed", TRUE)
        \/ Accept(t, frame) /\ inbox' = rest /\ UNCHANGED waiter
        \/ /\ inbox' = rest
           /\ UNCHANGED <<gateVars, connState, unanswered, extra, waiter,
                          clientVars, taskVars, historyVars>>
    BY <1>15 DEF ReadFrame
  <2> HIDE DEF frame, rest
  <2> QED BY <2>2, <2>3, <1>14, FailTypes DEF Failures
<1>16. ASSUME NEW t \in Tasks, WaiterResumes(t) PROVE TypeOK'
  <2> DEFINE w == waiter[local[t]]
  <2>1. w \in Waiters /\ w.state \notin {"none", "pending"}
    BY <1>16 DEF WaiterResumes, Suspended, Transports, Answering, Awaits
  <2>2. w.frame \in Frames /\ (w.state # "answered" => w.state \in Failures)
    BY <2>1 DEF Waiters, WaiterStates, Failures
  <2>3. \/ Accept(t, w.frame) /\ waiter' = Forget(local[t])
           /\ UNCHANGED inbox
        \/ Fail(t, "closed", TRUE)
        \/ w.state # "answered" /\ Fail(t, w.state, TRUE)
    BY <1>16 DEF WaiterResumes
  <2> HIDE DEF w
  <2>4. CASE Accept(t, w.frame) /\ waiter' = Forget(local[t])
             /\ UNCHANGED inbox
    BY <2>2, <2>4, <1>14, WaiterTypes
  <2>5. "closed" \in Failures
    BY DEF Failures
  <2> QED BY <2>2, <2>3, <2>4, <2>5, FailTypes
<1>17. ASSUME NEW t \in Tasks, ExchangeFails(t) PROVE TypeOK'
  <2>1. \E f \in Failures : Fail(t, f, TRUE)
    BY <1>17 DEF ExchangeFails, Interruptions, Failures
  <2> QED BY <2>1, FailTypes
<1>18. ASSUME NEW t \in Tasks, Sent(t) PROVE TypeOK'
  <2>1. NewPlace(t)
    BY <1>18, <1>c, <1>d DEF Sent, Outcomes, Classify, Failures
  <2>2. outcome' = outcome \/ NewOutcome(t)
    BY <1>18, <1>c DEF Sent, Outcomes, Classify, Failures
  <2> QED BY <1>18, <2>1, <2>2, <1>a, <1>b DEF Sent
<1>19. ASSUME NEW t \in Tasks, Cut(t) PROVE TypeOK'
  <2>1. NewPlace(t) /\ NewOutcome(t) /\ cut' \in [Tasks -> BOOLEAN]
    BY <1>19, <1>c DEF Cut, Outcomes, Failures
  <2> QED BY <1>19, <2>1, <1>a, <1>b DEF Cut
<1>20. ASSUME NEW t \in Tasks, Decode(t) PROVE TypeOK'
  <2>1. CASE kind[t] = "write" /\ answer[t] = "junk"
    BY <1>20, <2>1, RetireThenTypes DEF Decode, Outcomes
  <2>2. CASE ~(kind[t] = "write" /\ answer[t] = "junk")
    <3>1. Decoded(t) \in Outcomes
      BY DEF Decoded, Outcomes, Failures
    <3>2. NewPlace(t) /\ NewOutcome(t)
      BY <1>20, <2>2, <3>1, <1>c DEF Decode
    <3> QED BY <1>20, <2>2, <3>2, <1>a, <1>b DEF Decode
  <2> QED BY <2>1, <2>2
<1>21. ASSUME Close PROVE TypeOK'
  <2>1. /\ overtaken' \in [Tasks -> BOOLEAN]
        /\ closes' \in 0..MaxCloses
    BY <1>21 DEF Close, Undecided
  <2>2. stale' \subseteq Tasks /\ UNCHANGED <<holder, line>>
    BY <1>21, GateMembers DEF Close, Gate!Close
  <2>3. waiter' \in [Conns -> Waiters]
    BY <1>21, WaiterTypes DEF Close, WaiterStates
  <2>4. Retire
    BY <1>21 DEF Close
  <2> QED BY <1>21, <2>1, <2>2, <2>3, <2>4, RetireTypes DEF Close
<1>22. ASSUME NEW c \in Conns, DatagramReceived(c) PROVE TypeOK'
  <2>1. PICK i \in DOMAIN inbox[c] :
          /\ inbox' = [inbox EXCEPT ![c] = RemoveAt(@, i)]
          /\ \/ UNCHANGED waiter
             \/ \E verdict \in {"protocol", "answered"} :
                  waiter' = [waiter EXCEPT ![c] =
                               [@ EXCEPT !.state = verdict,
                                         !.frame = inbox[c][i]]]
    BY <1>22 DEF DatagramReceived
  <2>2. inbox[c] \in Seq(Frames) /\ inbox[c][i] \in Frames
    OBVIOUS
  <2>3. RemoveAt(inbox[c], i) \in Seq(Frames)
    BY <2>2, RemoveAtIsSeq
  <2>4. inbox' \in [Conns -> Seq(Frames)]
    BY <2>1, <2>3
  <2>5. waiter' \in [Conns -> Waiters]
    <3>1. ASSUME NEW v \in {"protocol", "answered"}
          PROVE  [waiter[c] EXCEPT !.state = v, !.frame = inbox[c][i]]
                   \in Waiters
      <4>1. waiter[c] \in Waiters /\ v \in WaiterStates
        BY DEF WaiterStates
      <4>2. [waiter[c] EXCEPT !.state = v] \in Waiters
        BY <4>1 DEF Waiters
      <4> QED BY <4>2, <2>2 DEF Waiters
    <3>2. ASSUME NEW v \in {"protocol", "answered"},
                 waiter' = [waiter EXCEPT ![c] =
                              [@ EXCEPT !.state = v, !.frame = inbox[c][i]]]
          PROVE  waiter' \in [Conns -> Waiters]
      <4> DEFINE w == [waiter[c] EXCEPT !.state = v, !.frame = inbox[c][i]]
      <4>1. w \in Waiters /\ waiter' = [waiter EXCEPT ![c] = w]
        BY <3>1, <3>2
      <4> HIDE DEF w
      <4> QED BY <4>1
    <3> QED BY <2>1, <3>2
  <2> QED BY <1>22, <2>4, <2>5 DEF DatagramReceived
<1>23. ASSUME NEW c \in Conns, TransportLost(c) PROVE TypeOK'
  <2>1. /\ connState' \in [Conns -> {"unused", "open", "closing", "closed"}]
        /\ conn' \in Conns \union {NoConn}
    BY <1>23 DEF TransportLost
  <2>2. waiter' \in [Conns -> Waiters]
    BY <1>23, WaiterTypes DEF TransportLost, LossError, WaiterStates
  <2> QED BY <1>23, <2>1, <2>2 DEF TransportLost
<1>24. ASSUME NEW c \in Conns, PlcAnswers(c) PROVE TypeOK'
  <2>1. PICK r \in unanswered[c], code \in Codes :
          /\ unanswered' = [unanswered EXCEPT ![c] = @ \ {r}]
          /\ inbox' = [inbox EXCEPT ![c] = Append(@,
                 [req |-> r.req, serial |-> r.serial, code |-> code])]
    BY <1>24 DEF PlcAnswers
  <2>2. r \in Requests /\ code \in AllCodes
    BY <2>1
  <2>3. [req |-> r.req, serial |-> r.serial, code |-> code] \in Frames
    BY <2>2 DEF Requests, Frames
  <2>4. /\ inbox' \in [Conns -> Seq(Frames)]
        /\ unanswered' \in [Conns -> SUBSET Requests]
    BY <2>1, <2>3
  <2> QED BY <1>24, <2>4 DEF PlcAnswers
<1>25. ASSUME NEW c \in Conns, ExtraArrives(c) PROVE TypeOK'
  <2>1. ToSet(inbox[c]) \subseteq Frames /\ NoFrame \in Frames
    BY NoFrameTypes DEF ToSet
  <2>2. inbox' \in [Conns -> Seq(Frames)]
    BY <1>25, <2>1 DEF ExtraArrives
  <2>3. extra' \in 0..MaxExtra
    <3>1. extra \in Nat /\ extra < MaxExtra /\ extra' = extra + 1
      BY <1>25 DEF ExtraArrives
    <3> QED BY <3>1
  <2> QED BY <1>25, <2>2, <2>3 DEF ExtraArrives
<1>26. CASE UNCHANGED vars
  BY <1>26 DEF vars
<1> QED
  BY <1>1, <1>2, <1>3, <1>4, <1>5, <1>6, <1>7, <1>8, <1>9, <1>10, <1>11,
     <1>12, <1>13, <1>15, <1>16, <1>17, <1>18, <1>19, <1>20, <1>21, <1>22,
     <1>23, <1>24, <1>25, <1>26
     DEF Next, RunsOn, Resumes
------------------------------------------------------------------------------
(* The steps inside a turn, and those of nobody's operation.               *)
Inside(t) ==
  \/ Begin(t) \/ Discarded(t) \/ Send(t) \/ Sent(t) \/ Decode(t)
  \/ Resolved(t) \/ ConnectFails(t)
  \/ \E c \in Conns : Adopts(t, c) \/ Discards(t, c)
  \/ DiscardEnds(t) \/ Drained(t) \/ ReadFrame(t) \/ WaiterResumes(t)
  \/ ExchangeFails(t) \/ CleanupEnds(t) \/ Traced(t) \/ Cut(t)

Outside ==
  \E c \in Conns : \/ DatagramReceived(c) \/ TransportLost(c)
                   \/ PlcAnswers(c) \/ ExtraArrives(c)

InsideFrame(t) ==
  /\ pc[t] \in InTurn \ {"leave"}
  /\ \E p \in InTurn \ {"begin"} : Goto(t, p)
  /\ UNCHANGED <<gateVars, ops, closes, kind, req, overtaken, opened>>

(* Who retires the transport stays in its turn, and leaves the gate,       *)
(* close() and every other task alone.                                     *)
LEMMA RetireFrame ==
  ASSUME NEW t \in Tasks, NEW o, RetireThen(t, o),
         pc[t] \in InTurn \ {"leave"}
  PROVE  InsideFrame(t)
BY DEF RetireThen, InsideFrame, InTurn, Places, Running, Awaiting

(* The same of an exchange that fails.                                     *)
LEMMA FailFrame ==
  ASSUME NEW t \in Tasks, NEW f, NEW a, Fail(t, f, a),
         pc[t] \in InTurn \ {"leave"}
  PROVE  InsideFrame(t)
BY RetireFrame DEF Fail

(* The same of a connection that fails.                                    *)
LEMMA FailConnectFrame ==
  ASSUME NEW t \in Tasks, NEW f, FailConnect(t, f),
         pc[t] \in InTurn \ {"leave"}
  PROVE  InsideFrame(t)
<1>1. CASE kind[t] = "connect"
  BY <1>1
     DEF FailConnect, InsideFrame, InTurn, Places, Running, Ends, clientVars,
         historyVars
<1>2. CASE kind[t] # "connect"
  BY <1>2, FailFrame DEF FailConnect
<1> QED BY <1>1, <1>2

(* All steps of a task inside its turn but the last: they stay in the      *)
(* turn, and leave the gate, close(), the operations and the history of    *)
(* closes alone.                                                           *)
LEMMA InsideSteps ==
  ASSUME TypeOK, NEW t \in Tasks, Inside(t)
  PROVE  InsideFrame(t)
<1> DEFINE Stays == \E p \in InTurn \ {"begin"} : Goto(t, p)
<1>0. /\ pc[t] \in InTurn \ {"leave"}
  BY DEF Inside, Begin, Discarded, Send, Sent, Decode, Resolved, ConnectFails,
         Adopts, Discards, Opens, DiscardEnds, Drained, ReadFrame,
         WaiterResumes, ExchangeFails, CleanupEnds, Traced, Cut, Suspended,
         InTurn, Places, Running, Awaiting
<1> USE <1>0
<1>1. ASSUME NEW p \in Places \ {"idle", "queued", "begin"}, Goto(t, p)
      PROVE  Stays
  BY <1>1 DEF InTurn
<1>a. ASSUME NEW o, Ends(t, o) PROVE Stays
  BY <1>1, <1>a DEF Ends, Places, Running
<1> HIDE DEF Stays
<1> SUFFICES ASSUME \A o : ~RetireThen(t, o), \A f, a : ~Fail(t, f, a),
                    \A f : ~FailConnect(t, f)
             PROVE  InsideFrame(t)
  BY RetireFrame, FailFrame, FailConnectFrame
<1> USE DEF historyVars, clientVars, taskVars, Places, Running, Awaiting
<1>2. CASE Begin(t)
  BY <1>1, <1>2, <1>a DEF Begin, InsideFrame, Stays
<1>3. ASSUME NEW c \in Conns, Adopts(t, c) PROVE InsideFrame(t)
  BY <1>1, <1>3, <1>a DEF Adopts, Opens, InsideFrame, Stays
<1>4. ASSUME NEW c \in Conns, Discards(t, c) PROVE InsideFrame(t)
  <2>1. Stays
    BY <1>1, <1>4 DEF Discards
  <2> QED BY <1>4, <2>1 DEF Discards, Opens, InsideFrame, Stays
<1>5. CASE Send(t) \/ Drained(t) \/ Decode(t)
  BY <1>1, <1>5, <1>a DEF Send, Drained, Decode, InsideFrame, Stays
<1>6. CASE ReadFrame(t) \/ WaiterResumes(t)
  <2>1. \/ \E f : Accept(t, f)
        \/ UNCHANGED <<gateVars, clientVars, taskVars, historyVars>>
    BY <1>6 DEF ReadFrame, WaiterResumes
  <2>2. ASSUME NEW f, Accept(t, f) PROVE InsideFrame(t)
    BY <1>1, <2>2 DEF Accept, InsideFrame, Stays
  <2>3. ASSUME UNCHANGED <<gateVars, clientVars, taskVars, historyVars>>
        PROVE  InsideFrame(t)
    <3>1. pc = [pc EXCEPT ![t] = pc[t]]
      BY DEF TypeOK
    <3>2. pc[t] = "receiving"
      BY <1>6 DEF ReadFrame, WaiterResumes, Suspended
    <3> QED BY <2>3, <3>1, <3>2 DEF InsideFrame, Goto
  <2> QED BY <2>1, <2>2, <2>3
<1>7. CASE \/ Resolved(t) \/ DiscardEnds(t) \/ CleanupEnds(t) \/ Traced(t)
           \/ Cut(t)
  BY <1>1, <1>7, <1>a
     DEF Resolved, DiscardEnds, CleanupEnds, Traced, Cut, InsideFrame, Stays
<1>8. CASE Sent(t)
  <2>1. Stays
    BY <1>1, <1>8, <1>a DEF Sent
  <2> QED BY <1>8, <2>1 DEF Sent, InsideFrame, Stays
<1>9. CASE Discarded(t) \/ ConnectFails(t) \/ ExchangeFails(t)
  BY <1>9 DEF Discarded, ConnectFails, ExchangeFails
<1> QED
  BY <1>2, <1>3, <1>4, <1>5, <1>6, <1>7, <1>8, <1>9 DEF Inside

(* The event loop's callbacks and the PLC do nothing to the gate and to    *)
(* the tasks: a frame is read, and a failed future noticed, when the task  *)
(* runs again.                                                             *)
LEMMA OutsideSteps ==
  ASSUME Outside
  PROVE  UNCHANGED <<gateVars, activeSC, ops, nextSerial, closes, taskVars,
                     historyVars>>
BY DEF Outside, DatagramReceived, TransportLost, PlcAnswers, ExtraArrives,
       clientVars

(* The turn: a task enters it when it takes the free gate or is granted    *)
(* it, and leaves it when it releases the gate. A task that is cancelled   *)
(* in line leaves the line.                                                *)
LEMMA TurnStep ==
  ASSUME TypeOK, HoldsTurn, [Next]_vars
  PROVE  HoldsTurn'
<1>0. /\ line \in Seq(Tasks) /\ pc \in [Tasks -> Places]
      /\ holder \in Tasks \union {NoTask} /\ NoTask \notin Tasks
      /\ stale \subseteq Tasks
  BY SetupFacts DEF TypeOK, Gate!TypeOK
<1> USE <1>0 DEF InTurn, Places, Running, Awaiting, gateVars, Goto
<1>1. ASSUME NEW t \in Tasks, NEW k \in Kinds, StartFree(t, k)
      PROVE  HoldsTurn'
  BY <1>1, GateMembers
     DEF HoldsTurn, InLine, StartFree, Start, Suspended, Gate!TakeFree
<1>2. ASSUME NEW t \in Tasks, NEW k \in Kinds, StartQueued(t, k)
      PROVE  HoldsTurn'
  <2>1. /\ pc[t] = "idle" /\ pc' = [pc EXCEPT ![t] = "queued"]
        /\ line' = Append(line, t) /\ UNCHANGED <<holder, stale>>
    BY <1>2 DEF StartQueued, Start, Suspended, Gate!Join
  <2>2. /\ line'[Len(line) + 1] = t /\ Len(line) + 1 \in DOMAIN line'
        /\ \A i \in DOMAIN line : i \in DOMAIN line' /\ line'[i] = line[i]
    BY <2>1
  <2>3. \A u \in Tasks : InLine(u) => InLine(u)'
    BY <2>2 DEF InLine
  <2> QED BY <2>1, <2>2, <2>3 DEF HoldsTurn, InLine
<1>3. ASSUME NEW t \in Tasks, TurnGranted(t) PROVE HoldsTurn'
  <2>1. /\ pc[t] = "queued" /\ pc' = [pc EXCEPT ![t] = "begin"]
        /\ line # <<>> /\ t = line[1] /\ UNCHANGED stale
        /\ holder = NoTask /\ holder' = t /\ line' = Tail(line)
    BY <1>3 DEF TurnGranted, Suspended, Gate!Take
  <2>2. \A i \in DOMAIN line :
          i # 1 => i - 1 \in DOMAIN line' /\ line'[i - 1] = line[i]
    BY <2>1
  <2>3. ASSUME NEW u \in Tasks, u # t, InLine(u) PROVE InLine(u)'
    BY <2>1, <2>2, <2>3 DEF InLine
  <2> QED BY <2>1, <2>3 DEF HoldsTurn
<1>4. ASSUME NEW t \in Tasks, TurnRefused(t) \/ CancelledInLine(t)
      PROVE  HoldsTurn'
  <2>1. /\ pc[t] = "queued" /\ pc' = [pc EXCEPT ![t] = "idle"]
        /\ line' = RemoveFirst(line, t) /\ UNCHANGED holder /\ t # holder
        /\ stale' = stale \ {t}
    BY <1>4, GateRemoves
       DEF TurnRefused, CancelledInLine, Suspended, Gate!Refuse, Gate!GiveUp,
           HoldsTurn
  <2>2. \A i \in DOMAIN line :
          line[i] # t => \E j \in DOMAIN line' : line'[j] = line[i]
    BY <2>1, RemoveFirstKeeps
  <2>3. ASSUME NEW u \in Tasks, u # t, InLine(u) PROVE InLine(u)'
    BY <2>2, <2>3 DEF InLine
  <2> QED BY <2>1, <2>3 DEF HoldsTurn
<1>5. ASSUME NEW t \in Tasks, Leave(t) PROVE HoldsTurn'
  BY <1>5 DEF HoldsTurn, InLine, Leave, Gate!Release
<1>6. ASSUME NEW t \in Tasks, Inside(t) PROVE HoldsTurn'
  BY SMTT(30), <1>6, InsideSteps DEF HoldsTurn, InLine, InsideFrame
<1>7. CASE Close
  <2>1. \A t \in Tasks :
          t \in stale' => t = holder \/ \E i \in DOMAIN line : line[i] = t
    BY <1>7, GateMembers DEF Close, Gate!Close
  <2>2. UNCHANGED <<holder, line, pc>>
    BY <1>7 DEF Close, Gate!Close, taskVars
  <2> QED BY <2>1, <2>2 DEF HoldsTurn, InLine
<1>8. CASE Outside
  BY <1>8, OutsideSteps DEF HoldsTurn, InLine, taskVars
<1>9. CASE UNCHANGED vars
  BY <1>9 DEF HoldsTurn, InLine, vars, taskVars
<1> QED
  BY <1>1, <1>2, <1>3, <1>4, <1>5, <1>6, <1>7, <1>8, <1>9
     DEF Next, RunsOn, Resumes, Inside, Outside
------------------------------------------------------------------------------
(* Who retires the transport goes to its cleanup or its end with an        *)
(* outcome that was settled, and nothing is claimed of it but its request. *)
LEMMA RetireStanding ==
  ASSUME TypeOK, HoldsTurn, Standing, NEW t \in Tasks, NEW o,
         RetireThen(t, o), pc[t] \in InTurn \ {"leave"},
         kind[t] # "connect", o = "sent" => sent'[t] /\ kind[t] = "reset",
         \A u \in Tasks \ {t} : sent'[u] = sent[u]
  PROVE  Standing'
<1>1. /\ outcome' = [outcome EXCEPT ![t] = o]
      /\ \/ pc' = [pc EXCEPT ![t] = "leave"]
         \/ pc' = [pc EXCEPT ![t] = "cleanup"]
         \/ o = "sent" /\ pc' = [pc EXCEPT ![t] = "sent"]
      /\ UNCHANGED <<activeSC, kind, req>>
  BY DEF RetireThen, Goto
<1>2. /\ pc \in [Tasks -> Places] /\ outcome \in [Tasks -> Outcomes]
      /\ \A u \in Tasks \ {t} : pc[u] \notin InTurn
  BY SetupFacts DEF TypeOK, HoldsTurn
<1>3. Standing'
  <2>1. Stands(t)'
    BY <1>1, <1>2
       DEF Standing, Stands, InTurn, Places, Running, Awaiting, BeforeSend,
           Connecting, Answering, AfterSend
  <2>2. ASSUME NEW u \in Tasks, u # t PROVE Stands(u)'
    BY <1>1, <1>2, <2>2
       DEF Standing, Stands, InTurn, Places, Running, Awaiting, BeforeSend,
           Connecting, Answering, AfterSend
  <2> QED BY <2>1, <2>2 DEF Standing
<1> QED BY <1>3

(* So does an exchange that fails.                                         *)
LEMMA FailStanding ==
  ASSUME TypeOK, HoldsTurn, Standing, NEW t \in Tasks, NEW f \in Failures,
         NEW a, Fail(t, f, a), pc[t] \in InTurn \ {"leave"},
         kind[t] # "connect"
  PROVE  Standing'
<1> DEFINE o == Classify(IF Current(t) THEN f ELSE "closed",
                         kind[t] = "reset" \/ activeSC, a)
<1>1. o # "sent"
  BY DEF Classify, Failures
<1>2. RetireThen(t, o) /\ UNCHANGED sent
  BY DEF Fail
<1> HIDE DEF o
<1> QED BY <1>1, <1>2, RetireStanding

(* So does a connection that fails, of an operation or of connect()        *)
(* itself.                                                                 *)
LEMMA FailConnectStanding ==
  ASSUME TypeOK, HoldsTurn, Standing, NEW t \in Tasks, NEW f \in Failures,
         FailConnect(t, f), pc[t] \in InTurn \ {"leave"}
  PROVE  Standing'
<1>1. CASE kind[t] # "connect"
  BY <1>1, FailStanding DEF FailConnect
<1>2. CASE kind[t] = "connect"
  <2>1. /\ outcome' = [outcome EXCEPT ![t] = f]
        /\ pc' = [pc EXCEPT ![t] = "leave"]
        /\ UNCHANGED <<activeSC, kind, req, sent>>
    BY <1>2 DEF FailConnect, Ends, Goto, clientVars, historyVars
  <2>2. /\ pc \in [Tasks -> Places] /\ outcome \in [Tasks -> Outcomes]
        /\ \A u \in Tasks \ {t} : pc[u] \notin InTurn
    BY SetupFacts DEF TypeOK, HoldsTurn
  <2> QED
    BY <2>1, <2>2
       DEF Standing, Stands, InTurn, Places, Running, Awaiting, BeforeSend,
           Connecting, Answering, AfterSend
<1> QED BY <1>1, <1>2

(* Every step moves a task to a place it stands at rightly.                *)
LEMMA StandingStep ==
  ASSUME TypeOK, HoldsTurn, Standing, Transports, [Next]_vars
  PROVE  Standing'
<1>0. /\ pc \in [Tasks -> Places] /\ kind \in [Tasks -> AllKinds]
      /\ req \in [Tasks -> 0..MaxOps] /\ outcome \in [Tasks -> Outcomes]
      /\ sent \in [Tasks -> BOOLEAN]
      /\ NoTask \notin Tasks /\ ops \in Nat
      /\ \A t, u \in Tasks :
           pc[t] \in InTurn /\ pc[u] \in InTurn => t = u
  BY SetupFacts DEF TypeOK, HoldsTurn
<1> USE <1>0
        DEF Standing, Stands, InTurn, Places, Running, Awaiting, BeforeSend,
            Connecting, Answering, AfterSend, Goto, Ends, taskVars,
            clientVars, historyVars
<1>1. ASSUME NEW t \in Tasks, NEW k \in Kinds,
             StartFree(t, k) \/ StartQueued(t, k)
      PROVE  Standing'
  <2>1. \E p \in {"begin", "queued"} : pc' = [pc EXCEPT ![t] = p]
    BY <1>1 DEF StartFree, StartQueued
  <2>2. Start(t, k)
    BY <1>1 DEF StartFree, StartQueued
  <2> QED BY <2>1, <2>2 DEF Start
<1>2. ASSUME NEW t \in Tasks,
             \/ TurnGranted(t) \/ TurnRefused(t) \/ CancelledInLine(t)
             \/ Leave(t)
      PROVE  Standing'
  <2>1. /\ \/ pc' = [pc EXCEPT ![t] = "idle"]
           \/ pc[t] = "queued" /\ pc' = [pc EXCEPT ![t] = "begin"]
        /\ UNCHANGED <<kind, req, sent>>
        /\ \A u \in Tasks \ {t} : outcome'[u] = outcome[u]
        /\ \/ activeSC' = activeSC
           \/ \A u \in Tasks \ {t} : pc[u] \notin InTurn
    BY <1>2
       DEF TurnGranted, TurnRefused, CancelledInLine, Leave, Suspended, Idle,
           HoldsTurn, Gate!Take, Gate!Release, Gate!Refuse, Gate!GiveUp
  <2> QED BY <2>1
<1>3. ASSUME NEW t \in Tasks, Begin(t) PROVE Standing'
  <2>1. /\ pc[t] = "begin" /\ (activeSC' <=> kind[t] = "write")
        /\ UNCHANGED <<kind, req, sent>>
    BY <1>3 DEF Begin
  <2>2. \/ pc' = [pc EXCEPT ![t] = "resolving"] /\ UNCHANGED outcome
        \/ \E o : Ends(t, o)
        \/ /\ kind[t] # "connect" /\ pc' = [pc EXCEPT ![t] = "send"]
           /\ UNCHANGED outcome
    BY <1>3 DEF Begin
  <2> QED BY <2>1, <2>2
<1>4. ASSUME NEW t \in Tasks, Resolved(t) \/ DiscardEnds(t)
      PROVE  Standing'
  BY <1>4 DEF Resolved, DiscardEnds, Suspended
<1>5. ASSUME NEW t \in Tasks, ConnectFails(t) PROVE Standing'
  <2>1. \E f \in Failures : FailConnect(t, f)
    BY <1>5 DEF ConnectFails, Interruptions, Failures
  <2>2. pc[t] \in InTurn \ {"leave"}
    BY <1>5 DEF ConnectFails, Suspended
  <2> QED BY <2>1, <2>2, FailConnectStanding
<1>6. ASSUME NEW t \in Tasks, NEW c \in Conns, Adopts(t, c)
      PROVE  Standing'
  BY <1>6 DEF Adopts, Opens, Suspended
<1>7. ASSUME NEW t \in Tasks, NEW c \in Conns, Discards(t, c)
      PROVE  Standing'
  <2>1. \E p \in {"discarding", "discarded"} : pc' = [pc EXCEPT ![t] = p]
    BY <1>7 DEF Discards
  <2>2. \E f \in {"closed", "timeout", "transport"} :
          outcome' = [outcome EXCEPT ![t] = f]
    BY <1>7 DEF Discards
  <2>3. /\ pc[t] = "opening"
        /\ UNCHANGED <<kind, req, sent, activeSC>>
    BY <1>7 DEF Discards, Opens, Suspended
  <2> QED BY <2>1, <2>2, <2>3
<1>8. ASSUME NEW t \in Tasks, Discarded(t) PROVE Standing'
  <2>1. outcome[t] \in Failures /\ FailConnect(t, outcome[t])
    BY <1>8 DEF Discarded, Failures
  <2> QED BY <1>8, <2>1, FailConnectStanding DEF Discarded
<1>9. ASSUME NEW t \in Tasks, Send(t) PROVE Standing'
  <2>1. sent' = [sent EXCEPT ![t] = TRUE] /\ pc[t] = "send"
    BY <1>9 DEF Send
  <2>2. CASE Transport = "udp" /\ kind[t] = "reset"
    <3>1. RetireThen(t, "sent")
      BY <1>9, <2>2 DEF Send
    <3> QED BY <2>1, <2>2, <3>1, RetireStanding
  <2>3. CASE ~(Transport = "udp" /\ kind[t] = "reset")
    <3>1. /\ \/ Transport = "tcp" /\ pc' = [pc EXCEPT ![t] = "draining"]
             \/ kind[t] # "reset" /\ pc' = [pc EXCEPT ![t] = "receiving"]
          /\ UNCHANGED <<activeSC, kind, req, outcome>>
      BY <1>9, <2>3, SetupFacts DEF Send, TypeOK
    <3> QED BY <2>1, <3>1
  <2> QED BY <2>2, <2>3
<1>10. ASSUME NEW t \in Tasks, Drained(t) PROVE Standing'
  <2>1. pc[t] = "draining"
    BY <1>10 DEF Drained, Suspended
  <2>2. \/ /\ kind[t] = "reset" /\ RetireThen(t, "sent") /\ UNCHANGED sent
        \/ kind[t] # "connect" /\ \E f \in Failures : Fail(t, f, TRUE)
        \/ /\ kind[t] # "reset" /\ pc' = [pc EXCEPT ![t] = "receiving"]
           /\ UNCHANGED <<activeSC, kind, req, outcome, sent>>
    BY <1>10, <2>1 DEF Drained, Failures
  <2>3. CASE kind[t] = "reset" /\ RetireThen(t, "sent") /\ UNCHANGED sent
    BY <2>1, <2>3, RetireStanding
  <2>4. ASSUME NEW f \in Failures, Fail(t, f, TRUE), kind[t] # "connect"
        PROVE  Standing'
    BY <2>1, <2>4, FailStanding
  <2>5. CASE /\ kind[t] # "reset" /\ pc' = [pc EXCEPT ![t] = "receiving"]
             /\ UNCHANGED <<activeSC, kind, req, outcome, sent>>
    BY <2>1, <2>5
  <2> QED BY <2>2, <2>3, <2>4, <2>5
<1>11. ASSUME NEW t \in Tasks, NEW f, Accept(t, f), pc[t] = "receiving"
       PROVE  Standing'
  BY <1>11 DEF Accept
<1>12. ASSUME NEW t \in Tasks, ReadFrame(t) \/ WaiterResumes(t)
       PROVE  Standing'
  <2>1. pc[t] = "receiving"
    BY <1>12 DEF ReadFrame, WaiterResumes, Suspended
  <2>2. \/ \E f : Accept(t, f)
        \/ \E f \in Failures : Fail(t, f, TRUE)
        \/ UNCHANGED <<clientVars, taskVars, historyVars>>
    <3>1. CASE ReadFrame(t)
      BY <3>1 DEF ReadFrame, Failures
    <3>2. CASE WaiterResumes(t)
      <4>1. /\ waiter[local[t]].state \in WaiterStates \ {"none", "pending"}
        BY <3>2, <2>1
           DEF WaiterResumes, Transports, Awaits, TypeOK, Waiters
      <4>2. \/ waiter[local[t]].state = "answered"
            \/ waiter[local[t]].state \in Failures
        BY <4>1 DEF WaiterStates, Failures
      <4>3. "closed" \in Failures
        BY DEF Failures
      <4> QED BY <3>2, <4>2, <4>3 DEF WaiterResumes
    <3> QED BY <1>12, <3>1, <3>2
  <2>3. CASE UNCHANGED <<clientVars, taskVars, historyVars>>
    BY <2>3
  <2> QED BY <2>1, <2>2, <2>3, <1>11, FailStanding
<1>13. ASSUME NEW t \in Tasks, ExchangeFails(t) PROVE Standing'
  <2>1. \E f \in Failures : Fail(t, f, TRUE)
    BY <1>13 DEF ExchangeFails, Interruptions, Failures
  <2>2. pc[t] \in Answering
    BY <1>13 DEF ExchangeFails, Suspended
  <2> QED BY <2>1, <2>2, FailStanding
<1>14. ASSUME NEW t \in Tasks, CleanupEnds(t) \/ Traced(t) \/ Cut(t)
       PROVE  Standing'
  BY <1>14 DEF CleanupEnds, Traced, Cut, Suspended
<1>15. ASSUME NEW t \in Tasks, Sent(t) PROVE Standing'
  <2>1. /\ pc[t] = "sent" \/ pc[t] = "tracing"
        /\ UNCHANGED <<activeSC, kind, req, sent>>
    BY <1>15 DEF Sent, Suspended
  <2>2. \/ pc[t] = "sent" /\ Goto(t, "tracing") /\ UNCHANGED outcome
        \/ \E o : Ends(t, o)
    BY <1>15 DEF Sent
  <2> QED BY <2>1, <2>2
<1>16. ASSUME NEW t \in Tasks, Decode(t) PROVE Standing'
  <2>1. \/ RetireThen(t, "outcomeUnknown") /\ UNCHANGED sent
        \/ /\ \E o : Ends(t, o)
           /\ UNCHANGED <<activeSC, kind, req, sent>>
    BY <1>16 DEF Decode
  <2>2. pc[t] = "decode"
    BY <1>16 DEF Decode
  <2> QED BY <2>1, <2>2, RetireStanding
<1>17. CASE Close
  BY <1>17 DEF Close
<1>18. CASE Outside
  BY <1>18, OutsideSteps
<1>19. CASE UNCHANGED vars
  BY <1>19 DEF vars
<1> QED
  BY <1>1, <1>2, <1>3, <1>4, <1>5, <1>6, <1>7, <1>8, <1>9, <1>10, <1>12,
     <1>13, <1>14, <1>15, <1>16, <1>17, <1>18, <1>19
     DEF Next, RunsOn, Resumes, Outside
------------------------------------------------------------------------------
(* close() marks every task in a turn or in line as stale in the same step *)
(* in which it retires the transport, so a task that passes                *)
(* ensure_current() has been overtaken by nobody.                          *)
LEMMA OvertakingStep ==
  ASSUME TypeOK, HoldsTurn, Standing, Overtaking, [Next]_vars
  PROVE  Overtaking'
<1>0. /\ pc \in [Tasks -> Places] /\ kind \in [Tasks -> AllKinds]
      /\ opened \in [Tasks -> 0..MaxCloses] /\ closes \in Nat
      /\ MaxCloses \in Nat
      /\ overtaken \in [Tasks -> BOOLEAN]
      /\ NoTask \notin Tasks /\ stale \subseteq Tasks
      /\ line \in Seq(Tasks)
      /\ \A t, u \in Tasks :
           pc[t] \in InTurn /\ pc[u] \in InTurn => t = u
  BY SetupFacts DEF TypeOK, Gate!TypeOK, HoldsTurn
<1> USE <1>0
        DEF Overtaking, InTurn, Places, Running, Awaiting, Goto
<1>1. ASSUME NEW t \in Tasks, NEW k \in Kinds,
             StartFree(t, k) \/ StartQueued(t, k)
      PROVE  Overtaking'
  <2>1. /\ pc[t] = "idle" /\ t \notin stale /\ stale' = stale
        /\ \E p \in {"begin", "queued"} : pc' = [pc EXCEPT ![t] = p]
    BY <1>1, GateMembers
       DEF StartFree, StartQueued, Start, Suspended, Gate!TakeFree, Gate!Join,
           Gate!Idle, HoldsTurn, InLine
  <2>2. /\ kind' = [kind EXCEPT ![t] = k]
        /\ overtaken' = [overtaken EXCEPT ![t] = FALSE]
        /\ opened' = [opened EXCEPT ![t] = closes] /\ closes' = closes
    BY <1>1 DEF StartFree, StartQueued, Start
  <2> QED BY <2>1, <2>2
<1>2. ASSUME NEW t \in Tasks,
             \/ TurnGranted(t) \/ TurnRefused(t) \/ CancelledInLine(t)
             \/ Leave(t)
      PROVE  Overtaking'
  <2>1. /\ \/ pc' = [pc EXCEPT ![t] = "idle"] /\ stale' = stale \ {t}
           \/ /\ pc' = [pc EXCEPT ![t] = "begin"] /\ stale' = stale
              /\ t \notin stale /\ pc[t] = "queued"
        /\ UNCHANGED <<kind, overtaken, opened, closes>>
    BY <1>2
       DEF TurnGranted, TurnRefused, CancelledInLine, Leave, Suspended,
           Gate!Take, Gate!Release, Gate!Refuse, Gate!GiveUp, clientVars,
           historyVars
  <2> QED BY <2>1
<1>3. ASSUME NEW t \in Tasks, Inside(t) PROVE Overtaking'
  <2>1. /\ pc[t] \in InTurn \ {"leave"} /\ t = holder
        /\ UNCHANGED <<stale, kind, overtaken, opened, closes>>
        /\ \E p \in InTurn \ {"begin"} : pc' = [pc EXCEPT ![t] = p]
    BY <1>3, InsideSteps DEF InsideFrame, HoldsTurn, gateVars
  <2>2. pc'[t] \in {"tracing", "decode"} /\ kind[t] = "write" => ~overtaken[t]
    <3> SUFFICES ASSUME pc'[t] \in {"tracing", "decode"}, kind[t] = "write",
                        overtaken[t]
                 PROVE  FALSE
      OBVIOUS
    <3>0. t \in stale /\ ~Current(t)
      BY <2>1 DEF Current, Gate!IsCurrent
    <3>1. \A o : ~RetireThen(t, o)
      BY DEF RetireThen
    <3>2. \A f, a : ~Fail(t, f, a)
      BY <3>1 DEF Fail
    <3>3. \A f : ~FailConnect(t, f)
      BY <3>2 DEF FailConnect, Ends
    <3>4. \A f : ~Accept(t, f)
      BY <3>0 DEF Accept
    <3>5. CASE \/ Begin(t) \/ Send(t) \/ Sent(t) \/ Decode(t) \/ Resolved(t)
               \/ DiscardEnds(t) \/ CleanupEnds(t) \/ Traced(t) \/ Cut(t)
      BY ZenonT(60), <3>1, <3>5
         DEF Begin, Send, Sent, Decode, Resolved, DiscardEnds, CleanupEnds,
             Traced, Cut, Ends, Suspended, Standing, Stands
    <3>6. CASE Discarded(t) \/ ConnectFails(t) \/ ExchangeFails(t)
      BY <3>2, <3>3, <3>6 DEF Discarded, ConnectFails, ExchangeFails
    <3>7. CASE Drained(t) \/ \E c \in Conns : Adopts(t, c) \/ Discards(t, c)
      BY <3>1, <3>2, <3>7 DEF Drained, Adopts, Discards, Ends
    <3>8. CASE ReadFrame(t) \/ WaiterResumes(t)
      BY <3>2, <3>4, <3>8
         DEF ReadFrame, WaiterResumes, Suspended, taskVars
    <3> QED BY <1>3, <3>5, <3>6, <3>7, <3>8 DEF Inside
  <2> QED BY <2>1, <2>2
<1>4. CASE Close
  <2>1. /\ closes' = closes + 1 /\ UNCHANGED <<pc, kind, opened>>
        /\ overtaken' = [t \in Tasks |-> overtaken[t] \/ Undecided(t)]
        /\ Idle
    BY <1>4 DEF Close, taskVars
  <2>2. \A t \in Tasks : pc[t] # "idle" => t \in stale'
    <3>1. ASSUME NEW t \in Tasks, pc[t] # "idle", pc[t] # "queued"
          PROVE  t \in stale'
      BY <1>4, <3>1 DEF Close, Gate!Close, HoldsTurn
    <3>2. ASSUME NEW t \in Tasks, pc[t] = "queued" PROVE t \in stale'
      BY <1>4, <3>2, GateMembers DEF Close, Gate!Close, HoldsTurn, InLine
    <3> QED BY <3>1, <3>2
  <2>3. \A t \in Tasks :
          pc[t] \in {"tracing", "decode"} /\ kind[t] = "write" => ~Undecided(t)
    BY <2>1 DEF Undecided, Idle
  <2>4. \A t \in Tasks : Undecided(t) => pc[t] # "idle"
    BY DEF Undecided
  <2>5. \A t \in Tasks : pc[t] # "begin"
    BY <2>1 DEF Idle
  <2> QED BY <2>1, <2>2, <2>3, <2>4, <2>5
<1>5. CASE Outside
  BY <1>5, OutsideSteps DEF gateVars, taskVars, historyVars
<1>6. CASE UNCHANGED vars
  BY <1>6 DEF vars, gateVars, clientVars, taskVars, historyVars
<1> QED
  BY <1>1, <1>2, <1>3, <1>4, <1>5, <1>6
     DEF Next, RunsOn, Resumes, Inside, Outside
------------------------------------------------------------------------------
(* Who retires the transport has earned the outcome it stores, if that is  *)
(* a failure that was classified.                                          *)
LEMMA RetireOutcomes ==
  ASSUME TypeOK, Settled, Earned,
         NEW t \in Tasks, NEW o \in Outcomes \ {"done", "internal"},
         RetireThen(t, o),
         UNCHANGED cut, sent'[t] \in BOOLEAN,
         \A u \in Tasks \ {t} : sent'[u] = sent[u],
         StateChanging(t) /\ sent'[t] /\ ~cut[t]
           => o \in {"outcomeUnknown", "sent"},
         o = "outcomeUnknown" => StateChanging(t) /\ sent'[t],
         o = "closed" => opened[t] < closes
  PROVE  Settled' /\ Earned'
<1>1. /\ pc \in [Tasks -> Places] /\ outcome \in [Tasks -> Outcomes]
  BY DEF TypeOK
<1>2. /\ outcome' = [outcome EXCEPT ![t] = o]
      /\ \/ pc' = [pc EXCEPT ![t] = "cleanup"]
         \/ o = "sent" /\ pc' = [pc EXCEPT ![t] = "sent"]
         \/ o # "sent" /\ pc' = [pc EXCEPT ![t] = "leave"]
      /\ UNCHANGED <<kind, overtaken, opened, closes>>
  BY DEF RetireThen, Goto
<1>3. Settled'
  BY <1>1, <1>2 DEF Settled, StateChanging, Definitive
<1>4. Earned'
  BY <1>1, <1>2 DEF Earned, StateChanging
<1> QED BY <1>3, <1>4

(* What a failure tells the caller (_classify_exchange_failure() and the   *)
(* close that wins over it): the unknown outcome of a state-changing       *)
(* request that may have left, and of no other; the close, only of a task  *)
(* that close() marked.                                                    *)
LEMMA FailOutcomes ==
  ASSUME TypeOK, HoldsTurn, Standing, Overtaking, Settled, Earned,
         NEW t \in Tasks, NEW f \in Failures, NEW a \in BOOLEAN,
         Fail(t, f, a),
         pc[t] \in Connecting \union Answering \union {"send"},
         a => sent[t],
         ~a => ~sent[t],
         f = "internal" => ~Current(t),
         f = "closed" => opened[t] < closes
  PROVE  Settled' /\ Earned'
<1> DEFINE final == IF Current(t) THEN f ELSE "closed"
           changes == kind[t] = "reset" \/ activeSC
           told == Classify(final, changes, a)
<1>1. RetireThen(t, told) /\ UNCHANGED <<sent, cut>>
  BY DEF Fail
<1>2. changes <=> StateChanging(t)
  BY DEF Standing, Stands, StateChanging
<1>3. final \in Failures \ {"internal"}
  BY DEF Failures
<1>4. final = "closed" => opened[t] < closes
  <2>1. pc[t] \in InTurn
    BY DEF Connecting, Answering, InTurn, Places, Running, Awaiting
  <2>2. ~Current(t) => t \in stale
    BY <2>1 DEF Current, Gate!IsCurrent, HoldsTurn
  <2> QED BY <2>2 DEF Overtaking
<1>5. told \in Outcomes \ {"done", "internal"}
  BY <1>3 DEF Classify, Outcomes, Failures
<1>6. told = "outcomeUnknown" => changes /\ a
  BY <1>3 DEF Classify, Failures
<1>7. changes /\ a => told = "outcomeUnknown"
  BY <1>3 DEF Classify
<1>8. told = "closed" => opened[t] < closes
  BY <1>4 DEF Classify
<1>9. sent'[t] \in BOOLEAN /\ sent'[t] = sent[t]
  BY <1>1 DEF TypeOK
<1> HIDE DEF told, changes
<1> QED BY <1>1, <1>2, <1>5, <1>6, <1>7, <1>8, <1>9, RetireOutcomes

(* What a failed connection tells: the request did not leave, so nothing   *)
(* is unknown.                                                             *)
LEMMA FailConnectOutcomes ==
  ASSUME TypeOK, HoldsTurn, Standing, Overtaking, Settled, Earned,
         NEW t \in Tasks, NEW f \in Failures \ {"internal"},
         FailConnect(t, f), pc[t] \in Connecting,
         f = "closed" => opened[t] < closes
  PROVE  Settled' /\ Earned'
<1>1. CASE kind[t] = "connect"
  <2>1. /\ outcome' = [outcome EXCEPT ![t] = f]
        /\ pc' = [pc EXCEPT ![t] = "leave"]
        /\ UNCHANGED <<kind, sent, cut, overtaken, opened, closes>>
    BY <1>1 DEF FailConnect, Ends, Goto, clientVars, historyVars
  <2>3. pc \in [Tasks -> Places] /\ outcome \in [Tasks -> Outcomes]
    BY DEF TypeOK
  <2> QED
    BY <1>1, <2>1, <2>3
       DEF Settled, Earned, StateChanging, Failures
<1>2. CASE kind[t] # "connect"
  <2>1. ~sent[t] /\ Fail(t, f, FALSE)
    BY <1>2 DEF FailConnect, Standing, Stands, BeforeSend
  <2> QED BY <2>1, FailOutcomes
<1> QED BY <1>1, <1>2

(* Every step that ends an operation earns the outcome it reports.         *)
LEMMA OutcomesStep ==
  ASSUME TypeOK, HoldsTurn, Standing, Overtaking, Transports,
         Settled, Earned, [Next]_vars
  PROVE  Settled' /\ Earned'
<1>0. /\ pc \in [Tasks -> Places] /\ kind \in [Tasks -> AllKinds]
      /\ overtaken \in [Tasks -> BOOLEAN] /\ cut \in [Tasks -> BOOLEAN]
      /\ sent \in [Tasks -> BOOLEAN] /\ opened \in [Tasks -> 0..MaxCloses]
      /\ outcome \in [Tasks -> Outcomes] /\ closes \in Nat
      /\ MaxCloses \in Nat
      /\ answer \in [Tasks -> AllCodes]
  BY SetupFacts DEF TypeOK
<1>a. ASSUME NEW t \in Tasks, pc[t] \in InTurn
      PROVE  /\ Current(t) => ~overtaken[t]
             /\ ~Current(t) => t \in stale /\ opened[t] < closes
  BY <1>a DEF Current, Gate!IsCurrent, HoldsTurn, Overtaking, InTurn
<1> USE <1>0
        DEF Settled, Earned, StateChanging, Definitive, InTurn, Places,
            Running, Awaiting, Goto, Ends, taskVars, clientVars,
            historyVars
<1>b. ASSUME NEW t \in Tasks, NEW p \in Places \ {"idle", "leave", "cleanup"},
             Goto(t, p),
             UNCHANGED <<kind, outcome, cut, overtaken, opened, closes>>,
             \A u \in Tasks : sent[u] => sent'[u],
             \A u \in Tasks \ {t} : sent'[u] = sent[u]
      PROVE  Settled' /\ Earned'
  BY <1>b
<1>1. ASSUME NEW t \in Tasks, NEW k \in Kinds,
             StartFree(t, k) \/ StartQueued(t, k)
      PROVE  Settled' /\ Earned'
  <2>1. \E p \in {"begin", "queued"} : pc' = [pc EXCEPT ![t] = p]
    BY <1>1 DEF StartFree, StartQueued
  <2>2. Start(t, k)
    BY <1>1 DEF StartFree, StartQueued
  <2> QED BY <2>1, <2>2 DEF Start
<1>2. ASSUME NEW t \in Tasks, TurnGranted(t)
      PROVE  Settled' /\ Earned'
  BY <1>2, <1>b DEF TurnGranted
<1>3. ASSUME NEW t \in Tasks, TurnRefused(t) \/ CancelledInLine(t)
      PROVE  Settled' /\ Earned'
  <2>1. /\ pc[t] = "queued" /\ pc' = [pc EXCEPT ![t] = "idle"]
        /\ UNCHANGED <<kind, sent, cut, overtaken, opened, closes>>
        /\ \/ outcome' = [outcome EXCEPT ![t] = "closed"] /\ t \in stale
           \/ outcome' = [outcome EXCEPT ![t] = "cancelled"]
    BY <1>3 DEF TurnRefused, CancelledInLine, Suspended, Gate!Refuse
  <2>2. ~sent[t] /\ (t \in stale => opened[t] < closes)
    BY <2>1 DEF Standing, Stands, BeforeSend, Overtaking
  <2> QED BY <2>1, <2>2
<1>4. ASSUME NEW t \in Tasks, Leave(t)
      PROVE  Settled' /\ Earned'
  BY <1>4 DEF Leave
<1>5. ASSUME NEW t \in Tasks, Begin(t) PROVE Settled' /\ Earned'
  <2>1. /\ pc[t] = "begin"
        /\ UNCHANGED <<kind, sent, cut, overtaken, opened, closes>>
    BY <1>5 DEF Begin
  <2>2. \/ kind[t] = "connect" /\ Ends(t, "done")
        \/ /\ \E p \in {"resolving", "send"} : Goto(t, p)
           /\ UNCHANGED outcome
    BY <1>5 DEF Begin
  <2>3. ~overtaken[t]
    BY <2>1 DEF Overtaking
  <2>4. CASE kind[t] = "connect" /\ Ends(t, "done")
    BY <2>1, <2>3, <2>4
  <2>5. ASSUME NEW p \in {"resolving", "send"}, Goto(t, p),
               UNCHANGED outcome
        PROVE  Settled' /\ Earned'
    BY <2>1, <2>5
  <2> QED BY <2>2, <2>4, <2>5
<1>6. ASSUME NEW t \in Tasks, Resolved(t) \/ DiscardEnds(t) \/ Traced(t)
      PROVE  Settled' /\ Earned'
  <2>1. /\ \E p \in {"opening", "discarded", "decode"} : Goto(t, p)
        /\ UNCHANGED <<kind, outcome, sent, cut, overtaken, opened, closes>>
    BY <1>6 DEF Resolved, DiscardEnds, Traced
  <2> QED BY <2>1
<1>7. ASSUME NEW t \in Tasks, ConnectFails(t) PROVE Settled' /\ Earned'
  <2>1. \E f \in Failures \ {"internal"} :
          FailConnect(t, f) /\ (f = "closed" => ~Current(t))
    BY <1>7 DEF ConnectFails, Interruptions, Failures
  <2>2. pc[t] \in Connecting
    BY <1>7 DEF ConnectFails, Suspended, Connecting
  <2> QED BY <2>1, <2>2, <1>a, FailConnectOutcomes DEF Connecting
<1>8. ASSUME NEW t \in Tasks, NEW c \in Conns, Adopts(t, c)
      PROVE  Settled' /\ Earned'
  <2>1. /\ pc[t] = "opening" /\ Current(t)
        /\ UNCHANGED <<kind, sent, cut, overtaken, opened, closes>>
    BY <1>8 DEF Adopts, Opens, Suspended
  <2>2. \/ kind[t] = "connect" /\ Ends(t, "done")
        \/ Goto(t, "send") /\ UNCHANGED outcome
    BY <1>8 DEF Adopts
  <2> QED BY <2>1, <2>2, <1>a
<1>9. ASSUME NEW t \in Tasks, NEW c \in Conns, Discards(t, c)
      PROVE  Settled' /\ Earned'
  <2>1. \E p \in {"discarding", "discarded"} : pc' = [pc EXCEPT ![t] = p]
    BY <1>9 DEF Discards
  <2>2. \E f \in {"closed", "timeout", "transport"} :
          /\ outcome' = [outcome EXCEPT ![t] = f]
          /\ f = "closed" => ~Current(t)
    BY <1>9 DEF Discards
  <2>3. /\ pc[t] = "opening"
        /\ UNCHANGED <<kind, sent, cut, overtaken, opened, closes>>
    BY <1>9 DEF Discards, Opens, Suspended
  <2>4. ~Current(t) => opened[t] < closes
    BY <2>3, <1>a
  <2> QED BY <2>1, <2>2, <2>3, <2>4
<1>10. ASSUME NEW t \in Tasks, Discarded(t) PROVE Settled' /\ Earned'
  <2>1. /\ pc[t] = "discarded" /\ FailConnect(t, outcome[t])
        /\ outcome[t] \in {"closed", "timeout", "transport"}
    BY <1>10 DEF Discarded, Standing, Stands
  <2>3. outcome[t] \in Failures \ {"internal"} /\ pc[t] \in Connecting
    BY <2>1 DEF Failures, Connecting
  <2> QED BY <2>1, <2>3, FailConnectOutcomes
<1>11. ASSUME NEW t \in Tasks, Send(t) PROVE Settled' /\ Earned'
  <2>1. sent' = [sent EXCEPT ![t] = TRUE] /\ pc[t] = "send"
    BY <1>11 DEF Send
  <2>2. CASE Transport = "udp" /\ kind[t] = "reset"
    <3>1. RetireThen(t, "sent") /\ UNCHANGED cut
      BY <1>11, <2>2 DEF Send
    <3>2. "sent" \in Outcomes \ {"done", "internal"}
      BY DEF Outcomes, Failures
    <3> QED BY <2>1, <3>1, <3>2, RetireOutcomes
  <2>3. CASE ~(Transport = "udp" /\ kind[t] = "reset")
    <3>1. /\ \E p \in {"draining", "receiving"} : Goto(t, p)
          /\ UNCHANGED <<kind, outcome, cut, overtaken, opened, closes>>
      BY <1>11, <2>3 DEF Send
    <3> QED BY <2>1, <3>1
  <2> QED BY <2>2, <2>3
<1>12. ASSUME NEW t \in Tasks, Drained(t) PROVE Settled' /\ Earned'
  <2>1. /\ pc[t] = "draining" /\ sent[t]
        /\ pc[t] \in Answering
    BY <1>12 DEF Drained, Suspended, Standing, Stands, AfterSend, Answering
  <2>2. CASE kind[t] = "reset" /\ Current(t)
    <3>1. RetireThen(t, "sent") /\ UNCHANGED <<sent, cut>>
      BY <1>12, <2>2 DEF Drained
    <3>2. "sent" \in Outcomes \ {"done", "internal"}
      BY DEF Outcomes, Failures
    <3> QED BY <2>1, <3>1, <3>2, RetireOutcomes
  <2>3. CASE kind[t] = "reset" /\ ~Current(t)
    <3>1. Fail(t, "closed", TRUE) /\ "closed" \in Failures
      BY <1>12, <2>3 DEF Drained, Failures
    <3> QED BY <2>1, <2>3, <3>1, <1>a, FailOutcomes
  <2>4. CASE kind[t] # "reset" /\ conn # local[t]
    <3>1. Fail(t, "internal", TRUE) /\ "internal" \in Failures
      BY <1>12, <2>4 DEF Drained, Failures
    <3>2. t \in stale /\ ~Current(t)
      BY <2>1, <2>4 DEF Transports, Current, Gate!IsCurrent
    <3> QED BY <2>1, <3>1, <3>2, FailOutcomes
  <2>5. CASE kind[t] # "reset" /\ conn = local[t]
    BY <1>12, <2>1, <2>5 DEF Drained
  <2> QED BY <2>2, <2>3, <2>4, <2>5
<1>13. ASSUME NEW t \in Tasks, NEW f, Accept(t, f), pc[t] = "receiving"
       PROVE  Settled' /\ Earned'
  BY <1>13 DEF Accept
<1>14. ASSUME NEW t \in Tasks, ReadFrame(t) \/ WaiterResumes(t)
       PROVE  Settled' /\ Earned'
  <2>1. /\ pc[t] = "receiving" /\ sent[t]
        /\ pc[t] \in Answering
    BY <1>14
       DEF ReadFrame, WaiterResumes, Suspended, Standing, Stands, AfterSend,
           Answering
  <2>2. \/ \E f : Accept(t, f)
        \/ \E f \in Failures : /\ Fail(t, f, TRUE)
                               /\ f # "internal"
                               /\ f = "closed" => opened[t] < closes
        \/ UNCHANGED <<clientVars, taskVars, historyVars>>
    <3>1. CASE ReadFrame(t)
      BY <2>1, <3>1, <1>a DEF ReadFrame, Failures
    <3>2. CASE WaiterResumes(t)
      <4>1. /\ waiter[local[t]].state \in WaiterStates \ {"none", "pending"}
            /\ waiter[local[t]].state = "closed" => opened[t] < closes
        BY <3>2, <2>1
           DEF WaiterResumes, Transports, Awaits, TypeOK, Waiters, Overtaking
      <4>2. \/ waiter[local[t]].state = "answered"
            \/ waiter[local[t]].state \in Failures \ {"internal"}
        BY <4>1 DEF WaiterStates, Failures
      <4>3. "closed" \in Failures
        BY DEF Failures
      <4>4. ~Current(t) => opened[t] < closes
        BY <2>1, <1>a
      <4> QED BY <3>2, <4>1, <4>2, <4>3, <4>4 DEF WaiterResumes
    <3> QED BY <1>14, <3>1, <3>2
  <2>3. CASE UNCHANGED <<clientVars, taskVars, historyVars>>
    BY <2>3
  <2>4. ASSUME NEW f \in Failures, Fail(t, f, TRUE), f # "internal",
               f = "closed" => opened[t] < closes
        PROVE  Settled' /\ Earned'
    BY <2>1, <2>4, FailOutcomes
  <2> QED BY <2>1, <2>2, <2>3, <2>4, <1>13
<1>15. ASSUME NEW t \in Tasks, ExchangeFails(t) PROVE Settled' /\ Earned'
  <2>1. \E f \in Failures : /\ Fail(t, f, TRUE)
                            /\ f # "internal" /\ f # "closed"
    BY <1>15 DEF ExchangeFails, Interruptions, Failures
  <2>2. pc[t] \in Answering /\ sent[t]
    BY <1>15
       DEF ExchangeFails, Suspended, Standing, Stands, AfterSend, Answering
  <2> QED BY <2>1, <2>2, FailOutcomes
<1>16. ASSUME NEW t \in Tasks, CleanupEnds(t) PROVE Settled' /\ Earned'
  BY <1>16 DEF CleanupEnds, Suspended
<1>17. ASSUME NEW t \in Tasks, Cut(t) PROVE Settled' /\ Earned'
  BY <1>17 DEF Cut, Suspended
<1>18. ASSUME NEW t \in Tasks, Sent(t) PROVE Settled' /\ Earned'
  <2>1. /\ pc[t] = "sent" \/ pc[t] = "tracing"
        /\ kind[t] = "reset" /\ sent[t]
        /\ UNCHANGED <<kind, sent, cut, overtaken, opened, closes>>
    BY <1>18 DEF Sent, Suspended, Standing, Stands, AfterSend
  <2>2. \/ Goto(t, "tracing") /\ UNCHANGED outcome
        \/ Ends(t, "done") /\ Current(t)
        \/ Ends(t, "outcomeUnknown")
    BY <1>18 DEF Sent, Classify
  <2> QED BY <2>1, <2>2, <1>a
<1>19. ASSUME NEW t \in Tasks, Decode(t) PROVE Settled' /\ Earned'
  <2>1. /\ pc[t] = "decode" /\ sent[t] /\ kind[t] \in {"read", "write"}
    BY <1>19 DEF Decode, Standing, Stands, AfterSend, AllKinds
  <2>2. CASE kind[t] = "write" /\ answer[t] = "junk"
    <3>1. RetireThen(t, "outcomeUnknown") /\ UNCHANGED <<sent, cut>>
      BY <1>19, <2>2 DEF Decode
    <3>2. "outcomeUnknown" \in Outcomes \ {"done", "internal"}
      BY DEF Outcomes, Failures
    <3> QED BY <2>1, <2>2, <3>1, <3>2, RetireOutcomes
  <2>3. CASE ~(kind[t] = "write" /\ answer[t] = "junk")
    <3>1. /\ Ends(t, Decoded(t))
          /\ UNCHANGED <<kind, sent, cut, overtaken, opened, closes>>
      BY <1>19, <2>3 DEF Decode
    <3>2. /\ Decoded(t) \in {"endCode", "closed", "protocol", "done"}
          /\ kind[t] = "write" => Decoded(t) \in {"endCode", "done"}
          /\ Decoded(t) = "closed" => opened[t] < closes
          /\ Decoded(t) = "done" => ~overtaken[t]
      BY <2>1, <2>3, <1>a DEF Decoded, Overtaking
    <3> QED BY <2>1, <3>1, <3>2
  <2> QED BY <2>2, <2>3
<1>20. CASE Close
  <2>1. /\ closes' = closes + 1
        /\ UNCHANGED <<kind, pc, outcome, sent, cut, opened>>
        /\ overtaken' = [t \in Tasks |-> overtaken[t] \/ Undecided(t)]
    BY <1>20 DEF Close
  <2>2. \A t \in Tasks : opened[t] \in Nat
    BY <1>0
  <2> QED BY <2>1, <2>2 DEF Undecided
<1>21. CASE Outside
  BY <1>21, OutsideSteps
<1>22. CASE UNCHANGED vars
  BY <1>22 DEF vars
<1> QED
  BY <1>1, <1>2, <1>3, <1>4, <1>5, <1>6, <1>7, <1>8, <1>9, <1>10, <1>11,
     <1>12, <1>14, <1>15, <1>16, <1>17, <1>18, <1>19, <1>20, <1>21, <1>22
     DEF Next, RunsOn, Resumes, Outside
------------------------------------------------------------------------------
(* What a step inside a turn does to the connections: it retires the       *)
(* client's, or leaves them as they are, or takes a frame, or sends one;   *)
(* or it opens one.                                                        *)
Retires(t) == \E o : RetireThen(t, o)

Passes(t) ==
  /\ UNCHANGED <<conn, connState, inbox, unanswered, waiter, local, connGen,
                 matched>>
  /\ pc[t] # "receiving"
  /\ pc'[t] \in Connecting => conn = NoConn
  /\ pc'[t] = "send" => conn # NoConn
  /\ pc'[t] # "draining"
  /\ pc'[t] = "receiving" => conn = local[t]
  /\ pc'[t] = "receiving" <=> pc[t] = "draining"

Reads(t) ==
  /\ Transport = "tcp"
  /\ inbox[local[t]] # <<>>
  /\ inbox' = [inbox EXCEPT ![local[t]] = Tail(@)]
  /\ UNCHANGED waiter
  /\ \/ pc'[t] = "receiving" /\ UNCHANGED matched
     \/ /\ pc'[t] \in {"tracing", "decode"}
        /\ Matches(serial[t], Head(inbox[local[t]]))
        /\ matched' = [matched EXCEPT ![t] = Head(inbox[local[t]]).req]

Gets(t) ==
  /\ Transport = "udp"
  /\ waiter[local[t]].state = "answered"
  /\ waiter' = Forget(local[t])
  /\ UNCHANGED inbox
  /\ pc'[t] \in {"tracing", "decode"}
  /\ matched' = [matched EXCEPT ![t] = waiter[local[t]].frame.req]

Takes(t) ==
  /\ pc[t] = "receiving"
  /\ UNCHANGED <<conn, connState, unanswered, local, connGen>>
  /\ Reads(t) \/ Gets(t)

Sends(t) ==
  /\ pc[t] = "send"
  /\ unanswered' = [unanswered EXCEPT ![conn] =
       @ \union {[req |-> req[t], serial |-> serial[t]]}]
  /\ waiter' = IF Transport = "tcp" THEN waiter
               ELSE [waiter EXCEPT ![conn] = NewWaiter(t)]
  /\ local' = [local EXCEPT ![t] = conn]
  /\ pc'[t] = IF Transport = "tcp" THEN "draining" ELSE "receiving"
  /\ UNCHANGED <<conn, connState, inbox, connGen, matched>>

(* The steps of a turn, sorted by what they do to the connections.         *)
LEMMA InsideConns ==
  ASSUME TypeOK, Transports, NEW t \in Tasks, Inside(t)
  PROVE  \/ Retires(t) \/ Passes(t) \/ Takes(t) \/ Sends(t)
         \/ \E c \in Conns : Adopts(t, c) \/ Discards(t, c)
<1>0. pc \in [Tasks -> Places]
  BY DEF TypeOK
<1> USE <1>0 DEF netVars, clientVars, taskVars, historyVars, Goto, Connecting
<1>a. ASSUME NEW f, NEW a, Fail(t, f, a) PROVE Retires(t)
  BY <1>a DEF Fail, Retires
<1>b. ASSUME NEW f, FailConnect(t, f), pc[t] \in Connecting
      PROVE  Retires(t) \/ Passes(t)
  BY <1>a, <1>b DEF FailConnect, Passes, Ends
<1>1. CASE Begin(t)
  BY <1>1 DEF Begin, Passes, Ends
<1>2. CASE Discarded(t) \/ ConnectFails(t)
  BY <1>2, <1>b DEF Discarded, ConnectFails, Suspended
<1>3. CASE Send(t)
  BY <1>3 DEF Send, Sends, Retires
<1>4. CASE \/ Resolved(t) \/ DiscardEnds(t) \/ CleanupEnds(t) \/ Traced(t)
           \/ Cut(t) \/ Sent(t)
  BY <1>4
     DEF Resolved, DiscardEnds, CleanupEnds, Traced, Cut, Sent, Suspended,
         Passes, Ends, Transports
<1>5. CASE Decode(t)
  BY <1>5 DEF Decode, Retires, Passes, Ends
<1>6. CASE Drained(t)
  BY <1>6, <1>a
     DEF Drained, Suspended, Retires, Passes, Transports, Answering
<1>7. CASE ReadFrame(t)
  <2>1. pc[t] = "receiving" /\ Transport = "tcp" /\ inbox[local[t]] # <<>>
    BY <1>7 DEF ReadFrame, Suspended
  <2> DEFINE frame == Head(inbox[local[t]])
  <2>2. \/ \E f : Fail(t, f, TRUE)
        \/ /\ Matches(serial[t], frame) /\ Accept(t, frame)
           /\ inbox' = [inbox EXCEPT ![local[t]] = Tail(@)]
           /\ UNCHANGED waiter
        \/ /\ inbox' = [inbox EXCEPT ![local[t]] = Tail(@)]
           /\ UNCHANGED <<connState, unanswered, waiter, clientVars,
                          taskVars, historyVars>>
    BY <1>7 DEF ReadFrame
  <2>3. ASSUME Matches(serial[t], frame), Accept(t, frame),
               inbox' = [inbox EXCEPT ![local[t]] = Tail(@)],
               UNCHANGED waiter
        PROVE  Takes(t)
    BY <2>1, <2>3 DEF Accept, Takes, Reads
  <2> QED BY <2>1, <2>2, <2>3, <1>a DEF Takes, Reads
<1>8. CASE WaiterResumes(t)
  <2>1. pc[t] = "receiving" /\ Transport = "udp"
    BY <1>8 DEF WaiterResumes, Suspended
  <2>2. \/ \E f : Fail(t, f, TRUE)
        \/ /\ waiter[local[t]].state = "answered"
           /\ Accept(t, waiter[local[t]].frame)
           /\ waiter' = Forget(local[t]) /\ UNCHANGED inbox
    BY <1>8 DEF WaiterResumes
  <2> QED BY <2>1, <2>2, <1>a DEF Accept, Takes, Gets
<1>9. CASE ExchangeFails(t)
  BY <1>9, <1>a DEF ExchangeFails
<1> QED
  BY <1>1, <1>2, <1>3, <1>4, <1>5, <1>6, <1>7, <1>8, <1>9 DEF Inside

(* The task in the turn keeps its transport or knows that it is lost:      *)
(* nobody else opens one, close() marks the task it takes the transport    *)
(* from, and a future that is pending is the one its task awaits.          *)
LEMMA TransportsStep ==
  ASSUME TypeOK, HoldsTurn, Transports, OneLiveConnection, [Next]_vars
  PROVE  Transports'
<1>0. UNCHANGED setup
  BY DEF Next, vars
<1>1. /\ pc \in [Tasks -> Places] /\ local \in [Tasks -> Conns \union {NoConn}]
      /\ conn \in Conns \union {NoConn} /\ NoConn \notin Conns
      /\ waiter \in [Conns -> Waiters] /\ serial \in [Tasks -> Serials]
      /\ connState \in [Conns -> {"unused", "open", "closing", "closed"}]
      /\ \A t, u \in Tasks :
           pc[t] \in InTurn /\ pc[u] \in InTurn => t = u
      /\ \A t \in Tasks : pc[t] \in InTurn <=> holder = t
      /\ NoTask \notin Tasks
      /\ Conns' = Conns /\ Transport' = Transport
      /\ Transport \in {"tcp", "udp"}
  BY <1>0, SetupFacts, SetupKept DEF TypeOK, HoldsTurn
<1> USE <1>1
        DEF Awaits, Connecting, Answering, InTurn, Places, Running, Awaiting,
            Goto
<1>2. ASSUME NEW t \in Tasks, pc[t] \in InTurn, pc[t] # "receiving",
             NEW c \in Conns, waiter[c].state = "pending"
      PROVE  FALSE
  BY <1>2 DEF Transports
<1>3. ASSUME NEW t \in Tasks, NEW p \in {"idle", "queued", "begin"},
             pc[t] \in {"idle", "queued", "leave"}, Goto(t, p),
             UNCHANGED <<conn, waiter, serial>>,
             stale' \in {stale, stale \ {t}},
             \A u \in Tasks \ {t} : local'[u] = local[u]
      PROVE  Transports'
  BY <1>3 DEF Transports
<1>4. ASSUME NEW t \in Tasks, NEW k \in Kinds,
             StartFree(t, k) \/ StartQueued(t, k)
      PROVE  Transports'
  BY <1>4, <1>3
     DEF StartFree, StartQueued, Start, Suspended, Gate!TakeFree, Gate!Join,
         netVars
<1>5. ASSUME NEW t \in Tasks,
             \/ TurnGranted(t) \/ TurnRefused(t) \/ CancelledInLine(t)
             \/ Leave(t)
      PROVE  Transports'
  BY <1>5, <1>3
     DEF TurnGranted, TurnRefused, CancelledInLine, Leave, Suspended,
         Gate!Take, Gate!Refuse, Gate!GiveUp, Gate!Release, netVars,
         clientVars
<1>6. ASSUME NEW t \in Tasks, Inside(t) PROVE Transports'
  <2>0. /\ UNCHANGED <<stale, holder>>
        /\ \A u \in Tasks \ {t} : pc'[u] = pc[u] /\ pc[u] \notin InTurn
        /\ pc[t] \in InTurn /\ pc'[t] \in InTurn
    BY <1>6, InsideSteps DEF InsideFrame, gateVars
  <2> USE <2>0
  <2>1. CASE Retires(t)
    <3>1. /\ conn' = NoConn /\ waiter' = Forget(local[t])
          /\ pc'[t] \in {"cleanup", "sent", "leave"}
      BY <2>1 DEF Retires, RetireThen, Retire
    <3>2. ASSUME NEW c \in Conns, waiter'[c].state = "pending" PROVE FALSE
      <4>1. waiter[c].state = "pending" /\ c # local[t]
        BY <3>1, <3>2 DEF Forget, NoWaiter
      <4> QED BY <4>1 DEF Transports
    <3> QED BY <3>1, <3>2 DEF Transports
  <2>2. CASE Passes(t)
    <3>1. \A c \in Conns : waiter'[c].state # "pending"
      BY <1>2, <2>2 DEF Passes
    <3>2. pc'[t] = "receiving" => Transport = "tcp" /\ local[t] # NoConn
      BY <2>2 DEF Passes, Transports
    <3>3. /\ UNCHANGED <<conn, local>> /\ pc'[t] # "draining"
          /\ pc'[t] = "receiving" => conn = local[t]
          /\ pc'[t] \in Connecting => conn = NoConn
          /\ pc'[t] = "send" => conn # NoConn
      BY <2>2 DEF Passes
    <3> QED BY <3>1, <3>2, <3>3 DEF Transports
  <2>3. CASE Takes(t)
    <3>1. /\ UNCHANGED <<conn, local>> /\ pc[t] = "receiving"
          /\ pc'[t] \in {"receiving", "tracing", "decode"}
          /\ pc'[t] = "receiving" => Transport = "tcp"
      BY <2>3 DEF Takes, Reads, Gets
    <3>2. ASSUME NEW c \in Conns, waiter'[c].state = "pending" PROVE FALSE
      <4>1. \/ Transport = "tcp" /\ waiter[c].state = "pending"
            \/ c # local[t] /\ waiter[c].state = "pending"
        BY <2>3, <3>2 DEF Takes, Reads, Gets, Forget, NoWaiter
      <4> QED BY <4>1 DEF Transports
    <3> QED BY <3>1, <3>2 DEF Transports
  <2>4. CASE Sends(t)
    <3>1. /\ pc[t] = "send" /\ UNCHANGED conn /\ conn \in Conns
          /\ local'[t] = conn
          /\ pc'[t] = IF Transport = "tcp" THEN "draining" ELSE "receiving"
      BY <2>4 DEF Sends, Transports
    <3>2. serial'[t] = serial[t]
      BY <1>6, <3>1
         DEF Inside, Begin, Discarded, Send, Sent, Decode, Resolved,
             ConnectFails, Adopts, Discards, Opens, DiscardEnds, Drained,
             ReadFrame, WaiterResumes, ExchangeFails, CleanupEnds, Traced,
             Cut, Suspended, RetireThen
    <3>3. CASE Transport = "tcp"
      <4>1. \A c \in Conns : waiter'[c].state # "pending"
        BY <1>2, <2>4, <3>1, <3>3 DEF Sends
      <4> QED BY <3>1, <3>3, <4>1 DEF Transports
    <3>4. CASE Transport = "udp"
      <4>1. waiter' = [waiter EXCEPT ![conn] = NewWaiter(t)]
        BY <2>4, <3>4 DEF Sends
      <4>2. /\ waiter'[conn].state = "pending"
            /\ waiter'[conn].expected = serial[t]
        BY <3>1, <4>1 DEF NewWaiter, NoWaiter
      <4>3. \A c \in Conns : waiter'[c].state = "pending" => c = conn
        BY <1>2, <3>1, <4>1
      <4> QED BY <3>1, <3>2, <3>4, <4>2, <4>3 DEF Transports
    <3> QED BY <3>3, <3>4
  <2>5. ASSUME NEW c \in Conns, Adopts(t, c) \/ Discards(t, c)
        PROVE  Transports'
    <3>1. /\ pc[t] = "opening" /\ UNCHANGED waiter
          /\ \/ conn' = c /\ pc'[t] \in {"leave", "send"}
             \/ UNCHANGED conn /\ pc'[t] \in {"discarding", "discarded"}
      BY <2>5 DEF Adopts, Discards, Opens, Suspended, Ends
    <3>2. conn = NoConn /\ \A d \in Conns : waiter'[d].state # "pending"
      BY <1>2, <3>1 DEF Transports
    <3> QED BY <3>1, <3>2 DEF Transports
  <2> QED BY <1>6, <2>1, <2>2, <2>3, <2>4, <2>5, InsideConns
<1>7. CASE Close
  <2>1. /\ conn' = NoConn /\ UNCHANGED <<pc, local, serial>> /\ Idle
        /\ waiter' = FailPending(conn, "closed")
        /\ \A t \in Tasks : holder = t => t \in stale'
    BY <1>7 DEF Close, Gate!Close, Retire, taskVars
  <2>2. \A c \in Conns :
          /\ waiter'[c].state # "pending"
          /\ waiter'[c].expected = waiter[c].expected
          /\ waiter'[c].state \in {waiter[c].state, "closed"}
    <3>1. ASSUME NEW c \in Conns
          PROVE  /\ waiter[c].state = "pending" => c = conn
                 /\ [waiter[c] EXCEPT !.state = "closed"].state = "closed"
                 /\ [waiter[c] EXCEPT !.state = "closed"].expected
                      = waiter[c].expected
      BY DEF Transports, Waiters
    <3> QED BY <2>1, <3>1 DEF FailPending
  <2>3. \A t \in Tasks : pc[t] \in InTurn => t \in stale'
    BY <2>1
  <2>4. \A t \in Tasks : pc[t] # "send"
    BY <2>1 DEF Idle
  <2> QED BY <2>1, <2>2, <2>3, <2>4 DEF Transports
<1>8. ASSUME NEW c \in Conns, DatagramReceived(c) PROVE Transports'
  <2>1. UNCHANGED <<conn, pc, local, serial, stale>>
    BY <1>8 DEF DatagramReceived, gateVars, clientVars, taskVars
  <2>2. \A d \in Conns :
          /\ waiter'[d].expected = waiter[d].expected
          /\ waiter'[d].state \in {waiter[d].state, "protocol", "answered"}
    <3>1. CASE UNCHANGED waiter
      BY <3>1
    <3>2. ASSUME NEW v \in {"protocol", "answered"}, NEW f,
                 waiter' = [waiter EXCEPT
                   ![c] = [@ EXCEPT !.state = v, !.frame = f]]
          PROVE  \A d \in Conns :
                   /\ waiter'[d].expected = waiter[d].expected
                   /\ waiter'[d].state \in {waiter[d].state, v}
      BY <3>2 DEF Waiters
    <3>3. \/ UNCHANGED waiter
          \/ \E v \in {"protocol", "answered"} : \E f :
               waiter' = [waiter EXCEPT
                            ![c] = [@ EXCEPT !.state = v, !.frame = f]]
      BY <1>8 DEF DatagramReceived
    <3> QED BY <3>1, <3>2, <3>3
  <2> QED BY <2>1, <2>2 DEF Transports
<1>9. ASSUME NEW c \in Conns, TransportLost(c) PROVE Transports'
  <2>1. /\ UNCHANGED <<pc, local, serial, stale>> /\ Transport = "udp"
        /\ waiter' = FailPending(c, LossError(c))
        /\ conn' = IF conn = c THEN NoConn ELSE conn
        /\ Idle
    BY <1>9 DEF TransportLost, gateVars, taskVars
  <2>2. ASSUME NEW d \in Conns
        PROVE  /\ waiter'[d].state = "pending" => conn = d /\ d # c
               /\ waiter'[d].state = "pending" => waiter[d].state = "pending"
               /\ waiter'[d].expected = waiter[d].expected
               /\ waiter'[d].state \in {waiter[d].state, "transport"}
    <3>1. /\ \A e : [waiter[d] EXCEPT !.state = e].state = e
          /\ \A e : [waiter[d] EXCEPT !.state = e].expected
                      = waiter[d].expected
      BY DEF Waiters
    <3>2. waiter[d].state = "pending" => conn = d /\ connState[d] = "open"
      BY DEF Transports, OneLiveConnection
    <3> QED BY <2>1, <3>1, <3>2 DEF FailPending, LossError
  <2>3. \A t \in Tasks : pc[t] \notin {"send", "draining"}
    BY <2>1 DEF Idle, Transports
  <2> QED BY <2>1, <2>2, <2>3 DEF Transports
<1>10. ASSUME NEW c \in Conns, PlcAnswers(c) \/ ExtraArrives(c)
       PROVE  Transports'
  BY <1>10
     DEF PlcAnswers, ExtraArrives, Transports, gateVars, clientVars, taskVars
<1>11. CASE UNCHANGED vars
  BY <1>11 DEF vars, Transports, gateVars, netVars, clientVars, taskVars
<1> QED
  BY <1>4, <1>5, <1>6, <1>7, <1>8, <1>9, <1>10, <1>11
     DEF Next, RunsOn, Resumes, Inside

(* The connection that is opened is the first that never was.              *)
LEMMA NextConn ==
  ASSUME TypeOK, InOrder, NEW t \in Tasks, NEW c \in Conns, Opens(t, c)
  PROVE  /\ connState[c] = "unused"
         /\ {d \in Conns : connState[d] # "unused"} = 1..(c - 1)
<1> DEFINE old == {d \in Conns : connState[d] # "unused"}
<1>1. PICK n \in 0..MaxOps : old = 1..n
  BY DEF InOrder
<1>2. n \in Int /\ 1 \in Int /\ n \in Nat
  BY SetupFacts DEF TypeOK
<1>3. Cardinality(1..n) = n
  <2>1. Cardinality(1..n) = IF 1 > n THEN 0 ELSE n - 1 + 1
    BY <1>2, FS_Interval
  <2> QED BY <1>2, <2>1
<1>4. c = Cardinality(old) + 1
  BY DEF Opens
<1>5. c = n + 1 /\ c - 1 = n
  <2> HIDE DEF old
  <2> QED BY <1>1, <1>2, <1>3, <1>4
<1>6. c \notin old
  BY <1>1, <1>2, <1>5
<1> QED BY <1>1, <1>5, <1>6

(* Every step keeps the order of the connections and the emptiness of      *)
(* unopened ones.                                                          *)
LEMMA OrderStep ==
  ASSUME TypeOK, HoldsTurn, Transports, InOrder, Unopened,
         OneLiveConnection, [Next]_vars
  PROVE  InOrder' /\ Unopened'
<1>0. UNCHANGED setup
  BY DEF Next, vars
<1>1. /\ conn \in Conns \union {NoConn} /\ NoConn \notin Conns
      /\ connState \in [Conns -> {"unused", "open", "closing", "closed"}]
      /\ inbox \in [Conns -> Seq(Frames)]
      /\ unanswered \in [Conns -> SUBSET Requests]
      /\ Conns' = Conns /\ MaxOps' = MaxOps /\ MaxOps \in Nat
      /\ Transport \in {"tcp", "udp"}
  BY <1>0, SetupFacts, SetupKept DEF TypeOK
<1> USE <1>1
(* A step that opens no connection, and puts no message on one that was    *)
(* never opened.                                                           *)
<1>2. ASSUME \A d \in Conns :
               /\ connState'[d] = "unused" <=> connState[d] = "unused"
               /\ connState[d] = "unused" =>
                    /\ inbox[d] = <<>> => inbox'[d] = <<>>
                    /\ unanswered[d] = {} => unanswered'[d] = {}
      PROVE  InOrder' /\ Unopened'
  <2>1. {d \in Conns : connState'[d] # "unused"}
          = {d \in Conns : connState[d] # "unused"}
    BY <1>2
  <2> QED BY <1>2, <2>1 DEF InOrder, Unopened
<1>3. ASSUME Retire PROVE InOrder' /\ Unopened'
  <2>1. conn \in Conns => connState[conn] = "open"
    BY DEF OneLiveConnection
  <2> QED BY <1>2, <1>3, <2>1 DEF Retire
<1>4. ASSUME UNCHANGED netVars PROVE InOrder' /\ Unopened'
  BY <1>2, <1>4 DEF netVars
<1>5. ASSUME NEW t \in Tasks,
             \/ \E k \in Kinds : StartFree(t, k) \/ StartQueued(t, k)
             \/ TurnGranted(t) \/ TurnRefused(t) \/ CancelledInLine(t)
             \/ Leave(t)
      PROVE  InOrder' /\ Unopened'
  BY <1>4, <1>5
     DEF StartFree, StartQueued, Start, TurnGranted, TurnRefused,
         CancelledInLine, Leave
<1>6. ASSUME NEW t \in Tasks, Inside(t) PROVE InOrder' /\ Unopened'
  <2>1. CASE Retires(t)
    BY <1>3, <2>1 DEF Retires, RetireThen
  <2>2. CASE Passes(t)
    BY <1>2, <2>2 DEF Passes
  <2>3. CASE Takes(t)
    <3>1. UNCHANGED <<connState, unanswered>>
      BY <2>3 DEF Takes
    <3>2. \A d \in Conns : inbox[d] = <<>> => inbox'[d] = <<>>
      BY <2>3 DEF Takes, Reads, Gets
    <3> QED BY <1>2, <3>1, <3>2
  <2>4. CASE Sends(t)
    <3>1. UNCHANGED <<connState, inbox>> /\ connState[conn] = "open"
      BY <2>4 DEF Sends, Transports, OneLiveConnection
    <3>2. \A d \in Conns \ {conn} : unanswered'[d] = unanswered[d]
      BY <2>4 DEF Sends
    <3> QED BY <1>2, <3>1, <3>2
  <2>5. ASSUME NEW c \in Conns, Adopts(t, c) \/ Discards(t, c)
        PROVE  InOrder' /\ Unopened'
    <3>1. /\ UNCHANGED <<inbox, unanswered>>
          /\ \E s \in {"open", "closing", "closed"} :
               connState' = [connState EXCEPT ![c] = s]
      BY <2>5 DEF Adopts, Discards, Opens
    <3>2. /\ connState[c] = "unused"
          /\ {d \in Conns : connState[d] # "unused"} = 1..(c - 1)
      BY <2>5, NextConn DEF Adopts, Discards
    <3>3. {d \in Conns : connState'[d] # "unused"} = 1..(c - 1) \union {c}
      BY <3>1, <3>2
    <3>4. c \in 0..MaxOps /\ 1..(c - 1) \union {c} = 1..c
      BY DEF Conns
    <3>5. InOrder'
      BY <3>3, <3>4 DEF InOrder
    <3> QED BY <3>1, <3>5 DEF Unopened
  <2> QED BY <1>6, <2>1, <2>2, <2>3, <2>4, <2>5, InsideConns
<1>7. CASE Close
  BY <1>3, <1>7 DEF Close
<1>8. ASSUME NEW c \in Conns, DatagramReceived(c) \/ PlcAnswers(c)
                                \/ ExtraArrives(c)
      PROVE  InOrder' /\ Unopened'
  <2>1. /\ connState[c] = "open" /\ UNCHANGED connState
        /\ \A d \in Conns \ {c} :
             inbox'[d] = inbox[d] /\ unanswered'[d] = unanswered[d]
    BY <1>8 DEF DatagramReceived, PlcAnswers, ExtraArrives
  <2> QED BY <1>2, <2>1
<1>9. ASSUME NEW c \in Conns, TransportLost(c) PROVE InOrder' /\ Unopened'
  <2>1. /\ UNCHANGED <<inbox, unanswered>>
        /\ connState[c] \in {"open", "closing"}
        /\ \E s \in {"open", "closing", "closed"} :
             connState' = [connState EXCEPT ![c] = s]
    BY <1>9 DEF TransportLost
  <2> QED BY <1>2, <2>1
<1>10. CASE UNCHANGED vars
  BY <1>4, <1>10 DEF vars
<1> QED
  BY <1>5, <1>6, <1>7, <1>8, <1>9, <1>10
     DEF Next, RunsOn, Resumes, Inside

(* A connection is opened only when the client has none, and whoever takes *)
(* it from the client closes it.                                           *)
LEMMA OneConnectionStep ==
  ASSUME TypeOK, HoldsTurn, Transports, InOrder, OneLiveConnection,
         [Next]_vars
  PROVE  OneLiveConnection'
<1>0. UNCHANGED setup
  BY DEF Next, vars
<1>1. /\ conn \in Conns \union {NoConn} /\ NoConn \notin Conns
      /\ connState \in [Conns -> {"unused", "open", "closing", "closed"}]
      /\ connGen \in [Conns -> 0..MaxCloses]
      /\ Conns' = Conns
  BY <1>0, SetupFacts, SetupKept DEF TypeOK
<1> USE <1>1
<1>2. ASSUME UNCHANGED <<conn, connState, connGen, closes>>
      PROVE  OneLiveConnection'
  BY <1>2 DEF OneLiveConnection
<1>3. ASSUME Retire PROVE OneLiveConnection'
  BY <1>3 DEF Retire, OneLiveConnection
<1>4. ASSUME NEW t \in Tasks, NEW k \in Kinds,
             StartFree(t, k) \/ StartQueued(t, k)
      PROVE  OneLiveConnection'
  BY <1>2, <1>4 DEF StartFree, StartQueued, Start, netVars
<1>5. ASSUME NEW t \in Tasks,
             \/ TurnGranted(t) \/ TurnRefused(t) \/ CancelledInLine(t)
             \/ Leave(t)
      PROVE  OneLiveConnection'
  BY <1>2, <1>5
     DEF TurnGranted, TurnRefused, CancelledInLine, Leave, netVars,
         clientVars, historyVars
<1>6. ASSUME NEW t \in Tasks, Inside(t) PROVE OneLiveConnection'
  <2>0. UNCHANGED closes
    BY <1>6, InsideSteps DEF InsideFrame
  <2>1. CASE Retires(t)
    BY <1>3, <2>1 DEF Retires, RetireThen
  <2>2. CASE Passes(t) \/ Takes(t) \/ Sends(t)
    BY <1>2, <2>0, <2>2 DEF Passes, Takes, Sends
  <2>3. ASSUME NEW c \in Conns, Adopts(t, c) \/ Discards(t, c)
        PROVE  OneLiveConnection'
    <3>1. conn = NoConn
      BY <2>3 DEF Adopts, Discards, Opens, Suspended, Transports, Connecting
    <3>2. \/ conn' = c /\ connState' = [connState EXCEPT ![c] = "open"]
          \/ /\ UNCHANGED conn
             /\ \E s \in {"closing", "closed"} :
                  connState' = [connState EXCEPT ![c] = s]
      BY <2>3 DEF Adopts, Discards
    <3>3. connGen' = [connGen EXCEPT ![c] = closes]
      BY <2>3 DEF Adopts, Discards, Opens
    <3> QED BY <2>0, <3>1, <3>2, <3>3 DEF OneLiveConnection
  <2> QED BY <1>6, <2>1, <2>2, <2>3, InsideConns
<1>7. CASE Close
  BY <1>3, <1>7 DEF Close
<1>8. ASSUME NEW c \in Conns, DatagramReceived(c) \/ PlcAnswers(c)
                                \/ ExtraArrives(c)
      PROVE  OneLiveConnection'
  BY <1>2, <1>8
     DEF DatagramReceived, PlcAnswers, ExtraArrives, clientVars, historyVars
<1>9. ASSUME NEW c \in Conns, TransportLost(c) PROVE OneLiveConnection'
  BY <1>9 DEF TransportLost, OneLiveConnection, historyVars
<1>10. CASE UNCHANGED vars
  BY <1>2, <1>10 DEF vars, netVars, clientVars, historyVars
<1> QED
  BY <1>4, <1>5, <1>6, <1>7, <1>8, <1>9, <1>10
     DEF Next, RunsOn, Resumes, Inside
------------------------------------------------------------------------------
(* A connection from which messages are only taken away carries no more    *)
(* than before.                                                            *)
LEMMA FewerMessages ==
  ASSUME TypeOK, NEW c \in Conns, unanswered'[c] \subseteq unanswered[c],
         \/ inbox'[c] = inbox[c]
         \/ inbox'[c] = <<>>
         \/ inbox[c] # <<>> /\ inbox'[c] = Tail(inbox[c])
         \/ \E i \in DOMAIN inbox[c] : inbox'[c] = RemoveAt(inbox[c], i)
  PROVE  /\ Quiet(c) => Quiet(c)'
         /\ AtMostOne(c) => AtMostOne(c)'
         /\ \A t \in Tasks :
              UNCHANGED req /\ OnlyMine(t, c) => OnlyMine(t, c)'
         /\ Carried(c)' \subseteq Carried(c)
<1>1. inbox[c] \in Seq(Frames)
  BY DEF TypeOK
(* Each frame that stays stood at a place of its own.                      *)
<1>2. ASSUME NEW at,
             \A j \in DOMAIN inbox'[c] :
               /\ at[j] \in DOMAIN inbox[c]
               /\ inbox'[c][j] = inbox[c][at[j]],
             \A j, k \in DOMAIN inbox'[c] : at[j] = at[k] => j = k
      PROVE  /\ Quiet(c) => Quiet(c)'
             /\ AtMostOne(c) => AtMostOne(c)'
             /\ \A t \in Tasks :
                  UNCHANGED req /\ OnlyMine(t, c) => OnlyMine(t, c)'
             /\ Carried(c)' \subseteq Carried(c)
  <2>1. Quiet(c) => Quiet(c)'
    BY <1>2 DEF Quiet
  <2>2. AtMostOne(c) => AtMostOne(c)'
    BY <1>2 DEF AtMostOne
  <2>3. \A t \in Tasks :
          UNCHANGED req /\ OnlyMine(t, c) => OnlyMine(t, c)'
    BY <1>2 DEF OnlyMine
  <2>4. Carried(c)' \subseteq Carried(c)
    BY <1>2 DEF Carried
  <2> QED BY <2>1, <2>2, <2>3, <2>4
<1>3. CASE inbox'[c] = inbox[c]
  <2> DEFINE at == [j \in DOMAIN inbox'[c] |-> j]
  <2>1. \A j \in DOMAIN inbox'[c] : at[j] = j
    OBVIOUS
  <2> HIDE DEF at
  <2> QED BY <1>2, <1>3, <2>1
<1>4. CASE inbox'[c] = <<>>
  <2> DEFINE at == [j \in DOMAIN inbox'[c] |-> j]
  <2> QED BY <1>2, <1>4
<1>5. CASE inbox[c] # <<>> /\ inbox'[c] = Tail(inbox[c])
  <2> DEFINE at == [j \in DOMAIN inbox'[c] |-> j + 1]
  <2>1. \A j \in DOMAIN inbox'[c] :
          /\ at[j] \in DOMAIN inbox[c]
          /\ inbox'[c][j] = inbox[c][at[j]]
    BY <1>1, <1>5
  <2>2. \A j, k \in DOMAIN inbox'[c] : at[j] = at[k] => j = k
    BY <1>1, <1>5
  <2> HIDE DEF at
  <2> QED BY <1>2, <2>1, <2>2
<1>6. ASSUME NEW i \in DOMAIN inbox[c], inbox'[c] = RemoveAt(inbox[c], i)
      PROVE  /\ Quiet(c) => Quiet(c)'
             /\ AtMostOne(c) => AtMostOne(c)'
             /\ \A t \in Tasks :
                  UNCHANGED req /\ OnlyMine(t, c) => OnlyMine(t, c)'
             /\ Carried(c)' \subseteq Carried(c)
  <2> DEFINE at == [j \in DOMAIN inbox'[c] |->
                IF j < i THEN j ELSE j + 1]
  <2>1. /\ inbox'[c] \in Seq(Frames)
        /\ Len(inbox'[c]) = Len(inbox[c]) - 1
        /\ \A j \in 1..(Len(inbox[c]) - 1) :
             inbox'[c][j] = inbox[c][IF j < i THEN j ELSE j + 1]
    BY ZenonT(60), <1>1, <1>6, RemoveAtIsSeq
  <2>2. /\ DOMAIN inbox'[c] = 1..(Len(inbox[c]) - 1)
        /\ DOMAIN inbox[c] = 1..Len(inbox[c]) /\ Len(inbox[c]) \in Nat
    BY <1>1, <2>1
  <2>3. \A j \in DOMAIN inbox'[c] : at[j] = IF j < i THEN j ELSE j + 1
    OBVIOUS
  <2> HIDE DEF at
  <2>4. \A j \in DOMAIN inbox'[c] :
          at[j] \in DOMAIN inbox[c] /\ inbox'[c][j] = inbox[c][at[j]]
    <3> TAKE j \in DOMAIN inbox'[c]
    <3>1. at[j] \in DOMAIN inbox[c]
      BY <2>2, <2>3
    <3>2. at[j] = (IF j < i THEN j ELSE j + 1)
      BY <2>3
    <3>3. inbox'[c][j] = inbox[c][IF j < i THEN j ELSE j + 1]
      BY <2>1, <2>2
    <3>4. inbox'[c][j] = inbox[c][at[j]]
      BY <3>2, <3>3, Zenon
    <3> QED BY <3>1, <3>4
  <2>5. \A j, k \in DOMAIN inbox'[c] : at[j] = at[k] => j = k
    BY <2>2, <2>3
  <2> QED BY <1>2, <2>4, <2>5
<1> QED BY <1>3, <1>4, <1>5, <1>6

(* The PLC answers a request: the answer takes the place of the request.   *)
LEMMA AnsweredMessages ==
  ASSUME TypeOK, NEW c \in Conns, PlcAnswers(c)
  PROVE  /\ Quiet(c) => Quiet(c)'
         /\ AtMostOne(c) => AtMostOne(c)'
         /\ \A t \in Tasks :
              UNCHANGED req /\ OnlyMine(t, c) => OnlyMine(t, c)'
         /\ Carried(c)' \subseteq Carried(c)
<1>1. PICK r \in unanswered[c], code \in Codes :
        /\ unanswered' = [unanswered EXCEPT ![c] = @ \ {r}]
        /\ inbox' = [inbox EXCEPT ![c] = Append(@,
               [req |-> r.req, serial |-> r.serial, code |-> code])]
  BY DEF PlcAnswers
<1> DEFINE f == [req |-> r.req, serial |-> r.serial, code |-> code]
           q == inbox[c]
<1>2. /\ unanswered'[c] = unanswered[c] \ {r}
      /\ inbox'[c] = Append(q, f)
      /\ q \in Seq(Frames) /\ r \in Requests
  BY <1>1 DEF TypeOK
<1>3. f.req = r.req /\ f.req # 0 /\ Header(f) = Header(r)
  BY <1>2 DEF Requests, Header
<1> HIDE DEF f
<1>4. /\ DOMAIN inbox'[c] = DOMAIN q \union {Len(q) + 1}
      /\ Len(q) + 1 \notin DOMAIN q
      /\ inbox'[c][Len(q) + 1] = f
      /\ \A i \in DOMAIN q : inbox'[c][i] = q[i]
  BY <1>2
<1>5. Quiet(c) => Quiet(c)'
  BY <1>1 DEF Quiet
<1>6. ASSUME AtMostOne(c) PROVE AtMostOne(c)'
  <2>1. unanswered'[c] = {}
    BY <1>2, <1>6 DEF AtMostOne
  <2>2. \A i \in DOMAIN q : q[i].req = 0
    BY <1>6 DEF AtMostOne
  <2>3. \A i \in DOMAIN inbox'[c] :
          inbox'[c][i].req # 0 => i = Len(q) + 1
    BY <2>2, <1>4
  <2> QED BY <2>1, <2>3 DEF AtMostOne
<1>7. ASSUME NEW t \in Tasks, UNCHANGED req, OnlyMine(t, c)
      PROVE  OnlyMine(t, c)'
  BY <1>2, <1>3, <1>4, <1>7 DEF OnlyMine
<1>8. Carried(c)' \subseteq Carried(c)
  BY <1>2, <1>3, <1>4 DEF Carried
<1> QED BY <1>5, <1>6, <1>7, <1>8

(* A frame of another route answers nobody; a datagram that arrives once   *)
(* more was there before.                                                  *)
LEMMA ExtraMessages ==
  ASSUME TypeOK, NEW c \in Conns, ExtraArrives(c)
  PROVE  /\ NoDuplicates =>
              /\ Quiet(c) => Quiet(c)'
              /\ AtMostOne(c) => AtMostOne(c)'
              /\ \A t \in Tasks :
                   UNCHANGED req /\ OnlyMine(t, c) => OnlyMine(t, c)'
         /\ \A m \in Carried(c)' : m.req # 0 => m \in Carried(c)
<1> DEFINE q == inbox[c]
<1>1. PICK f \in {NoFrame} \union IF Transport = "udp" THEN ToSet(q) ELSE {} :
        inbox' = [inbox EXCEPT ![c] = Append(@, f)]
  BY DEF ExtraArrives
<1>2. /\ inbox'[c] = Append(q, f) /\ q \in Seq(Frames)
      /\ unanswered' = unanswered
  BY <1>1 DEF TypeOK, ExtraArrives
<1>3. ToSet(q) = {q[i] : i \in DOMAIN q}
  BY DEF ToSet
<1>4. \/ f = NoFrame
      \/ Transport = "udp" /\ f \in ToSet(q)
  BY <1>1
<1>5. /\ \/ f.req = 0
         \/ Transport = "udp" /\ \E i \in DOMAIN q : f = q[i]
      /\ f \in Frames
  <2>1. CASE f = NoFrame
    <3>1. NoFrame.req = 0 /\ NoFrame \in Frames
      BY NoFrameTypes DEF NoFrame, TypeOK
    <3> QED BY <2>1, <3>1
  <2>2. CASE Transport = "udp" /\ f \in ToSet(q)
    <3>1. \A i \in DOMAIN q : q[i] \in Frames
      BY <1>2
    <3> QED BY <1>3, <2>2, <3>1
  <2> QED BY <1>4, <2>1, <2>2
<1>6. /\ DOMAIN inbox'[c] = DOMAIN q \union {Len(q) + 1}
      /\ Len(q) + 1 \notin DOMAIN q
      /\ inbox'[c][Len(q) + 1] = f
      /\ \A i \in DOMAIN q : inbox'[c][i] = q[i]
  BY <1>2, <1>5
<1>7. NoDuplicates => f.req = 0
  <2>1. extra \in 0..MaxExtra /\ extra < MaxExtra /\ MaxExtra \in Nat
    BY SetupFacts DEF TypeOK, ExtraArrives
  <2> QED BY <1>5, <2>1 DEF NoDuplicates
<1>8. Header(f).req = f.req
  BY DEF Header
<1>9. NoDuplicates =>
        /\ Quiet(c) => Quiet(c)'
        /\ AtMostOne(c) => AtMostOne(c)'
        /\ \A t \in Tasks :
             UNCHANGED req /\ OnlyMine(t, c) => OnlyMine(t, c)'
  BY <1>2, <1>6, <1>7 DEF Quiet, AtMostOne, OnlyMine
<1>10. \A m \in Carried(c)' : m.req # 0 => m \in Carried(c)
  BY <1>2, <1>5, <1>6, <1>8 DEF Carried
<1> QED BY <1>9, <1>10

(* Neither the event loop's callbacks nor the PLC bring an answer to a     *)
(* connection on which none was due, while no frame arrives twice.         *)
LEMMA OutsideMessages ==
  ASSUME TypeOK, Outside, NEW d \in Conns
  PROVE  /\ NoDuplicates =>
              /\ Quiet(d) => Quiet(d)'
              /\ AtMostOne(d) => AtMostOne(d)'
              /\ \A t \in Tasks : OnlyMine(t, d) => OnlyMine(t, d)'
         /\ \A m \in Carried(d)' : m.req # 0 => m \in Carried(d)
<1>0. UNCHANGED req /\ inbox \in [Conns -> Seq(Frames)]
  BY OutsideSteps DEF TypeOK, taskVars
<1>1. ASSUME NEW c \in Conns, DatagramReceived(c)
      PROVE  /\ unanswered'[d] = unanswered[d]
             /\ \/ inbox'[d] = inbox[d]
                \/ \E i \in DOMAIN inbox[d] :
                     inbox'[d] = RemoveAt(inbox[d], i)
  BY <1>0, <1>1 DEF DatagramReceived
<1>2. ASSUME NEW c \in Conns, TransportLost(c)
      PROVE  unanswered'[d] = unanswered[d] /\ inbox'[d] = inbox[d]
  BY <1>2 DEF TransportLost
<1>3. ASSUME NEW c \in Conns, PlcAnswers(c) \/ ExtraArrives(c), c # d
      PROVE  unanswered'[d] = unanswered[d] /\ inbox'[d] = inbox[d]
  BY <1>3 DEF PlcAnswers, ExtraArrives, TypeOK
<1>4. PICK c \in Conns :
        \/ DatagramReceived(c) \/ TransportLost(c) \/ PlcAnswers(c)
        \/ ExtraArrives(c)
  BY DEF Outside
<1>5. CASE DatagramReceived(c) \/ TransportLost(c) \/ c # d
  <2>1. /\ unanswered'[d] \subseteq unanswered[d]
        /\ \/ inbox'[d] = inbox[d]
           \/ \E i \in DOMAIN inbox[d] : inbox'[d] = RemoveAt(inbox[d], i)
    BY <1>1, <1>2, <1>3, <1>4, <1>5
  <2> QED BY <1>0, <2>1, FewerMessages
<1>6. CASE c = d /\ PlcAnswers(c)
  BY <1>0, <1>6, AnsweredMessages
<1>7. CASE c = d /\ ExtraArrives(c)
  BY <1>0, <1>7, ExtraMessages
<1> QED BY <1>4, <1>5, <1>6, <1>7

(* The steps of a turn that send nothing only take messages away.          *)
LEMMA InsideMessages ==
  ASSUME TypeOK, NEW c \in Conns, NEW t \in Tasks,
         Retire \/ Passes(t) \/ Takes(t)
  PROVE  /\ unanswered'[c] \subseteq unanswered[c]
         /\ \/ inbox'[c] = inbox[c]
            \/ inbox'[c] = <<>>
            \/ inbox[c] # <<>> /\ inbox'[c] = Tail(inbox[c])
<1>1. CASE Retire
  BY <1>1 DEF Retire
<1>2. CASE Passes(t)
  BY <1>2 DEF Passes
<1>3. CASE Takes(t)
  <2>1. inbox \in [Conns -> Seq(Frames)]
    BY DEF TypeOK
  <2>2. CASE c = local[t]
    BY <1>3, <2>1, <2>2 DEF Takes, Reads, Gets
  <2>3. CASE c # local[t]
    BY <1>3, <2>1, <2>3 DEF Takes, Reads, Gets
  <2> QED BY <1>3, <2>2, <2>3 DEF Takes
<1> QED BY <1>1, <1>2, <1>3
------------------------------------------------------------------------------
(* While no frame arrives twice, the client and the PLC hold one           *)
(* conversation on the client's connection: it is quiet when a request is  *)
(* sent, because whoever gives up a request gives up the connection.       *)
LEMMA ConversationStep ==
  ASSUME TypeOK, HoldsTurn, Transports, InOrder, Unopened,
         NoDuplicates, OneConversation, [Next]_vars
  PROVE  OneConversation'
<1>0. UNCHANGED setup
  BY DEF Next, vars
<1>1. /\ conn \in Conns \union {NoConn} /\ NoConn \notin Conns
      /\ local \in [Tasks -> Conns \union {NoConn}]
      /\ pc \in [Tasks -> Places]
      /\ unanswered \in [Conns -> SUBSET Requests]
      /\ inbox \in [Conns -> Seq(Frames)]
      /\ waiter \in [Conns -> Waiters]
      /\ Conns' = Conns /\ Transport' = Transport
      /\ Transport \in {"tcp", "udp"}
      /\ \A t, u \in Tasks :
           pc[t] \in InTurn /\ pc[u] \in InTurn => t = u
      /\ \A t \in Tasks : pc[t] \in Answering => local[t] \in Conns
  BY <1>0, SetupFacts, SetupKept DEF TypeOK, HoldsTurn, Transports
<1> USE <1>1
        DEF Awaits, Answering, InTurn, Places, Running, Awaiting, Goto
(* Messages go, or other ones come; nobody moves; no frame is handed over. *)
<1>2. ASSUME \A c \in Conns :
               /\ Quiet(c) => Quiet(c)'
               /\ AtMostOne(c) => AtMostOne(c)'
               /\ \A t \in Tasks : OnlyMine(t, c) => OnlyMine(t, c)',
             conn' \in {conn, NoConn}, UNCHANGED <<pc, local>>,
             \A t \in Tasks : Awaits(t) =>
               \/ waiter'[local[t]].state # "answered"
               \/ waiter[local[t]].state = "answered"
               \/ Quiet(local[t])'
      PROVE  OneConversation'
  <2>1. \A c \in Conns : AtMostOne(c)'
    BY <1>2 DEF OneConversation
  <2>2. conn' = NoConn \/ Quiet(conn)' \/ \E t \in Tasks : pc'[t] \in Answering
    BY <1>2 DEF OneConversation, Quiet
  <2>3. ASSUME NEW t \in Tasks, pc'[t] \in Answering
        PROVE  /\ OnlyMine(t, local[t])'
               /\ Awaits(t)' /\ waiter'[local[t]].state = "answered"
                    => Quiet(local[t])'
    <3> DEFINE c == local[t]
    <3>1. c \in Conns /\ OnlyMine(t, c) /\ (Awaits(t)' <=> Awaits(t))
      BY <1>2, <2>3 DEF OneConversation
    <3>2. Awaits(t) /\ waiter[c].state = "answered" => Quiet(c)
      BY <3>1 DEF OneConversation
    <3> HIDE DEF c
    <3>3. OnlyMine(t, c)' /\ (Quiet(c) => Quiet(c)')
      <4>1. ASSUME NEW d \in Conns, OnlyMine(t, d)
            PROVE  OnlyMine(t, d)' /\ (Quiet(d) => Quiet(d)')
        BY <1>2, <4>1
      <4>2. c' = c
        BY <1>2 DEF c
      <4> QED BY <3>1, <4>1, <4>2 DEF OnlyMine, Quiet
    <3>4. /\ \/ waiter'[c].state # "answered"
             \/ waiter[c].state = "answered"
             \/ Quiet(c)'
          \/ ~Awaits(t)
      BY <1>2 DEF c
    <3>5. c = local[t] /\ c' = local'[t]
      BY DEF c
    <3> QED BY <1>2, <3>1, <3>2, <3>3, <3>4, <3>5 DEF c
  <2> QED BY <1>2, <2>1, <2>2, <2>3 DEF OneConversation
<1>3. ASSUME NEW t \in Tasks, NEW k \in Kinds,
             StartFree(t, k) \/ StartQueued(t, k)
      PROVE  OneConversation'
  <2>1. /\ UNCHANGED <<inbox, unanswered, conn, local, waiter>>
        /\ pc[t] = "idle" /\ pc'[t] \in {"queued", "begin"}
        /\ \A u \in Tasks \ {t} : pc'[u] = pc[u] /\ req'[u] = req[u]
    <3>1. Start(t, k) /\ \E p \in {"queued", "begin"} : Goto(t, p)
      BY <1>3 DEF StartFree, StartQueued
    <3> QED BY <3>1 DEF Start, Suspended, netVars, TypeOK
  <2>2. \A c : /\ Quiet(c) <=> Quiet(c)'
               /\ AtMostOne(c) <=> AtMostOne(c)'
    BY <2>1 DEF Quiet, AtMostOne
  <2>3. \A u \in Tasks \ {t} : \A c : OnlyMine(u, c) => OnlyMine(u, c)'
    BY <2>1 DEF OnlyMine
  <2>4. conn' = NoConn \/ Quiet(conn)' \/ \E u \in Tasks : pc'[u] \in Answering
    BY <2>1 DEF OneConversation, Quiet
  <2>5. ASSUME NEW u \in Tasks, pc'[u] \in Answering
        PROVE  /\ OnlyMine(u, local[u])'
               /\ Awaits(u)' /\ waiter'[local[u]].state = "answered"
                    => Quiet(local[u])'
    BY <2>1, <2>2, <2>3, <2>5 DEF OneConversation, OnlyMine, Quiet
  <2> QED BY <2>1, <2>2, <2>4, <2>5 DEF OneConversation
<1>4. ASSUME NEW t \in Tasks,
             \/ TurnGranted(t) \/ TurnRefused(t) \/ CancelledInLine(t)
             \/ Leave(t)
      PROVE  OneConversation'
  <2>1. /\ UNCHANGED <<inbox, unanswered, conn, waiter, req>>
        /\ pc[t] \notin Answering /\ pc'[t] \in {"idle", "begin"}
        /\ \A u \in Tasks \ {t} : pc'[u] = pc[u] /\ local'[u] = local[u]
    BY <1>4
       DEF TurnGranted, TurnRefused, CancelledInLine, Leave, Suspended,
           netVars, clientVars
  <2>2. conn' = NoConn \/ Quiet(conn)' \/ \E u \in Tasks : pc'[u] \in Answering
    BY <2>1 DEF OneConversation, Quiet
  <2>3. \A c \in Conns : AtMostOne(c)'
    BY <2>1 DEF AtMostOne, OneConversation
  <2>4. ASSUME NEW u \in Tasks, pc'[u] \in Answering
        PROVE  /\ OnlyMine(u, local[u])'
               /\ Awaits(u)' /\ waiter'[local'[u]].state = "answered"
                    => Quiet(local[u])'
    BY <2>1, <2>4 DEF OneConversation, OnlyMine, Quiet
  <2> QED BY <2>2, <2>3, <2>4 DEF OneConversation
<1>5. ASSUME NEW t \in Tasks, Inside(t) PROVE OneConversation'
  <2>0. /\ UNCHANGED req
        /\ \A u \in Tasks \ {t} : pc'[u] = pc[u] /\ pc[u] \notin InTurn
        /\ pc[t] \in InTurn /\ pc'[t] \in InTurn
    <3>1. InsideFrame(t)
      BY <1>5, InsideSteps
    <3> QED BY <3>1 DEF InsideFrame
  <2> USE <2>0
  <2>1. CASE Retires(t)
    <3>1. Retire /\ pc'[t] \in {"cleanup", "sent", "leave"}
      BY <2>1 DEF Retires, RetireThen
    <3>2. \A c \in Conns : AtMostOne(c)'
      BY <3>1, InsideMessages, FewerMessages DEF OneConversation
    <3> QED BY <3>1, <3>2 DEF OneConversation, Retire
  <2>2. CASE Passes(t)
    <3>1. /\ UNCHANGED <<conn, inbox, unanswered, waiter, local>>
          /\ pc'[t] # "draining" /\ pc[t] # "receiving"
          /\ pc'[t] = "receiving" <=> pc[t] = "draining"
      BY <2>2 DEF Passes
    <3>2. \A c : /\ Quiet(c)' <=> Quiet(c)
                 /\ AtMostOne(c)' <=> AtMostOne(c)
      BY <3>1 DEF Quiet, AtMostOne
    <3>3. \/ conn' = NoConn \/ Quiet(conn)'
          \/ \E u \in Tasks : pc'[u] \in Answering
      BY <3>1 DEF OneConversation, Quiet
    <3>4. ASSUME NEW u \in Tasks, pc'[u] \in Answering
          PROVE  OnlyMine(u, local[u])' /\ ~Awaits(u)'
      BY <3>1, <3>4 DEF OneConversation, OnlyMine, Transports
    <3> QED BY <3>2, <3>3, <3>4 DEF OneConversation
  <2>3. CASE Takes(t)
    <3> DEFINE c == local[t]
    <3>1. /\ pc[t] = "receiving" /\ c \in Conns
          /\ UNCHANGED <<conn, unanswered, local>>
          /\ conn \in {NoConn, c}
      BY <2>3 DEF Takes, Transports
    <3>2. \A d \in Conns :
            /\ AtMostOne(d)' /\ (Quiet(d) => Quiet(d)')
            /\ OnlyMine(t, d) => OnlyMine(t, d)'
      BY <2>3, InsideMessages, FewerMessages DEF OneConversation
    <3>3. OnlyMine(t, c) /\ c' = c
      BY <3>1 DEF OneConversation
    <3>4. CASE Reads(t) /\ pc'[t] = "receiving"
      <4>1. ~Awaits(t)' /\ OnlyMine(t, c)'
        BY <3>1, <3>2, <3>3, <3>4 DEF Reads, OnlyMine
      <4> QED BY <3>2, <3>4, <4>1 DEF OneConversation
    <3>5. CASE Reads(t) /\ pc'[t] # "receiving"
      <4> DEFINE frame == Head(inbox[c])
      <4>1. /\ inbox[c] # <<>> /\ inbox'[c] = Tail(inbox[c])
            /\ Matches(serial[t], frame)
            /\ pc'[t] \in {"tracing", "decode"}
        BY <3>1, <3>5 DEF Reads
      <4>2. /\ inbox[c][1] = frame /\ frame.req # 0 /\ 1 \in DOMAIN inbox[c]
            /\ inbox[c] \in Seq(Frames)
        BY <3>1, <4>1 DEF Matches
      <4>3. /\ unanswered[c] = {}
            /\ \A j \in DOMAIN inbox[c] : inbox[c][j].req # 0 => j = 1
        BY <3>1, <4>2 DEF OneConversation, AtMostOne
      <4>4. \A i \in DOMAIN inbox'[c] :
              /\ i + 1 \in DOMAIN inbox[c] /\ i + 1 # 1
              /\ inbox'[c][i] = inbox[c][i + 1]
        BY <4>1, <4>2
      <4>5. \A i \in DOMAIN inbox'[c] : inbox'[c][i].req = 0
        BY <4>3, <4>4
      <4>6. conn' = NoConn \/ Quiet(conn)'
        BY <3>1, <4>3, <4>5 DEF Quiet
      <4> QED BY <3>2, <4>1, <4>6 DEF OneConversation
    <3>6. CASE Gets(t)
      <4>1. Quiet(c) /\ pc'[t] \in {"tracing", "decode"} /\ UNCHANGED inbox
        BY <3>1, <3>6 DEF Gets, OneConversation
      <4>2. conn' = NoConn \/ Quiet(conn)'
        BY <3>1, <4>1 DEF Quiet
      <4> QED BY <3>2, <4>1, <4>2 DEF OneConversation
    <3> QED BY <2>3, <3>4, <3>5, <3>6 DEF Takes
  <2>4. CASE Sends(t)
    <3> DEFINE m == [req |-> req[t], serial |-> serial[t]]
    <3>1. /\ pc[t] = "send" /\ conn \in Conns
          /\ unanswered' = [unanswered EXCEPT ![conn] = @ \union {m}]
          /\ UNCHANGED <<conn, inbox>> /\ local'[t] = conn
          /\ pc'[t] = IF Transport = "tcp" THEN "draining" ELSE "receiving"
          /\ Transport = "udp" =>
               waiter' = [waiter EXCEPT ![conn] = NewWaiter(t)]
      BY <2>4 DEF Sends, Transports
    <3>2. Quiet(conn)
      BY <3>1 DEF OneConversation
    <3>3. unanswered'[conn] = {m} /\ m.req = req[t]
      BY <3>1, <3>2 DEF Quiet
    <3> HIDE DEF m
    <3>4. \A c \in Conns : AtMostOne(c)'
      <4>1. ASSUME NEW c \in Conns, c # conn PROVE AtMostOne(c)'
        BY <3>1, <4>1 DEF OneConversation, AtMostOne
      <4>2. ASSUME NEW c \in Conns, c = conn PROVE AtMostOne(c)'
        BY <3>1, <3>2, <3>3, <4>2 DEF AtMostOne, Quiet
      <4> QED BY <4>1, <4>2
    <3>5. OnlyMine(t, local[t])'
      BY <3>1, <3>2, <3>3 DEF OnlyMine, Quiet
    <3>6. Awaits(t)' => waiter'[local'[t]].state # "answered"
      <4>1. NewWaiter(t).state = "pending"
        BY DEF NewWaiter, NoWaiter
      <4> QED BY <3>1, <4>1
    <3> QED BY <3>1, <3>4, <3>5, <3>6 DEF OneConversation
  <2>5. ASSUME NEW c \in Conns, Adopts(t, c) \/ Discards(t, c)
        PROVE  OneConversation'
    <3>1. /\ pc[t] = "opening" /\ pc'[t] \notin Answering
          /\ conn' = c \/ UNCHANGED conn
          /\ UNCHANGED <<inbox, unanswered>>
      BY <2>5 DEF Adopts, Discards, Opens, Suspended, Ends
    <3>2. connState[c] = "unused"
      BY <2>5, NextConn DEF Adopts, Discards
    <3>3. Quiet(c)
      BY <3>2 DEF Unopened, Quiet
    <3>4. conn' = NoConn \/ Quiet(conn)'
      BY <3>1, <3>3 DEF Quiet, OneConversation
    <3>5. \A d \in Conns : AtMostOne(d)'
      BY <3>1 DEF OneConversation, AtMostOne
    <3> QED BY <3>1, <3>4, <3>5 DEF OneConversation
  <2> QED BY <1>5, <2>1, <2>2, <2>3, <2>4, <2>5, InsideConns
<1>6. CASE Close
  <2>1. /\ Retire /\ waiter' = FailPending(conn, "closed")
        /\ UNCHANGED <<pc, local, req>>
    BY <1>6 DEF Close, taskVars
  <2>2. \A c \in Conns :
          /\ Quiet(c) => Quiet(c)'
          /\ AtMostOne(c) => AtMostOne(c)'
          /\ \A t \in Tasks : OnlyMine(t, c) => OnlyMine(t, c)'
    <3>1. ASSUME NEW t \in Tasks, NEW c \in Conns
          PROVE  /\ Quiet(c) => Quiet(c)'
                 /\ AtMostOne(c) => AtMostOne(c)'
                 /\ OnlyMine(t, c) => OnlyMine(t, c)'
      BY <2>1, InsideMessages, FewerMessages
    <3>2. ASSUME NEW c \in Conns
          PROVE  /\ Quiet(c) => Quiet(c)'
                 /\ AtMostOne(c) => AtMostOne(c)'
      <4>1. /\ unanswered'[c] \subseteq unanswered[c]
            /\ inbox'[c] = inbox[c] \/ inbox'[c] = <<>>
        BY <2>1 DEF Retire
      <4> QED BY <4>1, FewerMessages
    <3> QED BY <3>1, <3>2
  <2>3. \A c \in Conns :
          waiter'[c].state = "answered" => waiter[c].state = "answered"
    BY <2>1 DEF FailPending, Waiters
  <2> QED BY <1>2, <2>1, <2>2, <2>3 DEF Retire
<1>7. CASE Outside
  <2>1. UNCHANGED <<pc, local, req, serial>>
    BY <1>7, OutsideSteps DEF taskVars
  <2>2. \A c \in Conns :
          /\ Quiet(c) => Quiet(c)'
          /\ AtMostOne(c) => AtMostOne(c)'
          /\ \A t \in Tasks : OnlyMine(t, c) => OnlyMine(t, c)'
    BY <1>7, OutsideMessages
  <2>3. conn' \in {conn, NoConn}
    BY <1>7
       DEF Outside, DatagramReceived, TransportLost, PlcAnswers,
           ExtraArrives, clientVars
  <2>4. ASSUME NEW c \in Conns
        PROVE  \/ waiter'[c].state # "answered"
               \/ waiter[c].state = "answered"
               \/ Quiet(c)'
    <3>1. CASE \E d \in Conns : PlcAnswers(d) \/ ExtraArrives(d)
      BY <3>1 DEF PlcAnswers, ExtraArrives
    <3>2. ASSUME NEW d \in Conns, TransportLost(d)
          PROVE  \/ waiter'[c].state # "answered"
                 \/ waiter[c].state = "answered"
      BY <3>2 DEF TransportLost, FailPending, LossError, Waiters
    <3>3. ASSUME NEW d \in Conns, DatagramReceived(d),
                 d # c \/ UNCHANGED waiter
          PROVE  \/ waiter'[c].state # "answered"
                 \/ waiter[c].state = "answered"
      BY <3>3 DEF DatagramReceived
    <3>4. ASSUME DatagramReceived(c), ~UNCHANGED waiter,
                 waiter'[c].state = "answered"
          PROVE  Quiet(c)'
      <4>1. PICK i \in DOMAIN inbox[c] :
              /\ inbox' = [inbox EXCEPT ![c] = RemoveAt(@, i)]
              /\ \/ inbox[c][i].code = "bad"
                 \/ Matches(waiter[c].expected, inbox[c][i])
              /\ waiter' = [waiter EXCEPT ![c] =
                   [@ EXCEPT !.state = IF inbox[c][i].code = "bad"
                                         THEN "protocol" ELSE "answered",
                             !.frame = inbox[c][i]]]
        BY <3>4 DEF DatagramReceived
      <4>2. inbox[c][i].code # "bad"
        BY <3>4, <4>1 DEF Waiters
      <4>3. inbox[c][i].req # 0
        BY <4>1, <4>2 DEF Matches
      <4>4. /\ unanswered[c] = {}
            /\ \A j \in DOMAIN inbox[c] : inbox[c][j].req # 0 => i = j
        BY <4>3 DEF OneConversation, AtMostOne
      <4>5. /\ Len(inbox'[c]) = Len(inbox[c]) - 1
            /\ inbox'[c] \in Seq(Frames)
            /\ \A j \in 1..(Len(inbox[c]) - 1) :
                 inbox'[c][j] = inbox[c][IF j < i THEN j ELSE j + 1]
        BY <4>1, RemoveAtIsSeq
      <4>6. ASSUME NEW j \in DOMAIN inbox'[c] PROVE inbox'[c][j].req = 0
        <5> DEFINE n == IF j < i THEN j ELSE j + 1
        <5>1. /\ j \in 1..(Len(inbox[c]) - 1) /\ Len(inbox[c]) \in Nat
              /\ DOMAIN inbox[c] = 1..Len(inbox[c])
          BY <4>5
        <5>2. n \in DOMAIN inbox[c] /\ n # i
          BY <5>1
        <5>3. inbox'[c][j] = inbox[c][n]
          BY <4>5, <5>1
        <5> HIDE DEF n
        <5> QED BY <4>4, <5>2, <5>3
      <4>7. unanswered'[c] = {}
        BY <3>4, <4>4 DEF DatagramReceived
      <4> QED BY <4>6, <4>7 DEF Quiet
    <3> QED BY <1>7, <3>1, <3>2, <3>3, <3>4 DEF Outside
  <2>5. \A t \in Tasks : Awaits(t) =>
          \/ waiter'[local[t]].state # "answered"
          \/ waiter[local[t]].state = "answered"
          \/ Quiet(local[t])'
    <3> TAKE t \in Tasks
    <3>1. Awaits(t) => local[t] \in Conns /\ local'[t] = local[t]
      BY <2>1
    <3> QED BY <2>4, <3>1 DEF Quiet
  <2> QED BY <1>2, <2>1, <2>2, <2>3, <2>5
<1>8. CASE UNCHANGED vars
  <2>1. UNCHANGED <<conn, inbox, unanswered, waiter, pc, local, req>>
    BY <1>8 DEF vars, netVars, clientVars, taskVars
  <2>2. \A c : /\ Quiet(c) <=> Quiet(c)'
               /\ AtMostOne(c) <=> AtMostOne(c)'
               /\ \A t \in Tasks : OnlyMine(t, c) <=> OnlyMine(t, c)'
    BY <2>1 DEF Quiet, AtMostOne, OnlyMine
  <2> QED BY <1>2, <2>1, <2>2
<1> QED
  BY <1>3, <1>4, <1>5, <1>6, <1>7, <1>8
     DEF Next, RunsOn, Resumes, Inside, Outside
------------------------------------------------------------------------------
(* A step that brings no message but of other routes, takes no serial      *)
(* number and starts nothing, keeps the serial numbers apart.              *)
LEMMA SerialsStay ==
  ASSUME SerialsDiffer, UNCHANGED <<setup, ops, nextSerial, serial, req>>,
         ops \in Nat, nextSerial \in Nat, Len(line) \in Nat,
         Len(line)' \in Nat,
         Len(line)' + Beginning' <= Len(line) + Beginning,
         \A t \in Tasks : HasSerial(t)' => HasSerial(t),
         \A c \in Conns : \A m \in Carried(c)' :
           m.req # 0 => m \in Carried(c)
  PROVE  SerialsDiffer'
<1>1. nextSerial' + Len(line)' + Beginning' <= ops'
  <2>1. Beginning \in Nat /\ Beginning' \in Nat
    BY DEF Beginning
  <2> QED BY <2>1 DEF SerialsDiffer
<1> QED BY <1>1, SetupKept DEF SerialsDiffer

(* A task whose operation begins takes a serial number nobody has.         *)
LEMMA SerialTaken ==
  ASSUME TypeOK, HoldsTurn, Signed, SerialsDiffer, UNCHANGED setup,
         NEW t \in Tasks, Begin(t)
  PROVE  SerialsDiffer'
<1>1. /\ nextSerial \in Nat /\ SerialModulus \in Nat /\ MaxOps \in Nat
      /\ serial \in [Tasks -> Serials] /\ Conns' = Conns
      /\ ops \in Nat /\ ops <= MaxOps /\ Len(line) \in Nat
  <2>1. /\ SerialModulus \in Nat /\ MaxOps \in Nat /\ Conns' = Conns
    BY SetupFacts, SetupKept DEF TypeOK
  <2>2. line \in Seq(Tasks) /\ ops \in 0..MaxOps /\ nextSerial \in Nat
    BY DEF TypeOK, Gate!TypeOK, Serials
  <2> QED BY <2>1, <2>2 DEF TypeOK
<1>2. /\ InsideFrame(t) /\ pc[t] = "begin"
      /\ UNCHANGED <<ops, line, req, kind>>
  <2>1. InsideFrame(t)
    BY InsideSteps DEF Inside
  <2> QED BY <2>1 DEF Begin, InsideFrame, gateVars
<1>3. /\ pc'[t] \in InTurn \ {"begin"}
      /\ \A u \in Tasks \ {t} : pc'[u] = pc[u] /\ pc[u] \notin InTurn
  BY <1>2, SetupFacts DEF InsideFrame, Goto, TypeOK, HoldsTurn
<1>4. Beginning = 1 /\ Beginning' = 0
  <2>1. "begin" \in InTurn
    BY DEF InTurn, Places, Running
  <2> QED BY <1>2, <1>3, <2>1 DEF Beginning
<1>5. nextSerial + 1 + Len(line) <= ops
  BY <1>1, <1>4 DEF SerialsDiffer
<1>6. nextSerial + 1 < SerialModulus
  BY <1>1, <1>5 DEF Signed
<1>7. \A c \in Conns : Carried(c)' = Carried(c)
  BY DEF Begin, netVars, Carried
<1>8. \A u \in Tasks \ {t} : ~HasSerial(u)'
  BY <1>3 DEF HasSerial
<1>9. CASE kind[t] = "connect"
  <2>1. UNCHANGED <<nextSerial, serial>> /\ ~HasSerial(t)'
    BY <1>2, <1>9 DEF Begin, TakeSerial, HasSerial
  <2>2. nextSerial' + Len(line)' + Beginning' <= ops'
    BY <1>1, <1>2, <1>4, <1>5, <2>1
  <2> QED BY <1>1, <1>7, <1>8, <2>1, <2>2 DEF SerialsDiffer
<1>10. CASE kind[t] # "connect"
  <2>1. /\ serial'[t] = nextSerial
        /\ nextSerial' = (nextSerial + 1) % SerialModulus
    BY <1>1, <1>10 DEF Begin, TakeSerial, Signed
  <2>2. nextSerial' = nextSerial + 1
    BY <1>1, <1>6, <2>1
  <2>3. /\ nextSerial' + Len(line)' + Beginning' <= ops'
        /\ serial'[t] < nextSerial'
    BY <1>1, <1>2, <1>4, <1>5, <2>1, <2>2
  <2>4. ASSUME NEW c \in Conns, NEW m \in Carried(c)', m.req # 0
        PROVE  m.serial < nextSerial' /\ m.serial # serial'[t]
    <3>1. m \in Carried(c)
      BY <1>7, <2>4
    <3>2. m.serial \in Serials
      <4>1. \A r \in unanswered[c] : r.serial \in Serials
        BY DEF TypeOK, Requests
      <4>2. \A i \in DOMAIN inbox[c] : inbox[c][i] \in Frames
        BY DEF TypeOK
      <4>3. \A i \in DOMAIN inbox[c] : inbox[c][i].serial \in Serials
        BY <4>2 DEF Frames
      <4> QED BY <3>1, <4>1, <4>3 DEF Carried, Header
    <3>3. m.serial < nextSerial /\ m.serial \in Nat
      BY <2>4, <3>1, <3>2, <1>1 DEF SerialsDiffer, Serials
    <3> QED BY <1>1, <2>1, <2>2, <3>3
  <2> QED BY <1>1, <1>8, <2>3, <2>4 DEF SerialsDiffer
<1> QED BY <1>9, <1>10

(* Only the beginning of an operation takes a serial number. *)
LEMMA SerialKept ==
  ASSUME NEW t \in Tasks, Inside(t), ~Begin(t)
  PROVE  UNCHANGED <<serial, nextSerial>>
<1> USE DEF clientVars, taskVars
<1>1. \A o : RetireThen(t, o) => UNCHANGED <<serial, nextSerial>>
  BY DEF RetireThen
<1>2. \A f, a : Fail(t, f, a) => UNCHANGED <<serial, nextSerial>>
  BY <1>1 DEF Fail
<1>3. \A f : FailConnect(t, f) => UNCHANGED <<serial, nextSerial>>
  BY <1>2 DEF FailConnect
<1>4. \A f : Accept(t, f) => UNCHANGED <<serial, nextSerial>>
  BY DEF Accept
<1>5. CASE \/ Send(t) \/ Sent(t) \/ Decode(t) \/ Resolved(t)
           \/ DiscardEnds(t) \/ CleanupEnds(t) \/ Traced(t) \/ Cut(t)
  BY <1>1, <1>5
     DEF Send, Sent, Decode, Resolved, DiscardEnds, CleanupEnds, Traced, Cut
<1>6. CASE Discarded(t) \/ ConnectFails(t) \/ ExchangeFails(t)
  BY <1>2, <1>3, <1>6 DEF Discarded, ConnectFails, ExchangeFails
<1>7. CASE Drained(t) \/ \E c \in Conns : Adopts(t, c) \/ Discards(t, c)
  BY <1>1, <1>2, <1>7 DEF Drained, Adopts, Discards, Opens
<1>8. CASE ReadFrame(t) \/ WaiterResumes(t)
  BY <1>2, <1>4, <1>8 DEF ReadFrame, WaiterResumes
<1> QED BY <1>5, <1>6, <1>7, <1>8 DEF Inside

(* Numbers that do not wrap tell the requests apart, whatever arrives      *)
(* twice, late or never.                                                   *)
LEMMA SerialsStep ==
  ASSUME TypeOK, HoldsTurn, Standing, Transports,
         Signed, SerialsDiffer, [Next]_vars
  PROVE  SerialsDiffer'
<1>0. UNCHANGED setup
  BY DEF Next, vars
<1>1. /\ line \in Seq(Tasks) /\ ops \in Nat /\ nextSerial \in Nat
      /\ Len(line) \in Nat /\ MaxOps \in Nat /\ NoTask \notin Tasks
      /\ pc \in [Tasks -> Places] /\ kind \in [Tasks -> AllKinds]
      /\ inbox \in [Conns -> Seq(Frames)]
      /\ unanswered \in [Conns -> SUBSET Requests]
      /\ local \in [Tasks -> Conns \union {NoConn}]
      /\ NoConn \notin Conns /\ Conns' = Conns
      /\ "begin" \in InTurn
      /\ \A t \in Tasks : pc[t] \in InTurn <=> holder = t
  <2>1. /\ MaxOps \in Nat /\ Conns' = Conns
        /\ NoTask \notin Tasks /\ NoConn \notin Conns
    BY <1>0, SetupFacts, SetupKept DEF TypeOK
  <2>2. line \in Seq(Tasks) /\ ops \in 0..MaxOps /\ nextSerial \in Nat
    BY DEF TypeOK, Gate!TypeOK, Serials
  <2>3. "begin" \in InTurn
    BY DEF InTurn, Places, Running
  <2> QED BY <2>1, <2>2, <2>3 DEF TypeOK, HoldsTurn
<1> USE <1>0, <1>1 DEF Goto
<1>2. Beginning \in 0..1 /\ Beginning' \in 0..1
  BY DEF Beginning
<1>3. ASSUME NEW t \in Tasks, NEW k \in Kinds, StartFree(t, k)
      PROVE  SerialsDiffer'
  <2>1. /\ UNCHANGED <<nextSerial, serial, inbox, unanswered, line>>
        /\ ops' = ops + 1 /\ pc[t] = "idle" /\ holder = NoTask
        /\ pc'[t] = "begin" /\ \A u \in Tasks \ {t} :
             pc'[u] = pc[u] /\ req'[u] = req[u] /\ kind'[u] = kind[u]
    BY <1>3 DEF StartFree, Start, Suspended, Gate!TakeFree, netVars, TypeOK
  <2>2. Beginning = 0
    BY <2>1 DEF Beginning
  <2>3. nextSerial' + Len(line)' + Beginning' <= ops'
    BY <1>2, <2>1, <2>2 DEF SerialsDiffer
  <2>4. /\ ~HasSerial(t)'
        /\ \A u \in Tasks \ {t} : HasSerial(u)' => HasSerial(u)
    BY <2>1 DEF HasSerial
  <2>5. \A c \in Conns : Carried(c)' = Carried(c)
    BY <2>1 DEF Carried
  <2> QED BY <2>1, <2>3, <2>4, <2>5 DEF SerialsDiffer
<1>4. ASSUME NEW t \in Tasks, NEW k \in Kinds, StartQueued(t, k)
      PROVE  SerialsDiffer'
  <2>1. /\ UNCHANGED <<nextSerial, serial, inbox, unanswered>>
        /\ line' = Append(line, t) /\ ops' = ops + 1 /\ pc[t] = "idle"
        /\ pc'[t] = "queued" /\ \A u \in Tasks \ {t} :
             pc'[u] = pc[u] /\ req'[u] = req[u] /\ kind'[u] = kind[u]
    BY <1>4 DEF StartQueued, Start, Suspended, Gate!Join, netVars, TypeOK
  <2>2. Beginning' <= Beginning
    BY <2>1 DEF Beginning
  <2>3. nextSerial' + Len(line)' + Beginning' <= ops'
    BY <1>2, <2>1, <2>2 DEF SerialsDiffer
  <2>4. /\ ~HasSerial(t)'
        /\ \A u \in Tasks \ {t} : HasSerial(u)' => HasSerial(u)
    BY <2>1 DEF HasSerial, InTurn
  <2>5. \A c \in Conns : Carried(c)' = Carried(c)
    BY <2>1 DEF Carried
  <2> QED BY <2>1, <2>3, <2>4, <2>5 DEF SerialsDiffer
<1>5. ASSUME NEW t \in Tasks, TurnGranted(t) PROVE SerialsDiffer'
  <2>1. /\ holder = NoTask /\ line # <<>> /\ line' = Tail(line)
        /\ UNCHANGED <<ops, nextSerial, serial, req, kind, inbox, unanswered>>
        /\ pc'[t] = "begin" /\ \A u \in Tasks \ {t} : pc'[u] = pc[u]
    BY <1>5 DEF TurnGranted, Gate!Take, netVars, clientVars
  <2>2. Beginning = 0
    BY <2>1 DEF Beginning
  <2>3. Len(line)' \in Nat /\ Len(line)' + Beginning' <= Len(line) + Beginning
    BY <1>2, <2>1, <2>2
  <2>4. \A u \in Tasks : HasSerial(u)' => HasSerial(u)
    BY <2>1 DEF HasSerial
  <2>5. \A c \in Conns : Carried(c)' = Carried(c)
    BY <2>1 DEF Carried
  <2> QED BY <2>1, <2>3, <2>4, <2>5, SerialsStay
<1>6. ASSUME NEW t \in Tasks,
             TurnRefused(t) \/ CancelledInLine(t) \/ Leave(t)
      PROVE  SerialsDiffer'
  <2>1. /\ line' \in {line, RemoveFirst(line, t)} /\ pc'[t] = "idle"
        /\ UNCHANGED <<ops, nextSerial, serial, kind, req, inbox, unanswered>>
        /\ \A u \in Tasks \ {t} : pc'[u] = pc[u]
    BY <1>6, GateRemoves
       DEF TurnRefused, CancelledInLine, Leave, Gate!Refuse, Gate!GiveUp,
           Gate!Release, netVars, clientVars
  <2>2. Len(line)' <= Len(line) /\ Len(line)' \in Nat
    BY <2>1, RemoveFirstKeeps
  <2>3. Beginning' <= Beginning
    BY <2>1 DEF Beginning
  <2>4. Len(line)' + Beginning' <= Len(line) + Beginning
    BY <1>2, <2>2, <2>3
  <2>5. \A u \in Tasks : HasSerial(u)' => HasSerial(u)
    BY <2>1 DEF HasSerial, InTurn
  <2>6. \A c \in Conns : Carried(c)' = Carried(c)
    BY <2>1 DEF Carried
  <2> QED BY <2>1, <2>2, <2>4, <2>5, <2>6, SerialsStay
<1>7. ASSUME NEW t \in Tasks, Inside(t), ~Begin(t) PROVE SerialsDiffer'
  <2>1. InsideFrame(t) /\ UNCHANGED <<serial, nextSerial>>
    BY <1>7, InsideSteps, SerialKept
  <2>2. /\ UNCHANGED <<ops, kind, req, line>>
        /\ pc[t] \in InTurn /\ pc'[t] # "begin"
        /\ \A u \in Tasks \ {t} : pc'[u] = pc[u] /\ pc[u] \notin InTurn
    BY <2>1 DEF InsideFrame, gateVars
  <2>3. pc[t] # "begin"
    BY <1>7
       DEF Inside, Discarded, Send, Sent, Decode, Resolved, ConnectFails,
           Adopts, Discards, Opens, DiscardEnds, Drained, ReadFrame,
           WaiterResumes, ExchangeFails, CleanupEnds, Traced, Cut, Suspended
  <2>4. \A u \in Tasks : HasSerial(u)' => HasSerial(u)
    BY <2>2, <2>3 DEF HasSerial
  <2>5. Beginning' = 0
    BY <2>2 DEF Beginning
  <2>6. Len(line)' + Beginning' <= Len(line) + Beginning
    BY <1>2, <2>2, <2>5
  <2>7. CASE ~Sends(t)
    <3>1. \A c \in Conns : Carried(c)' \subseteq Carried(c)
      <4>1. CASE Retires(t) \/ Passes(t) \/ Takes(t)
        <5>1. Retire \/ Passes(t) \/ Takes(t)
          BY <4>1 DEF Retires, RetireThen
        <5> QED BY <5>1, InsideMessages, FewerMessages
      <4>2. ASSUME NEW c \in Conns, Adopts(t, c) \/ Discards(t, c)
            PROVE  \A d : Carried(d)' = Carried(d)
        BY <4>2 DEF Adopts, Discards, Opens, Carried
      <4> QED BY <1>7, <2>7, <4>1, <4>2, InsideConns
    <3> QED BY <2>1, <2>2, <2>4, <2>6, <3>1, SerialsStay
  <2>8. CASE Sends(t)
    <3> DEFINE m == [req |-> req[t], serial |-> serial[t]]
    <3>1. /\ pc[t] = "send" /\ UNCHANGED inbox
          /\ unanswered' = [unanswered EXCEPT ![conn] = @ \union {m}]
      BY <2>8 DEF Sends
    <3>2. HasSerial(t)
      BY <2>2, <3>1 DEF HasSerial, Standing, Stands
    <3>3. Header(m) = m /\ m.req = req[t] /\ m.serial = serial[t]
      BY DEF Header
    <3>4. ASSUME NEW c \in Conns
          PROVE  Carried(c)' \subseteq Carried(c) \union {m}
      <4>1. unanswered'[c] \subseteq unanswered[c] \union {m}
        BY <3>1
      <4> QED BY <3>1, <3>3, <4>1 DEF Carried
    <3> HIDE DEF m
    <3>5. serial[t] < nextSerial
      BY <3>2 DEF SerialsDiffer
    <3>6. ASSUME NEW c \in Conns, NEW n \in Carried(c)', n.req # 0
          PROVE  /\ n.serial < nextSerial
                 /\ \A u \in Tasks :
                      HasSerial(u)' /\ n.serial = serial[u] => n.req = req[u]
      <4>1. CASE n \in Carried(c)
        BY <2>4, <3>6, <4>1 DEF SerialsDiffer
      <4>2. CASE n = m
        BY <2>2, <3>3, <3>5, <4>2 DEF HasSerial
      <4> QED BY <3>4, <3>6, <4>1, <4>2
    <3>7. nextSerial' + Len(line)' + Beginning' <= ops'
      BY <1>2, <2>1, <2>2, <2>6 DEF SerialsDiffer
    <3> QED BY <2>1, <2>2, <2>4, <3>6, <3>7 DEF SerialsDiffer
  <2> QED BY <2>7, <2>8
<1>8. CASE Close
  <2>1. /\ Retire
        /\ UNCHANGED <<ops, nextSerial, serial, kind, req, pc, line>>
    BY <1>8 DEF Close, Gate!Close, taskVars
  <2>2. \A u \in Tasks : HasSerial(u)' => HasSerial(u)
    BY <2>1 DEF HasSerial
  <2>3. Beginning' = Beginning
    BY <2>1 DEF Beginning
  <2>4. ASSUME NEW c \in Conns PROVE Carried(c)' \subseteq Carried(c)
    <3>1. /\ unanswered'[c] \subseteq unanswered[c]
          /\ inbox'[c] = inbox[c] \/ inbox'[c] = <<>>
      BY <2>1 DEF Retire
    <3> QED BY <3>1, FewerMessages
  <2> QED BY <2>1, <2>2, <2>3, <2>4, <1>2, SerialsStay
<1>9. CASE Outside \/ UNCHANGED vars
  <2>1. UNCHANGED <<ops, nextSerial, serial, kind, req, pc, line>>
    BY <1>9, OutsideSteps DEF vars, gateVars, clientVars, taskVars
  <2>2. \A u \in Tasks : HasSerial(u)' => HasSerial(u)
    BY <2>1 DEF HasSerial
  <2>3. Beginning' = Beginning
    BY <2>1 DEF Beginning
  <2>4. \A c \in Conns : \A m \in Carried(c)' :
          m.req # 0 => m \in Carried(c)
    <3>1. CASE Outside
      BY <3>1, OutsideMessages
    <3>2. CASE UNCHANGED vars
      BY <3>2 DEF vars, netVars, Carried
    <3> QED BY <1>9, <3>1, <3>2
  <2> QED BY <2>1, <2>2, <2>3, <2>4, <1>2, SerialsStay
<1>10. ASSUME NEW t \in Tasks, Begin(t) PROVE SerialsDiffer'
  BY <1>10, SerialTaken
<1> QED
  BY <1>3, <1>4, <1>5, <1>6, <1>7, <1>8, <1>9, <1>10
     DEF Next, RunsOn, Resumes, Inside, Outside

(* A frame that is on a connection and has the serial number of a task is  *)
(* the answer to its request.                                              *)
LEMMA SignedFrame ==
  ASSUME SerialsDiffer, NEW t \in Tasks, HasSerial(t), NEW c \in Conns,
         NEW i \in DOMAIN inbox[c], inbox[c][i].req # 0,
         inbox[c][i].serial = serial[t]
  PROVE  inbox[c][i].req = req[t]
<1>1. /\ Header(inbox[c][i]) \in Carried(c)
      /\ Header(inbox[c][i]).req = inbox[c][i].req
      /\ Header(inbox[c][i]).serial = inbox[c][i].serial
  BY DEF Carried, Header
<1> QED BY <1>1 DEF SerialsDiffer

(* _response_matches_request() takes a frame for the answer only if it is, *)
(* by what is on the connection or by its serial number; and so does       *)
(* _SlmpUdpProtocol.datagram_received() for the future of the task that    *)
(* awaits it.                                                              *)
LEMMA AnswerStep ==
  ASSUME TypeOK, HoldsTurn, Standing, Transports,
         NoDuplicates => OneConversation, Signed => SerialsDiffer,
         NoDuplicates \/ Signed, AnswerIsMine, WaiterIsMine,
         [Next]_vars
  PROVE  AnswerIsMine' /\ WaiterIsMine'
<1>0. UNCHANGED setup
  BY DEF Next, vars
<1>1. /\ pc \in [Tasks -> Places] /\ matched \in [Tasks -> 0..MaxOps]
      /\ local \in [Tasks -> Conns \union {NoConn}] /\ NoConn \notin Conns
      /\ waiter \in [Conns -> Waiters] /\ inbox \in [Conns -> Seq(Frames)]
      /\ Transport' = Transport /\ Transport \in {"tcp", "udp"}
      /\ Conns' = Conns
      /\ \A t, u \in Tasks :
           pc[t] \in InTurn /\ pc[u] \in InTurn => t = u
      /\ \A t \in Tasks : Awaits(t) => local[t] \in Conns
  BY <1>0, SetupFacts, SetupKept
     DEF TypeOK, HoldsTurn, Transports, Awaits, Answering
<1> USE <1>1
        DEF Awaits, AnswerIsMine, WaiterIsMine, Goto, InTurn, Places,
            Running, Awaiting
<1>2. ASSUME NEW t \in Tasks, pc[t] = "receiving", local[t] \in Conns,
             NEW i \in DOMAIN inbox[local[t]],
             Matches(serial[t], inbox[local[t]][i])
      PROVE  inbox[local[t]][i].req = req[t]
  <2>1. CASE NoDuplicates
    BY <1>2, <2>1 DEF OneConversation, OnlyMine, Matches, Answering
  <2>2. CASE Signed
    <3>1. HasSerial(t)
      BY <1>2 DEF HasSerial, Standing, Stands, AfterSend, Answering
    <3> QED BY <1>2, <2>2, <3>1, SignedFrame DEF Matches, Signed
  <2> QED BY <2>1, <2>2
<1>3. ASSUME UNCHANGED <<matched, req, pc, local>>,
             \A c \in Conns : waiter'[c].state = "answered"
                                => waiter'[c] = waiter[c]
      PROVE  AnswerIsMine' /\ WaiterIsMine'
  BY <1>3
<1>4. ASSUME NEW t \in Tasks, NEW k \in Kinds,
             StartFree(t, k) \/ StartQueued(t, k)
      PROVE  AnswerIsMine' /\ WaiterIsMine'
  <2>1. Start(t, k) /\ \E p \in {"begin", "queued"} : Goto(t, p)
    BY <1>4 DEF StartFree, StartQueued
  <2> QED BY <2>1 DEF Start, netVars
<1>5. ASSUME NEW t \in Tasks,
             \/ TurnGranted(t) \/ TurnRefused(t) \/ CancelledInLine(t)
             \/ Leave(t)
      PROVE  AnswerIsMine' /\ WaiterIsMine'
  <2>1. /\ UNCHANGED <<matched, req, waiter>>
        /\ pc'[t] \in {"idle", "begin"}
        /\ \A u \in Tasks \ {t} : pc'[u] = pc[u] /\ local'[u] = local[u]
    BY <1>5
       DEF TurnGranted, TurnRefused, CancelledInLine, Leave, netVars,
           historyVars
  <2> QED BY ZenonT(60), <2>1
<1>6. ASSUME NEW t \in Tasks, Inside(t)
      PROVE  AnswerIsMine' /\ WaiterIsMine'
  <2>0. /\ UNCHANGED req
        /\ \A u \in Tasks \ {t} : pc'[u] = pc[u] /\ pc[u] \notin InTurn
        /\ pc[t] \in InTurn /\ pc'[t] \in InTurn
    <3>1. InsideFrame(t)
      BY <1>6, InsideSteps
    <3> QED BY <3>1 DEF InsideFrame
  <2> USE <2>0
  <2>1. CASE Retires(t)
    <3>1. pc'[t] \in {"cleanup", "sent", "leave"}
      BY <2>1 DEF Retires, RetireThen
    <3>2. UNCHANGED matched
      <4>1. \A f, a : Fail(t, f, a) => UNCHANGED matched
        BY DEF Fail
      <4>2. \A f : FailConnect(t, f) => UNCHANGED matched
        BY <4>1 DEF FailConnect, historyVars
      <4>3. \A f : Accept(t, f) => pc'[t] \in {"tracing", "decode"}
        BY DEF Accept
      <4>4. CASE \/ Begin(t) \/ Send(t) \/ Sent(t) \/ Decode(t)
                 \/ Resolved(t) \/ DiscardEnds(t) \/ CleanupEnds(t)
                 \/ Traced(t) \/ Cut(t)
        BY <4>4
           DEF Begin, Send, Sent, Decode, Resolved, DiscardEnds, CleanupEnds,
               Traced, Cut, historyVars
      <4>5. CASE Discarded(t) \/ ConnectFails(t) \/ ExchangeFails(t)
        BY <4>1, <4>2, <4>5 DEF Discarded, ConnectFails, ExchangeFails
      <4>6. CASE Drained(t) \/ \E c \in Conns : Adopts(t, c) \/ Discards(t, c)
        BY <4>1, <4>6 DEF Drained, Adopts, Discards, Opens, historyVars
      <4>7. CASE ReadFrame(t) \/ WaiterResumes(t)
        BY <3>1, <4>1, <4>3, <4>7 DEF ReadFrame, WaiterResumes, historyVars
      <4> QED BY <1>6, <4>4, <4>5, <4>6, <4>7 DEF Inside
    <3> QED BY <3>1, <3>2
  <2>2. CASE Passes(t)
    <3>1. /\ UNCHANGED <<matched, waiter, local>>
          /\ pc'[t] = "receiving" => Transport = "tcp"
      BY <2>2 DEF Passes, Transports
    <3> QED BY <3>1
  <2>3. CASE Takes(t)
    <3>1. /\ pc[t] = "receiving" /\ local[t] \in Conns
          /\ pc'[t] \in {"receiving", "tracing", "decode"}
          /\ pc'[t] = "receiving" => Transport = "tcp"
      BY <2>3 DEF Takes, Reads, Gets, Transports, Answering
    <3>2. ~Awaits(t)'
      BY <3>1
    <3>3. CASE Reads(t)
      <4>1. inbox[local[t]] \in Seq(Frames) /\ inbox[local[t]] # <<>>
        BY <3>1, <3>3 DEF Reads
      <4>2. /\ 1 \in DOMAIN inbox[local[t]]
            /\ inbox[local[t]][1] = Head(inbox[local[t]])
        BY <4>1
      <4>3. \/ UNCHANGED matched
            \/ matched' = [matched EXCEPT ![t] = req[t]]
        BY <1>2, <3>1, <3>3, <4>2 DEF Reads
      <4>4. UNCHANGED waiter /\ UNCHANGED local
        BY <2>3, <3>3 DEF Takes, Reads
      <4>5. \A u \in Tasks : ~Awaits(u)'
        BY <3>2
      <4>6. \A u \in Tasks : matched'[u] \in {matched[u], req[u]}
        BY <4>3
      <4>7. AnswerIsMine'
        BY <4>6
      <4>8. WaiterIsMine'
        BY <4>5
      <4> QED BY <4>7, <4>8
    <3>4. CASE Gets(t)
      <4>1. waiter[local[t]].frame.req = req[t]
        BY <3>1, <3>4 DEF Gets
      <4>2. matched' = [matched EXCEPT ![t] = req[t]]
        BY <3>4, <4>1 DEF Gets
      <4> QED BY <3>2, <4>2
    <3> QED BY <2>3, <3>3, <3>4 DEF Takes
  <2>4. CASE Sends(t)
    <3>1. /\ pc[t] = "send" /\ UNCHANGED matched /\ local'[t] = conn
          /\ conn \in Conns
          /\ pc'[t] = IF Transport = "tcp" THEN "draining" ELSE "receiving"
          /\ Transport = "udp" =>
               waiter' = [waiter EXCEPT ![conn] = NewWaiter(t)]
      BY <2>4 DEF Sends, Transports, TypeOK
    <3>2. NewWaiter(t).state = "pending"
      BY DEF NewWaiter, NoWaiter
    <3>3. AnswerIsMine'
      BY <3>1
    <3>4. \A u \in Tasks \ {t} : ~Awaits(u)'
      BY <3>1
    <3>5. Awaits(t)' => waiter'[local'[t]] = NewWaiter(t)
      BY <3>1
    <3>6. WaiterIsMine'
      BY <3>2, <3>4, <3>5
    <3> QED BY <3>3, <3>6
  <2>5. ASSUME NEW c \in Conns, Adopts(t, c) \/ Discards(t, c)
        PROVE  AnswerIsMine' /\ WaiterIsMine'
    <3>1. /\ UNCHANGED matched
          /\ pc'[t] \in {"leave", "send", "discarding", "discarded"}
      BY <2>5 DEF Adopts, Discards, Opens, Ends, Suspended
    <3> QED BY <3>1
  <2> QED BY <1>6, <2>1, <2>2, <2>3, <2>4, <2>5, InsideConns
<1>7. CASE Close
  <2>1. \A c \in Conns :
          waiter'[c].state = "answered" => waiter'[c] = waiter[c]
    BY <1>7 DEF Close, FailPending, Waiters
  <2> QED BY <1>3, <1>7, <2>1 DEF Close, taskVars
<1>8. ASSUME NEW c \in Conns, DatagramReceived(c)
      PROVE  AnswerIsMine' /\ WaiterIsMine'
  <2>1. UNCHANGED <<matched, req, pc, local>>
    BY <1>8 DEF DatagramReceived, taskVars, historyVars
  <2>2. CASE UNCHANGED waiter
    BY <1>3, <2>1, <2>2
  <2>3. CASE ~UNCHANGED waiter
    <3>1. PICK i \in DOMAIN inbox[c] :
            /\ \/ inbox[c][i].code = "bad"
               \/ Matches(waiter[c].expected, inbox[c][i])
            /\ waiter' = [waiter EXCEPT ![c] =
                 [@ EXCEPT !.state = IF inbox[c][i].code = "bad"
                                       THEN "protocol" ELSE "answered",
                           !.frame = inbox[c][i]]]
      BY <1>8, <2>3 DEF DatagramReceived
    <3>2. /\ waiter'[c].frame = inbox[c][i]
          /\ waiter'[c].state = "answered" => inbox[c][i].code # "bad"
      BY <3>1 DEF Waiters
    <3>3. ASSUME NEW t \in Tasks, Awaits(t), local[t] = c,
                 waiter'[c].state = "answered"
          PROVE  waiter'[c].frame.req = req[t]
      <4>1. waiter[c].expected = serial[t]
        BY <3>3 DEF Transports
      <4> QED BY <1>2, <3>1, <3>2, <3>3, <4>1
    <3>4. \A d \in Conns \ {c} : waiter'[d] = waiter[d]
      BY <3>1
    <3>5. AnswerIsMine'
      BY <2>1
    <3>6. ASSUME NEW t \in Tasks, Awaits(t)',
                 waiter'[local'[t]].state = "answered"
          PROVE  waiter'[local'[t]].frame.req = req'[t]
      <4>1. Awaits(t) /\ local'[t] = local[t] /\ req'[t] = req[t]
        BY <2>1, <3>6
      <4>2. CASE local[t] = c
        BY <3>3, <3>6, <4>1, <4>2
      <4>3. CASE local[t] # c
        <5>1. local[t] \in Conns \ {c}
          BY <4>1, <4>3
        <5>2. waiter'[local[t]] = waiter[local[t]]
          BY <3>4, <5>1
        <5> QED BY <3>6, <4>1, <5>2
      <4> QED BY <4>2, <4>3
    <3>7. WaiterIsMine'
      BY <3>6
    <3> QED BY <3>5, <3>7
  <2> QED BY <2>2, <2>3
<1>9. ASSUME NEW c \in Conns,
             TransportLost(c) \/ PlcAnswers(c) \/ ExtraArrives(c)
      PROVE  AnswerIsMine' /\ WaiterIsMine'
  <2>1. \A d \in Conns :
          waiter'[d].state = "answered" => waiter'[d] = waiter[d]
    <3>1. CASE TransportLost(c)
      BY <3>1 DEF TransportLost, FailPending, LossError, Waiters
    <3>2. CASE PlcAnswers(c) \/ ExtraArrives(c)
      BY <3>2 DEF PlcAnswers, ExtraArrives
    <3> QED BY <1>9, <3>1, <3>2
  <2>2. UNCHANGED <<matched, req, pc, local>>
    BY <1>9 DEF TransportLost, PlcAnswers, ExtraArrives, taskVars, historyVars
  <2> QED BY <1>3, <2>1, <2>2
<1>10. CASE UNCHANGED vars
  BY <1>3, <1>10 DEF vars, netVars, taskVars, historyVars
<1> QED
  BY <1>4, <1>5, <1>6, <1>7, <1>8, <1>9, <1>10
     DEF Next, RunsOn, Resumes, Inside
------------------------------------------------------------------------------
(* A client that was just made satisfies the invariant.                    *)
LEMMA InitInvariant == Init => IInv
<1> SUFFICES ASSUME Init PROVE IInv
  OBVIOUS
<1>0. /\ setup \in DOMAIN Setups
      /\ MaxOps \in Nat /\ MaxCloses \in Nat /\ MaxExtra \in Nat
      /\ 0 \in Serials /\ NoTask \notin Tasks /\ NoConn \notin Conns
      /\ NoWaiter \in Waiters
  BY SetupFacts, NoFrameTypes DEF Init, Serials
<1>1. TypeOK
  <2>1. <<>> \in Seq(Tasks) /\ <<>> \in Seq(Frames)
    OBVIOUS
  <2>2. /\ Gate!TypeOK
        /\ conn \in Conns \union {NoConn}
        /\ connState \in [Conns -> {"unused", "open", "closing", "closed"}]
        /\ inbox \in [Conns -> Seq(Frames)]
        /\ unanswered \in [Conns -> SUBSET Requests]
        /\ waiter \in [Conns -> Waiters]
        /\ activeSC \in BOOLEAN
    BY <1>0, <2>1 DEF Init, Gate!Init, Gate!TypeOK
  <2>3. /\ ops \in 0..MaxOps /\ nextSerial \in Serials
        /\ serial \in [Tasks -> Serials] /\ extra \in 0..MaxExtra
        /\ closes \in 0..MaxCloses
        /\ opened \in [Tasks -> 0..MaxCloses]
        /\ matched \in [Tasks -> 0..MaxOps]
        /\ connGen \in [Conns -> 0..MaxCloses]
        /\ req \in [Tasks -> 0..MaxOps]
        /\ local \in [Tasks -> Conns \union {NoConn}]
    BY <1>0 DEF Init
  <2>4. /\ pc \in [Tasks -> Places] /\ kind \in [Tasks -> AllKinds]
        /\ answer \in [Tasks -> AllCodes]
        /\ outcome \in [Tasks -> Outcomes]
        /\ sent \in [Tasks -> BOOLEAN]
        /\ overtaken \in [Tasks -> BOOLEAN]
        /\ cut \in [Tasks -> BOOLEAN]
    BY DEF Init, Places, Outcomes, AllKinds, AllCodes
  <2> QED BY <1>0, <2>2, <2>3, <2>4 DEF TypeOK
<1>2. HoldsTurn /\ Standing
  BY <1>0
     DEF Init, Gate!Init, HoldsTurn, Standing, Stands, InTurn, Places,
         Running, Awaiting, BeforeSend, AfterSend, Connecting, Answering
<1>3. Overtaking
  BY <1>0 DEF Init, Gate!Init, Overtaking
<1>4. Transports
  BY <1>0 DEF Init, Transports, Awaits, Connecting, Answering, NoWaiter
<1>5. Settled /\ Earned
  BY DEF Init, Settled, Earned, StateChanging
<1>6. InOrder /\ Unopened /\ OneLiveConnection
  <2>1. {c \in Conns : connState[c] # "unused"} = {}
    BY DEF Init
  <2>2. 1..0 = {} /\ 0 \in 0..MaxOps
    BY <1>0
  <2>3. InOrder
    BY <2>1, <2>2 DEF InOrder
  <2> QED BY <2>3 DEF Init, Unopened, OneLiveConnection
<1>7. OneConversation
  BY DEF Init, OneConversation, AtMostOne, Answering, Awaits
<1>8. SerialsDiffer
  <2>1. Beginning = 0 /\ Len(line) = 0
    BY DEF Init, Gate!Init, Beginning
  <2>2. \A c \in Conns : Carried(c) = {}
    BY DEF Init, Carried
  <2>3. \A t \in Tasks : ~HasSerial(t)
    BY DEF Init, HasSerial, InTurn
  <2> QED BY <2>1, <2>2, <2>3 DEF Init, SerialsDiffer
<1>9. AnswerIsMine /\ WaiterIsMine
  BY DEF Init, AnswerIsMine, WaiterIsMine, Awaits
<1> QED
  BY <1>1, <1>2, <1>3, <1>4, <1>5, <1>6, <1>7, <1>8, <1>9
     DEF IInv, Correlation

(* Every step of a task, of close(), of the event loop and of the PLC      *)
(* keeps the invariant.                                                    *)
LEMMA Invariance == IInv /\ [Next]_vars => IInv'
<1> SUFFICES ASSUME IInv, [Next]_vars PROVE IInv'
  OBVIOUS
<1> USE DEF IInv
<1>1. TypeOK'
  BY TypeStep
<1>2. HoldsTurn'
  BY TurnStep
<1>3. Standing'
  BY StandingStep
<1>4. Overtaking'
  BY OvertakingStep
<1>5. Transports'
  BY TransportsStep
<1>6. Settled' /\ Earned'
  BY OutcomesStep
<1>7. InOrder' /\ Unopened'
  BY OrderStep
<1>8. OneLiveConnection'
  BY OneConnectionStep
<1>9. Correlation'
  <2>0. UNCHANGED setup
    BY DEF Next, vars
  <2>1. (NoDuplicates' <=> NoDuplicates) /\ (Signed' <=> Signed)
    BY <2>0, SetupKept DEF NoDuplicates, Signed
  <2>2. NoDuplicates => OneConversation'
    BY ConversationStep DEF Correlation
  <2>3. Signed => SerialsDiffer'
    BY SerialsStep DEF Correlation
  <2>4. NoDuplicates \/ Signed => AnswerIsMine' /\ WaiterIsMine'
    BY AnswerStep DEF Correlation
  <2> QED BY <2>1, <2>2, <2>3, <2>4 DEF Correlation
<1> QED BY <1>1, <1>2, <1>3, <1>4, <1>5, <1>6, <1>7, <1>8, <1>9

(* The inductive invariant holds whatever the tasks, the setups and the    *)
(* order in which the event loop runs them: the turn, the places, the      *)
(* closes, the connections and the correlation of answers.                 *)
THEOREM Invariant == Spec => []IInv
<1> QED BY InitInvariant, Invariance, PTL DEF Spec

(* The variables of the client keep their types, for any number of tasks,  *)
(* operations, closes and frames.                                          *)
THEOREM Typing == Spec => []TypeOK
<1>1. IInv => TypeOK
  BY DEF IInv
<1> QED BY <1>1, Invariant, PTL

(* The documented contract of src/slmp/async_client.py: a state-changing   *)
(* request that may have left ends with an acknowledgement, an end code or *)
(* SlmpOutcomeUnknownError. The exception is a task that is cancelled      *)
(* while it waits for the cleanup of its exchange or for the trace hook.   *)
THEOREM ContractKept == Spec => []OutcomeContractUncut
<1>1. IInv => OutcomeContractUncut
  BY DEF IInv, Settled, OutcomeContractUncut, Finished
<1> QED BY <1>1, Invariant, PTL

(* No operation reports a success that a close() came before, an unknown   *)
(* outcome without a state-changing request that may have left, a close    *)
(* that did not happen since it began, or an error outside the SlmpError   *)
(* classes.                                                                *)
THEOREM OutcomesEarned == Spec => []OutcomesAreEarned
<1>1. IInv => OutcomesAreEarned
  <2> SUFFICES ASSUME IInv PROVE OutcomesAreEarned
    OBVIOUS
  <2>1. Earned /\ closes \in Nat /\ opened \in [Tasks -> Nat]
    BY SetupFacts DEF IInv, TypeOK
  <2> QED BY <2>1 DEF Earned, OutcomesAreEarned, Finished
<1> QED BY <1>1, Invariant, PTL

(* The client's transport is open and of the current generation, and every *)
(* other connection is closed or about to close: close(), a timeout, a     *)
(* cancellation and a failed attempt leave none behind.                    *)
THEOREM OneConnection == Spec => []OneLiveConnection
<1>1. IInv => OneLiveConnection
  BY DEF IInv
<1> QED BY <1>1, Invariant, PTL

(* A response is taken for the request it answers: always over TCP, and    *)
(* over UDP while no datagram is duplicated, since a late answer dies with *)
(* its connection; and always with 4E frames whose serial numbers do not   *)
(* wrap, whatever is lost, late or duplicated.                             *)
THEOREM AnswersCorrelated ==
  Spec => [](NoDuplicates \/ Signed => AnswerIsMine)
<1>1. IInv => (NoDuplicates \/ Signed => AnswerIsMine)
  BY DEF IInv, Correlation
<1> QED BY <1>1, Invariant, PTL
==============================================================================
