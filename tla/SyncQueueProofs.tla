--------------------------- MODULE SyncQueueProofs ---------------------------
(***************************************************************************)
(* Theorems about SyncQueue, for any set of threads and any bounds: type   *)
(* correctness, mutual exclusion, that no wake-up is lost, and that the    *)
(* queue implements OperationTurn.                                         *)
(***************************************************************************)
EXTENDS SyncQueue, SequenceLemmas, TLAPS

(* A thread in line has exactly one ticket and is in the loop of turn(). *)
TicketsInLine ==
  /\ \A i \in DOMAIN waiters : waiters[i] # NoThread => Queued(waiters[i])
  /\ \A i, j \in DOMAIN waiters :
       waiters[i] = waiters[j] /\ waiters[i] # NoThread => i = j

IInv == TypeOK /\ OwnerInside /\ TicketsInLine /\ NoLostWakeup

(* A new _SyncFifoOperationQueue satisfies the inductive invariant.         *)
LEMMA InitInvariant == Init => IInv
BY ThreadsAssumption, BoundsAssumption
   DEF Init, IInv, TypeOK, OwnerInside, TicketsInLine, NoLostWakeup, Places,
       Queued, HasTurn

(* Type correctness is inductive by itself. *)
LEMMA TypeStep == TypeOK /\ [Next]_vars => TypeOK'
<1> SUFFICES ASSUME TypeOK, [Next]_vars PROVE TypeOK'
  OBVIOUS
<1> USE ThreadsAssumption, BoundsAssumption DEF TypeOK, Places
<1>1. CASE Invalidate
  BY <1>1 DEF Invalidate, NotifyAll
<1>2. ASSUME NEW t \in Threads, EnterFree(t) PROVE TypeOK'
  BY <1>2 DEF EnterFree, Admit
<1>3. ASSUME NEW t \in Threads, EnterWaiting(t) PROVE TypeOK'
  BY <1>3 DEF EnterWaiting
<1>4. ASSUME NEW t \in Threads, WakeRejected(t) PROVE TypeOK'
  <2>1. waiters' \in Seq(Threads \union {NoThread})
    BY <1>4, RemoveAtIsSeq DEF WakeRejected
  <2>. QED BY <1>4, <2>1 DEF WakeRejected, NotifyAll
<1>5. ASSUME NEW t \in Threads, WakeAdmitted(t) PROVE TypeOK'
  BY <1>5 DEF WakeAdmitted, Admit, AtHead
<1>6. ASSUME NEW t \in Threads, WakeWaitsAgain(t) PROVE TypeOK'
  BY <1>6 DEF WakeWaitsAgain, queueVars
<1>7. ASSUME NEW t \in Threads, EnterNested(t) PROVE TypeOK'
  BY <1>7 DEF EnterNested
<1>8. ASSUME NEW t \in Threads, LeaveNested(t) PROVE TypeOK'
  BY <1>8 DEF LeaveNested
<1>9. ASSUME NEW t \in Threads, LeaveOuter(t) PROVE TypeOK'
  BY <1>9 DEF LeaveOuter, NotifyAll
<1>10. ASSUME NEW t \in Threads, EnsureCurrentFails(t) PROVE TypeOK'
  BY <1>10 DEF EnsureCurrentFails, queueVars
<1>11. ASSUME NEW t \in Threads, Interrupt(t) PROVE TypeOK'
  BY SMTT(30), <1>11 DEF Interrupt
<1>12. CASE UNCHANGED vars
  BY <1>12 DEF vars, queueVars
<1>. QED
  BY <1>1, <1>2, <1>3, <1>4, <1>5, <1>6, <1>7, <1>8, <1>9, <1>10, <1>11, <1>12
     DEF Next

(* The variables of _SyncFifoOperationQueue and of its callers keep their  *)
(* types in every reachable state.                                         *)
THEOREM TypeCorrect == Spec => []TypeOK
<1>1. Init => TypeOK
  BY InitInvariant DEF IInv
<1>2. QED BY <1>1, TypeStep, PTL DEF Spec

(* A rejected call takes its own ticket off the line and no other. *)
LEMMA RejectedLeavesLine ==
  ASSUME TypeOK, TicketsInLine, NEW t \in Threads, WakeRejected(t)
  PROVE  /\ waiters' \in Seq(Threads \union {NoThread})
         /\ \A j \in DOMAIN waiters' : waiters'[j] # t
         /\ \A j \in DOMAIN waiters' :
              \E i \in DOMAIN waiters : waiters'[j] = waiters[i]
         /\ \A i, j \in DOMAIN waiters' :
              waiters'[i] = waiters'[j] /\ waiters'[i] # NoThread => i = j
<1> DEFINE T == Threads \union {NoThread}
<1>1. waiters \in Seq(T)
  BY DEF TypeOK
<1>2. PICK k \in DOMAIN waiters :
        waiters[k] = t /\ waiters' = RemoveAt(waiters, k)
  BY DEF WakeRejected
<1>3. t # NoThread
  BY ThreadsAssumption
<1> HIDE DEF T
<1>4. /\ waiters' \in Seq(T)
      /\ Len(waiters') = Len(waiters) - 1
      /\ \A j \in 1..(Len(waiters) - 1) :
           waiters'[j] = IF j < k THEN waiters[j] ELSE waiters[j + 1]
  BY <1>1, <1>2, RemoveAtIsSeq
<1>5. DOMAIN waiters' = 1..(Len(waiters) - 1)
      /\ DOMAIN waiters = 1..Len(waiters)
  BY <1>1, <1>4
<1> DEFINE at(j) == IF j < k THEN j ELSE j + 1
<1>6. ASSUME NEW j \in DOMAIN waiters'
      PROVE  /\ at(j) \in DOMAIN waiters
             /\ at(j) # k
             /\ waiters'[j] = waiters[at(j)]
  BY <1>1, <1>2, <1>4, <1>5
<1>7. ASSUME NEW i \in DOMAIN waiters', NEW j \in DOMAIN waiters',
             at(i) = at(j)
      PROVE  i = j
  BY <1>7, <1>1, <1>2, <1>5
<1> HIDE DEF at
<1>8. \A j \in DOMAIN waiters' : waiters'[j] # t
  BY <1>2, <1>3, <1>6 DEF TicketsInLine
<1>9. \A i, j \in DOMAIN waiters' :
        waiters'[i] = waiters'[j] /\ waiters'[i] # NoThread => i = j
  BY <1>6, <1>7 DEF TicketsInLine
<1>. QED BY <1>4, <1>6, <1>8, <1>9 DEF T

(* Every critical section keeps the recorded owner the only thread in the  *)
(* body of a turn.                                                         *)
LEMMA OwnerStep == IInv /\ [Next]_vars => OwnerInside'
<1> SUFFICES ASSUME IInv, [Next]_vars PROVE OwnerInside'
  OBVIOUS
<1> USE ThreadsAssumption, BoundsAssumption
       DEF IInv, TypeOK, Places, Queued, HasTurn, OwnerInside
<1>1. CASE Invalidate
  BY <1>1 DEF Invalidate, NotifyAll
<1>2. ASSUME NEW t \in Threads, EnterFree(t) PROVE OwnerInside'
  BY <1>2 DEF EnterFree, Admit
<1>3. ASSUME NEW t \in Threads, EnterWaiting(t) PROVE OwnerInside'
  BY <1>3 DEF EnterWaiting
<1>4. ASSUME NEW t \in Threads, WakeRejected(t) PROVE OwnerInside'
  BY <1>4 DEF WakeRejected, NotifyAll
<1>5. ASSUME NEW t \in Threads, WakeAdmitted(t) PROVE OwnerInside'
  BY <1>5 DEF WakeAdmitted, Admit, AtHead
<1>6. ASSUME NEW t \in Threads, WakeWaitsAgain(t) PROVE OwnerInside'
  BY <1>6 DEF WakeWaitsAgain, AtHead, queueVars
<1>7. ASSUME NEW t \in Threads, EnterNested(t) PROVE OwnerInside'
  BY <1>7 DEF EnterNested
<1>8. ASSUME NEW t \in Threads, LeaveNested(t) PROVE OwnerInside'
  BY <1>8 DEF LeaveNested
<1>9. ASSUME NEW t \in Threads, LeaveOuter(t) PROVE OwnerInside'
  BY <1>9 DEF LeaveOuter, NotifyAll
<1>10. ASSUME NEW t \in Threads, EnsureCurrentFails(t) PROVE OwnerInside'
  BY <1>10 DEF EnsureCurrentFails, queueVars
<1>11. ASSUME NEW t \in Threads, Interrupt(t) PROVE OwnerInside'
  BY <1>11 DEF Interrupt
<1>12. CASE UNCHANGED vars
  BY <1>12 DEF vars, queueVars
<1>. QED
  BY <1>1, <1>2, <1>3, <1>4, <1>5, <1>6, <1>7, <1>8, <1>9, <1>10, <1>11, <1>12
     DEF Next

(* Every critical section keeps exactly one ticket in line for each thread *)
(* that waits, and none for the others.                                    *)
LEMMA TicketsStep == IInv /\ [Next]_vars => TicketsInLine'
<1> SUFFICES ASSUME IInv, [Next]_vars PROVE TicketsInLine'
  OBVIOUS
<1> USE ThreadsAssumption, BoundsAssumption
       DEF IInv, TypeOK, Places, Queued, HasTurn, OwnerInside, TicketsInLine
<1>1. CASE Invalidate
  BY <1>1 DEF Invalidate, NotifyAll
<1>2. ASSUME NEW t \in Threads, EnterFree(t) PROVE TicketsInLine'
  BY <1>2 DEF EnterFree, Admit
<1>3. ASSUME NEW t \in Threads, EnterWaiting(t) PROVE TicketsInLine'
  <2>1. \A j \in DOMAIN waiters : waiters[j] # t
    BY <1>3 DEF EnterWaiting
  <2>2. /\ waiters' = Append(waiters, t)
        /\ waiters \in Seq(Threads \union {NoThread})
        /\ t \in Threads \union {NoThread}
    BY <1>3 DEF EnterWaiting
  <2>3. /\ DOMAIN waiters' = 1..(Len(waiters) + 1)
        /\ DOMAIN waiters = 1..Len(waiters)
        /\ Len(waiters) \in Nat
        /\ waiters'[Len(waiters) + 1] = t
        /\ \A j \in 1..Len(waiters) : waiters'[j] = waiters[j]
    BY <2>2
  <2>4. /\ pc' = [pc EXCEPT ![t] = "waiting"]
        /\ pc \in [Threads -> Places]
    BY <1>3 DEF EnterWaiting
  <2>5. ASSUME NEW i \in DOMAIN waiters', waiters'[i] # NoThread
        PROVE  pc'[waiters'[i]] \in {"waiting", "ready"}
    <3>1. CASE i = Len(waiters) + 1
      BY <2>3, <2>4, <3>1
    <3>2. CASE i \in 1..Len(waiters)
      BY <2>1, <2>2, <2>3, <2>4, <2>5, <3>2
    <3>. QED BY <2>3, <3>1, <3>2
  <2>6. ASSUME NEW i \in DOMAIN waiters', NEW j \in DOMAIN waiters',
               waiters'[i] = waiters'[j], waiters'[i] # NoThread
        PROVE  i = j
    <3>1. CASE i \in 1..Len(waiters) /\ j \in 1..Len(waiters)
      BY <2>3, <2>6, <3>1
    <3>2. CASE i = Len(waiters) + 1 \/ j = Len(waiters) + 1
      BY <2>1, <2>3, <2>6, <3>2
    <3>. QED BY <2>3, <3>1, <3>2
  <2>. QED BY <2>5, <2>6
<1>4. ASSUME NEW t \in Threads, WakeRejected(t) PROVE TicketsInLine'
  <2>1. /\ waiters' \in Seq(Threads \union {NoThread})
        /\ \A j \in DOMAIN waiters' : waiters'[j] # t
        /\ \A j \in DOMAIN waiters' :
             \E i \in DOMAIN waiters : waiters'[j] = waiters[i]
        /\ \A i, j \in DOMAIN waiters' :
             waiters'[i] = waiters'[j] /\ waiters'[i] # NoThread => i = j
    BY <1>4, RejectedLeavesLine
  <2>2. \A u \in Threads : u # t /\ Queued(u) => pc'[u] = "ready"
    BY <1>4 DEF WakeRejected, NotifyAll
  <2>3. ASSUME NEW j \in DOMAIN waiters', waiters'[j] # NoThread
        PROVE  pc'[waiters'[j]] = "ready"
    <3>1. PICK i \in DOMAIN waiters : waiters'[j] = waiters[i]
      BY <2>1
    <3>2. waiters[i] \in Threads /\ waiters[i] # t /\ Queued(waiters[i])
      BY <2>1, <2>3, <3>1
    <3>. QED BY <2>2, <3>1, <3>2
  <2>. QED BY <2>1, <2>3
<1>5. ASSUME NEW t \in Threads, WakeAdmitted(t) PROVE TicketsInLine'
  <2>1. /\ waiters # <<>> /\ waiters' = Tail(waiters)
        /\ waiters \in Seq(Threads \union {NoThread})
        /\ Head(waiters) = t
        /\ pc' = [pc EXCEPT ![t] = "inside"]
    BY <1>5 DEF WakeAdmitted, Admit, AtHead
  <2>2. /\ DOMAIN waiters = 1..Len(waiters)
        /\ DOMAIN waiters' = 1..(Len(waiters) - 1)
        /\ \A j \in DOMAIN waiters' : waiters'[j] = waiters[j + 1]
        /\ 1 \in DOMAIN waiters /\ waiters[1] = t
        /\ Len(waiters) \in Nat
    BY <2>1
  <2>3. ASSUME NEW j \in DOMAIN waiters'
        PROVE  j + 1 \in DOMAIN waiters /\ j + 1 # 1 /\ waiters'[j] # t
    <3>1. j + 1 \in DOMAIN waiters /\ j + 1 # 1
      BY <2>2
    <3>2. waiters[j + 1] = waiters[1] => j + 1 = 1
      BY <2>2, <3>1
    <3>. QED BY <2>2, <3>1, <3>2
  <2>4. ASSUME NEW j \in DOMAIN waiters', waiters'[j] # NoThread
        PROVE  pc'[waiters'[j]] \in {"waiting", "ready"}
    BY <2>1, <2>2, <2>3, <2>4
  <2>5. ASSUME NEW i \in DOMAIN waiters', NEW j \in DOMAIN waiters',
               waiters'[i] = waiters'[j], waiters'[i] # NoThread
        PROVE  i = j
    <3>1. i + 1 = j + 1
      BY <2>2, <2>3, <2>5
    <3>. QED BY <2>2, <3>1
  <2>. QED BY <2>4, <2>5
<1>6. ASSUME NEW t \in Threads, WakeWaitsAgain(t) PROVE TicketsInLine'
  BY <1>6 DEF WakeWaitsAgain, AtHead, queueVars
<1>7. ASSUME NEW t \in Threads, EnterNested(t) PROVE TicketsInLine'
  BY <1>7 DEF EnterNested
<1>8. ASSUME NEW t \in Threads, LeaveNested(t) PROVE TicketsInLine'
  BY <1>8 DEF LeaveNested
<1>9. ASSUME NEW t \in Threads, LeaveOuter(t) PROVE TicketsInLine'
  BY <1>9 DEF LeaveOuter, NotifyAll
<1>10. ASSUME NEW t \in Threads, EnsureCurrentFails(t) PROVE TicketsInLine'
  BY <1>10 DEF EnsureCurrentFails, queueVars
<1>11. ASSUME NEW t \in Threads, Interrupt(t) PROVE TicketsInLine'
  BY SMTT(30), <1>11 DEF Interrupt
<1>12. CASE UNCHANGED vars
  BY <1>12 DEF vars, queueVars
<1>. QED
  BY <1>1, <1>2, <1>3, <1>4, <1>5, <1>6, <1>7, <1>8, <1>9, <1>10, <1>11, <1>12
     DEF Next

(* No critical section ends with a wake-up owed to the head of the line or *)
(* to an overtaken thread.                                                 *)
LEMMA WakeupStep == IInv /\ [Next]_vars => NoLostWakeup'
<1> SUFFICES ASSUME IInv, [Next]_vars PROVE NoLostWakeup'
  OBVIOUS
<1> USE ThreadsAssumption, BoundsAssumption
       DEF IInv, TypeOK, Places, Queued, HasTurn, OwnerInside, TicketsInLine,
            NoLostWakeup
<1>1. CASE Invalidate
  BY <1>1 DEF Invalidate, NotifyAll
<1>2. ASSUME NEW t \in Threads, EnterFree(t) PROVE NoLostWakeup'
  BY <1>2 DEF EnterFree, Admit
<1>3. ASSUME NEW t \in Threads, EnterWaiting(t) PROVE NoLostWakeup'
  <2>1. \A j \in DOMAIN waiters : waiters[j] # t
    BY <1>3 DEF EnterWaiting
  <2>2. waiters # <<>> => waiters' # <<>> /\ Head(waiters') = Head(waiters)
    BY <1>3 DEF EnterWaiting
  <2>3. waiters # <<>> => Head(waiters) # t
    BY <2>1
  <2>. QED BY <1>3, <2>2, <2>3 DEF EnterWaiting
<1>4. ASSUME NEW t \in Threads, WakeRejected(t) PROVE NoLostWakeup'
  <2>1. owner' = owner /\ generation' = generation /\ ticketGen' = ticketGen
    BY <1>4 DEF WakeRejected
  <2>2. \A u \in Threads :
          pc'[u] # "waiting" /\ (u # t /\ Queued(u) => pc'[u] = "ready")
    BY <1>4 DEF WakeRejected, NotifyAll
  <2>3. /\ waiters' \in Seq(Threads \union {NoThread})
        /\ \A j \in DOMAIN waiters' : waiters'[j] # t
        /\ \A j \in DOMAIN waiters' :
             \E i \in DOMAIN waiters : waiters'[j] = waiters[i]
    BY <1>4, RejectedLeavesLine
  <2>4. ASSUME waiters' # <<>>, Head(waiters') # NoThread
        PROVE  pc'[Head(waiters')] = "ready"
    <3>1. 1 \in DOMAIN waiters' /\ Head(waiters') = waiters'[1]
      BY <2>3, <2>4
    <3>2. PICK i \in DOMAIN waiters : waiters'[1] = waiters[i]
      BY <2>3, <3>1
    <3>3. waiters'[1] \in Threads /\ waiters'[1] # t /\ Queued(waiters'[1])
      BY <2>3, <2>4, <3>1, <3>2
    <3>. QED BY <2>2, <3>1, <3>3
  <2>. QED BY <2>2, <2>4
<1>5. ASSUME NEW t \in Threads, WakeAdmitted(t) PROVE NoLostWakeup'
  BY <1>5 DEF WakeAdmitted, Admit, AtHead
<1>6. ASSUME NEW t \in Threads, WakeWaitsAgain(t) PROVE NoLostWakeup'
  BY <1>6 DEF WakeWaitsAgain, AtHead, queueVars
<1>7. ASSUME NEW t \in Threads, EnterNested(t) PROVE NoLostWakeup'
  BY <1>7 DEF EnterNested
<1>8. ASSUME NEW t \in Threads, LeaveNested(t) PROVE NoLostWakeup'
  BY <1>8 DEF LeaveNested
<1>9. ASSUME NEW t \in Threads, LeaveOuter(t) PROVE NoLostWakeup'
  BY <1>9 DEF LeaveOuter, NotifyAll
<1>10. ASSUME NEW t \in Threads, EnsureCurrentFails(t) PROVE NoLostWakeup'
  BY <1>10 DEF EnsureCurrentFails, queueVars
<1>11. ASSUME NEW t \in Threads, Interrupt(t) PROVE NoLostWakeup'
  BY <1>11 DEF Interrupt
<1>12. CASE UNCHANGED vars
  BY <1>12 DEF vars, queueVars
<1>. QED
  BY <1>1, <1>2, <1>3, <1>4, <1>5, <1>6, <1>7, <1>8, <1>9, <1>10, <1>11, <1>12
     DEF Next

(* The conjunction of the four is inductive.                               *)
LEMMA InvariantStep == IInv /\ [Next]_vars => IInv'
BY TypeStep, OwnerStep, TicketsStep, WakeupStep DEF IInv

(* The inductive invariant holds in every reachable state of the queue.    *)
LEMMA Invariance == Spec => []IInv
BY InitInvariant, InvariantStep, PTL DEF Spec

(* Two threads are never in the body of a turn together, and the gate is   *)
(* free exactly when nobody is: for any number of threads, closes, nested  *)
(* turns and interrupts.                                                   *)
THEOREM MutualExclusion == Spec => []OwnerInside
<1>1. IInv => OwnerInside
  BY DEF IInv
<1>2. QED BY <1>1, Invariance, PTL

(* A free gate always has a runnable thread at the head of its line, and a *)
(* thread overtaken by close() is always runnable.                         *)
THEOREM WakeupsReachTheHead == Spec => []NoLostWakeup
<1>1. IInv => NoLostWakeup
  BY DEF IInv
<1>2. QED BY <1>1, Invariance, PTL
------------------------------------------------------------------------------
(* Whoever waits for the turn has a ticket, and of no generation that is   *)
(* yet to come.                                                            *)
NobodyLost ==
  \A t \in Threads :
    /\ Queued(t) => \E i \in DOMAIN waiters : waiters[i] = t
    /\ ticketGen[t] <= generation

(* Every step keeps it. *)
LEMMA NobodyLostStep ==
  ASSUME IInv, NobodyLost, [Next]_vars
  PROVE  NobodyLost'
<1>0. /\ waiters \in Seq(Threads \union {NoThread})
      /\ pc \in [Threads -> Places] /\ NoThread \notin Threads
      /\ generation \in Nat
      /\ ticketGen \in [Threads -> Nat]
      /\ \A i, j \in DOMAIN waiters :
           waiters[i] = waiters[j] /\ waiters[i] # NoThread => i = j
  BY ThreadsAssumption, BoundsAssumption DEF IInv, TypeOK, TicketsInLine
<1> USE <1>0 DEF Queued, Places, NobodyLost
<1>1. ASSUME UNCHANGED <<waiters, ticketGen>>,
             generation' \in {generation, generation + 1},
             \A u \in Threads : Queued(u)' => Queued(u)
      PROVE  NobodyLost'
  BY <1>1
<1>2. CASE Invalidate
  BY <1>1, <1>2 DEF Invalidate, NotifyAll
<1>3. ASSUME NEW t \in Threads, EnterFree(t) PROVE NobodyLost'
  BY <1>3 DEF EnterFree, Admit
<1>4. ASSUME NEW t \in Threads, EnterWaiting(t) PROVE NobodyLost'
  <2>1. /\ waiters' = Append(waiters, t) /\ UNCHANGED generation
        /\ ticketGen' = [ticketGen EXCEPT ![t] = generation]
        /\ pc' = [pc EXCEPT ![t] = "waiting"]
    BY <1>4 DEF EnterWaiting
  <2>2. /\ DOMAIN waiters' = 1..(Len(waiters) + 1) /\ Len(waiters) \in Nat
        /\ waiters'[Len(waiters) + 1] = t
        /\ \A i \in DOMAIN waiters : i \in DOMAIN waiters'
                                     /\ waiters'[i] = waiters[i]
    BY <2>1
  <2>3. ASSUME NEW u \in Threads, Queued(u)'
        PROVE  \E i \in DOMAIN waiters' : waiters'[i] = u
    <3>1. CASE u = t
      BY <2>2, <3>1
    <3>2. CASE u # t
      BY <2>1, <2>2, <2>3, <3>2
    <3> QED BY <3>1, <3>2
  <2>4. \A u \in Threads : ticketGen'[u] <= generation'
    BY <2>1
  <2> QED BY <2>3, <2>4
<1>5. ASSUME NEW t \in Threads, WakeRejected(t) \/ WakeAdmitted(t)
      PROVE  NobodyLost'
  <2>1. /\ \A u \in Threads \ {t} : Queued(u)' => Queued(u)
        /\ ~Queued(t)' /\ UNCHANGED <<ticketGen, generation>>
    BY <1>5 DEF WakeRejected, WakeAdmitted, NotifyAll, Admit
  <2>2. PICK k \in DOMAIN waiters :
          waiters[k] = t /\ waiters' = RemoveAt(waiters, k)
    <3>1. CASE WakeRejected(t)
      BY <3>1 DEF WakeRejected
    <3>2. CASE WakeAdmitted(t)
      <4>1. waiters # <<>> /\ waiters' = Tail(waiters) /\ Head(waiters) = t
        BY <3>2 DEF WakeAdmitted, AtHead
      <4>2. 1 \in DOMAIN waiters /\ waiters[1] = t
        BY <4>1
      <4> QED BY <4>1, <4>2, RemoveHead
    <3> QED BY <1>5, <3>1, <3>2
  <2>3. /\ Len(waiters') = Len(waiters) - 1
        /\ waiters' \in Seq(Threads \union {NoThread})
        /\ \A j \in 1..(Len(waiters) - 1) :
             waiters'[j] = IF j < k THEN waiters[j] ELSE waiters[j + 1]
    BY <2>2, RemoveAtIsSeq
  <2>4. /\ k \in 1..Len(waiters) /\ Len(waiters) \in Nat
        /\ DOMAIN waiters = 1..Len(waiters)
        /\ DOMAIN waiters' = 1..(Len(waiters) - 1)
    BY <2>2, <2>3
  <2>5. ASSUME NEW u \in Threads, Queued(u)'
        PROVE  \E j \in DOMAIN waiters' : waiters'[j] = u
    <3>1. PICK i \in DOMAIN waiters : waiters[i] = u
      BY <2>1, <2>5
    <3>2. i \in 1..Len(waiters) /\ i # k
      BY <2>1, <2>2, <2>4, <2>5, <3>1
    <3>3. CASE i < k
      <4>1. i \in DOMAIN waiters' /\ waiters'[i] = waiters[i]
        BY <2>3, <2>4, <3>2, <3>3
      <4> QED BY <3>1, <4>1
    <3>4. CASE i > k
      <4>1. /\ i - 1 \in 1..(Len(waiters) - 1) /\ ~(i - 1 < k)
            /\ (i - 1) + 1 = i
        BY <2>4, <3>2, <3>4
      <4> QED BY <2>3, <2>4, <3>1, <4>1
    <3> QED BY <2>4, <3>2, <3>3, <3>4
  <2> QED BY <2>1, <2>5
<1>6. ASSUME NEW t \in Threads, WakeWaitsAgain(t) PROVE NobodyLost'
  BY <1>1, <1>6 DEF WakeWaitsAgain, queueVars
<1>7. ASSUME NEW t \in Threads, EnterNested(t) \/ LeaveNested(t)
      PROVE  NobodyLost'
  BY <1>1, <1>7 DEF EnterNested, LeaveNested
<1>8. ASSUME NEW t \in Threads, LeaveOuter(t) PROVE NobodyLost'
  BY <1>1, <1>8 DEF LeaveOuter, NotifyAll
<1>9. ASSUME NEW t \in Threads, EnsureCurrentFails(t) PROVE NobodyLost'
  BY <1>1, <1>9 DEF EnsureCurrentFails, queueVars
<1>10. ASSUME NEW t \in Threads, Interrupt(t) PROVE NobodyLost'
  <2>1. PICK k \in DOMAIN waiters :
          waiters[k] = t /\ waiters' = [waiters EXCEPT ![k] = NoThread]
    BY <1>10 DEF Interrupt
  <2>2. pc' = [pc EXCEPT ![t] = "outside"]
        /\ UNCHANGED <<ticketGen, generation>>
    BY <1>10 DEF Interrupt
  <2> QED BY <2>1, <2>2
<1>11. CASE UNCHANGED vars
  BY <1>11 DEF vars, queueVars
<1> QED
  BY <1>2, <1>3, <1>4, <1>5, <1>6, <1>7, <1>8, <1>9, <1>10, <1>11 DEF Next

(* The line of the abstract gate has the threads that wait in turn().      *)
LEMMA LiveLine ==
  ASSUME IInv, NobodyLost
  PROVE  /\ LiveTickets \in Seq(Threads \union {NoThread})
         /\ \A t \in Threads : t \in Gate!ToSet(LiveTickets) <=> Queued(t)
         /\ NoThread \notin Gate!ToSet(LiveTickets)
<1>1. waiters \in Seq(Threads \union {NoThread}) /\ NoThread \notin Threads
  BY ThreadsAssumption DEF IInv, TypeOK
<1>2. Gate!ToSet(LiveTickets) = ToSet(LiveTickets)
  BY DEF Gate!ToSet, ToSet
<1>3. /\ LiveTickets \in Seq(Threads \union {NoThread})
      /\ ToSet(LiveTickets) = {waiters[i] : i \in Live \cap DOMAIN waiters}
  BY <1>1, PickMembers DEF LiveTickets
<1>4. ASSUME NEW t \in Threads
      PROVE  t \in {waiters[i] : i \in Live \cap DOMAIN waiters} <=> Queued(t)
  BY <1>1 DEF Live, IInv, TicketsInLine, NobodyLost
<1>5. NoThread \notin {waiters[i] : i \in Live \cap DOMAIN waiters}
  BY DEF Live
<1> HIDE DEF LiveTickets
<1> QED BY <1>2, <1>3, <1>4, <1>5

(* The gate removes a thread from its line with the RemoveFirst of         *)
(* SequencesExt.                                                           *)
LEMMA GateRemoves ==
  ASSUME NEW s, NEW e
  PROVE  Gate!RemoveFirst(s, e) = RemoveFirst(s, e)
BY DEF Gate!RemoveFirst, Gate!RemoveAt, Gate!SelectInSeq, Gate!Min,
       RemoveFirst, RemoveAt, SelectInSeq, Min

(* Every step of the queue is a step of OperationTurn or changes nothing   *)
(* that OperationTurn knows: a ticket that an interrupt leaves behind is   *)
(* no longer in the line there; nested turns and wake-ups leave no trace.  *)
LEMMA GateStep ==
  ASSUME IInv, NobodyLost, [Next]_vars
  PROVE  [Gate!Next]_(Gate!vars)
<1>0. /\ waiters \in Seq(Threads \union {NoThread})
      /\ pc \in [Threads -> Places] /\ NoThread \notin Threads
      /\ owner \in Threads \union {NoThread}
      /\ ticketGen \in [Threads -> Nat] /\ generation \in Nat
      /\ \A t \in Threads : pc[t] \in {"inside", "unwinding"} <=> owner = t
      /\ \A t \in Threads : ticketGen[t] <= generation
      /\ \A i, j \in DOMAIN waiters :
           waiters[i] = waiters[j] /\ waiters[i] # NoThread => i = j
  BY ThreadsAssumption, BoundsAssumption
     DEF IInv, TypeOK, OwnerInside, HasTurn, NobodyLost, TicketsInLine
<1>1. /\ LiveTickets \in Seq(Threads \union {NoThread})
      /\ \A t \in Threads :
           t \in Gate!ToSet(LiveTickets) <=> pc[t] \in {"waiting", "ready"}
      /\ NoThread \notin Gate!ToSet(LiveTickets)
  BY LiveLine DEF Queued
<1> USE <1>0 DEF Places, Queued, HasTurn
<1>2. ASSUME UNCHANGED waiters PROVE LiveTickets' = LiveTickets
  BY <1>2 DEF LiveTickets, Live
<1>3. ASSUME NEW p \in [Threads -> Places], pc' = NotifyAll(p)
      PROVE  \A u \in Threads :
               \/ pc'[u] = p[u]
               \/ p[u] = "waiting" /\ pc'[u] = "ready"
  BY <1>3 DEF NotifyAll
<1>4. CASE Invalidate
  <2>1. /\ LiveTickets' = LiveTickets /\ owner' = owner
        /\ ticketGen' = ticketGen /\ generation' = generation + 1
        /\ \A u \in Threads : \/ pc'[u] = pc[u]
                              \/ pc[u] = "waiting" /\ pc'[u] = "ready"
    BY <1>2, <1>3, <1>4 DEF Invalidate
  <2>2. Overtaken' = Gate!ToSet(LiveTickets) \union ({owner} \ {NoThread})
    <3>1. \A t \in Threads : ticketGen[t] # generation + 1
      OBVIOUS
    <3>2. ASSUME NEW t \in Threads
          PROVE  t \in Overtaken'
                   <=> t \in Gate!ToSet(LiveTickets) \/ owner = t
      BY <1>1, <2>1, <3>1 DEF Overtaken
    <3>3. Gate!ToSet(LiveTickets) \subseteq Threads
      BY <1>1 DEF Gate!ToSet
    <3>4. Overtaken' \subseteq Threads
      BY DEF Overtaken
    <3> HIDE DEF Overtaken
    <3> QED BY <3>2, <3>3, <3>4
  <2>3. Gate!Close
    BY <2>1, <2>2 DEF Gate!Close
  <2> QED BY <2>3 DEF Gate!Next
<1>5. ASSUME NEW t \in Threads, EnterFree(t) PROVE Gate!Next
  <2>1. LiveTickets' = LiveTickets
    BY <1>2, <1>5 DEF EnterFree
  <2>2. LiveTickets = <<>>
    <3>1. Live \cap DOMAIN waiters = {}
      BY <1>5 DEF EnterFree, Live
    <3> QED BY <3>1, PickMembers DEF LiveTickets
  <2>3. Gate!Idle(t) /\ Overtaken' = Overtaken
    BY <1>1, <1>5 DEF EnterFree, Admit, Gate!Idle, Overtaken
  <2>4. Gate!TakeFree(t)
    BY <1>5, <2>1, <2>2, <2>3 DEF Gate!TakeFree, EnterFree, Admit
  <2> QED BY <2>4 DEF Gate!Next
<1>6. ASSUME NEW t \in Threads, EnterWaiting(t) PROVE Gate!Next
  <2>1. /\ waiters' = Append(waiters, t) /\ UNCHANGED <<owner, generation>>
        /\ pc' = [pc EXCEPT ![t] = "waiting"] /\ pc[t] = "outside"
        /\ ticketGen' = [ticketGen EXCEPT ![t] = generation]
    BY <1>6 DEF EnterWaiting
  <2>2. LiveTickets' = Append(LiveTickets, t)
    <3>1. /\ Len(waiters) \in Nat /\ DOMAIN waiters = 1..Len(waiters)
          /\ DOMAIN waiters' = 1..(Len(waiters) + 1)
          /\ waiters'[Len(waiters) + 1] = t
          /\ \A i \in 1..Len(waiters) : waiters'[i] = waiters[i]
      BY <2>1
    <3>2. \A i \in 1..Len(waiters) : i \in Live <=> i \in Live'
      BY <3>1 DEF Live
    <3>3. Len(waiters) + 1 \in Live'
      BY <3>1 DEF Live
    <3>4. Pick(Append(waiters, t), Live') = Append(Pick(waiters, Live), t)
      BY <3>2, <3>3, PickAppend
    <3> QED BY <2>1, <3>4 DEF LiveTickets
  <2>3. Gate!Idle(t) /\ Overtaken' = Overtaken
    BY <1>1, <2>1 DEF Gate!Idle, Overtaken
  <2>4. Gate!Join(t)
    BY <2>1, <2>2, <2>3 DEF Gate!Join
  <2> QED BY <2>4 DEF Gate!Next
<1>7. ASSUME NEW t \in Threads, NEW k \in DOMAIN waiters, waiters[k] = t,
             waiters' = RemoveAt(waiters, k)
      PROVE  LiveTickets' = RemoveFirst(LiveTickets, t)
  <2>1. /\ Len(waiters') = Len(waiters) - 1
        /\ waiters' \in Seq(Threads \union {NoThread})
        /\ \A j \in 1..(Len(waiters) - 1) :
             waiters'[j] = IF j < k THEN waiters[j] ELSE waiters[j + 1]
    BY SMTT(30), <1>7, RemoveAtIsSeq
  <2>2. /\ k \in 1..Len(waiters) /\ Len(waiters) \in Nat
        /\ DOMAIN waiters = 1..Len(waiters)
        /\ DOMAIN waiters' = 1..(Len(waiters) - 1)
    BY <1>7, <2>1
  <2> DEFINE I == Live \ {k}
             J == Live'
  <2>3. ASSUME NEW j \in 1..(Len(waiters) - 1)
        PROVE  j \in J <=> IF j < k THEN j \in I ELSE j + 1 \in I
    BY <2>1, <2>2 DEF Live
  <2>4. Pick(waiters', J) = Pick(waiters, I)
    <3> HIDE DEF J
    <3>1. k \notin I
      OBVIOUS
    <3> HIDE DEF I
    <3> QED BY <1>7, <2>3, <3>1, PickWithout
  <2>5. /\ k \in Live
        /\ \A i \in DOMAIN waiters : waiters[i] = waiters[k] => i = k
    BY <1>7 DEF Live
  <2>6. Pick(waiters, I) = RemoveFirst(Pick(waiters, Live), waiters[k])
    BY <2>5, PickFewer
  <2> QED BY <1>7, <2>4, <2>6 DEF LiveTickets
<1>8. ASSUME NEW t \in Threads, WakeRejected(t) PROVE Gate!Next
  <2>1. /\ pc[t] = "ready" /\ ticketGen[t] # generation
        /\ UNCHANGED <<owner, generation, ticketGen>>
        /\ pc' = NotifyAll([pc EXCEPT ![t] = "outside"])
    BY <1>8 DEF WakeRejected
  <2>2. LiveTickets' = RemoveFirst(LiveTickets, t)
    BY <1>7, <1>8 DEF WakeRejected
  <2>3. t \in Overtaken /\ Overtaken' = Overtaken \ {t}
    BY <2>1 DEF Overtaken, NotifyAll
  <2>4. Gate!Refuse(t)
    BY <2>1, <2>2, <2>3, GateRemoves DEF Gate!Refuse
  <2> QED BY <2>4 DEF Gate!Next
<1>9. ASSUME NEW t \in Threads, WakeAdmitted(t) PROVE Gate!Next
  <2>1. /\ pc[t] = "ready" /\ ticketGen[t] = generation /\ owner = NoThread
        /\ waiters # <<>> /\ Head(waiters) = t /\ waiters' = Tail(waiters)
        /\ owner' = t /\ pc' = [pc EXCEPT ![t] = "inside"]
        /\ UNCHANGED <<generation, ticketGen>>
    BY <1>9 DEF WakeAdmitted, AtHead, Admit
  <2>2. 1 \in DOMAIN waiters /\ waiters[1] = t /\ 1 \in Live
    BY <2>1 DEF Live
  <2>3. LiveTickets # <<>> /\ Head(LiveTickets) = t
    BY <2>1, <2>2, PickHead DEF LiveTickets
  <2>4. LiveTickets' = RemoveFirst(LiveTickets, t)
    BY <1>7, <2>1, <2>2, RemoveHead
  <2>5. LiveTickets' = Tail(LiveTickets)
    <3> HIDE DEF LiveTickets
    <3>1. RemoveFirst(LiveTickets, t) = Tail(LiveTickets)
      BY <1>1, <2>3, RemoveFirstHead
    <3> QED BY <2>4, <3>1
  <2>6. t \notin Overtaken /\ Overtaken' = Overtaken
    BY <2>1 DEF Overtaken
  <2>7. Gate!Take(t)
    BY <2>1, <2>3, <2>5, <2>6 DEF Gate!Take
  <2> QED BY <2>7 DEF Gate!Next
<1>10. ASSUME NEW t \in Threads, LeaveOuter(t) PROVE Gate!Next
  <2>1. /\ owner = t /\ owner' = NoThread
        /\ pc' = NotifyAll([pc EXCEPT ![t] = "outside"])
        /\ UNCHANGED <<waiters, generation, ticketGen>>
    BY <1>10 DEF LeaveOuter
  <2>2. LiveTickets' = LiveTickets /\ Overtaken' = Overtaken \ {t}
    BY <1>2, <2>1 DEF Overtaken, NotifyAll
  <2>3. Gate!Release(t)
    BY <2>1, <2>2 DEF Gate!Release
  <2> QED BY <2>3 DEF Gate!Next
<1>11. ASSUME NEW t \in Threads, Interrupt(t) PROVE Gate!Next
  <2>1. /\ pc[t] = "waiting" /\ pc' = [pc EXCEPT ![t] = "outside"]
        /\ UNCHANGED <<owner, generation, ticketGen>>
    BY <1>11 DEF Interrupt
  <2>2. PICK k \in DOMAIN waiters :
          waiters[k] = t /\ waiters' = [waiters EXCEPT ![k] = NoThread]
    BY <1>11 DEF Interrupt
  <2>3. LiveTickets' = RemoveFirst(LiveTickets, t)
    <3>1. /\ waiters' \in Seq(Threads \union {NoThread})
          /\ Len(waiters') = Len(waiters) /\ Len(waiters) \in Nat
          /\ DOMAIN waiters' = DOMAIN waiters
          /\ DOMAIN waiters = 1..Len(waiters)
      BY <2>2
    <3>2. k \in Live /\ \A i \in DOMAIN waiters :
                          waiters[i] = waiters[k] => i = k
      BY <2>2 DEF Live
    <3>3. Live' = Live \ {k}
      BY <2>2, <3>1 DEF Live
    <3>4. Pick(waiters, Live \ {k}) = RemoveFirst(LiveTickets, t)
      BY <2>2, <3>2, PickFewer DEF LiveTickets
    <3>5. Pick(waiters', Live') = Pick(waiters, Live \ {k})
      <4>1. \A i \in DOMAIN waiters :
              (i \in Live' <=> i \in Live \ {k})
              /\ (i \in Live' => waiters'[i] = waiters[i])
        BY <2>2, <3>3
      <4> QED BY <3>1, <4>1, PickAgree
    <3> QED BY <3>4, <3>5 DEF LiveTickets
  <2>4. t \in Gate!ToSet(LiveTickets) /\ Overtaken' = Overtaken \ {t}
    BY <1>1, <2>1 DEF Overtaken
  <2>5. Gate!GiveUp(t)
    BY <2>1, <2>3, <2>4, GateRemoves DEF Gate!GiveUp
  <2> QED BY <2>5 DEF Gate!Next
<1>12. CASE \/ UNCHANGED vars
            \/ \E t \in Threads :
                 \/ EnterNested(t) \/ LeaveNested(t) \/ WakeWaitsAgain(t)
                 \/ EnsureCurrentFails(t)
  <2>1. /\ UNCHANGED <<waiters, owner, generation, ticketGen>>
        /\ \A u \in Threads :
             \/ pc'[u] = pc[u]
             \/ pc[u] = "inside" /\ pc'[u] = "unwinding"
             \/ pc[u] = "ready" /\ pc'[u] = "waiting"
    BY <1>12
       DEF EnterNested, LeaveNested, WakeWaitsAgain, EnsureCurrentFails,
           vars, queueVars
  <2>2. LiveTickets' = LiveTickets /\ Overtaken' = Overtaken
    BY <1>2, <2>1 DEF Overtaken
  <2> QED BY <2>1, <2>2 DEF Gate!vars
<1> QED
  BY <1>4, <1>5, <1>6, <1>8, <1>9, <1>10, <1>11, <1>12 DEF Next

(* A new queue is a new gate. *)
LEMMA GateInit == Init => NobodyLost /\ Gate!Init
<1> SUFFICES ASSUME Init PROVE NobodyLost /\ Gate!Init
  OBVIOUS
<1>1. /\ waiters = <<>> /\ waiters \in Seq(Threads \union {NoThread})
      /\ DOMAIN waiters = {}
  BY DEF Init
<1>2. LiveTickets = <<>>
  <2>1. Live \cap DOMAIN waiters = {}
    BY <1>1
  <2> QED BY <1>1, <2>1, PickMembers DEF LiveTickets
<1>3. Overtaken = {}
  BY DEF Init, Overtaken, Queued, HasTurn
<1>4. NobodyLost
  BY DEF Init, NobodyLost, Queued
<1> QED BY <1>2, <1>3, <1>4 DEF Init, Gate!Init

(* The queue of the synchronous client implements OperationTurn: turns are *)
(* granted one at a time in the order in which they were asked for, and    *)
(* never to a thread that a close overtook in line, whatever is            *)
(* interrupted when.                                                       *)
THEOREM SyncGateKept == Spec => GateSpec
<1>1. IInv /\ NobodyLost /\ [Next]_vars
        => NobodyLost' /\ [Gate!Next]_(Gate!vars)
  BY NobodyLostStep, GateStep
<1>2. QED
  BY <1>1, Invariance, GateInit, PTL DEF Spec, GateSpec, Gate!Spec
==============================================================================
