------------------------- MODULE ConnectWorkerProofs -------------------------
(***************************************************************************)
(* Theorems about ConnectWorker, for any number of attempts, with and      *)
(* without interrupts: types, and one owner for every open socket.         *)
(***************************************************************************)
EXTENDS ConnectWorker, TLAPS

(* What the place of the worker says about its socket and about done.      *)
WorkerInv(a) ==
  /\ worker[a] \in {"none", "resolve", "create"}
       => candidate[a] = "none" /\ ~owned[a] /\ error[a] = "none"
  /\ worker[a] \in {"connect", "ready", "publish"}
       => owned[a] /\ error[a] = "none"
  /\ worker[a] = "failed" => error[a] # "none"
  /\ done[a] => worker[a] \in {"finally", "ended"}
  /\ done[a] /\ error[a] = "none" => ~owned[a]
  /\ worker[a] = "ended" => ~owned[a]
  /\ owned[a] => candidate[a] = "open"
  /\ candidate[a] = "open" /\ ~owned[a] => done[a] /\ error[a] = "none"

(* What the place of the caller says about the shared state.               *)
CallerInv(a) ==
  /\ caller[a] = "none" => worker[a] = "none"
  /\ caller[a] \in {"loop", "clock"} => ~done[a]
  /\ caller[a] \in {"settle", "settleClock", "take"} => done[a]
  /\ abandoned[a] => caller[a] = "ended"
  /\ result[a] = "none" <=> caller[a] # "ended"
  /\ stored[a] => done[a] /\ error[a] = "none" /\ candidate[a] = "open"
  /\ done[a] /\ error[a] = "none" /\ caller[a] # "ended" => stored[a]
  /\ stored[a] => caller[a] # "ended" \/ result[a] = "interrupted"
  /\ caller[a] = "ended" /\ ~abandoned[a] /\ ~done[a]
       => result[a] = "interrupted"
  /\ candidate[a] = "open" /\ ~owned[a] => stored[a] \/ result[a] = "socket"
  /\ result[a] = "socket"
       => done[a] /\ error[a] = "none" /\ candidate[a] = "open" /\ ~stored[a]

(* A result that was stale when it was stored is still seen to be stale:   *)
(* neither the clock nor a close() is taken back.                          *)
StaleInv(a) ==
  /\ staleAtEnd[a] => done[a] /\ (late[a] \/ ~current[a])
  /\ caller[a] = "settleClock" => ~staleAtEnd[a] \/ late[a]
  /\ caller[a] = "take" => ~staleAtEnd[a]
  /\ result[a] = "socket" => ~staleAtEnd[a]

AttemptInv(a) == WorkerInv(a) /\ CallerInv(a) /\ StaleInv(a)
IInv == TypeOK /\ \A a \in Attempts : AttemptInv(a)

(* Every step keeps the types of the shared state and of both threads. *)
LEMMA TypeStep == TypeOK /\ [Next]_vars => TypeOK'
<1> SUFFICES ASSUME TypeOK, [Next]_vars PROVE TypeOK'
  OBVIOUS
<1> USE DEF TypeOK, CallerPlaces, WorkerPlaces, shared, world, CallerAt,
            WorkerAt
<1>1. CASE UNCHANGED vars
  BY <1>1 DEF vars
<1>2. ASSUME NEW a \in Attempts, Start(a) PROVE TypeOK'
  BY <1>2 DEF Start
<1>3. ASSUME NEW a \in Attempts, Caller(a) PROVE TypeOK'
  <2>1. CASE Locks(a)         BY <2>1 DEF Locks
  <2>2. CASE ChecksLoop(a)    BY ZenonT(60), <2>2 DEF ChecksLoop, GivesUp
  <2>3. CASE ReadsClock(a)    BY ZenonT(60), <2>3 DEF ReadsClock, GivesUp
  <2>4. CASE ChecksSettled(a) BY ZenonT(60), <2>4 DEF ChecksSettled, Discards
  <2>5. CASE ReadsSettledClock(a) BY ZenonT(60), <2>5
                                     DEF ReadsSettledClock, Discards
  <2>6. CASE Takes(a)         BY <2>6 DEF Takes, Failure
  <2>. QED BY <1>3, <2>1, <2>2, <2>3, <2>4, <2>5, <2>6 DEF Caller
<1>4. ASSUME NEW a \in Attempts, Worker(a) PROVE TypeOK'
  <2>1. CASE Creates(a)        BY <2>1 DEF Creates
  <2>2. CASE Connects(a)       BY <2>2 DEF Connects
  <2>3. CASE KeepsTime(a)      BY <2>3 DEF KeepsTime
  <2>4. CASE Fails(a)          BY <2>4 DEF Fails
  <2>5. CASE Publishes(a)      BY ZenonT(60), <2>5 DEF Publishes
  <2>6. CASE PublishesError(a) BY <2>6 DEF PublishesError
  <2>7. CASE Finishes(a)       BY <2>7 DEF Finishes
  <2>. QED BY <1>4, <2>1, <2>2, <2>3, <2>4, <2>5, <2>6, <2>7 DEF Worker
<1>5. ASSUME NEW a \in Attempts, Interrupted(a) PROVE TypeOK'
  BY <1>5 DEF Interrupted
<1>6. ASSUME NEW a \in Attempts, Resolves(a) PROVE TypeOK'
  BY <1>6 DEF Resolves
<1>7. ASSUME NEW a \in Attempts, DeadlinePasses(a) PROVE TypeOK'
  BY <1>7 DEF DeadlinePasses
<1>8. ASSUME NEW a \in Attempts, Closes(a) PROVE TypeOK'
  BY <1>8 DEF Closes
<1>. QED
  BY <1>1, <1>2, <1>3, <1>4, <1>5, <1>6, <1>7, <1>8 DEF Next

(* Every step keeps what the places of the two threads say: each action is *)
(* an action of one attempt and leaves the others as they are.             *)
LEMMA AttemptStep ==
  ASSUME IInv, [Next]_vars, NEW b \in Attempts
  PROVE  AttemptInv(b)'
<1>. DEFINE Same(a) ==
       /\ UNCHANGED <<caller[a], worker[a], abandoned[a], done[a], stored[a],
                      error[a], candidate[a], owned[a], result[a], late[a],
                      current[a], staleAtEnd[a]>>
<1>1. AttemptInv(b) /\ TypeOK
  BY DEF IInv
<1>2. Same(b) => AttemptInv(b)'
  BY <1>1 DEF AttemptInv, WorkerInv, CallerInv, StaleInv
<1>3. CASE UNCHANGED vars
  BY <1>2, <1>3 DEF vars, shared, world
<1>. USE DEF TypeOK, CallerPlaces, WorkerPlaces, shared, world, CallerAt,
             WorkerAt, AttemptInv, WorkerInv, CallerInv, StaleInv, Locked
<1>4. ASSUME NEW a \in Attempts, Start(a) PROVE AttemptInv(b)'
  BY <1>1, <1>4 DEF Start
<1>5. ASSUME NEW a \in Attempts, Caller(a) PROVE AttemptInv(b)'
  <2>1. CASE Locks(a)         BY <1>1, <2>1 DEF Locks
  <2>2. CASE ChecksLoop(a)    BY <1>1, <2>2 DEF ChecksLoop, GivesUp
  <2>3. CASE ReadsClock(a)    BY <1>1, <2>3 DEF ReadsClock, GivesUp
  <2>4. CASE ChecksSettled(a) BY <1>1, <2>4 DEF ChecksSettled, Discards
  <2>5. CASE ReadsSettledClock(a)
    BY <1>1, <2>5 DEF ReadsSettledClock, Discards
  <2>6. CASE Takes(a)         BY <1>1, <2>6 DEF Takes, Failure
  <2>. QED BY <1>5, <2>1, <2>2, <2>3, <2>4, <2>5, <2>6 DEF Caller
<1>6. ASSUME NEW a \in Attempts, Worker(a) PROVE AttemptInv(b)'
  <2>1. CASE Creates(a)        BY <1>1, <2>1 DEF Creates
  <2>2. CASE Connects(a)       BY <1>1, <2>2 DEF Connects
  <2>3. CASE KeepsTime(a)      BY <1>1, <2>3 DEF KeepsTime
  <2>4. CASE Fails(a)          BY <1>1, <2>4 DEF Fails
  <2>5. CASE Publishes(a)      BY <1>1, <2>5 DEF Publishes
  <2>6. CASE PublishesError(a) BY <1>1, <2>6 DEF PublishesError
  <2>7. CASE Finishes(a)       BY <1>1, <2>7 DEF Finishes
  <2>. QED BY <1>6, <2>1, <2>2, <2>3, <2>4, <2>5, <2>6, <2>7 DEF Worker
<1>7. ASSUME NEW a \in Attempts, Interrupted(a) PROVE AttemptInv(b)'
  BY <1>1, <1>7 DEF Interrupted
<1>8. ASSUME NEW a \in Attempts, Resolves(a) PROVE AttemptInv(b)'
  BY <1>1, <1>8 DEF Resolves
<1>9. ASSUME NEW a \in Attempts, DeadlinePasses(a) PROVE AttemptInv(b)'
  BY <1>1, <1>9 DEF DeadlinePasses
<1>10. ASSUME NEW a \in Attempts, Closes(a) PROVE AttemptInv(b)'
  BY <1>1, <1>10 DEF Closes
<1>. QED
  BY <1>3, <1>4, <1>5, <1>6, <1>7, <1>8, <1>9, <1>10 DEF Next

(* The inductive invariant holds in every reachable state. *)
LEMMA Invariance == Spec => []IInv
<1>1. Init => IInv
  BY DEF Init, IInv, TypeOK, AttemptInv, WorkerInv, CallerInv, StaleInv,
         CallerPlaces, WorkerPlaces
<1>2. IInv /\ [Next]_vars => IInv'
  BY TypeStep, AttemptStep DEF IInv
<1>. QED BY <1>1, <1>2, PTL DEF Spec

(* The shared state of an attempt and its two threads keep their types.    *)
THEOREM ConnectTypes == Spec => []TypeOK
<1>1. IInv => TypeOK
  BY DEF IInv
<1>. QED BY <1>1, Invariance, PTL

(* An open socket always has one owner, so none is closed under the caller *)
(* that was given it and none is left open by an attempt that was given up *)
(* other than by an interrupt.                                             *)
THEOREM OneOwnerAlways == Spec => []OneOwner
<1>1. IInv => OneOwner
  BY DEF IInv, AttemptInv, WorkerInv, CallerInv, OneOwner
<1>. QED BY <1>1, Invariance, PTL

(* What the caller returns became ready in time and before any close():    *)
(* the two checks it makes after the wait see what happened before them.   *)
THEOREM NoStaleSocketAlways == Spec => []NoStaleSocket
<1>1. IInv => NoStaleSocket
  BY DEF IInv, AttemptInv, StaleInv, NoStaleSocket
<1>. QED BY <1>1, Invariance, PTL
==============================================================================
