---------------------------- MODULE ConnectWorker ----------------------------
(***************************************************************************)
(* _open_ipv4_socket_before_deadline() of src/slmp/client.py: a caller     *)
(* waits, no longer than its deadline, for a daemon thread that resolves   *)
(* the host and connects a socket; a socket that comes late is not adopted.*)
(*                                                                         *)
(* The holder of the operation turn calls it, so one caller is active at a *)
(* time, but the worker of an attempt that was given up may run on beside  *)
(* later attempts.  The caller holds condition except in condition.wait(); *)
(* the clock and the gate's generation move whether it does or not, so     *)
(* every read of either is a step of its own.                              *)
(***************************************************************************)
EXTENDS Naturals

CONSTANTS
  Attempts,      (* bound: the calls made                                  *)
  Interruptible  (* those that KeyboardInterrupt may reach while they wait *)

ASSUME InterruptibleAssumption == Interruptible \subseteq Attempts

VARIABLES
  caller,     (* where the caller stands                                   *)
  worker,     (* where the worker stands                                   *)
  late,       (* the deadline has passed                                   *)
  current,    (* ensure_current() passes: no close() since the call        *)
  abandoned,  (* state["abandoned"]                                        *)
  done,       (* state["done"]                                             *)
  stored,     (* "socket" in state                                         *)
  error,      (* state["error"], or the exception of the worker before that*)
  candidate,  (* the socket object of the attempt                          *)
  owned,      (* the worker's local variable candidate is not None         *)
  result,     (* what the caller returned or raised                        *)
  staleAtEnd  (* history: late, or not current, when done was set          *)

shared == <<abandoned, done, stored>>
world == <<late, current>>
vars == <<caller, worker, world, shared, error, candidate, owned, result,
          staleAtEnd>>

CallerPlaces ==
  {"none", "started", "loop", "clock", "waiting", "settle", "settleClock",
   "take", "ended"}
WorkerPlaces ==
  {"none", "resolve", "create", "connect", "ready", "publish", "failed",
   "finally", "ended"}

Init ==
  /\ caller = [a \in Attempts |-> "none"]
  /\ worker = [a \in Attempts |-> "none"]
  /\ late = [a \in Attempts |-> FALSE]
  /\ current = [a \in Attempts |-> TRUE]
  /\ abandoned = [a \in Attempts |-> FALSE]
  /\ done = [a \in Attempts |-> FALSE]
  /\ stored = [a \in Attempts |-> FALSE]
  /\ error = [a \in Attempts |-> "none"]
  /\ candidate = [a \in Attempts |-> "none"]
  /\ owned = [a \in Attempts |-> FALSE]
  /\ result = [a \in Attempts |-> "none"]
  /\ staleAtEnd = [a \in Attempts |-> FALSE]

(* The caller is between two calls of condition.wait(). *)
Locked(a) == caller[a] \in {"loop", "clock", "settle", "settleClock", "take"}
CallerAt(a, here, there) ==
  caller[a] = here /\ caller' = [caller EXCEPT ![a] = there]
WorkerAt(a, here, there) ==
  worker[a] = here /\ worker' = [worker EXCEPT ![a] = there]
------------------------------------------------------------------------------
(* The caller. *)
Start(a) ==
  /\ \A b \in Attempts : caller[b] \in {"none", "ended"}
  /\ CallerAt(a, "none", "started")
  /\ worker' = [worker EXCEPT ![a] = "resolve"]
  /\ UNCHANGED <<world, shared, error, candidate, owned, result, staleAtEnd>>

(* It takes the lock, at first or after at most 10 ms of condition.wait(). *)
Locks(a) ==
  /\ caller[a] \in {"started", "waiting"}
  /\ caller' = [caller EXCEPT ![a] = IF done[a] THEN "settle" ELSE "loop"]
  /\ UNCHANGED <<worker, world, shared, error, candidate, owned, result,
                 staleAtEnd>>

(* The loop is left with an exception: the worker is told. *)
GivesUp(a, why) ==
  /\ abandoned' = [abandoned EXCEPT ![a] = TRUE]
  /\ result' = [result EXCEPT ![a] = why]
  /\ UNCHANGED <<worker, world, done, stored, error, candidate, owned,
                 staleAtEnd>>

ChecksLoop(a) ==
  \/ /\ ~current[a]
     /\ CallerAt(a, "loop", "ended")
     /\ GivesUp(a, "closed")
  \/ /\ current[a]
     /\ CallerAt(a, "loop", "clock")
     /\ UNCHANGED <<worker, world, shared, error, candidate, owned, result,
                    staleAtEnd>>

(* Mutant: the deadline ends the wait without telling the worker. *)
ReadsClock_NotAbandoned(a) ==
  \/ /\ late[a]
     /\ CallerAt(a, "clock", "ended")
     /\ result' = [result EXCEPT ![a] = "slmpTimeout"]
     /\ UNCHANGED <<worker, world, shared, error, candidate, owned,
                    staleAtEnd>>
  \/ /\ ~late[a]
     /\ CallerAt(a, "clock", "waiting")
     /\ UNCHANGED <<worker, world, shared, error, candidate, owned, result,
                    staleAtEnd>>

(* Mutant: the wait is not bounded by the deadline. *)
ReadsClock_Forever(a) ==
  /\ CallerAt(a, "clock", "waiting")
  /\ UNCHANGED <<worker, world, shared, error, candidate, owned, result,
                 staleAtEnd>>

ReadsClock(a) ==
  \/ /\ late[a]
     /\ CallerAt(a, "clock", "ended")
     /\ GivesUp(a, "slmpTimeout")
  \/ /\ ~late[a]
     /\ CallerAt(a, "clock", "waiting")
     /\ UNCHANGED <<worker, world, shared, error, candidate, owned, result,
                    staleAtEnd>>

(* condition.wait() is the one statement no handler of the loop surrounds. *)
Interrupted(a) ==
  /\ a \in Interruptible
  /\ CallerAt(a, "waiting", "ended")
  /\ result' = [result EXCEPT ![a] = "interrupted"]
  /\ UNCHANGED <<worker, world, shared, error, candidate, owned, staleAtEnd>>

(* The worker was done, but too late: its socket, if any, is closed here. *)
Discards(a, why) ==
  /\ abandoned' = [abandoned EXCEPT ![a] = TRUE]
  /\ stored' = [stored EXCEPT ![a] = FALSE]
  /\ candidate' = [candidate EXCEPT ![a] = IF stored[a] THEN "closed" ELSE @]
  /\ result' = [result EXCEPT ![a] = why]
  /\ UNCHANGED <<worker, world, done, error, owned, staleAtEnd>>

ChecksSettled(a) ==
  \/ /\ ~current[a]
     /\ CallerAt(a, "settle", "ended")
     /\ Discards(a, "closed")
  \/ /\ current[a]
     /\ CallerAt(a, "settle", "settleClock")
     /\ UNCHANGED <<worker, world, shared, error, candidate, owned, result,
                    staleAtEnd>>

(* Mutant: a socket that is there is taken whatever the time. *)
ReadsSettledClock_NoCheck(a) ==
  /\ CallerAt(a, "settleClock", "take")
  /\ UNCHANGED <<worker, world, shared, error, candidate, owned, result,
                 staleAtEnd>>

ReadsSettledClock(a) ==
  \/ /\ late[a]
     /\ CallerAt(a, "settleClock", "ended")
     /\ Discards(a, "slmpTimeout")
  \/ /\ ~late[a]
     /\ CallerAt(a, "settleClock", "take")
     /\ UNCHANGED <<worker, world, shared, error, candidate, owned, result,
                    staleAtEnd>>

(* A TimeoutError of the worker is SlmpTimeoutError only if the deadline   *)
(* has passed by now; the operating system's own timeout may come earlier. *)
Failure(a) ==
  IF error[a] # "timeout" THEN "osError"
  ELSE IF late[a] THEN "slmpTimeout" ELSE "slmpTransport"

Takes(a) ==
  /\ CallerAt(a, "take", "ended")
  /\ IF error[a] # "none"
       THEN /\ result' = [result EXCEPT ![a] = Failure(a)]
            /\ UNCHANGED stored
       ELSE /\ result' = [result EXCEPT ![a] = "socket"]
            /\ stored' = [stored EXCEPT ![a] = FALSE]
  /\ UNCHANGED <<worker, world, abandoned, done, error, candidate, owned,
                 staleAtEnd>>
------------------------------------------------------------------------------
(* The worker.  Resolving a name is not bounded by the deadline. *)
Resolves(a) ==
  /\ \/ WorkerAt(a, "resolve", "create") /\ UNCHANGED error
     \/ /\ WorkerAt(a, "resolve", "failed")
        /\ error' = [error EXCEPT ![a] = "osError"]
  /\ UNCHANGED <<caller, world, shared, candidate, owned, result, staleAtEnd>>

Creates(a) ==
  /\ WorkerAt(a, "create", "connect")
  /\ candidate' = [candidate EXCEPT ![a] = "open"]
  /\ owned' = [owned EXCEPT ![a] = TRUE]
  /\ UNCHANGED <<caller, world, shared, error, result, staleAtEnd>>

(* settimeout(_remaining_timeout()), the options and connect() ... *)
Connects(a) ==
  /\ WorkerAt(a, "connect", "ready")
  /\ UNCHANGED <<caller, world, shared, error, candidate, owned, result,
                 staleAtEnd>>

(* ... and the time left once more. *)
KeepsTime(a) ==
  /\ ~late[a]
  /\ WorkerAt(a, "ready", "publish")
  /\ UNCHANGED <<caller, world, shared, error, candidate, owned, result,
                 staleAtEnd>>

Fails(a) ==
  /\ \/ /\ WorkerAt(a, "create", "failed")
        /\ error' = [error EXCEPT ![a] = "osError"]
     \/ /\ WorkerAt(a, "connect", "failed")
        /\ \E e \in {"timeout", "osError"} : error' = [error EXCEPT ![a] = e]
     \/ /\ WorkerAt(a, "ready", "failed")
        /\ late[a]
        /\ error' = [error EXCEPT ![a] = "timeout"]
  /\ UNCHANGED <<caller, world, shared, candidate, owned, result, staleAtEnd>>

(* Mutant: the result is stored whether or not somebody waits for it. *)
Publishes_Always(a) ==
  /\ ~Locked(a)
  /\ WorkerAt(a, "publish", "finally")
  /\ stored' = [stored EXCEPT ![a] = TRUE]
  /\ done' = [done EXCEPT ![a] = TRUE]
  /\ owned' = [owned EXCEPT ![a] = FALSE]
  /\ staleAtEnd' = [staleAtEnd EXCEPT ![a] = late[a] \/ ~current[a]]
  /\ UNCHANGED <<caller, world, abandoned, error, candidate, result>>

(* The worker needs the lock to store its socket, or its exception, and    *)
(* stores neither in an abandoned attempt.                                 *)
Publishes(a) ==
  /\ ~Locked(a)
  /\ WorkerAt(a, "publish", "finally")
  /\ IF abandoned[a]
       THEN UNCHANGED <<stored, done, owned, staleAtEnd>>
       ELSE /\ stored' = [stored EXCEPT ![a] = TRUE]
            /\ done' = [done EXCEPT ![a] = TRUE]
            /\ owned' = [owned EXCEPT ![a] = FALSE]
            /\ staleAtEnd' = [staleAtEnd EXCEPT ![a] = late[a] \/ ~current[a]]
  /\ UNCHANGED <<caller, world, abandoned, error, candidate, result>>

PublishesError(a) ==
  /\ ~Locked(a)
  /\ WorkerAt(a, "failed", "finally")
  /\ IF abandoned[a]
       THEN UNCHANGED <<done, staleAtEnd>>
       ELSE /\ done' = [done EXCEPT ![a] = TRUE]
            /\ staleAtEnd' = [staleAtEnd EXCEPT ![a] = late[a] \/ ~current[a]]
  /\ UNCHANGED <<caller, world, abandoned, stored, error, candidate, owned,
                 result>>

(* finally: a socket the worker still has is closed. *)
Finishes(a) ==
  /\ WorkerAt(a, "finally", "ended")
  /\ candidate' = [candidate EXCEPT ![a] = IF owned[a] THEN "closed" ELSE @]
  /\ owned' = [owned EXCEPT ![a] = FALSE]
  /\ UNCHANGED <<caller, world, shared, error, result, staleAtEnd>>
------------------------------------------------------------------------------
(* The clock, and close() on another thread. *)
DeadlinePasses(a) ==
  /\ caller[a] # "none"
  /\ ~late[a]
  /\ late' = [late EXCEPT ![a] = TRUE]
  /\ UNCHANGED <<caller, worker, current, shared, error, candidate, owned,
                 result, staleAtEnd>>

Closes(a) ==
  /\ caller[a] \notin {"none", "ended"}
  /\ current[a]
  /\ current' = [current EXCEPT ![a] = FALSE]
  /\ UNCHANGED <<caller, worker, late, shared, error, candidate, owned, result,
                 staleAtEnd>>

Caller(a) ==
  \/ Locks(a) \/ ChecksLoop(a) \/ ReadsClock(a) \/ ChecksSettled(a)
  \/ ReadsSettledClock(a) \/ Takes(a)
Worker(a) ==
  \/ Creates(a) \/ Connects(a) \/ KeepsTime(a) \/ Fails(a) \/ Publishes(a)
  \/ PublishesError(a) \/ Finishes(a)

Next ==
  \E a \in Attempts :
    \/ Start(a) \/ Caller(a) \/ Interrupted(a) \/ Resolves(a) \/ Worker(a)
    \/ DeadlinePasses(a) \/ Closes(a)

Spec == Init /\ [][Next]_vars

(* Both threads run, and time passes; a name need never be resolved.       *)
FairSpec ==
  /\ Spec
  /\ \A a \in Attempts :
       /\ WF_vars(Caller(a))
       /\ WF_vars(Worker(a))
       /\ WF_vars(DeadlinePasses(a))
------------------------------------------------------------------------------
TypeOK ==
  /\ caller \in [Attempts -> CallerPlaces]
  /\ worker \in [Attempts -> WorkerPlaces]
  /\ late \in [Attempts -> BOOLEAN]
  /\ current \in [Attempts -> BOOLEAN]
  /\ abandoned \in [Attempts -> BOOLEAN]
  /\ done \in [Attempts -> BOOLEAN]
  /\ stored \in [Attempts -> BOOLEAN]
  /\ error \in [Attempts -> {"none", "timeout", "osError"}]
  /\ candidate \in [Attempts -> {"none", "open", "closed"}]
  /\ owned \in [Attempts -> BOOLEAN]
  /\ result \in [Attempts -> {"none", "socket", "closed", "slmpTimeout",
                              "slmpTransport", "osError", "interrupted"}]
  /\ staleAtEnd \in [Attempts -> BOOLEAN]

(* An open socket belongs to the worker, to the shared state of a caller   *)
(* that will still look at it, or to the caller that returned it: to one   *)
(* of them and never to two.  A caller that KeyboardInterrupt took out of  *)
(* condition.wait() is the exception: it may leave a socket to nobody.     *)
OneOwner ==
  \A a \in Attempts :
    /\ candidate[a] = "open"
         => owned[a] \/ stored[a] \/ result[a] = "socket"
    /\ owned[a] => candidate[a] = "open" /\ ~stored[a]
    /\ stored[a] =>
         /\ candidate[a] = "open"
         /\ caller[a] # "ended" \/ result[a] = "interrupted"
    /\ result[a] = "socket"
         => candidate[a] = "open" /\ ~owned[a] /\ ~stored[a]

(* A caller never returns a socket that became ready only after the        *)
(* deadline or after a close().                                            *)
NoStaleSocket ==
  \A a \in Attempts : result[a] = "socket" => ~staleAtEnd[a]

(* The caller is back, at the latest, soon after its deadline, whatever    *)
(* the worker does; it may hang in the name service for ever.              *)
CallerReturns ==
  \A a \in Attempts : caller[a] # "none" ~> caller[a] = "ended"

(* A socket that nobody was given is closed in the end, unless an          *)
(* interrupt took its caller away.                                         *)
NoSocketLeft ==
  \A a \in Attempts :
    candidate[a] = "open"
      ~> candidate[a] = "closed" \/ result[a] \in {"socket", "interrupted"}
==============================================================================
