------------------------------ MODULE BitInWord ------------------------------
(***************************************************************************)
(* write_bit_in_word() of src/slmp/utils.py: a read and a write in one     *)
(* turn and under one deadline, beside callers that write the whole word.  *)
(*                                                                         *)
(* The exchanges are those of the clients, reduced to what reaches the     *)
(* word: sent, carried out by the PLC, answered, or failed; the turns are  *)
(* those of OperationTurn.  Time is counted in ticks.                      *)
(***************************************************************************)
EXTENDS Naturals, Sequences, SequencesExt

CONSTANTS
  Threads, NoThread,
  Bits, NoJob,   (* see AtomicWord                                         *)
  NoDeadline,    (* None in _active_deadline                               *)
  Timeout,       (* client.timeout, in ticks                               *)
  MaxTime,       (* bound: ticks                                           *)
  MaxOps,        (* bound: operations                                      *)
  MaxCloses      (* bound: close() calls                                   *)

ASSUME BitInWordAssumption ==
  /\ NoThread \notin Threads
  /\ Timeout \in Nat \ {0} /\ MaxTime \in Nat
  /\ MaxOps \in Nat /\ MaxCloses \in Nat
  /\ NoDeadline \notin Nat

VARIABLES
  holder, line, stale, (* the operation gate                               *)
  word,            (* the word in the PLC                                  *)
  job,             (* what each caller asks for, or NoJob                  *)
  activeDeadline,  (* client._active_deadline                              *)
  prior,           (* the local variable prior_deadline                    *)
  deadline,        (* the deadline of the exchange that runs               *)
  begun,           (* when the turn that runs began                        *)
  pc,              (* where each caller stands                             *)
  seen,            (* the word that the read brought back                  *)
  wire,            (* the request of the holder: none, sent or answered    *)
  orphans,         (* what the PLC does with a write whose exchange failed *)
                   (* when it was sent: "dropped", or done "late"          *)
  late,            (* writes the PLC may yet carry out for nobody          *)
  told,            (* callers ever told that an outcome is unknown         *)
  now, ops, closes

gateVars == <<holder, line, stale>>
timeVars == <<activeDeadline, prior, deadline, begun>>
bounds == <<now, ops, closes>>
vars == <<gateVars, word, job, timeVars, pc, seen, wire, orphans, late, told,
          bounds>>

Gate == INSTANCE OperationTurn
Atomic == INSTANCE AtomicWord

ASSUME NoJobAssumption == NoJob \notin Atomic!Jobs

InTurn == {"read", "reading", "write", "writing", "leave"}
Places == InTurn \union {"idle", "queued"}
Blank == [b \in Bits |-> FALSE]

Init ==
  /\ Gate!Init
  /\ word = Blank /\ seen = Blank
  /\ job = [t \in Threads |-> NoJob]
  /\ activeDeadline = NoDeadline /\ prior = NoDeadline
  /\ deadline = 0 /\ begun = 0
  /\ pc = [t \in Threads |-> "idle"]
  /\ orphans \in {"dropped", "late"}
  /\ wire = "none" /\ late = {} /\ told = {}
  /\ now = 0 /\ ops = 0 /\ closes = 0

Goto(t, place) == pc' = [pc EXCEPT ![t] = place]

(* Mutant: the word is the one an earlier read brought back. *)
Begins_CachedWord(t, j) ==
  /\ begun' = now
  /\ prior' = activeDeadline
  /\ activeDeadline' = IF j.kind = "bit" THEN now + Timeout ELSE activeDeadline
  /\ Goto(t, "write")

(* The turn begins: a read-modify-write saves the deadline it finds and    *)
(* installs its own.                                                       *)
Begins(t, j) ==
  /\ begun' = now
  /\ prior' = activeDeadline
  /\ activeDeadline' = IF j.kind = "bit" THEN now + Timeout ELSE activeDeadline
  /\ Goto(t, IF j.kind = "bit" THEN "read" ELSE "write")

Start(t, j) ==
  /\ pc[t] = "idle"
  /\ ops < MaxOps
  /\ ops' = ops + 1
  /\ job' = [job EXCEPT ![t] = j]
  /\ UNCHANGED <<word, deadline, seen, wire, late, told, now, closes>>

StartFree(t, j) ==
  /\ Start(t, j)
  /\ Gate!TakeFree(t)
  /\ Begins(t, j)

StartQueued(t, j) ==
  /\ Start(t, j)
  /\ holder # NoThread \/ line # <<>>
  /\ Gate!Join(t)
  /\ Goto(t, "queued")
  /\ UNCHANGED <<activeDeadline, prior, begun>>

TurnGranted(t) ==
  /\ pc[t] = "queued"
  /\ Gate!Take(t)
  /\ Begins(t, job[t])
  /\ UNCHANGED <<word, job, deadline, seen, wire, late, told, bounds>>

TurnRefused(t) ==
  /\ pc[t] = "queued"
  /\ Gate!Refuse(t)
  /\ job' = [job EXCEPT ![t] = NoJob]
  /\ Goto(t, "idle")
  /\ UNCHANGED <<word, timeVars, seen, wire, late, told, bounds>>

(* Mutant: a failed step leaves the deadline behind. *)
Leave_KeepsDeadline(t) ==
  /\ pc[t] = "leave"
  /\ Gate!Release(t)
  /\ activeDeadline' = IF wire = "failed" THEN activeDeadline ELSE prior
  /\ job' = [job EXCEPT ![t] = NoJob]
  /\ wire' = "none"
  /\ Goto(t, "idle")
  /\ UNCHANGED <<word, prior, deadline, begun, seen, late, told, bounds>>

(* The finally of the helper, then the end of the turn. *)
Leave(t) ==
  /\ pc[t] = "leave"
  /\ Gate!Release(t)
  /\ activeDeadline' = prior
  /\ job' = [job EXCEPT ![t] = NoJob]
  /\ wire' = "none"
  /\ Goto(t, "idle")
  /\ UNCHANGED <<word, prior, deadline, begun, seen, late, told, bounds>>

(* The deadline an exchange starts under. *)
ExchangeDeadline ==
  IF activeDeadline # NoDeadline THEN activeDeadline ELSE now + Timeout

(* _send_and_receive(): the deadline, the generation, then the request.    *)
Sends(t) ==
  /\ pc[t] \in {"read", "write"}
  /\ Gate!IsCurrent(t) /\ now < ExchangeDeadline
  /\ deadline' = ExchangeDeadline
  /\ wire' = "sent"
  /\ Goto(t, IF pc[t] = "read" THEN "reading" ELSE "writing")
  /\ UNCHANGED <<gateVars, word, job, activeDeadline, prior, begun, seen,
                 late, told, bounds>>

SendFails(t) ==
  /\ pc[t] \in {"read", "write"}
  /\ ~Gate!IsCurrent(t) \/ now >= ExchangeDeadline
  /\ wire' = "failed"
  /\ Goto(t, "leave")
  /\ UNCHANGED <<gateVars, word, job, timeVars, seen, late, told, bounds>>

(* The PLC carries out the request of caller t.  What a read-modify-write  *)
(* writes is the word it read with one bit changed.                        *)
PlcReads(t) ==
  /\ pc[t] = "reading" /\ wire = "sent"
  /\ seen' = word
  /\ wire' = "answered"
  /\ UNCHANGED <<gateVars, word, job, timeVars, pc, late, told, bounds>>

PlcWrites(t) ==
  /\ pc[t] = "writing" /\ wire = "sent"
  /\ word' = Atomic!Effect(job[t], seen)
  /\ wire' = "answered"
  /\ UNCHANGED <<gateVars, job, timeVars, pc, seen, late, told, bounds>>

LateWriteApplies ==
  /\ \E w \in late : word' = w.value /\ late' = late \ {w}
  /\ UNCHANGED <<gateVars, job, timeVars, pc, seen, wire, told, bounds>>

(* An answered read is always followed by the write. *)
ReadDone(t) ==
  /\ pc[t] = "reading" /\ wire = "answered"
  /\ Gate!IsCurrent(t)
  /\ wire' = "none"
  /\ Goto(t, "write")
  /\ UNCHANGED <<gateVars, word, job, timeVars, seen, late, told, bounds>>

WriteDone(t) ==
  /\ pc[t] = "writing" /\ wire = "answered"
  /\ Gate!IsCurrent(t)
  /\ wire' = "none"
  /\ Goto(t, "leave")
  /\ UNCHANGED <<gateVars, word, job, timeVars, seen, late, told, bounds>>

(* Mutant: the write of a read-modify-write is classified as its read. *)
ExchangeFails_LikeRead(t) ==
  /\ pc[t] \in {"reading", "writing"}
  /\ told' = IF pc[t] = "writing" /\ job[t].kind = "word"
               THEN told \union {t} ELSE told
  /\ late' = IF orphans = "late" /\ pc[t] = "writing" /\ wire = "sent"
               THEN late \union {[by |-> t,
                                  value |-> Atomic!Effect(job[t], seen)]}
               ELSE late
  /\ wire' = "failed"
  /\ Goto(t, "leave")
  /\ UNCHANGED <<gateVars, word, job, seen, timeVars, bounds>>

(* The deadline, a close, the peer or a cancellation ends the exchange; a  *)
(* write that was sent ends with SlmpOutcomeUnknownError, and may reach    *)
(* the word all the same.                                                  *)
ExchangeFails(t) ==
  /\ pc[t] \in {"reading", "writing"}
  /\ told' = IF pc[t] = "writing" THEN told \union {t} ELSE told
  /\ late' = IF orphans = "late" /\ pc[t] = "writing" /\ wire = "sent"
               THEN late \union {[by |-> t,
                                  value |-> Atomic!Effect(job[t], seen)]}
               ELSE late
  /\ wire' = "failed"
  /\ Goto(t, "leave")
  /\ UNCHANGED <<gateVars, word, job, seen, timeVars, bounds>>

Close ==
  /\ closes < MaxCloses
  /\ closes' = closes + 1
  /\ Gate!Close
  /\ UNCHANGED <<word, job, timeVars, pc, seen, wire, late, told, now, ops>>

Tick ==
  /\ now < MaxTime
  /\ now' = now + 1
  /\ UNCHANGED <<gateVars, word, job, timeVars, pc, seen, wire, late, told,
                 ops, closes>>

Operation(t) ==
  \/ TurnGranted(t) \/ TurnRefused(t) \/ Leave(t) \/ Sends(t) \/ SendFails(t)
  \/ PlcReads(t) \/ PlcWrites(t) \/ ReadDone(t) \/ WriteDone(t)
  \/ ExchangeFails(t)

Starts(t) == \E j \in Atomic!Jobs : StartFree(t, j) \/ StartQueued(t, j)

Next ==
  /\ \/ \E t \in Threads : Operation(t) \/ Starts(t)
     \/ LateWriteApplies \/ Close \/ Tick
  /\ UNCHANGED orphans

Spec == Init /\ [][Next]_vars
------------------------------------------------------------------------------
Deadlines == Nat \union {NoDeadline}

(* The values of the variables: the deadline of the client, the locals of  *)
(* the holder and what is on the wire.                                     *)
TypeOK ==
  /\ Gate!TypeOK
  /\ word \in Atomic!Words /\ seen \in Atomic!Words
  /\ job \in [Threads -> Atomic!Jobs \union {NoJob}]
  /\ activeDeadline \in Deadlines /\ prior \in Deadlines
  /\ deadline \in Nat /\ begun \in Nat
  /\ pc \in [Threads -> Places]
  /\ wire \in {"none", "sent", "answered", "failed"}
  /\ orphans \in {"dropped", "late"}
  /\ late \subseteq [by : Threads, value : Atomic!Words]
  /\ told \subseteq Threads
  /\ now \in Nat /\ ops \in Nat /\ closes \in Nat

(* To the callers of one client a read-modify-write is one step: whatever  *)
(* they do beside it, no update is lost (write_bit_in_word() and its       *)
(* synchronous form, while the PLC drops what a failed exchange had sent). *)
AtomicUpdates ==
  /\ Atomic!Init
  /\ [][orphans = "dropped" => Atomic!Next]_<<word, job>>

(* When the PLC carries out a write after its exchange has failed, an      *)
(* update may be lost, by that write or by one that read the word before   *)
(* it; never before a caller has been told that its outcome is unknown.    *)
LossIsAnnounced ==
  [][told = {} => \/ UNCHANGED word
                  \/ \E t \in Threads : Atomic!Applies(t)]_word

(* Both exchanges of a read-modify-write run under the deadline set when   *)
(* its turn began; any other exchange has the whole timeout, whatever ran  *)
(* or failed before it (_active_deadline of the client).                   *)
OwnDeadline ==
  \A t \in Threads :
    pc[t] \in {"reading", "writing"} =>
      IF job[t].kind = "bit" THEN deadline = begun + Timeout
                             ELSE deadline >= begun + Timeout
==============================================================================
