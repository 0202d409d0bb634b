---------------------------- MODULE MCClientsLive ----------------------------
(***************************************************************************)
(* The end of every operation, of the blocking client and of the asyncio   *)
(* client, for TLC.  A program uses one of the two: a behaviour is one of  *)
(* SyncClient or one of AsyncClient, as its setup says.  Variables that    *)
(* both modules have are those of the client in use, and those of the      *)
(* other one stand still.                                                  *)
(***************************************************************************)
EXTENDS MCSyncClient

CONSTANTS NoTask, NoConn

(* What only the asyncio client has.                                       *)
VARIABLES conn, connState, extra, waiter, outcome, sent, opened, cut, connGen

taskVars ==
  <<conn, connState, extra, waiter, outcome, sent, opened, cut, connGen>>
threadOnlyVars ==
  <<sock, sockState, foreign, closer, closerSock, result, sending, raced,
    sockGen>>
allVars == <<vars, taskVars>>

(* Two callers and a close(), on TCP.                                      *)
TwoCallers == {t1, t2}

LiveSetups ==
  [threads |-> [Foreign EXCEPT !.kinds = {"write"}, !.codes = {"ok"}]]

TaskSetups ==
  [tasks |-> [callers |-> {t1, t2}, transport |-> "tcp", frame |-> "3E",
              modulus |-> 1, traceHook |-> FALSE,
              kinds |-> {"write", "reset"}, codes |-> {"ok", "junk"},
              ops |-> 2, closes |-> 1, extra |-> 1]]

Async == INSTANCE AsyncClient WITH Tasks <- Threads, Setups <- TaskSetups
------------------------------------------------------------------------------
NoTasks ==
  /\ conn = NoConn /\ connState = <<>> /\ extra = 0 /\ waiter = <<>>
  /\ outcome = <<>> /\ sent = <<>> /\ opened = <<>> /\ cut = <<>>
  /\ connGen = <<>>
NoThreads ==
  /\ sock = NoSocket /\ sockState = <<>> /\ foreign = 0
  /\ closer = "idle" /\ closerSock = NoSocket /\ result = <<>>
  /\ sending = <<>> /\ raced = <<>> /\ sockGen = <<>>

ClientsInit == (Init /\ NoTasks) \/ (Async!Init /\ NoThreads)

InThreads == setup \in DOMAIN LiveSetups
InTasks == setup \in DOMAIN TaskSetups

Threaded == InThreads /\ Next /\ UNCHANGED taskVars
Tasked == InTasks /\ Async!Next /\ UNCHANGED threadOnlyVars

(* The fairness of SyncClient!FairSpec and of AsyncClient!FairSpec.        *)
ThreadGoesOn(t) == InThreads /\ Proceeds(t) /\ UNCHANGED taskVars
TaskRuns(t) == InTasks /\ Async!Runs(t) /\ UNCHANGED threadOnlyVars
TaskContinues(t) ==
  InTasks /\ Async!Continues(t) /\ UNCHANGED threadOnlyVars

ClientsSpec ==
  /\ ClientsInit
  /\ [][Threaded \/ Tasked]_allVars
  /\ \A t \in Threads :
       /\ WF_allVars(ThreadGoesOn(t))
       /\ WF_allVars(TaskRuns(t))
       /\ WF_allVars(TaskContinues(t))
------------------------------------------------------------------------------
(* Every operation of SlmpClient ends and gives its turn back, whatever    *)
(* the PLC answers and whenever close() is called.                         *)
ThreadsEnd == InThreads => EveryOperationEnds

(* So does every operation of AsyncSlmpClient, cancelled or not.           *)
TasksEnd == InTasks => Async!EveryOperationEnds
==============================================================================
