----------------------------- MODULE MCRequests ------------------------------
(***************************************************************************)
(* The parts of the library that make requests and take answers apart, for *)
(* TLC.  They share no state: a behaviour is a conversation of device      *)
(* calls or of typed helpers, one of label calls, a request that grows, a  *)
(* search in a PLC with any set of readable registers, or a catalog of a   *)
(* PLC with one size at an edge.                                           *)
(***************************************************************************)
EXTENDS MCCalls, RangeProbe, RangeCatalog

CONSTANT Written   (* the result of a label write                          *)

AllFaults == {"none", "short", "long", "cut", "extra", "subheader", "refused"}

Session(profiles, asks, helpers, most, faults) ==
  [profiles |-> profiles, asks |-> asks, typed |-> helpers, most |-> most,
   faults |-> faults]

(* One call of every kind, in every layout, with every fault; calls one    *)
(* after another, writes and reads of the same devices and monitor cycles; *)
(* two helper calls in every combination; three on cells that overlap,     *)
(* with writes that fail.                                                  *)
AllSessions ==
  [one |-> Session({"iqr", "iqf", "builtin", "unit"}, AllAsks, {}, 1,
                   AllFaults),
   sequence |-> Session({"iqr", "unit"}, SequenceAsks, {}, 4,
                        {"none", "refused"}),
   typed |-> Session({"iqr", "iqf"}, {}, AllTyped, 2, {"none"}),
   overlap |-> Session({"iqr"}, {}, OverlapTyped, 3,
                       {"none", "cut", "refused"})]

(* Two kinds of call that a builder or a helper takes and should refuse.   *)
WideSessions ==
  [wide |-> Session({"iqr", "iqf", "builtin", "unit"}, WideBits, {}, 1,
                    {"none"})]
TruthSessions ==
  [truth |-> Session({"iqr", "unit"}, {}, ManyCalls, 1, {"none"})]

AllLabelSessions ==
  [one |-> [calls |-> AllLabelCalls, most |-> 1],
   sequence |-> [calls |-> SomeLabelCalls, most |-> 3]]

VARIABLES
  part,   (* what the behaviour is about                                   *)
  labelSession, calls, call, labelStage, payload, answer, damage, outcome,
  store

labelVars ==
  <<labelSession, calls, call, labelStage, payload, answer, damage, outcome,
    store>>
allVars ==
  <<part, typedVars, labelVars, sizeVars, searchVars, catalogVars>>

Label ==
  INSTANCE Labels WITH
    LabelSessions <- AllLabelSessions, stage <- labelStage,
    LabelFaults <- {"none", "short", "long", "count", "extent"},
    PayloadMax <- 32, LabelBytes <- 4
------------------------------------------------------------------------------
(* The first states, of a part and of all that the behaviour is not about. *)
NoTalk == TypedInit /\ session = "one" /\ p = "iqr"
NoLabel == Label!Init /\ labelSession = "one"
NoSize == SizeInit /\ plc = "iqr" /\ command = "readWords" /\ ~ext
NoSearch ==
  /\ readable = [n \in 0..upperLimit |-> FALSE]
  /\ z15 = FALSE /\ busy = FALSE
  /\ place = "raised"
  /\ low = 0 /\ high = 0 /\ left = 0 /\ right = 0
  /\ zCount = 0 /\ zrCount = 0 /\ rCount = 0
  /\ closed = FALSE
  /\ probes = 0
NoCatalog ==
  /\ own = "iqr" /\ requested = "iqr" /\ has = <<>>
  /\ stage = "raised" /\ window = <<>> /\ catalog = <<>>

Parts == {"talk", "label", "size", "search", "catalog"}
RequestsInit ==
  /\ part \in Parts
  /\ IF part = "talk" THEN TypedInit ELSE NoTalk
  /\ IF part = "label" THEN Label!Init ELSE NoLabel
  /\ IF part = "size" THEN SizeInit ELSE NoSize
  /\ IF part = "search" THEN SearchInit ELSE NoSearch
  /\ IF part = "catalog" THEN CatalogInit ELSE NoCatalog

Talks ==
  /\ part = "talk"
  /\ \/ TypedCalls = {} /\ Next /\ UNCHANGED <<typed, value, promised>>
     \/ TypedCalls # {} /\ TypedNext
  /\ UNCHANGED <<part, labelVars, sizeVars, searchVars, catalogVars>>
LabelSteps ==
  /\ part = "label" /\ Label!Next
  /\ UNCHANGED <<part, typedVars, sizeVars, searchVars, catalogVars>>
SizeSteps ==
  /\ part = "size" /\ SizeNext
  /\ UNCHANGED <<part, typedVars, labelVars, searchVars, catalogVars>>
Searches ==
  /\ part = "search" /\ SearchNext
  /\ UNCHANGED <<part, typedVars, labelVars, sizeVars, catalogVars>>
Catalogs ==
  /\ part = "catalog" /\ CatalogNext
  /\ UNCHANGED <<part, typedVars, labelVars, sizeVars, searchVars>>

RequestsNext ==
  Talks \/ LabelSteps \/ SizeSteps \/ Searches \/ Catalogs
RequestsSpec == RequestsInit /\ [][RequestsNext]_allVars
------------------------------------------------------------------------------
(* What the client sends says to the PLC what the caller asked for, of     *)
(* devices (Conversation) and of labels (Labels).                          *)
RequestsAreUnderstood == PlcUnderstands /\ Label!LabelsUnderstood

(* What the caller gets is what the PLC has in the devices or labels that  *)
(* were named, and nothing is made of an answer that was damaged.          *)
AnswersAreRead == ReadsWhatIsThere /\ NeverMisread /\ Label!LabelValues

(* The helpers agree with each other, whatever commands carry their        *)
(* values: what one wrote another reads, and none is a dead end            *)
(* (TypedAccess).                                                          *)
HelpersAgree == ReadsBack /\ NoDeadEnds
==============================================================================
