----------------------------- MODULE LimitsProofs ----------------------------
(***************************************************************************)
(* Theorems about three components whose correctness is arithmetic.        *)
(*                                                                         *)
(* RangeProbe, for every limit, every PLC and every moment of a close():   *)
(* the search keeps a register that was read below one that was refused.   *)
(*                                                                         *)
(* RequestLimits, whatever the counts: a request the builders accept can   *)
(* be written down, by cases on the command and on the profile.            *)
(*                                                                         *)
(* RangeCatalog, for every profile and every PLC of its kind: the window   *)
(* holds the words that the rules name, so the entries are what the PLC    *)
(* has, in the base and for the devices of the client.                     *)
(***************************************************************************)
EXTENDS RangeProbe, RequestLimits, RangeCatalog, SequenceLemmas, TLAPS

(* What the two loops keep.  Doubling: low was read and lies below high.   *)
(* Bisection: low was read, the candidates are low + 1 .. right, and the   *)
(* register after them was refused.                                        *)
DoublingInv ==
  place = "double" =>
    /\ readable[low]
    /\ low < high
    /\ high <= upperLimit

BisectionInv ==
  place = "bisect" =>
    /\ readable[low]
    /\ left = low + 1
    /\ low <= right
    /\ right < upperLimit
    /\ ~busy => ~readable[right + 1]

CountInv ==
  place \in {"check", "published"} =>
    /\ zrCount > 0 => readable[zrCount - 1]
    /\ ~busy /\ zrCount < MaxCount => ~readable[zrCount]

IInv ==
  /\ TypeOK
  /\ DoublingInv
  /\ BisectionInv
  /\ CountInv
  /\ NoCatalogAfterClose

(* The address the bisection tries next is one of its candidates. *)
LEMMA MiddleBetween ==
  ASSUME NEW l \in Int, NEW r \in Int, l <= r
  PROVE  /\ l + ((r - l) \div 2) \in Int
         /\ l <= l + ((r - l) \div 2)
         /\ l + ((r - l) \div 2) <= r
  OBVIOUS

(* The first state of a call satisfies the invariant. *)
LEMMA InitInv == SearchInit => IInv
<1> SUFFICES ASSUME SearchInit PROVE IInv
  OBVIOUS
<1>1. /\ MaxCount \in Nat /\ MaxCount >= 2
      /\ upperLimit = MaxCount - 1
      /\ Addresses = 0..upperLimit
  BY ProbeAssumption DEF ProbeAssumption, upperLimit, Addresses
<1>2. place = "window"
  BY DEF SearchInit
<1>3. TypeOK
  <2>1. readable \in [Addresses -> BOOLEAN] /\ z15 \in BOOLEAN
    BY <1>1 DEF SearchInit
  <2>2. place \in Places
    BY <1>2 DEF Places
  <2>3. 0 \in Addresses /\ 0 \in 0..MaxCount /\ 0 \in -1..upperLimit
    BY <1>1
  <2>4. /\ zCount \in {0, 10, 16}
        /\ closed \in BOOLEAN
        /\ probes \in Nat
    BY DEF SearchInit
  <2> QED
    BY <2>1, <2>2, <2>3, <2>4 DEF SearchInit, TypeOK
<1> QED
  BY <1>2, <1>3
  DEF IInv, DoublingInv, BisectionInv, CountInv, NoCatalogAfterClose

(* An answered read changes nothing but the count of reads and, for an end *)
(* code, whether a close() came meanwhile.                                 *)
LEMMA ProbeFacts ==
  ASSUME IInv, NEW n \in Addresses
  PROVE  /\ ProbeYes(n) => /\ readable[n]
                           /\ closed' \in BOOLEAN
                           /\ probes' \in Nat
         /\ ProbeNo(n) => /\ ~busy => ~readable[n]
                          /\ closed' \in BOOLEAN
                          /\ probes' \in Nat
<1>1. probes \in Nat /\ ProbesCap \in Nat \ {0} /\ closed \in BOOLEAN
  BY ProbeAssumption DEF ProbeAssumption, ProbesCap, IInv, TypeOK
<1>2. Counted => probes' \in Nat
  BY <1>1 DEF Counted
<1> QED
  BY <1>1, <1>2 DEF ProbeYes, ProbeNo, Yes, No

(* Every step of a call and every close() keeps it. *)
LEMMA StepInv == IInv /\ [SearchNext]_searchVars => IInv'
<1> SUFFICES ASSUME IInv, [SearchNext]_searchVars
             PROVE  IInv'
  OBVIOUS
<1> USE ProbeAssumption DEF ProbeAssumption
<1>1. /\ MaxCount \in Int /\ MaxCount >= 2
      /\ upperLimit = MaxCount - 1
      /\ Addresses = 0..(MaxCount - 1)
  BY DEF upperLimit, Addresses
<1>2. CASE ReadWindow
  BY <1>2 DEF ReadWindow, IInv, TypeOK, Places, Searching, plcVars, bounds,
    counts,
       DoublingInv, BisectionInv, CountInv, NoCatalogAfterClose
<1>3. CASE ProbeZ
  BY <1>3 DEF ProbeZ, Yes, No, IInv, TypeOK, Places, Searching, plcVars,
    bounds,
       DoublingInv, BisectionInv, CountInv, NoCatalogAfterClose
<1>4. CASE ProbeZero
  <2>0. 0 \in Addresses
    BY <1>1
  <2>1. CASE ProbeYes(0) /\ place' = "double"
    BY <1>1, <1>4, <2>0, <2>1, ProbeFacts
    DEF ProbeZero, IInv, TypeOK, Places, Searching, plcVars, bounds, counts,
      Found,
        DoublingInv, BisectionInv, CountInv, NoCatalogAfterClose
  <2>2. CASE ProbeNo(0) /\ Found(0)
    BY <1>1, <1>4, <2>0, <2>2, ProbeFacts
    DEF ProbeZero, IInv, TypeOK, Places, Searching, plcVars, bounds, counts,
      Found,
        DoublingInv, BisectionInv, CountInv, NoCatalogAfterClose
  <2> QED
    BY <1>4, <2>1, <2>2 DEF ProbeZero
<1>5. ASSUME place = "double", ProbeNo(high), StartBisection, UNCHANGED plcVars
      PROVE  IInv'
  <2>1. high \in Addresses
    BY <1>5 DEF IInv, TypeOK
  <2>2. ~busy => ~readable[high]
    BY <1>5, <2>1, ProbeFacts
  <2> QED
    BY <1>1, <1>5, <2>1, <2>2, ProbeFacts
    DEF StartBisection, IInv, TypeOK, Places, Searching, plcVars, counts,
        DoublingInv, BisectionInv, CountInv, NoCatalogAfterClose
<1>6. CASE Doubles
  <2>1. CASE ProbeYes(high) /\ low' = high /\ UNCHANGED place
    BY <1>1, <1>6, <2>1, ProbeFacts
    DEF Doubles, Smaller, IInv, TypeOK, Places, plcVars, counts,
      StartBisection,
        DoublingInv, BisectionInv, CountInv, NoCatalogAfterClose
  <2> QED
    BY <1>5, <1>6, <2>1 DEF Doubles
<1>7. CASE ProbeTop
  <2>1. CASE ProbeYes(high) /\ Found(MaxCount) /\ UNCHANGED bounds
    <3>1. readable[MaxCount - 1] /\ closed' \in BOOLEAN /\ probes' \in Nat
      BY <1>1, <1>7, <2>1, ProbeFacts DEF ProbeTop, IInv, TypeOK
    <3> QED
      BY <1>1, <1>7, <2>1, <3>1
      DEF ProbeTop, Found, IInv, TypeOK, Places, plcVars, bounds,
          DoublingInv, BisectionInv, CountInv, NoCatalogAfterClose
  <2> QED
    BY <1>5, <1>7, <2>1 DEF ProbeTop
<1>8. CASE Bisects
  <2>1. /\ left \in Int /\ right \in Int /\ left <= right
        /\ low \in Int /\ low >= 0 /\ left = low + 1 /\ right < upperLimit
    BY <1>1, <1>8 DEF Bisects, IInv, TypeOK, BisectionInv
  <2>2. middle \in Int /\ left <= middle /\ middle <= right
    BY <2>1, MiddleBetween DEF middle
  <2>3. middle \in Addresses
    BY <1>1, <2>1, <2>2
  <2>4. CASE ProbeYes(middle) /\ low' = middle /\ left' = middle + 1
             /\ UNCHANGED right
    <3>1. readable[middle] /\ closed' \in BOOLEAN /\ probes' \in Nat
      BY <2>3, <2>4, ProbeFacts
    <3> QED
      BY <1>1, <1>8, <2>1, <2>2, <2>3, <2>4, <3>1
      DEF Bisects, IInv, TypeOK, Places, plcVars, counts,
          DoublingInv, BisectionInv, CountInv, NoCatalogAfterClose
  <2>5. CASE ProbeNo(middle) /\ right' = middle - 1 /\ UNCHANGED <<low, left>>
    <3>1. /\ ~busy => ~readable[middle]
          /\ closed' \in BOOLEAN /\ probes' \in Nat
      BY <2>3, <2>5, ProbeFacts
    <3> QED
      BY <1>1, <1>8, <2>1, <2>2, <2>3, <2>5, <3>1
      DEF Bisects, IInv, TypeOK, Places, plcVars, counts,
          DoublingInv, BisectionInv, CountInv, NoCatalogAfterClose
  <2> QED
    BY <1>8, <2>4, <2>5 DEF Bisects
<1>9. CASE EndsBisection
  BY <1>1, <1>9
  DEF EndsBisection, Found, IInv, TypeOK, Places, plcVars, bounds,
      DoublingInv, BisectionInv, CountInv, NoCatalogAfterClose
<1>10. CASE Publishes
  BY <1>1, <1>10
  DEF Publishes, Smaller, IInv, TypeOK, Places, plcVars, bounds,
      DoublingInv, BisectionInv, CountInv, NoCatalogAfterClose
<1>11. CASE ReadFails
  BY <1>11
  DEF ReadFails, IInv, TypeOK, Places, plcVars, bounds, counts,
      DoublingInv, BisectionInv, CountInv, NoCatalogAfterClose
<1>12. CASE Close
  BY <1>12
  DEF Close, IInv, TypeOK, Places, plcVars, bounds, counts,
      DoublingInv, BisectionInv, CountInv, NoCatalogAfterClose
<1>13. CASE UNCHANGED searchVars
  BY <1>13
  DEF searchVars, IInv, TypeOK, Places, plcVars, bounds, counts,
      DoublingInv, BisectionInv, CountInv, NoCatalogAfterClose
<1> QED
  BY <1>2, <1>3, <1>4, <1>6, <1>7, <1>8, <1>9, <1>10, <1>11, <1>12, <1>13
  DEF SearchNext, SearchStep

(* The invariant holds in every state of every call. *)
THEOREM SearchInvariant == SearchSpec => []IInv
  BY InitInv, StepInv, PTL DEF SearchSpec

(* The local variables of the search and the counts of the catalog stay in *)
(* their ranges: no probe leaves the address range of the device.          *)
THEOREM ProbeTypes == SearchSpec => []TypeOK
<1>1. IInv => TypeOK
  BY DEF IInv
<1> QED
  BY <1>1, SearchInvariant, PTL

(* A published ZR count ends at a register that was read, however often    *)
(* the PLC refuses a register it has.                                      *)
THEOREM CountNeverOverstates == SearchSpec => []NeverOverstates
<1>1. IInv => NeverOverstates
  BY DEF IInv, CountInv, NeverOverstates
<1> QED
  BY <1>1, SearchInvariant, PTL

(* With a PLC that refuses only what it does not have, the published count *)
(* ends at a boundary.                                                     *)
THEOREM CountEndsAtBoundary == SearchSpec => []EndsAtBoundary
<1>1. IInv => EndsAtBoundary
  BY DEF IInv, CountInv, EndsAtBoundary
<1> QED
  BY <1>1, SearchInvariant, PTL

(* No catalog comes out of a generation that was closed. *)
THEOREM CatalogIsCurrent == SearchSpec => []NoCatalogAfterClose
<1>1. IInv => NoCatalogAfterClose
  BY DEF IInv
<1> QED
  BY <1>1, SearchInvariant, PTL
------------------------------------------------------------------------------
(* What power computes, exponent after exponent. *)
LEMMA PowerFacts ==
  /\ power[0] = 1
  /\ \A n \in 1..MaxCount : power[n] = 2 * power[n - 1]
<1> DEFINE Doubled(f, n) == IF n = 0 THEN 1 ELSE 2 * f[n - 1]
           Is(f, n) == f = [m \in 0..n |-> Doubled(f, m)]
           G == {n \in Nat : \E f : Is(f, n)}
<1>0. MaxCount \in Nat
  BY ProbeAssumption
<1>1. 0 \in G
  <2>1. Is([m \in 0..0 |-> 1], 0)
    OBVIOUS
  <2> HIDE DEF Is
  <2> QED BY <2>1
<1>2. ASSUME NEW n \in 1..MaxCount, n - 1 \in G PROVE n \in G
  <2>0. n \in Nat /\ n - 1 \in Nat
    BY <1>0
  <2>1. PICK f : Is(f, n - 1)
    BY <1>2
  <2> DEFINE g == [m \in 0..n |-> IF m = n THEN Doubled(f, n) ELSE f[m]]
  <2>2. ASSUME NEW m \in 0..n PROVE g[m] = Doubled(g, m)
    <3>1. CASE m = n
      BY <3>1, <2>0
    <3>2. CASE m # n
      <4>1. m \in 0..(n - 1) /\ g[m] = f[m]
        BY <3>2, <2>0
      <4>2. f[m] = Doubled(f, m)
        BY <2>1, <4>1
      <4>3. m # 0 => m - 1 \in 0..n /\ m - 1 # n
        BY <4>1, <2>0
      <4>4. Doubled(g, m) = Doubled(f, m)
        BY <4>3
      <4> QED BY <4>1, <4>2, <4>4
    <3> QED BY <3>1, <3>2
  <2>3. Is(g, n)
    BY <2>2
  <2> HIDE DEF Is, g
  <2> QED BY <2>0, <2>3
<1>3. MaxCount \in G
  <2> HIDE DEF G
  <2>1. 0..MaxCount \subseteq G
    BY <1>0, <1>1, <1>2, UpTo
  <2> QED BY <1>0, <2>1
<1>4. Is(power, MaxCount)
  <2>1. power = CHOOSE f : Is(f, MaxCount)
    BY DEF power
  <2>2. \E f : Is(f, MaxCount)
    BY <1>3
  <2> HIDE DEF Is
  <2> QED BY <2>1, <2>2
<1>5. power = [m \in 0..MaxCount |-> Doubled(power, m)]
  BY <1>4
<1>6. \A n \in 0..MaxCount : power[n] = Doubled(power, n)
  <2> HIDE DEF Doubled
  <2> QED BY <1>5
<1> QED BY <1>0, <1>6

(* A power of two is a number above its exponent. *)
LEMMA PowerBeyond ==
  \A n \in 0..MaxCount : power[n] \in Nat /\ n < power[n]
<1> DEFINE G == {n \in 0..MaxCount : power[n] \in Nat /\ n < power[n]}
<1>0. MaxCount \in Nat
  BY ProbeAssumption
<1>1. 0 \in G
  BY <1>0, PowerFacts
<1>2. ASSUME NEW n \in 1..MaxCount, n - 1 \in G PROVE n \in G
  BY <1>0, <1>2, PowerFacts
<1>3. 0..MaxCount \subseteq G
  <2> HIDE DEF G
  <2> QED BY <1>0, <1>1, <1>2, UpTo
<1> QED BY <1>3

(* Powers of two grow with their exponents. *)
LEMMA PowerGrows ==
  ASSUME NEW m \in 0..MaxCount
  PROVE  \A n \in m..MaxCount : power[m] <= power[n]
<1> DEFINE G == {d \in 0..(MaxCount - m) : power[m] <= power[m + d]}
<1>0. MaxCount \in Nat /\ m \in Nat /\ MaxCount - m \in Nat
  BY ProbeAssumption
<1>1. 0 \in G
  BY <1>0, PowerBeyond
<1>2. ASSUME NEW d \in 1..(MaxCount - m), d - 1 \in G PROVE d \in G
  <2>1. /\ m + d \in 1..MaxCount /\ m + (d - 1) \in 0..MaxCount
        /\ (m + d) - 1 = m + (d - 1)
    BY <1>0
  <2>2. power[m + d] = 2 * power[m + (d - 1)]
    BY <2>1, PowerFacts
  <2>3. power[m] \in Nat /\ power[m + (d - 1)] \in Nat
    BY <2>1, PowerBeyond
  <2>4. power[m] <= power[m + (d - 1)]
    BY <1>2
  <2>5. power[m] <= power[m + d]
    BY <2>2, <2>3, <2>4
  <2> QED BY <2>5, <1>0
<1>3. 0..(MaxCount - m) \subseteq G
  <2> HIDE DEF G
  <2> QED BY <1>0, <1>1, <1>2, UpTo
<1>4. ASSUME NEW n \in m..MaxCount PROVE power[m] <= power[n]
  <2>1. n - m \in 0..(MaxCount - m) /\ m + (n - m) = n
    BY <1>0
  <2>2. power[m] <= power[m + (n - m)]
    BY <1>3, <2>1
  <2> QED BY <2>1, <2>2
<1> QED BY <1>4

(* What the search has spent, and what it may still need.  After p answers *)
(* the doubling stands at two to the p.  It ends after d + 2 answers, with *)
(* two to the d below the limit and fewer candidates than that; each       *)
(* answer of the bisection halves them, so that j more are enough when     *)
(* they are fewer than two to the j.                                       *)
DoublingCost ==
  place = "double" =>
    /\ probes \in 1..MaxCount
    /\ low = power[probes - 1] - 1
    /\ high < power[probes]
    /\ high < upperLimit => high = power[probes] - 1

BisectionCost ==
  place = "bisect" =>
    \E d, j \in 0..MaxCount :
      /\ probes + j = 2 * d + 2
      /\ power[d] < MaxCount
      /\ right - left + 1 < power[j]

Spent ==
  \/ probes <= 1
  \/ \E d \in 0..MaxCount : power[d] < MaxCount /\ probes <= 2 * d + 2

CostInv ==
  /\ place \in {"window", "z", "zero"} => probes = 0
  /\ DoublingCost
  /\ BisectionCost
  /\ Spent

(* The history does not wrap before the search is over. *)
LEMMA CountsOn ==
  ASSUME NEW d \in 0..MaxCount, power[d] < MaxCount,
         probes \in Nat, probes < 2 * d + 2, Counted
  PROVE  probes' = probes + 1 /\ probes' <= 2 * d + 2
<1>1. MaxCount \in Nat /\ d \in Nat
  BY ProbeAssumption
<1>2. d + 1 < MaxCount
  BY <1>1, PowerBeyond
<1>3. probes + 1 \in 0..(ProbesCap - 1) /\ ProbesCap \in Nat \ {0}
  BY <1>1, <1>2 DEF ProbesCap
<1>4. (probes + 1) % ProbesCap = probes + 1
  <2> HIDE DEF ProbesCap
  <2> QED BY <1>3
<1> QED BY <1>1, <1>4 DEF Counted

(* Where the doubling stands: after p answers, low is a number below the   *)
(* limit that is two to the p - 1, less one.                               *)
LEMMA DoublingStands ==
  ASSUME IInv, DoublingCost, place = "double"
  PROVE  /\ probes \in 1..(MaxCount - 1)
         /\ power[probes - 1] \in Nat /\ power[probes - 1] < MaxCount
         /\ power[probes] = 2 * power[probes - 1]
         /\ low = power[probes - 1] - 1
<1>1. /\ MaxCount \in Nat /\ upperLimit = MaxCount - 1
      /\ probes \in 1..MaxCount /\ low = power[probes - 1] - 1
      /\ low < high /\ high <= upperLimit /\ high \in Nat /\ low \in Nat
  BY ProbeAssumption
     DEF DoublingCost, DoublingInv, IInv, TypeOK, Addresses, upperLimit
<1>2. /\ probes - 1 \in 0..MaxCount
      /\ power[probes - 1] \in Nat /\ probes - 1 < power[probes - 1]
  BY <1>1, PowerBeyond
<1>3. power[probes] = 2 * power[probes - 1]
  BY <1>1, PowerFacts
<1> QED BY <1>1, <1>2, <1>3

(* The doubling ends: fewer candidates are left than two to the d, which d *)
(* answers can halve away.                                                 *)
LEMMA BisectionCheap ==
  ASSUME IInv, CostInv, place = "double", Counted, StartBisection
  PROVE  BisectionCost' /\ Spent'
<1>1. /\ MaxCount \in Nat /\ probes \in 1..(MaxCount - 1)
      /\ power[probes - 1] \in Nat /\ power[probes - 1] < MaxCount
      /\ power[probes] = 2 * power[probes - 1]
      /\ low = power[probes - 1] - 1
      /\ high < power[probes] /\ high \in Nat
  BY DoublingStands, ProbeAssumption
     DEF CostInv, DoublingCost, IInv, TypeOK, Addresses
<1> DEFINE d == probes - 1
<1>2. d \in 0..MaxCount /\ power[d] < MaxCount /\ probes < 2 * d + 2
  BY <1>1
<1>3. probes' = probes + 1
  BY <1>1, <1>2, CountsOn
<1>4. probes' + d = 2 * d + 2 /\ probes' <= 2 * d + 2
  BY <1>1, <1>3
<1>5. right' - left' + 1 < power[d]
  BY <1>1 DEF StartBisection
<1> HIDE DEF d
<1> QED BY <1>2, <1>4, <1>5 DEF BisectionCost, Spent

(* A bisection that has candidates has an answer to spare, and the answer  *)
(* leaves it less than half of them.                                       *)
LEMMA BisectionHalves ==
  ASSUME IInv, CostInv, Bisects
  PROVE  BisectionCost' /\ Spent'
<1>1. /\ MaxCount \in Nat /\ probes \in Nat
      /\ left \in Int /\ right \in Int /\ left <= right
  BY ProbeAssumption DEF IInv, TypeOK, Bisects, upperLimit
<1>2. PICK d \in 0..MaxCount, j \in 0..MaxCount :
        /\ probes + j = 2 * d + 2
        /\ power[d] < MaxCount
        /\ right - left + 1 < power[j]
  BY DEF CostInv, BisectionCost, Bisects
<1>3. j # 0
  BY <1>1, <1>2, PowerFacts
<1>4. /\ j - 1 \in 0..MaxCount /\ power[j] = 2 * power[j - 1]
      /\ power[j - 1] \in Nat
  BY <1>1, <1>3, PowerFacts, PowerBeyond
<1>5. probes' = probes + 1 /\ probes' <= 2 * d + 2
  <2>1. Counted
    BY DEF Bisects, ProbeYes, ProbeNo
  <2> QED BY <1>1, <1>2, <1>3, <2>1, CountsOn
<1>6. probes' + (j - 1) = 2 * d + 2
  BY <1>1, <1>2, <1>5
<1>7. right' - left' + 1 < power[j - 1]
  <2>1. \/ left' = middle + 1 /\ right' = right
        \/ left' = left /\ right' = middle - 1
    BY DEF Bisects
  <2> QED BY <1>1, <1>2, <1>4, <2>1 DEF middle
<1> QED BY <1>2, <1>4, <1>5, <1>6, <1>7 DEF BisectionCost, Spent

(* Every step keeps the account. *)
LEMMA CostStep == IInv /\ CostInv /\ [SearchNext]_searchVars => CostInv'
<1> SUFFICES ASSUME IInv, CostInv, [SearchNext]_searchVars PROVE CostInv'
  OBVIOUS
<1>0. /\ MaxCount \in Nat /\ MaxCount >= 2 /\ upperLimit = MaxCount - 1
      /\ probes \in Nat /\ power[0] = 1 /\ power[1] = 2
  BY ProbeAssumption, PowerFacts DEF upperLimit, IInv, TypeOK
<1>1. ASSUME UNCHANGED probes,
             place' \in {"window", "z", "zero"}
               => place \in {"window", "z", "zero"},
             place' # "double", place' # "bisect"
      PROVE  CostInv'
  BY <1>1 DEF CostInv, DoublingCost, BisectionCost, Spent
<1>2. ASSUME UNCHANGED <<place, probes, bounds>> PROVE CostInv'
  BY <1>2 DEF CostInv, DoublingCost, BisectionCost, Spent, bounds
<1>3. CASE ReadWindow
  BY <1>1, <1>3 DEF ReadWindow
<1>4. CASE ProbeZ
  BY <1>1, <1>4 DEF ProbeZ
<1>5. CASE ProbeZero
  <2>1. probes = 0 /\ Counted
    BY <1>5 DEF CostInv, ProbeZero, ProbeYes, ProbeNo
  <2>2. probes' = 1
    BY <1>0, <2>1 DEF Counted, ProbesCap
  <2>3. \/ low' = 0 /\ high' = 1 /\ place' = "double"
        \/ place' = "check"
    BY <1>5 DEF ProbeZero, Found
  <2> QED
    BY <1>0, <2>2, <2>3
       DEF CostInv, DoublingCost, BisectionCost, Spent, upperLimit
<1>6. ASSUME place = "double", Counted, StartBisection PROVE CostInv'
  <2>1. place' = "bisect"
    BY <1>6 DEF StartBisection
  <2> QED BY <1>6, <2>1, BisectionCheap DEF CostInv, DoublingCost
<1>7. ASSUME place = "double", Counted
      PROVE  /\ probes' = probes + 1 /\ Spent'
             /\ probes \in 1..(MaxCount - 1)
             /\ power[probes - 1] \in Nat
             /\ power[probes] = 2 * power[probes - 1]
             /\ power[probes + 1] = 2 * power[probes]
  <2> DEFINE d == probes - 1
  <2>1. /\ probes \in 1..(MaxCount - 1) /\ power[d] \in Nat
        /\ power[d] < MaxCount /\ power[probes] = 2 * power[d]
    BY <1>7, DoublingStands DEF CostInv
  <2>2. d \in 0..MaxCount /\ probes < 2 * d + 2
    BY <1>0, <2>1
  <2>3. probes' = probes + 1 /\ probes' <= 2 * d + 2
    BY <1>0, <1>7, <2>1, <2>2, CountsOn
  <2>4. power[probes + 1] = 2 * power[probes]
    BY <1>0, <2>1, PowerFacts
  <2>5. Spent'
    <3> HIDE DEF d
    <3> QED BY <2>1, <2>2, <2>3 DEF Spent
  <2> QED BY <2>1, <2>3, <2>4, <2>5
<1>8. CASE Doubles
  <2>1. Counted /\ place = "double" /\ high < upperLimit
    BY <1>8 DEF Doubles, ProbeYes, ProbeNo
  <2>2. CASE /\ low' = high /\ place' = place
             /\ high' = Smaller(upperLimit, high * 2 + 1)
    <3>1. /\ high = power[probes] - 1 /\ high \in Nat
      BY <2>1 DEF CostInv, DoublingCost, IInv, TypeOK, Addresses
    <3>2. DoublingCost'
      BY <1>0, <1>7, <2>1, <2>2, <3>1
         DEF DoublingCost, Smaller, upperLimit
    <3> QED
      BY <1>7, <2>1, <2>2, <3>2 DEF CostInv, BisectionCost
  <2> QED BY <1>6, <1>8, <2>1, <2>2 DEF Doubles
<1>9. CASE ProbeTop
  <2>1. Counted /\ place = "double"
    BY <1>9 DEF ProbeTop, ProbeYes, ProbeNo
  <2>2. CASE place' = "check"
    BY <1>7, <2>1, <2>2 DEF CostInv, DoublingCost, BisectionCost
  <2> QED BY <1>6, <1>9, <2>1, <2>2 DEF ProbeTop, Found
<1>10. CASE Bisects
  <2>1. place' = "bisect"
    BY <1>10 DEF Bisects
  <2> QED BY <1>10, <2>1, BisectionHalves DEF CostInv, DoublingCost
<1>11. CASE EndsBisection
  BY <1>1, <1>11 DEF EndsBisection, Found
<1>12. CASE Publishes
  BY <1>1, <1>12 DEF Publishes
<1>13. CASE ReadFails
  BY <1>1, <1>13 DEF ReadFails
<1>14. CASE Close
  BY <1>2, <1>14 DEF Close
<1>15. CASE UNCHANGED searchVars
  BY <1>2, <1>15 DEF searchVars
<1> QED
  BY <1>3, <1>4, <1>5, <1>8, <1>9, <1>10, <1>11, <1>12, <1>13, <1>14, <1>15
     DEF SearchNext, SearchStep

(* The search of src/slmp/device_ranges.py takes at most two requests for  *)
(* each bit of its range, whatever the PLC refuses.                        *)
THEOREM SearchIsShort == SearchSpec => []ProbesAreFew
<1>1. SearchInit => CostInv
  BY DEF SearchInit, CostInv, DoublingCost, BisectionCost, Spent
<1>2. IInv /\ CostInv => ProbesAreFew
  <2> SUFFICES ASSUME IInv, CostInv, probes > 2
               PROVE  power[(probes - 1) \div 2] <= MaxCount
    BY DEF ProbesAreFew
  <2>1. MaxCount \in Nat /\ probes \in Nat
    BY ProbeAssumption DEF IInv, TypeOK
  <2>2. PICK d \in 0..MaxCount :
          power[d] < MaxCount /\ probes <= 2 * d + 2
    BY <2>1 DEF CostInv, Spent
  <2> DEFINE m == (probes - 1) \div 2
  <2>3. m \in 0..MaxCount /\ d \in m..MaxCount
    BY <2>1, <2>2
  <2>4. power[m] \in Nat /\ power[d] \in Nat /\ power[m] <= power[d]
    BY <2>3, PowerGrows, PowerBeyond
  <2> QED BY <2>1, <2>2, <2>4
<1> QED
  BY <1>1, <1>2, CostStep, SearchInvariant, PTL DEF SearchSpec

------------------------------------------------------------------------------
USE DEF AllCommands, RandomCommands, BlockCommands, DirectCommands

(* The counts of a request keep their types: Commands, Steps and MaxPoints *)
(* may be anything RequestLimitsAssumption allows.                         *)
THEOREM SizeTypes == SizeSpec => []SizeTypeOK
<1>1. SizeInit => SizeTypeOK
  <2> SUFFICES ASSUME SizeInit
               PROVE  SizeTypeOK
    OBVIOUS
  <2>1. ext \in BOOLEAN
    BY ZenonT(30) DEF SizeInit
  <2>2. /\ plc \in Names /\ command \in AllCommands
        /\ words = 0 /\ dwords = 0 /\ blocks = 0
    BY RequestLimitsAssumption DEF SizeInit
  <2> QED
    BY <2>1, <2>2 DEF SizeTypeOK
<1>2. SizeTypeOK /\ [SizeNext]_sizeVars => SizeTypeOK'
  <2> SUFFICES ASSUME SizeTypeOK, [SizeNext]_sizeVars
               PROVE  SizeTypeOK'
    OBVIOUS
  <2>1. CASE AddWords
    BY <2>1, RequestLimitsAssumption DEF SizeTypeOK, AddWords
  <2>2. CASE AddDword
    BY <2>2 DEF SizeTypeOK, AddDword
  <2>3. CASE UNCHANGED sizeVars
    BY <2>3 DEF SizeTypeOK, sizeVars
  <2> QED
    BY <2>1, <2>2, <2>3 DEF SizeNext
<1> QED
  BY <1>1, <1>2, PTL DEF SizeSpec

(* The limits of a profile lie within those of the Q/L units.              *)
Among(limit, widest) == limit \in Nat /\ 1 <= limit /\ limit <= widest
Both(limit, limitExt, widest) ==
  Among(limit, widest) /\ Among(limitExt, widest)
MostWords == 960
MostBits == 7168
DirectWithin(direct) ==
  /\ direct.wordRead = MostWords /\ direct.wordWrite = MostWords
  /\ Both(direct.bitRead, direct.bitWrite, MostBits)
Within(l) ==
  /\ Both(l.read, l.readExt, 192)
  /\ Both(l.write, l.writeExt, 160)
  /\ Both(l.bits, l.bitsExt, 188)
  /\ Both(l.monitor, l.monitorExt, 192)
  /\ DirectWithin(l.direct)

(* No profile has wider limits, or another series or frame.                *)
LEMMA WidestLimits ==
  ASSUME NEW q \in Names
  PROVE  /\ Within(Profile[q].limits)
         /\ Series(q) \in {"iqr", "ql"}
         /\ PayloadLimit("udp", q) \in {65488, 65492}
<1>1. Within(IqrLimits)
  BY SMTT(30)
  DEF Within, Both, Among, DirectWithin, MostWords, MostBits, IqrLimits,
      DirectLimits
<1>2. Within(IqfLimits)
  BY SMTT(30)
  DEF Within, Both, Among, DirectWithin, MostWords, MostBits, IqrLimits,
      IqfLimits, DirectLimits
<1>3. ASSUME NEW readExt \in 1..192
      PROVE  Within(QlLimits(readExt))
  BY SMTT(30)
  DEF Within, Both, Among, DirectWithin, MostWords, MostBits, IqrLimits,
      IqfLimits, QlLimits, DirectLimits
<1>4. ASSUME NEW readExt \in 1..192
      PROVE  Within(QlUnitLimits(readExt))
  BY <1>3 DEF QlUnitLimits
<1>6. CASE q = "iqr"
  BY <1>1, <1>6 DEF Profile, Series, PayloadLimit
<1>7. CASE q = "iql"
  BY <1>1, <1>7 DEF Profile, Series, PayloadLimit
<1>8. CASE q = "iqf"
  BY <1>2, <1>8 DEF Profile, Series, PayloadLimit
<1>9. CASE q = "builtin"
  BY <1>3, <1>9 DEF Profile, Series, PayloadLimit
<1>10. CASE q = "qcpuUnit"
  BY <1>4, <1>10, 185 \in 1..192 DEF Profile, Series, PayloadLimit
<1>11. CASE q = "unit"
  BY <1>4, <1>11, 192 \in 1..192 DEF Profile, Series, PayloadLimit
<1> QED
  BY <1>6, <1>7, <1>8, <1>9, <1>10, <1>11 DEF Names

(* A limit that a profile has is not replaced by the fallback.             *)
LEMMA LimitGiven ==
  ASSUME NEW limit \in 1..192, NEW fallback
  PROVE  Limit(limit, fallback) = limit
BY DEF Limit, NoLimit

(* What the profile of an accepted request allows for the command.         *)
LEMMA AcceptedCounts ==
  ASSUME SizeTypeOK, Accepted
  PROVE  /\ command \in {"readRandom", "monitor"} => words + dwords <= 192
         /\ command = "writeRandom" => words + dwords <= 160
         /\ command = "randomBits" => words <= 188
         /\ command \in BlockCommands => blocks <= 120 /\ words <= 960
         /\ command \in {"readWords", "writeWords"} => words <= 960
         /\ command \in {"readBits", "writeBits"} => words <= 7168
<1> DEFINE l == Profile[plc].limits
<1>1. plc \in Names /\ words \in Nat /\ dwords \in Nat /\ blocks \in Nat
  BY DEF SizeTypeOK
<1>2. Within(l) /\ Series(plc) \in {"iqr", "ql"}
  BY <1>1, WidestLimits
<1>3. ASSUME command = "readRandom"
      PROVE  words + dwords <= 192
  <2> DEFINE limit == IF ext THEN l.readExt ELSE l.read
             fallback == IF Narrow(plc, ext) THEN 96 ELSE 192
  <2>1. words + dwords \in 1..Limit(limit, fallback)
    BY <1>3 DEF Accepted, ReadCountsOk
  <2>2. limit \in 1..192
    <3>1. Both(l.read, l.readExt, 192)
      BY <1>2, Zenon DEF Within
    <3> HIDE DEF l
    <3> QED
      BY <3>1 DEF Both, Among
  <2> HIDE DEF limit, fallback
  <2>3. Limit(limit, fallback) = limit
    BY <2>2, LimitGiven
  <2> QED
    BY <1>1, <2>1, <2>2, <2>3, 192 \in Nat
<1>4. ASSUME command = "monitor"
      PROVE  words + dwords <= 192
  <2> DEFINE limit == IF ext THEN l.monitorExt ELSE l.monitor
             fallback == IF Narrow(plc, ext) THEN 96 ELSE 192
  <2>1. words + dwords \in 1..Limit(limit, fallback)
    BY <1>4 DEF Accepted, MonitorCountsOk
  <2>2. limit \in 1..192
    <3>1. Both(l.monitor, l.monitorExt, 192)
      BY <1>2, Zenon DEF Within
    <3> HIDE DEF l
    <3> QED
      BY <3>1 DEF Both, Among
  <2> HIDE DEF limit, fallback
  <2>3. Limit(limit, fallback) = limit
    BY <2>2, LimitGiven
  <2> QED
    BY <1>1, <2>1, <2>2, <2>3, 192 \in Nat
<1>5. ASSUME command = "randomBits"
      PROVE  words <= 188
  <2> DEFINE limit == IF ext THEN l.bitsExt ELSE l.bits
             fallback == IF Narrow(plc, ext) THEN 94 ELSE 188
  <2>1. words \in 1..Limit(limit, fallback)
    BY <1>5 DEF Accepted, BitCountOk
  <2>2. limit \in 1..192 /\ limit <= 188
    <3>1. Both(l.bits, l.bitsExt, 188)
      BY <1>2, Zenon DEF Within
    <3> HIDE DEF l
    <3> QED
      BY <3>1 DEF Both, Among
  <2> HIDE DEF limit, fallback
  <2>3. Limit(limit, fallback) = limit
    BY <2>2, LimitGiven
  <2> QED
    BY <1>1, <2>1, <2>2, <2>3
<1>6. ASSUME command = "writeRandom"
      PROVE  words + dwords <= 160
  <2> DEFINE limit == IF ext THEN l.writeExt ELSE l.write
  <2>1. words + dwords \in 1..limit
    BY <1>6 DEF Accepted, WriteCountsOk
  <2>2. limit \in 1..160
    <3>1. Both(l.write, l.writeExt, 160)
      BY <1>2, Zenon DEF Within
    <3> HIDE DEF l
    <3> QED
      BY <3>1 DEF Both, Among
  <2> HIDE DEF limit
  <2> QED
    BY <1>1, <2>1, <2>2
<1>7. ASSUME command \in BlockCommands
      PROVE  blocks <= 120 /\ words <= 960
  <2> DEFINE write == command = "writeBlock"
             header == IF write THEN blocks * BlockOverhead(plc) ELSE 0
             limit == IF write THEN l.direct.wordWrite ELSE l.direct.wordRead
  <2>1. blocks \in 1..BlockLimit(plc) /\ words + header <= limit
    BY <1>7 DEF Accepted, BlocksOk
  <2>2. BlockLimit(plc) \in {60, 120}
    BY DEF BlockLimit
  <2>3. header \in Nat
    BY <1>1 DEF BlockOverhead
  <2>4. limit = MostWords
    <3>1. l.direct.wordWrite = MostWords /\ l.direct.wordRead = MostWords
      BY <1>2, Zenon DEF Within, DirectWithin
    <3> QED
      BY <3>1, Zenon
  <2> HIDE DEF header, limit
  <2> QED
    BY <1>1, <2>1, <2>2, <2>3, <2>4 DEF MostWords
<1>8. ASSUME command \in DirectCommands
      PROVE  /\ command \in {"readWords", "writeWords"} => words <= 960
             /\ command \in {"readBits", "writeBits"} => words <= 7168
  <2> DEFINE bit == command \in {"readBits", "writeBits"}
             write == command \in {"writeWords", "writeBits"}
             limit == IF bit THEN IF write THEN l.direct.bitWrite
                                           ELSE l.direct.bitRead
                             ELSE IF write THEN l.direct.wordWrite
                                           ELSE l.direct.wordRead
  <2>1. words \in 1..limit
    BY <1>8, Zenon DEF Accepted, DirectPointsOk
  <2>2. bit => limit \in 1..MostBits
    <3>1. Both(l.direct.bitRead, l.direct.bitWrite, MostBits)
      BY <1>2, Zenon DEF Within, DirectWithin
    <3>2. Among(limit, MostBits) \/ ~bit
      BY <3>1, Zenon DEF Both
    <3>3. MostBits \in Nat
      BY DEF MostBits
    <3> HIDE DEF limit
    <3> QED
      BY <3>2, <3>3 DEF Among
  <2>3. ~bit => limit = MostWords
    <3>1. l.direct.wordWrite = MostWords /\ l.direct.wordRead = MostWords
      BY <1>2, Zenon DEF Within, DirectWithin
    <3> QED
      BY <3>1, Zenon
  <2>4. /\ command \in {"readWords", "writeWords"} => ~bit
        /\ command \in {"readBits", "writeBits"} => bit
    OBVIOUS
  <2> HIDE DEF limit, write, bit
  <2>5. ASSUME bit PROVE words <= 7168
    <3>1. limit \in 1..MostBits
      BY <2>2, <2>5, Zenon
    <3> QED
      BY <1>1, <2>1, <3>1 DEF MostBits
  <2>6. ASSUME ~bit PROVE words <= 960
    BY <2>6, <1>1, <2>1, <2>3 DEF MostWords
  <2> QED
    BY <2>4, <2>5, <2>6
<1> QED
  BY <1>3, <1>4, <1>5, <1>6, <1>7, <1>8

(* A request the builders accept fits its count fields, its frame and its  *)
(* datagram, for each of the four sizes of an entry.                       *)
LEMMA AcceptedRequestFits ==
  ASSUME SizeTypeOK, Accepted
  PROVE  /\ CountsFit
         /\ PayloadBytes <= PayloadLimit("udp", plc)
         /\ ResponseBytes + 2 + 13 <= 65507
<1>1. /\ words \in Nat /\ dwords \in Nat /\ blocks \in Nat
      /\ command \in AllCommands
      /\ command \notin RandomCommands => dwords = 0
  BY DEF SizeTypeOK
<1>2. Entry \in {4, 6, 11, 13}
  <2>1. CASE ext
    BY <2>1 DEF Entry
  <2>2. CASE ~ext
    BY <2>2 DEF Entry
  <2> QED
    BY <2>1, <2>2
<1>3. PayloadLimit("udp", plc) \in {65488, 65492}
  BY WidestLimits DEF SizeTypeOK
<1>4. CountsFit
  BY <1>1, AcceptedCounts DEF CountsFit
<1>5. ResponseBytes + 2 + 13 <= 65507
  BY <1>1, AcceptedCounts DEF ResponseBytes
<1>6. PayloadBytes \in Nat /\ PayloadBytes <= 65488
  <2>1. CASE command \in {"readRandom", "monitor"}
    BY <1>1, <1>2, <2>1, AcceptedCounts DEF PayloadBytes
  <2>2. CASE command = "writeRandom"
    BY <1>1, <1>2, <2>2, AcceptedCounts DEF PayloadBytes
  <2>3. CASE command = "randomBits"
    BY <1>1, <1>2, <2>3, AcceptedCounts DEF PayloadBytes
  <2>4. CASE command = "readBlock"
    BY <1>1, <1>2, <2>4, AcceptedCounts DEF PayloadBytes
  <2>5. CASE command = "writeBlock"
    BY <1>1, <1>2, <2>5, AcceptedCounts DEF PayloadBytes
  <2>6. CASE command \in DirectCommands
    BY <1>1, <1>2, <2>6, AcceptedCounts DEF PayloadBytes
  <2> QED
    BY <1>1, <2>1, <2>2, <2>3, <2>4, <2>5, <2>6
<1> QED
  BY <1>3, <1>4, <1>5, <1>6

(* No request that was accepted is too large to be sent, nor its answer.   *)
THEOREM Fits == SizeSpec => []AcceptedFits
<1>1. SizeTypeOK => AcceptedFits
  BY AcceptedRequestFits DEF AcceptedFits
<1> QED
  BY <1>1, SizeTypes, PTL
------------------------------------------------------------------------------
(* RangeCatalog. *)

(* The file registers are counted at ZR, also for R. *)
Source(family, i) == IF i = "R" /\ family # "iqf" THEN "ZR" ELSE i
IqFamilies == {"iqr", "mxf", "mxr", "iqf"}
QFamilies == {"qcpuUnit", "lcpu", "lcpuUnit"}

(* The families and the items, one by one. *)
LEMMA Kinds ==
  /\ DOMAIN Family = IqFamilies \union QFamilies
  /\ Items = {"X", "Y", "M", "B", "SB", "F", "V", "L", "S", "D", "W", "SW",
              "R", "T", "ST", "C", "LT", "LST", "LC", "Z", "LZ", "ZR", "RD",
              "SM", "SD"}
<1>1. DOMAIN Family = {"iqr", "mxf", "mxr", "iqf", "qcpuUnit", "lcpu",
                       "lcpuUnit"}
  BY SMTT(30) DEF Family
<1>2. DOMAIN IqrRules =
        {"X", "Y", "M", "B", "SB", "F", "V", "L", "S", "D", "W", "SW", "R",
         "T", "ST", "C", "LT", "LST", "LC", "Z", "LZ", "ZR", "RD", "SM",
         "SD"}
  BY SMTT(30) DEF IqrRules
<1> QED
  BY <1>1, <1>2, SMTT(30) DEF Items, IqFamilies, QFamilies

(* The kind of a rule and its clip, in the two layouts.  Only R counts the *)
(* registers of another item, and clips them.                              *)
IqShape(rule, i, source) ==
  /\ rule.kind \in {"word", "dword", "fixed", "unsupported"}
  /\ rule.clip \in Nat
  /\ i = "Z" => rule.kind = "word"
  /\ i = "R" => rule.kind = "dword"
  /\ rule.kind = "fixed" => rule.clip <= 32768
  /\ rule.kind = "dword" =>
       /\ source \in Items \ OneWord
       /\ rule.clip \in {32768, NoClip}
       /\ i = "ZR" => rule.clip = NoClip
       /\ source # i => rule.clip = 32768
  /\ rule.kind = "word" => i \in OneWord /\ rule.clip = NoClip

QShape(rule, family, i, source) ==
  /\ rule.kind \in {"word", "dword", "fixed", "unsupported", "undefined"}
  /\ rule.clip \in Nat
  /\ rule.kind = "unsupported" <=> i \in {"LT", "LST", "LC", "LZ", "RD"}
  /\ rule.kind = "undefined" => i = "ZR"
  /\ rule.kind = "fixed" => rule.clip <= 32768
  /\ i = "Z" /\ family # "qcpuUnit" => rule = Fixed(20)
  /\ rule.kind = "dword" =>
       /\ family # "qcpuUnit"
       /\ source \in Items \ OneWord
  /\ rule.kind = "word" => i \in OneWordItems(family)
  /\ rule.kind \in {"word", "dword"} => rule.clip \in {32768, NoClip}

(* A rule names registers of the window that hold the size of its item.    *)
IqRule(rule, last, i, source) ==
  /\ IqShape(rule, i, source)
  /\ rule.kind = "dword" =>
       /\ rule.register \in 260..last
       /\ rule.register < last
       /\ rule.register % 2 = 0
       /\ IqLayout[(rule.register - 260) \div 2 + 1] = source
  /\ rule.kind = "word" =>
       /\ rule.register \in 260..last
       /\ (rule.register - 260) % 2 = 0
       /\ IqLayout[(rule.register - 260) \div 2 + 1] = i

QRule(rule, family, i, source) ==
  /\ QShape(rule, family, i, source)
  /\ rule.kind = "dword" =>
       /\ rule.register \in DOMAIN QDwords
       /\ rule.register \notin 290..304
       /\ rule.register + 1 \notin 290..304
       /\ rule.register % 2 = 0
       /\ rule.register >= Family[family].start
       /\ rule.register + 1 < Family[family].start + Family[family].count
       /\ QDwords[rule.register] = source
  /\ rule.kind = "word" =>
       /\ rule.register \in 290..304
       /\ rule.register >= Family[family].start
       /\ rule.register < Family[family].start + Family[family].count
       /\ QWords[rule.register - 289] = i

(* The last register of the window a rule of these families needs.         *)
Needed(i) == IF i \in {"R", "ZR", "RD"} THEN 309 ELSE 305

(* A rule for the two registers at place k of the layout. *)
LEMMA PairAt ==
  ASSUME NEW k \in 1..25, NEW last \in Int, 258 + 2 * k < last,
         NEW i \in Items, i \notin OneWord, i # "R", IqLayout[k] = i
  PROVE  IqRule(Dword(258 + 2 * k), last, i, i)
<1> DEFINE r == 258 + 2 * k
<1>1. /\ r \in 260..last /\ r < last /\ r % 2 = 0
      /\ (r - 260) \div 2 + 1 = k
  OBVIOUS
<1>2. /\ Dword(r).kind = "dword" /\ Dword(r).register = r
      /\ Dword(r).clip = NoClip
  BY DEF Dword
<1>3. NoClip \in Nat /\ i # "Z"
  BY SMTT(30) DEF NoClip, OneWord
<1> HIDE DEF r
<1>4. IqShape(Dword(r), i, i)
  BY <1>2, <1>3, SMTT(30) DEF IqShape
<1> QED
  BY <1>1, <1>2, <1>4, SMTT(30) DEF IqRule, r

(* Where the layout has the items that R does not count.                   *)
Place ==
  [X |-> 1, Y |-> 2, M |-> 3, B |-> 4, SB |-> 5, F |-> 6, V |-> 7, L |-> 8,
   S |-> 9, D |-> 11, W |-> 12, SW |-> 13, T |-> 15, ST |-> 16, C |-> 17,
   LT |-> 18, LST |-> 19, LC |-> 20, ZR |-> 24, RD |-> 25]

(* The table of the iQ-R, item by item. *)
LEMMA IqrRulesOk ==
  \A i \in Items : /\ IqRule(IqrRules[i], Needed(i), i, Source("iqr", i))
                   /\ IqrRules[i].kind # "unsupported"
<1> SUFFICES ASSUME NEW i \in Items
             PROVE  /\ IqRule(IqrRules[i], Needed(i), i, Source("iqr", i))
                    /\ IqrRules[i].kind # "unsupported"
  OBVIOUS
<1>1. CASE i \notin {"R", "Z", "LZ", "SM", "SD"}
  <2>1. i \in DOMAIN Place
    BY <1>1, Kinds, SMTT(30) DEF Place
  <2>2. /\ Place[i] \in 1..25
        /\ i \notin {"ZR", "RD"} => Place[i] \in 1..20
    BY <2>1, SMTT(30) DEF Place
  <2>3. IqLayout[Place[i]] = i
    BY <2>1, SMTT(30) DEF Place, IqLayout
  <2>4. IqrRules[i] = Dword(258 + 2 * Place[i])
    BY <2>1, SMTT(30) DEF Place, IqrRules
  <2>5. i \notin OneWord /\ Source("iqr", i) = i
    BY <1>1, SMTT(30) DEF OneWord, Source
  <2>6. Needed(i) \in Int /\ 258 + 2 * Place[i] < Needed(i)
    BY <1>1, <2>2, SMTT(30) DEF Needed
  <2>7. IqRule(IqrRules[i], Needed(i), i, i)
    BY <1>1, <2>2, <2>3, <2>4, <2>5, <2>6, PairAt
  <2>8. IqrRules[i].kind = "dword"
    BY <2>4 DEF Dword
  <2> QED
    BY <2>5, <2>7, <2>8
<1>2. CASE i = "R"
  <2>1. IqrRules[i] = Clipped(Dword(306)) /\ IqLayout[24] = "ZR"
    BY <1>2, SMTT(30) DEF IqrRules, IqLayout
  <2>2. Source("iqr", i) = "ZR" /\ "ZR" \in Items \ OneWord
    BY <1>2, Kinds, SMTT(30) DEF Source, OneWord
  <2> QED
    BY <1>2, <2>1, <2>2, SMTT(30)
    DEF IqRule, IqShape, Needed, Dword, Clipped
<1>3. CASE i \in {"Z", "LZ"}
  <2>1. /\ IqrRules["Z"] = Word(300) /\ IqLayout[21] = "Z"
        /\ IqrRules["LZ"] = Word(302) /\ IqLayout[22] = "LZ"
    BY SMTT(30) DEF IqrRules, IqLayout
  <2> QED
    BY <1>3, <2>1, SMTT(30)
    DEF IqRule, IqShape, Needed, Word, OneWord, NoClip
<1>4. CASE i \in {"SM", "SD"}
  <2>1. IqrRules[i] = Fixed(4096)
    BY <1>4, SMTT(30) DEF IqrRules
  <2> QED
    BY <1>4, <2>1, SMTT(30) DEF IqRule, IqShape, Fixed
<1> QED
  BY <1>1, <1>2, <1>3, <1>4

(* The MX tables differ in two fixed sizes. *)
LEMMA MxRulesOk ==
  \A i \in Items : /\ IqRule(MxfRules[i], Needed(i), i, Source("mxf", i))
                   /\ IqRule(MxrRules[i], Needed(i), i, Source("mxr", i))
                   /\ MxfRules[i].kind # "unsupported"
                   /\ MxrRules[i].kind # "unsupported"
<1> SUFFICES ASSUME NEW i \in Items
             PROVE  /\ IqRule(MxfRules[i], Needed(i), i, Source("mxf", i))
                    /\ IqRule(MxrRules[i], Needed(i), i, Source("mxr", i))
                    /\ MxfRules[i].kind # "unsupported"
                    /\ MxrRules[i].kind # "unsupported"
  OBVIOUS
<1>1. CASE i \in {"SM", "SD"}
  <2>1. /\ MxfRules[i] = Fixed(10000)
        /\ MxrRules[i] = Fixed(4496)
    BY <1>1, Kinds, SMTT(30) DEF MxfRules, MxrRules, Items
  <2> QED
    BY <1>1, <2>1, SMTT(30) DEF IqRule, IqShape, Fixed
<1>2. CASE i \notin {"SM", "SD"}
  <2>1. MxfRules[i] = IqrRules[i] /\ MxrRules[i] = IqrRules[i]
    BY <1>2, Kinds, SMTT(30) DEF MxfRules, MxrRules, Items
  <2>2. /\ Source("mxf", i) = Source("iqr", i)
        /\ Source("mxr", i) = Source("iqr", i)
    BY SMTT(30) DEF Source
  <2> QED
    BY <2>1, <2>2, IqrRulesOk
<1> QED
  BY <1>1, <1>2

(* The items a family of this kind does not have. *)
Lacking(family) ==
  IF family = "iqf" THEN {"V", "LT", "LST", "ZR", "RD"} ELSE {}

(* The table of the iQ-F: R is kept apart, and the window is shorter. *)
LEMMA IqfRulesOk ==
  \A i \in Items :
    /\ IqRule(IqfRules[i], 305, i, Source("iqf", i))
    /\ IqfRules[i].kind = "unsupported" <=> i \in Lacking("iqf")
<1> USE DEF Lacking
<1> SUFFICES ASSUME NEW i \in Items
             PROVE  /\ IqRule(IqfRules[i], 305, i, Source("iqf", i))
                    /\ IqfRules[i].kind = "unsupported" <=>
                         i \in Lacking("iqf")
  OBVIOUS
<1>1. CASE i \in {"V", "LT", "LST", "ZR", "RD"}
  <2>1. IqfRules[i] = Unsupported
    BY <1>1, Kinds, SMTT(30) DEF IqfRules, Items
  <2> QED
    BY <1>1, <2>1, SMTT(30) DEF IqRule, IqShape, Unsupported
<1>2. CASE i \in {"SM", "SD"}
  <2>1. IqfRules[i] \in {Fixed(10000), Fixed(12000)}
    BY <1>2, Kinds, SMTT(30) DEF IqfRules, Items
  <2> QED
    BY <1>2, <2>1, SMTT(30) DEF IqRule, IqShape, Fixed
<1>3. CASE i = "R"
  <2>1. IqfRules[i] = Dword(304)
    BY <1>3, Kinds, SMTT(30) DEF IqfRules, Items
  <2> QED
    BY <1>3, <2>1, Kinds, SMTT(30)
    DEF IqRule, IqShape, Dword, Source, IqLayout, OneWord, NoClip
<1>4. CASE i \notin {"V", "LT", "LST", "ZR", "RD", "SM", "SD", "R"}
  <2>1. IqfRules[i] = IqrRules[i]
    BY <1>4, Kinds, SMTT(30) DEF IqfRules, Items
  <2>2. Source("iqf", i) = Source("iqr", i) /\ Needed(i) = 305
    BY <1>4, SMTT(30) DEF Source, Needed
  <2> QED
    BY <1>4, <2>1, <2>2, IqrRulesOk
<1> QED
  BY <1>1, <1>2, <1>3, <1>4

(* A QCPU keeps most sizes in one word. *)
LEMMA QcpuRulesOk ==
  \A i \in Items : QRule(QcpuRules[i], "qcpuUnit", i, Source("qcpuUnit", i))
<1> SUFFICES ASSUME NEW i \in Items
             PROVE  QRule(QcpuRules[i], "qcpuUnit", i, Source("qcpuUnit", i))
  OBVIOUS
<1>1. /\ Family["qcpuUnit"].start = 290
      /\ Family["qcpuUnit"].count = 15
  BY SMTT(30) DEF Family
<1>2. CASE i \in {"LT", "LST", "LC", "LZ", "RD"}
  <2>1. QcpuRules[i] = Unsupported
    BY <1>2, SMTT(30) DEF QcpuRules
  <2> QED
    BY <1>2, <2>1, SMTT(30) DEF QRule, QShape, Unsupported
<1>3. CASE i \in {"R", "Z", "SM", "SD"}
  <2>1. QcpuRules[i] \in {Fixed(32768), Fixed(10), Fixed(1024)}
    BY <1>3, SMTT(30) DEF QcpuRules
  <2> QED
    BY <1>3, <2>1, SMTT(30) DEF QRule, QShape, Fixed
<1>4. CASE i = "ZR"
  <2>1. QcpuRules[i] = Undefined
    BY <1>4, SMTT(30) DEF QcpuRules
  <2> QED
    BY <1>4, <2>1, SMTT(30) DEF QRule, QShape, Undefined
<1>5. CASE i \notin {"R", "LT", "LST", "LC", "Z", "LZ", "ZR", "RD", "SM",
                     "SD"}
  <2>1. PICK r \in 290..304 : /\ QcpuRules[i] \in {Word(r), Clipped(Word(r))}
                              /\ QWords[r - 289] = i
    BY <1>5, Kinds, SMTT(30) DEF QcpuRules, QWords
  <2>2. i \in OneWordItems("qcpuUnit")
    BY <1>5, SMTT(30) DEF OneWordItems, Probed
  <2>3. /\ QcpuRules[i].kind = "word" /\ QcpuRules[i].register = r
        /\ QcpuRules[i].clip \in {32768, NoClip}
    BY <2>1, SMTT(30) DEF Word, Clipped
  <2>4. NoClip \in Nat
    BY SMTT(30) DEF NoClip
  <2>5. QShape(QcpuRules[i], "qcpuUnit", i, Source("qcpuUnit", i))
    BY <1>5, <2>2, <2>3, <2>4 DEF QShape
  <2> QED
    BY <1>1, <2>1, <2>3, <2>5, SMTT(30) DEF QRule
<1> QED
  BY <1>2, <1>3, <1>4, <1>5

(* The L series and the QnU have pairs for the larger ones. *)
LEMMA LcpuRulesOk ==
  \A f \in {"lcpu", "lcpuUnit"} : \A i \in Items :
    QRule(LcpuRules[i], f, i, Source(f, i))
<1> SUFFICES ASSUME NEW f \in {"lcpu", "lcpuUnit"}, NEW i \in Items
             PROVE  QRule(LcpuRules[i], f, i, Source(f, i))
  OBVIOUS
<1>1. /\ Family[f].start = 286
      /\ Family[f].count = 26
  BY SMTT(30) DEF Family
<1>2. CASE i \in {"M", "B", "D", "W", "R", "ZR"}
  <2>1. LcpuRules[i] = Dword(CASE i = "M" -> 286 [] i = "B" -> 288
                               [] i \in {"R", "ZR"} -> 306
                               [] i = "D" -> 308 [] i = "W" -> 310)
    BY <1>2, Kinds, SMTT(30) DEF LcpuRules, QcpuRules
  <2> QED
    BY <1>1, <1>2, <2>1, Kinds, SMTT(30)
    DEF QRule, QShape, Source, OneWord, Dword, QDwords, NoClip
<1>3. CASE i \in {"Z", "SM", "SD"}
  <2>1. LcpuRules[i] = IF i = "Z" THEN Fixed(20) ELSE Fixed(2048)
    BY <1>3, Kinds, SMTT(30) DEF LcpuRules, QcpuRules
  <2> QED
    BY <1>3, <2>1, SMTT(30) DEF QRule, QShape, Fixed
<1>4. CASE i \notin {"M", "B", "D", "W", "R", "ZR", "Z", "SM", "SD"}
  <2>1. LcpuRules[i] = QcpuRules[i]
    BY <1>4, Kinds, SMTT(30) DEF LcpuRules, QcpuRules
  <2> QED
    <3>1. Source(f, i) = Source("qcpuUnit", i)
      BY SMTT(30) DEF Source
    <3>2. QRule(LcpuRules[i], "qcpuUnit", i, Source(f, i))
      BY <2>1, <3>1, QcpuRulesOk
    <3>3. i \in OneWordItems("qcpuUnit") => i \in OneWordItems(f)
      BY <1>4, Kinds, SMTT(30) DEF OneWordItems, Probed
    <3>4. QShape(LcpuRules[i], f, i, Source(f, i))
      BY <1>4, <3>2, <3>3 DEF QRule, QShape
    <3>5. LcpuRules[i].kind # "dword"
      BY <3>2 DEF QRule, QShape
    <3> QED
      BY <1>1, <3>2, <3>4, <3>5, SMTT(30) DEF QRule
<1> QED
  BY <1>2, <1>3, <1>4


(* A longer window is as good. *)
LEMMA Widened ==
  ASSUME NEW a \in Int, NEW b \in Int, a <= b, NEW rule, NEW i, NEW source,
         IqRule(rule, a, i, source)
  PROVE  IqRule(rule, b, i, source)
BY SMTT(30) DEF IqRule

(* All tables that are laid out like that of the iQ-R. *)
LEMMA IqFamilyRules ==
  ASSUME NEW f \in IqFamilies, NEW i \in Items
  PROVE  /\ Family[f].start = 260
         /\ Family[f].count \in {46, 50}
         /\ IqRule(Family[f].rules[i], 259 + Family[f].count, i,
                   Source(f, i))
         /\ Family[f].rules[i].kind = "unsupported" <=> i \in Lacking(f)
<1>1. /\ Family["iqr"] = [rules |-> IqrRules, start |-> 260, count |-> 50]
      /\ Family["mxf"] = [rules |-> MxfRules, start |-> 260, count |-> 50]
      /\ Family["mxr"] = [rules |-> MxrRules, start |-> 260, count |-> 50]
      /\ Family["iqf"] = [rules |-> IqfRules, start |-> 260, count |-> 46]
  BY SMTT(30) DEF Family
<1>2. CASE f = "iqf"
  BY <1>1, <1>2, IqfRulesOk, SMTT(30) DEF Lacking
<1>3. CASE f \in {"iqr", "mxf", "mxr"}
  <2>1. IqRule(Family[f].rules[i], Needed(i), i, Source(f, i))
    BY <1>1, <1>3, IqrRulesOk, MxRulesOk, SMTT(30)
  <2>2. Needed(i) \in Int /\ Needed(i) <= 309
    BY SMTT(30) DEF Needed
  <2>3. Family[f].rules[i].kind # "unsupported" /\ Lacking(f) = {}
    BY <1>1, <1>3, IqrRulesOk, MxRulesOk, SMTT(30) DEF Lacking
  <2>4. IqRule(Family[f].rules[i], 309, i, Source(f, i))
    BY <2>1, <2>2, Widened
  <2>5. 259 + Family[f].count = 309
    BY <1>1, <1>3, SMTT(30)
  <2> QED
    BY <1>1, <1>3, <2>3, <2>4, <2>5, SMTT(30)
<1> QED
  BY <1>2, <1>3 DEF IqFamilies

(* All tables of the other layout. *)
LEMMA QFamilyRules ==
  ASSUME NEW f \in QFamilies, NEW i \in Items
  PROVE  /\ Family[f].start \in {286, 290}
         /\ Family[f].count \in {15, 26}
         /\ QRule(Family[f].rules[i], f, i, Source(f, i))
<1>1. /\ Family["qcpuUnit"] = [rules |-> QcpuRules, start |-> 290,
                               count |-> 15]
      /\ Family["lcpu"] = [rules |-> LcpuRules, start |-> 286, count |-> 26]
      /\ Family["lcpuUnit"] = [rules |-> LcpuRules, start |-> 286,
                               count |-> 26]
  BY SMTT(30) DEF Family
<1> QED
  BY <1>1, QcpuRulesOk, LcpuRulesOk, SMTT(30) DEF QFamilies

(* The parts of these that name no register. *)
LEMMA IqShapes ==
  ASSUME NEW f \in IqFamilies, NEW i \in Items
  PROVE  /\ IqShape(Family[f].rules[i], i, Source(f, i))
         /\ Family[f].rules[i].kind = "unsupported" <=> i \in Lacking(f)
BY IqFamilyRules DEF IqRule

(* The same of the other layout. *)
LEMMA QShapes ==
  ASSUME NEW f \in QFamilies, NEW i \in Items
  PROVE  QShape(Family[f].rules[i], f, i, Source(f, i))
BY QFamilyRules DEF QRule

(* What a PLC of a family can have. *)
IsPlc(family, sizes) ==
  /\ sizes \in [Items -> Nat]
  /\ \A i \in Items : sizes[i] <= NoClip
  /\ \A i \in OneWordItems(family) : sizes[i] <= 65535
  /\ \A i \in Items :
       Family[family].rules[i].kind = "unsupported" => sizes[i] = 0
  /\ \A i \in Items \ {"R", "Z"} :
       LET rule == Family[family].rules[i] IN
       rule.kind = "fixed" => sizes[i] = rule.clip
  /\ family # "iqf" => sizes["R"] = Capped(sizes["ZR"], 32768)
  /\ family = "qcpuUnit" => sizes["Z"] \in {10, 16}
  /\ family \in {"lcpu", "lcpuUnit"} => sizes["Z"] = 20

(* A number that is no larger than the largest size is the value of its    *)
(* two words.                                                              *)
LEMMA Halves ==
  ASSUME NEW n \in Nat
  PROVE  /\ Low(n) \in Nat /\ High(n) \in Nat
         /\ Low(n) + High(n) * 65536 = n
         /\ n <= 65535 => Low(n) = n
BY SMTT(30) DEF Low, High

(* The window of SD registers, and what a rule makes of it. *)
Window(family, sizes) ==
  [r \in Family[family].start
           ..Family[family].start + Family[family].count - 1 |->
     SdWord(family, sizes, r)]

Seen(family, sizes, i) ==
  LET rule == Family[family].rules[i] IN
  CASE rule.kind \in {"unsupported", "undefined"} -> None
    [] rule.kind = "fixed" -> rule.clip
    [] OTHER -> Capped(sizes[Source(family, i)], rule.clip)

(* A register pair begins at an even number. *)
LEMMA Pairs ==
  ASSUME NEW r \in Int, r % 2 = 0
  PROVE  /\ (r + 1) % 2 = 1 /\ r + 1 - 1 = r
         /\ (r - 260) % 2 = 0
         /\ (r + 1 - 260) % 2 = 1
         /\ (r + 1 - 260) \div 2 = (r - 260) \div 2
OBVIOUS

(* The word of an SD register, in the two layouts. *)
LEMMA IqWord ==
  ASSUME NEW f \in IqFamilies, NEW sizes, NEW r \in Int, NEW item,
         IqLayout[(r - 260) \div 2 + 1] = item, item # "-"
  PROVE  /\ (r - 260) % 2 = 0 => SdWord(f, sizes, r) = Low(sizes[item])
         /\ (r - 260) % 2 = 1 /\ item \notin OneWord
              => SdWord(f, sizes, r) = High(sizes[item])
<1>1. SdWord(f, sizes, r) = Half(sizes, item, (r - 260) % 2 = 1)
  BY SMTT(30) DEF SdWord, IqFamilies
<1> QED
  BY <1>1, SMTT(30) DEF Half

(* A word of a pair whose first register has an even number. *)
LEMMA QWord ==
  ASSUME NEW f \in QFamilies, NEW sizes, NEW r \in Int
  PROVE  /\ r \in 290..304
              => SdWord(f, sizes, r) = Capped(sizes[QWords[r - 289]], 65535)
         /\ r \in DOMAIN QDwords /\ r \notin 290..304 /\ r % 2 = 0
            /\ QDwords[r] # "-"
              => SdWord(f, sizes, r) = Low(sizes[QDwords[r]])
         /\ r - 1 \in DOMAIN QDwords /\ r \notin 290..304 /\ r % 2 = 1
            /\ QDwords[r - 1] \notin {"-"} \union OneWord
              => SdWord(f, sizes, r) = High(sizes[QDwords[r - 1]])
<1>1. f \notin IqFamilies
  BY DEF IqFamilies, QFamilies
<1>2. ASSUME r \notin 290..304, r - (r % 2) \in DOMAIN QDwords
      PROVE  SdWord(f, sizes, r) = Half(sizes, QDwords[r - (r % 2)], r % 2 = 1)
  BY <1>1, <1>2, SMTT(30) DEF SdWord, IqFamilies
<1>3. ASSUME r - 1 \in DOMAIN QDwords, r \notin 290..304, r % 2 = 1,
             QDwords[r - 1] \notin {"-"} \union OneWord
      PROVE  SdWord(f, sizes, r) = High(sizes[QDwords[r - 1]])
  BY <1>2, <1>3, SMTT(30) DEF Half
<1>4. ASSUME r \in DOMAIN QDwords, r \notin 290..304, r % 2 = 0,
             QDwords[r] # "-"
      PROVE  SdWord(f, sizes, r) = Low(sizes[QDwords[r]])
  <2>1. r - (r % 2) = r
    BY <1>4
  <2> QED
    BY <1>2, <1>4, <2>1, SMTT(30) DEF Half
<1> QED
  BY <1>1, <1>3, <1>4, SMTT(30) DEF SdWord, IqFamilies

(* What a rule makes of a window in which its registers hold the size n.   *)
LEMMA WordCounts ==
  ASSUME NEW rule, NEW w, NEW n, rule.kind = "word",
         rule.register \in DOMAIN w, w[rule.register] = n
  PROVE  /\ Registers(rule) \subseteq DOMAIN w
         /\ PointCount(rule, w) = Capped(n, rule.clip)
BY SMTT(30) DEF Registers, PointCount

(* ... and of one in which its pair of registers does. *)
LEMMA PairCounts ==
  ASSUME NEW rule, NEW w, NEW n \in Nat, NEW reg, rule.kind = "dword",
         rule.register = reg,
         reg \in DOMAIN w, reg + 1 \in DOMAIN w,
         w[reg] = Low(n), w[reg + 1] = High(n)
  PROVE  /\ Registers(rule) \subseteq DOMAIN w
         /\ PointCount(rule, w) = Capped(n, rule.clip)
<1>1. w[reg] + w[reg + 1] * 65536 = n
  BY Halves
<1>2. PointCount(rule, w) = Capped(w[reg] + w[reg + 1] * 65536, rule.clip)
  BY SMTT(30) DEF PointCount
<1> QED
  BY <1>1, <1>2, SMTT(30) DEF Registers

(* Every rule finds its registers in the window, and counts its item. *)
LEMMA IqWindow ==
  ASSUME NEW f \in IqFamilies, NEW sizes, IsPlc(f, sizes), NEW i \in Items,
         NEW rule, rule = Family[f].rules[i], NEW w, w = Window(f, sizes)
  PROVE  /\ Registers(rule) \subseteq DOMAIN w
         /\ PointCount(rule, w) = Seen(f, sizes, i)
<1>1. PICK last \in Int :
        /\ DOMAIN w = 260..last
        /\ \A r \in 260..last : w[r] = SdWord(f, sizes, r)
        /\ IqRule(rule, last, i, Source(f, i))
  <2>1. /\ Family[f].start = 260 /\ Family[f].count \in Int
        /\ IqRule(rule, 259 + Family[f].count, i, Source(f, i))
    BY IqFamilyRules
  <2>2. Family[f].start + Family[f].count - 1 = 259 + Family[f].count
        /\ 259 + Family[f].count \in Int
    BY <2>1
  <2>3. /\ DOMAIN w = 260..(259 + Family[f].count)
        /\ \A r \in 260..(259 + Family[f].count) : w[r] = SdWord(f, sizes, r)
    BY <2>1, <2>2, SMTT(30) DEF Window
  <2> QED
    BY <2>1, <2>2, <2>3
<1>2. CASE rule.kind = "word"
  <2>1. PICK reg \in 260..last :
        /\ rule.register = reg
        /\ i \in OneWord
        /\ (reg - 260) % 2 = 0
        /\ IqLayout[(reg - 260) \div 2 + 1] = i
    <3>1. IqShape(rule, i, Source(f, i))
      BY <1>1 DEF IqRule
    <3>2. i \in OneWord
      BY <1>2, <3>1 DEF IqShape
    <3> QED
      BY <1>1, <1>2, <3>2, SMTT(30) DEF IqRule
  <2>2. i # "-" /\ Source(f, i) = i /\ i \in OneWordItems(f)
    BY <2>1, SMTT(30) DEF OneWord, Source, OneWordItems
  <2>3. sizes[i] \in Nat /\ Low(sizes[i]) = sizes[i]
    BY <2>2, Halves DEF IsPlc
  <2>4. SdWord(f, sizes, reg) = Low(sizes[i])
    BY <2>1, <2>2, IqWord
  <2>5. w[reg] = sizes[i]
    BY <1>1, <2>1, <2>3, <2>4
  <2>6. /\ Registers(rule) \subseteq DOMAIN w
        /\ PointCount(rule, w) = Capped(sizes[i], rule.clip)
    BY <1>1, <1>2, <2>1, <2>5, WordCounts
  <2> QED
    BY <1>2, <2>2, <2>6, SMTT(30) DEF Seen
<1>3. CASE rule.kind = "dword"
  <2>1. PICK reg \in 260..last :
          /\ rule.register = reg /\ reg < last /\ reg % 2 = 0
          /\ IqLayout[(reg - 260) \div 2 + 1] = Source(f, i)
    BY <1>1, <1>3 DEF IqRule, IqShape
  <2>2. /\ Source(f, i) \in Items /\ Source(f, i) \notin OneWord
        /\ Source(f, i) # "-"
    BY <1>1, <1>3, Kinds, SMTT(30) DEF IqRule, IqShape
  <2>3. sizes[Source(f, i)] \in Nat
    BY <2>2 DEF IsPlc
  <2>4. reg + 1 \in 260..last
    BY <2>1
  <2>5. /\ (reg - 260) % 2 = 0 /\ (reg + 1 - 260) % 2 = 1
        /\ (reg + 1 - 260) \div 2 = (reg - 260) \div 2
    BY <2>1, Pairs
  <2>6. SdWord(f, sizes, reg) = Low(sizes[Source(f, i)])
    <3>1. reg \in Int /\ (reg - 260) % 2 = 0
          /\ IqLayout[(reg - 260) \div 2 + 1] = Source(f, i)
      BY <2>1, <2>5
    <3> QED
      BY <2>2, <3>1, IqWord
  <2>7. SdWord(f, sizes, reg + 1) = High(sizes[Source(f, i)])
    <3>1. IqLayout[(reg + 1 - 260) \div 2 + 1] = Source(f, i)
      BY <2>1, <2>5
    <3> QED
      BY <2>2, <2>4, <2>5, <3>1, IqWord
  <2>8. /\ w[reg] = Low(sizes[Source(f, i)])
        /\ w[reg + 1] = High(sizes[Source(f, i)])
    BY <1>1, <2>1, <2>4, <2>6, <2>7
  <2>9. reg \in DOMAIN w /\ reg + 1 \in DOMAIN w
    BY <1>1, <2>1, <2>4
  <2>10. /\ Registers(rule) \subseteq DOMAIN w
         /\ PointCount(rule, w) = Capped(sizes[Source(f, i)], rule.clip)
    <3>1. PICK n \in Nat : n = sizes[Source(f, i)]
      BY <2>3
    <3>2. w[reg] = Low(n) /\ w[reg + 1] = High(n) /\ rule.register = reg
      BY <2>1, <2>8, <3>1
    <3>3. PointCount(rule, w) = Capped(n, rule.clip)
          /\ Registers(rule) \subseteq DOMAIN w
      BY <1>3, <2>9, <3>2, PairCounts
    <3> QED
      BY <3>1, <3>3
  <2> QED
    BY <1>3, <2>10, SMTT(30) DEF Seen
<1>4. CASE rule.kind \in {"fixed", "unsupported"}
  BY <1>4, SMTT(30) DEF Registers, PointCount, Seen
<1> QED
  BY <1>1, <1>2, <1>3, <1>4 DEF IqRule, IqShape

(* The same of the other layout. *)
LEMMA QWindow ==
  ASSUME NEW f \in QFamilies, NEW sizes, IsPlc(f, sizes), NEW i \in Items,
         NEW rule, rule = Family[f].rules[i], NEW w, w = Window(f, sizes)
  PROVE  /\ Registers(rule) \subseteq DOMAIN w
         /\ PointCount(rule, w) = Seen(f, sizes, i)
<1>1. /\ Family[f].start \in Int
      /\ Family[f].count \in Int
      /\ QRule(rule, f, i, Source(f, i))
  BY QFamilyRules, SMTT(30)
<1> DEFINE last == Family[f].start + Family[f].count - 1
<1>2. /\ DOMAIN w = Family[f].start..last
      /\ \A r \in Family[f].start..last : w[r] = SdWord(f, sizes, r)
  BY SMTT(30) DEF Window
<1>3. last \in Int /\ last + 1 = Family[f].start + Family[f].count
  BY <1>1
<1> HIDE DEF last
<1>4. CASE rule.kind = "word"
  <2>1. PICK reg \in Int :
        /\ rule.register = reg
        /\ reg \in 290..304 /\ reg \in Family[f].start..last
        /\ QWords[reg - 289] = i
        /\ i \in OneWordItems(f)
    BY <1>1, <1>3, <1>4, SMTT(30) DEF QRule, QShape
  <2>2. sizes[i] \in Nat /\ sizes[i] <= 65535
    BY <2>1 DEF IsPlc
  <2>3. SdWord(f, sizes, reg) = Capped(sizes[i], 65535)
    BY <2>1, QWord
  <2>4. Capped(sizes[i], 65535) = sizes[i]
    BY <2>2 DEF Capped
  <2>5. Source(f, i) = i
    BY <2>1, SMTT(30) DEF OneWordItems, Source, OneWord, QFamilies, Probed
  <2>6. w[reg] = sizes[i] /\ reg \in DOMAIN w
    BY <1>2, <2>1, <2>3, <2>4
  <2>7. /\ Registers(rule) \subseteq DOMAIN w
        /\ PointCount(rule, w) = Capped(sizes[i], rule.clip)
    BY <1>4, <2>1, <2>6, WordCounts
  <2> QED
    BY <1>4, <2>5, <2>7, SMTT(30) DEF Seen
<1>5. CASE rule.kind = "dword"
  <2>1. PICK reg \in Int :
        /\ rule.register = reg
        /\ reg \in DOMAIN QDwords
        /\ reg \notin 290..304 /\ reg + 1 \notin 290..304
        /\ reg % 2 = 0
        /\ reg \in Family[f].start..last /\ reg + 1 \in Family[f].start..last
        /\ QDwords[reg] = Source(f, i)
        /\ Source(f, i) \in Items /\ Source(f, i) \notin OneWord
    <3>1. QShape(rule, f, i, Source(f, i))
      BY <1>1 DEF QRule
    <3>2. Source(f, i) \in Items /\ Source(f, i) \notin OneWord
      BY <1>5, <3>1 DEF QShape
    <3> QED
      BY <1>1, <1>3, <1>5, <3>2, SMTT(30) DEF QRule, QDwords
  <2>2. sizes[Source(f, i)] \in Nat
    BY <2>1 DEF IsPlc
  <2>3. (reg + 1) % 2 = 1 /\ reg + 1 - 1 = reg /\ reg + 1 \in Int
    BY <2>1, Pairs
  <2>4. Source(f, i) # "-"
    BY <2>1, Kinds, SMTT(30)
  <2>5. SdWord(f, sizes, reg) = Low(sizes[Source(f, i)])
    BY <2>1, <2>4, QWord
  <2>6. SdWord(f, sizes, reg + 1) = High(sizes[Source(f, i)])
    <3>1. reg + 1 - 1 \in DOMAIN QDwords
          /\ QDwords[reg + 1 - 1] = Source(f, i)
      BY <2>1, <2>3
    <3> QED
      BY <2>1, <2>3, <2>4, <3>1, QWord
  <2>7. /\ w[reg] = Low(sizes[Source(f, i)]) /\ reg \in DOMAIN w
        /\ w[reg + 1] = High(sizes[Source(f, i)]) /\ reg + 1 \in DOMAIN w
    BY <1>2, <2>1, <2>5, <2>6
  <2>8. /\ Registers(rule) \subseteq DOMAIN w
        /\ PointCount(rule, w) = Capped(sizes[Source(f, i)], rule.clip)
    <3>1. PICK n \in Nat : n = sizes[Source(f, i)]
      BY <2>2
    <3>2. w[reg] = Low(n) /\ w[reg + 1] = High(n) /\ rule.register = reg
      BY <2>1, <2>7, <3>1
    <3>3. PointCount(rule, w) = Capped(n, rule.clip)
          /\ Registers(rule) \subseteq DOMAIN w
      BY <1>5, <2>7, <3>2, PairCounts
    <3> QED
      BY <3>1, <3>3
  <2> QED
    BY <1>5, <2>8, SMTT(30) DEF Seen
<1>6. CASE rule.kind \in {"fixed", "unsupported", "undefined"}
  BY <1>6, SMTT(30) DEF Registers, PointCount, Seen
<1> QED
  BY <1>1, <1>4, <1>5, <1>6 DEF QRule, QShape

(* The rules that are the same for both. *)
LEMMA RuleKinds ==
  ASSUME NEW f \in DOMAIN Family, NEW i \in Items, NEW rule,
         rule = Family[f].rules[i]
  PROVE  /\ rule.kind \in {"word", "dword", "fixed", "unsupported",
                           "undefined"}
         /\ rule.clip \in Nat
         /\ rule.kind = "fixed" => rule.clip <= 32768
         /\ i = "R" => rule.kind # "unsupported"
         /\ i = "Z" /\ f \in {"lcpu", "lcpuUnit"} => rule = Fixed(20)
<1>1. CASE f \in IqFamilies
  BY <1>1, IqShapes, SMTT(30) DEF IqShape, IqFamilies
<1>2. CASE f \in QFamilies
  BY <1>2, QShapes, SMTT(30) DEF QShape
<1> QED
  BY <1>1, <1>2, Kinds

(* What one item of a PLC can have. *)
LEMMA ItemSizes ==
  ASSUME NEW f \in DOMAIN Family, NEW i \in Items, NEW m \in Nat,
         m <= NoClip, NEW rule, rule = Family[f].rules[i],
         NEW size, size = SizeOf(f, i, m)
  PROVE  /\ size \in Nat
         /\ size <= NoClip
         /\ i \in OneWordItems(f) => size <= 65535
         /\ rule.kind = "unsupported" => size = 0
         /\ rule.kind = "fixed" /\ i \notin {"R", "Z"} => size = rule.clip
         /\ f = "qcpuUnit" /\ i = "Z" => size \in {10, 16}
         /\ f \in {"lcpu", "lcpuUnit"} /\ i = "Z" => size = 20
<1>1. /\ rule.clip \in Nat
      /\ rule.kind = "fixed" => rule.clip <= 32768
      /\ i = "Z" /\ f \in {"lcpu", "lcpuUnit"} => rule = Fixed(20)
  BY RuleKinds
<1>2. NoClip \in Nat /\ NoClip >= 65535
  BY SMTT(30) DEF NoClip
<1>3. CASE rule.kind = "unsupported"
  <2>1. size = 0
    BY <1>3 DEF SizeOf
  <2>2. f \in QFamilies => i # "Z"
    BY <1>3, QShapes, SMTT(30) DEF QShape
  <2> QED
    BY <1>2, <1>3, <2>1, <2>2 DEF QFamilies
<1>4. CASE rule.kind # "unsupported" /\ i = "Z" /\ f = "qcpuUnit"
  <2>1. size \in {10, 16}
    BY <1>4, SMTT(30) DEF SizeOf
  <2> QED
    BY <1>2, <1>4, <2>1
<1>5. CASE rule.kind = "fixed" /\ ~(i = "Z" /\ f = "qcpuUnit")
  <2>1. size = rule.clip
    BY <1>5, SMTT(30) DEF SizeOf
  <2> QED
    BY <1>1, <1>2, <1>5, <2>1, SMTT(30) DEF Fixed
<1>6. CASE rule.kind \notin {"unsupported", "fixed"}
           /\ ~(i = "Z" /\ f = "qcpuUnit")
  <2>1. size = IF i \in OneWordItems(f) THEN Capped(m, 65535) ELSE m
    BY <1>6, SMTT(30) DEF SizeOf
  <2>2. ~(i = "Z" /\ f \in {"lcpu", "lcpuUnit"})
    BY <1>1, <1>6, SMTT(30) DEF Fixed
  <2> QED
    BY <1>2, <1>6, <2>1, <2>2, SMTT(30) DEF Capped
<1> QED
  BY <1>3, <1>4, <1>5, <1>6

(* Every PLC of the model is one of its family. *)
LEMMA PlcHolds ==
  ASSUME NEW f \in DOMAIN Family, NEW item \in Items, NEW n \in Nat,
         n <= NoClip
  PROVE  IsPlc(f, Plc(f, item, n))
<1> DEFINE given == [i \in Items |->
                       SizeOf(f, i, IF i = item THEN n ELSE 70000)]
           sizes == Plc(f, item, n)
<1>1. ASSUME NEW i \in Items, NEW rule, rule = Family[f].rules[i]
      PROVE  /\ given[i] \in Nat
             /\ given[i] <= NoClip
             /\ i \in OneWordItems(f) => given[i] <= 65535
             /\ rule.kind = "unsupported" => given[i] = 0
             /\ rule.kind = "fixed" /\ i \notin {"R", "Z"}
                  => given[i] = rule.clip
             /\ f = "qcpuUnit" /\ i = "Z" => given[i] \in {10, 16}
             /\ f \in {"lcpu", "lcpuUnit"} /\ i = "Z" => given[i] = 20
  <2> DEFINE m == IF i = item THEN n ELSE 70000
  <2>1. m \in Nat /\ m <= NoClip
    BY SMTT(30) DEF NoClip
  <2>2. given[i] = SizeOf(f, i, m)
    OBVIOUS
  <2> HIDE DEF m, given
  <2> QED
    BY <1>1, <2>1, <2>2, ItemSizes
<1>2. "R" \in Items /\ "ZR" \in Items /\ "Z" \in Items
  BY Kinds, SMTT(30)
<1>3. DOMAIN given = Items
  OBVIOUS
<1>4. sizes = IF f = "iqf" THEN given
            ELSE [given EXCEPT !["R"] = Capped(given["ZR"], 32768)]
  BY DEF Plc
<1> HIDE DEF given, sizes
<1>5. /\ DOMAIN sizes = Items
      /\ \A i \in Items \ {"R"} : sizes[i] = given[i]
      /\ f = "iqf" => sizes["R"] = given["R"]
      /\ f # "iqf" => sizes["R"] = Capped(given["ZR"], 32768)
  BY <1>2, <1>3, <1>4, SMTT(30)
<1>6. sizes["R"] \in Nat /\ sizes["R"] <= NoClip
  <2>1. given["R"] \in Nat /\ given["ZR"] \in Nat
    BY <1>1, <1>2
  <2>2. given["R"] <= NoClip
    BY <1>1, <1>2
  <2> QED
    BY <1>5, <2>1, <2>2, SMTT(30) DEF Capped, NoClip
<1>7. sizes \in [Items -> Nat] /\ \A i \in Items : sizes[i] <= NoClip
  <2>1. \A i \in Items : sizes[i] \in Nat /\ sizes[i] <= NoClip
    BY <1>1, <1>5, <1>6
  <2>2. sizes = [i \in Items |-> sizes[i]]
    BY <1>4, SMTT(30) DEF given
  <2> QED
    BY <2>1, <2>2
<1>8. \A i \in OneWordItems(f) : sizes[i] <= 65535
  <2>1. \A i \in OneWordItems(f) : i \in Items \ {"R"}
    BY Kinds, SMTT(30) DEF OneWordItems, OneWord, Probed
  <2> QED
    BY <1>1, <1>5, <2>1
<1>9. \A i \in Items :
        Family[f].rules[i].kind = "unsupported" => sizes[i] = 0
  <2>1. Family[f].rules["R"].kind # "unsupported"
    BY <1>2, RuleKinds
  <2> QED
    BY <1>1, <1>5, <2>1
<1>10. /\ \A i \in Items \ {"R", "Z"} :
            LET rule == Family[f].rules[i] IN
            rule.kind = "fixed" => sizes[i] = rule.clip
       /\ f # "iqf" => sizes["R"] = Capped(sizes["ZR"], 32768)
       /\ f = "qcpuUnit" => sizes["Z"] \in {10, 16}
       /\ f \in {"lcpu", "lcpuUnit"} => sizes["Z"] = 20
  BY <1>1, <1>2, <1>5
<1> QED
  BY <1>7, <1>8, <1>9, <1>10 DEF IsPlc, sizes

(* The entry of a catalog that is so. *)
IsEntry(family, sizes, i, e) ==
  /\ e.supported <=> Family[family].rules[i].kind # "unsupported"
  /\ e.upper = Upper(e.count)
  /\ e.notation = Notation(family, i)
  /\ ~e.supported => e.count = None
  /\ IF e.count = None THEN sizes[i] = 0
     ELSE /\ e.count <= sizes[i]
          /\ e.count < sizes[i] => e.count = Ceiling(i)

CatalogEntry(family, sizes, i) ==
  [supported |-> Family[family].rules[i].kind # "unsupported",
   count |-> Seen(family, sizes, i), upper |-> Upper(Seen(family, sizes, i)),
   notation |-> Notation(family, i)]

(* The items whose counts the search replaces. *)
Resolved(family) ==
  IF family \notin Probed THEN {}
  ELSE {"ZR", "R"} \union IF family = "qcpuUnit" THEN {"Z"} ELSE {}

CatalogTyped ==
  /\ own \in Families /\ requested \in Families
  /\ IsPlc(own, has)
  /\ stage \in {"called", "refused", "read", "built", "done", "raised"}
  /\ stage \in {"read", "built", "done"} => requested = own
WindowHolds == stage = "read" => window = Window(own, has)
CatalogBuilt ==
  stage = "built" =>
    /\ own \in Probed
    /\ catalog = [i \in Items |-> CatalogEntry(own, has, i)]
CatalogGiven ==
  stage = "done" => \A i \in Items : IsEntry(own, has, i, catalog[i])

CatalogIInv ==
  /\ CatalogTyped /\ WindowHolds /\ CatalogBuilt /\ CatalogGiven

(* What the window says of an item is so, unless the search replaces it.   *)
LEMMA SeenIsTrue ==
  ASSUME NEW f \in DOMAIN Family, NEW sizes, IsPlc(f, sizes), NEW i \in Items,
         i \notin Resolved(f)
  PROVE  IsEntry(f, sizes, i, CatalogEntry(f, sizes, i))
<1> DEFINE rule == Family[f].rules[i]
           seen == Seen(f, sizes, i)
           source == Source(f, i)
<1>1. /\ sizes[i] \in Nat /\ sizes[i] <= NoClip
      /\ sizes["ZR"] \in Nat
      /\ f # "iqf" => sizes["R"] = Capped(sizes["ZR"], 32768)
      /\ rule.kind = "unsupported" => sizes[i] = 0
      /\ rule.kind = "fixed" /\ i \notin {"R", "Z"} => sizes[i] = rule.clip
      /\ f \in {"lcpu", "lcpuUnit"} => sizes["Z"] = 20
  BY Kinds, SMTT(30) DEF IsPlc
<1>2. /\ rule.kind \in {"word", "dword", "fixed", "unsupported", "undefined"}
      /\ rule.clip \in Nat
      /\ i = "Z" /\ f \in {"lcpu", "lcpuUnit"} => rule = Fixed(20)
  BY RuleKinds
<1>3. IsEntry(f, sizes, i, CatalogEntry(f, sizes, i)) <=>
        /\ rule.kind = "unsupported" => seen = None
        /\ IF seen = None THEN sizes[i] = 0
           ELSE seen <= sizes[i] /\ (seen < sizes[i] => seen = Ceiling(i))
  <2>1. /\ CatalogEntry(f, sizes, i).supported = (rule.kind # "unsupported")
        /\ CatalogEntry(f, sizes, i).count = seen
        /\ CatalogEntry(f, sizes, i).upper = Upper(seen)
        /\ CatalogEntry(f, sizes, i).notation = Notation(f, i)
    BY DEF CatalogEntry
  <2> QED
    BY <2>1 DEF IsEntry
<1>4. CASE rule.kind = "unsupported"
  BY <1>1, <1>3, <1>4, SMTT(30) DEF Seen
<1>5. rule.kind # "undefined"
  <2>1. CASE f \in IqFamilies
    BY <2>1, IqShapes, SMTT(30) DEF IqShape
  <2>2. CASE f \in QFamilies
    BY <2>2, QShapes, SMTT(30) DEF QShape, Resolved, QFamilies, Probed
  <2> QED
    BY <2>1, <2>2, Kinds
<1>6. CASE rule.kind = "fixed"
  <2>1. i # "R"
    <3>1. CASE f \in IqFamilies
      BY <1>6, <3>1, IqShapes, SMTT(30) DEF IqShape
    <3>2. CASE f \in QFamilies
      BY <3>2, SMTT(30) DEF Resolved, QFamilies, Probed
    <3> QED
      BY <3>1, <3>2, Kinds
  <2>2. i = "Z" => f \in {"lcpu", "lcpuUnit"}
    <3>1. CASE f \in IqFamilies
      BY <1>6, <3>1, IqShapes, SMTT(30) DEF IqShape
    <3>2. CASE f \in QFamilies
      BY <3>2, SMTT(30) DEF Resolved, QFamilies, Probed
    <3> QED
      BY <3>1, <3>2, Kinds
  <2>3. sizes[i] = rule.clip
    <3>1. Fixed(20).clip = 20
      BY DEF Fixed
    <3> QED
      BY <1>1, <1>2, <1>6, <2>1, <2>2, <3>1
  <2>4. seen = rule.clip
    BY <1>6, SMTT(30) DEF Seen
  <2> QED
    BY <1>1, <1>2, <1>3, <1>6, <2>3, <2>4, SMTT(30) DEF None
<1>7. CASE rule.kind \in {"word", "dword"}
  <2>1. seen = Capped(sizes[source], rule.clip)
    BY <1>7, SMTT(30) DEF Seen
  <2>2. /\ rule.clip \in {32768, NoClip}
        /\ i = "ZR" => rule.clip = NoClip
        /\ source # i => i = "R" /\ source = "ZR" /\ f # "iqf"
                         /\ rule.clip = 32768
    <3>1. CASE f \in IqFamilies
      <4>1. source # i => i = "R" /\ source = "ZR" /\ f # "iqf"
        BY SMTT(30) DEF Source
      <4> QED
        BY <1>7, <3>1, <4>1, IqShapes, SMTT(30) DEF IqShape, OneWord
    <3>2. CASE f \in QFamilies
      <4>1. i \notin {"R", "ZR"}
        BY <3>2, SMTT(30) DEF Resolved, QFamilies, Probed
      <4>2. source = i
        BY <4>1 DEF Source
      <4> QED
        BY <1>7, <3>2, <4>1, <4>2, QShapes, SMTT(30) DEF QShape
    <3> QED
      BY <3>1, <3>2, Kinds
  <2>3. CASE source = i
    BY <1>1, <1>2, <1>3, <1>7, <2>1, <2>2, <2>3, SMTT(30)
    DEF Capped, Ceiling, None
  <2>4. CASE source # i
    <3>1. seen = sizes[i]
      BY <1>1, <2>1, <2>2, <2>4
    <3> QED
      BY <1>1, <1>3, <1>7, <3>1, SMTT(30) DEF None
  <2> QED
    BY <2>3, <2>4
<1> QED
  BY <1>2, <1>4, <1>5, <1>6, <1>7

(* The first state of a call, and its steps. *)
LEMMA CatalogInitHolds == CatalogInit => CatalogIInv
<1> SUFFICES ASSUME CatalogInit PROVE CatalogIInv
  OBVIOUS
<1>1. PICK i \in Items, n \in Sizes : has = Plc(own, i, n)
  BY DEF CatalogInit
<1>2. own \in Families /\ requested \in Families /\ stage = "called"
  BY DEF CatalogInit
<1>3. own \in DOMAIN Family /\ n \in Nat /\ n <= NoClip
  BY <1>2, CatalogAssumption DEF CatalogAssumption
<1>4. IsPlc(own, has)
  BY <1>1, <1>3, PlcHolds
<1> QED
  BY <1>2, <1>4
  DEF CatalogIInv, CatalogTyped, WindowHolds, CatalogBuilt, CatalogGiven

(* The entries are made of a window that holds every register they need. *)
LEMMA BuildsStep == CatalogIInv /\ BuildsCatalog => CatalogIInv'
<1> SUFFICES ASSUME CatalogIInv, BuildsCatalog PROVE CatalogIInv'
  OBVIOUS
<1>1. /\ stage = "read" /\ requested = own /\ window = Window(own, has)
      /\ own \in Families /\ own \in DOMAIN Family /\ IsPlc(own, has)
      /\ UNCHANGED <<own, requested, has, window>>
  BY CatalogAssumption
  DEF CatalogIInv, CatalogTyped, WindowHolds, BuildsCatalog,
      CatalogAssumption
<1>2. ASSUME NEW i \in Items, NEW rule, rule = Family[own].rules[i]
      PROVE  /\ Registers(rule) \subseteq DOMAIN window
             /\ PointCount(rule, window) = Seen(own, has, i)
  BY <1>1, <1>2, IqWindow, QWindow, Kinds
<1>3. /\ stage' = IF own \in Probed THEN "built" ELSE "done"
      /\ catalog' =
           [i \in Items |->
              LET count == PointCount(Family[own].rules[i], window) IN
              [supported |-> Family[own].rules[i].kind # "unsupported",
               count |-> count, upper |-> Upper(count),
               notation |-> Notation(own, i)]]
  <2>1. {i \in Items : ~(Registers(Family[own].rules[i])
                           \subseteq DOMAIN window)} = {}
    BY <1>2
  <2> QED
    BY <1>1, <2>1 DEF BuildsCatalog
<1>4. catalog' = [i \in Items |-> CatalogEntry(own, has, i)]
  BY <1>2, <1>3 DEF CatalogEntry
<1>5. CASE own \in Probed
  BY <1>1, <1>3, <1>4, <1>5
  DEF CatalogIInv, CatalogTyped, WindowHolds, CatalogBuilt, CatalogGiven
<1>6. CASE own \notin Probed
  <2>1. \A i \in Items : IsEntry(own, has, i, CatalogEntry(own, has, i))
    BY <1>1, <1>6, SeenIsTrue DEF Resolved
  <2>2. \A i \in Items : catalog'[i] = CatalogEntry(own, has, i)
    BY <1>4
  <2> QED
    BY <1>1, <1>3, <1>6, <2>1, <2>2
    DEF CatalogIInv, CatalogTyped, WindowHolds, CatalogBuilt, CatalogGiven
<1> QED
  BY <1>5, <1>6

(* An entry whose count is replaced by one that is so.                     *)
LEMMA ReplacedIs ==
  ASSUME NEW f, NEW sizes, NEW i, NEW count,
         Family[f].rules[i].kind # "unsupported", count # None,
         count <= sizes[i], count < sizes[i] => count = Ceiling(i)
  PROVE  IsEntry(f, sizes, i, Replaced(CatalogEntry(f, sizes, i), count))
<1> DEFINE e == Replaced(CatalogEntry(f, sizes, i), count)
<1>1. ASSUME NEW s, NEW c, NEW u, NEW n, NEW r,
             r = Replaced([supported |-> s, count |-> c, upper |-> u,
                           notation |-> n], count)
      PROVE  /\ r.supported = s /\ r.count = count
             /\ r.upper = Upper(count) /\ r.notation = n
  BY <1>1, SMTT(30) DEF Replaced
<1>2. /\ e.supported = (Family[f].rules[i].kind # "unsupported")
      /\ e.count = count /\ e.upper = Upper(count)
      /\ e.notation = Notation(f, i)
  BY <1>1 DEF CatalogEntry
<1> QED
  BY <1>2 DEF IsEntry

(* The counts that are probed replace those of ZR, R and Z. *)
LEMMA ResolvesStep == CatalogIInv /\ ResolvesLimits => CatalogIInv'
<1> SUFFICES ASSUME CatalogIInv, ResolvesLimits PROVE CatalogIInv'
  OBVIOUS
<1>1. /\ stage = "built" /\ requested = own
      /\ own \in Families /\ own \in DOMAIN Family /\ IsPlc(own, has)
      /\ own \in QFamilies
      /\ catalog = [i \in Items |-> CatalogEntry(own, has, i)]
      /\ UNCHANGED <<own, requested, has, window>> /\ stage' = "done"
  BY CatalogAssumption
  DEF CatalogIInv, CatalogTyped, CatalogBuilt, ResolvesLimits,
      CatalogAssumption, Probed, QFamilies
<1> DEFINE zr == Capped(has["ZR"], SearchLimit)
           r == Capped(zr, 32768)
           zs == IF has["Z"] > 15 THEN 16 ELSE 10
<1>2. "R" \in Items /\ "ZR" \in Items /\ "Z" \in Items
  BY Kinds, SMTT(30)
<1>3. \A i \in Items :
        catalog'[i] =
          IF i = "ZR" THEN Replaced(CatalogEntry(own, has, i), zr)
          ELSE IF i = "R" THEN Replaced(CatalogEntry(own, has, i), r)
          ELSE IF i = "Z" /\ own = "qcpuUnit"
                 THEN Replaced(CatalogEntry(own, has, i), zs)
          ELSE CatalogEntry(own, has, i)
  <2> DEFINE z == IF requested # "qcpuUnit" THEN catalog
                  ELSE [catalog EXCEPT !["Z"] = Replaced(@, zs)]
  <2>1. catalog' = [z EXCEPT !["ZR"] = Replaced(@, zr),
                             !["R"] = Replaced(@, r)]
    BY DEF ResolvesLimits
  <2>2. /\ DOMAIN catalog = Items
        /\ \A i \in Items : catalog[i] = CatalogEntry(own, has, i)
    BY <1>1
  <2> HIDE DEF zr, r, zs
  <2>3. /\ DOMAIN z = Items
        /\ \A i \in Items :
             z[i] = IF i = "Z" /\ own = "qcpuUnit"
                      THEN Replaced(CatalogEntry(own, has, i), zs)
                      ELSE CatalogEntry(own, has, i)
    BY <1>1, <1>2, <2>2, SMTT(30)
  <2> HIDE DEF z
  <2> QED
    BY <1>2, <2>1, <2>3, SMTT(30)
<1>4. /\ has["ZR"] \in Nat /\ has["Z"] \in Nat
      /\ has["R"] = Capped(has["ZR"], 32768)
      /\ own = "qcpuUnit" => has["Z"] \in {10, 16}
  BY <1>1, <1>2, SMTT(30) DEF IsPlc, QFamilies
<1>5. SearchLimit \in Nat /\ SearchLimit >= 32768
  BY CatalogAssumption DEF CatalogAssumption
<1>6. \A i \in {"R", "ZR", "Z"} : Family[own].rules[i].kind # "unsupported"
  BY <1>1, <1>2, QShapes, SMTT(30) DEF QShape
<1>7. IsEntry(own, has, "ZR", Replaced(CatalogEntry(own, has, "ZR"), zr))
  <2>1. /\ zr # None /\ zr <= has["ZR"]
        /\ zr < has["ZR"] => zr = Ceiling("ZR")
    BY <1>4, <1>5, SMTT(30) DEF Capped, None, Ceiling
  <2> QED
    BY <1>6, <2>1, ReplacedIs
<1>8. IsEntry(own, has, "R", Replaced(CatalogEntry(own, has, "R"), r))
  <2>1. r = has["R"] /\ r \in Nat
    BY <1>4, <1>5, SMTT(30) DEF Capped
  <2>2. r # None /\ r <= has["R"] /\ ~(r < has["R"])
    BY <2>1, SMTT(30) DEF None
  <2> QED
    BY <1>6, <2>2, ReplacedIs
<1>9. own = "qcpuUnit"
        => IsEntry(own, has, "Z", Replaced(CatalogEntry(own, has, "Z"), zs))
  <2>1. own = "qcpuUnit" =>
          zs # None /\ zs <= has["Z"] /\ ~(zs < has["Z"])
    BY <1>4, SMTT(30) DEF None
  <2> QED
    BY <1>6, <2>1, ReplacedIs
<1>10. \A i \in Items \ Resolved(own) :
         IsEntry(own, has, i, CatalogEntry(own, has, i))
  BY <1>1, SeenIsTrue
<1> HIDE DEF zr, r, zs
<1>11. \A i \in Items : IsEntry(own, has, i, catalog'[i])
  <2> SUFFICES ASSUME NEW i \in Items
               PROVE  IsEntry(own, has, i, catalog'[i])
    OBVIOUS
  <2>1. CASE i \in {"ZR", "R"} \/ (i = "Z" /\ own = "qcpuUnit")
    BY <1>3, <1>7, <1>8, <1>9, <2>1
  <2>2. CASE i \notin {"ZR", "R"} /\ ~(i = "Z" /\ own = "qcpuUnit")
    <3>1. i \notin Resolved(own)
      BY <2>2 DEF Resolved
    <3> QED
      BY <1>3, <1>10, <2>2, <3>1
  <2> QED
    BY <2>1, <2>2
<1> QED
  BY <1>1, <1>11
  DEF CatalogIInv, CatalogTyped, WindowHolds, CatalogBuilt, CatalogGiven

(* Every step of a call keeps the invariant. *)
LEMMA CatalogStep == CatalogIInv /\ [CatalogNext]_catalogVars => CatalogIInv'
<1> SUFFICES ASSUME CatalogIInv, [CatalogNext]_catalogVars PROVE CatalogIInv'
  OBVIOUS
<1> USE DEF CatalogIInv, CatalogTyped, WindowHolds, CatalogBuilt,
            CatalogGiven
<1>1. CASE Mismatch
  BY <1>1 DEF Mismatch
<1>2. CASE ReadsWindow
  BY <1>2 DEF ReadsWindow, Window
<1>3. CASE RequestFails
  BY <1>3 DEF RequestFails
<1>4. CASE UNCHANGED catalogVars
  BY <1>4 DEF catalogVars
<1> QED
  BY <1>1, <1>2, <1>3, <1>4, BuildsStep, ResolvesStep DEF CatalogNext

(* The devices of an item have the base of its entry, in every family. *)
LEMMA BasesAgree ==
  ASSUME NEW f \in DOMAIN Family, NEW i \in Items, NEW d \in Devices(i)
  PROVE  Notation(f, i) = Radix(ClientProfile[f], d)
<1>1. f = "iqf" <=> ClientProfile[f] = "iqf"
  BY Kinds, SMTT(30) DEF ClientProfile, IqFamilies, QFamilies
<1>2. CASE i \in {"T", "ST", "C", "LT", "LST", "LC"}
  <2>1. d \notin Hexadecimal /\ d \notin {"X", "Y"}
    BY <1>2, SMTT(30) DEF Devices, Hexadecimal
  <2> QED
    BY <1>2, <2>1, SMTT(30) DEF Notation, RowNotation, Radix, Octal
<1>3. CASE i \notin {"T", "ST", "C", "LT", "LST", "LC"}
  <2>1. d = i
    BY <1>3, SMTT(30) DEF Devices
  <2>2. i \notin {"DX", "DY"}
    BY Kinds, SMTT(30)
  <2> QED
    BY <1>1, <2>1, <2>2, SMTT(30)
    DEF Notation, RowNotation, Radix, Octal, Hexadecimal
<1> QED
  BY <1>2, <1>3

(* The items whose rules say unsupported are those whose devices the       *)
(* requests of the client's profile refuse.                                *)
LEMMA SupportAgrees ==
  ASSUME NEW f \in DOMAIN Family, NEW i \in Items, NEW d \in Devices(i)
  PROVE  Family[f].rules[i].kind # "unsupported"
           <=> Supported(ClientProfile[f], d)
<1>1. /\ Profile["iqr"].lacks = {}
      /\ Profile["iqf"].lacks = IqfLacks
      /\ Profile["builtin"].lacks = QlLacks
      /\ Profile["qcpuUnit"].lacks = QlLacks
      /\ Profile["unit"].lacks = QlLacks
  BY SMTT(30) DEF Profile
<1>2. d \in LongTimers <=> i \in {"LT", "LST"}
  BY Kinds, SMTT(30) DEF Devices, LongTimers
<1>3. d \in {"LCS", "LCC", "LCN"} <=> i = "LC"
  BY Kinds, SMTT(30) DEF Devices
<1>4. \A x \in {"V", "ZR", "RD", "LZ"} : d = x <=> i = x
  BY Kinds, SMTT(30) DEF Devices
<1>5. d \notin {"DX", "DY"}
  BY Kinds, SMTT(30) DEF Devices
<1>6. CASE f \in IqFamilies
  <2>1. Family[f].rules[i].kind = "unsupported" <=> i \in Lacking(f)
    BY <1>6, IqShapes
  <2>2. ClientProfile[f] = IF f = "iqf" THEN "iqf" ELSE "iqr"
    BY <1>6, SMTT(30) DEF ClientProfile, IqFamilies
  <2>3. d \in IqfLacks <=> i \in {"V", "LT", "LST", "ZR", "RD"}
    BY <1>2, <1>4, <1>5 DEF IqfLacks
  <2> QED
    BY <1>1, <2>1, <2>2, <2>3 DEF Lacking, Supported
<1>7. CASE f \in QFamilies
  <2>1. Family[f].rules[i].kind = "unsupported"
          <=> i \in {"LT", "LST", "LC", "LZ", "RD"}
    BY <1>7, QShapes DEF QShape
  <2>2. ClientProfile[f] \in {"builtin", "qcpuUnit", "unit"}
    BY <1>7, SMTT(30) DEF ClientProfile, QFamilies
  <2>3. d \in QlLacks <=> i \in {"LT", "LST", "LC", "LZ", "RD"}
    BY <1>2, <1>3, <1>4 DEF QlLacks
  <2> QED
    BY <1>1, <2>1, <2>2, <2>3 DEF Supported
<1> QED
  BY <1>6, <1>7, Kinds

(* What the invariant says of the catalog that is returned. *)
LEMMA GivenHolds == CatalogIInv => CatalogHolds
<1> SUFFICES ASSUME CatalogIInv PROVE CatalogHolds
  OBVIOUS
<1>1. own \in DOMAIN Family
  BY CatalogAssumption DEF CatalogAssumption, CatalogIInv, CatalogTyped
<1>2. CatalogIsTrue
  <2>1. stage # "missing"
    BY DEF CatalogIInv, CatalogTyped
  <2> QED
    BY <2>1 DEF CatalogIInv, CatalogGiven, CatalogIsTrue, IsEntry
<1>3. AddressesUsable
  <2> SUFFICES ASSUME stage = "done", NEW i \in Items, NEW d \in Devices(i)
               PROVE  LET p == ClientProfile[own]  e == catalog[i] IN
                      /\ e.supported <=> Supported(p, d)
                      /\ e.upper # None
                           => e.supported /\ e.notation = Radix(p, d)
    BY DEF AddressesUsable
  <2>1. IsEntry(own, has, i, catalog[i])
    BY DEF CatalogIInv, CatalogGiven
  <2>2. /\ catalog[i].supported
             <=> Family[own].rules[i].kind # "unsupported"
        /\ catalog[i].notation = Notation(own, i)
        /\ catalog[i].upper = Upper(catalog[i].count)
        /\ ~catalog[i].supported => catalog[i].count = None
    BY <2>1 DEF IsEntry
  <2>3. Upper(None) = None
    BY SMTT(30) DEF Upper, None
  <2> QED
    BY <1>1, <2>2, <2>3, BasesAgree, SupportAgrees
<1> QED
  BY <1>2, <1>3 DEF CatalogHolds

(* The invariant of the catalog: what the PLC can have, what the window    *)
(* holds of it, and what the entries say.                                  *)
THEOREM CatalogInvariant == CatalogSpec => []CatalogIInv
<1>1. CatalogInit => CatalogIInv
  BY CatalogInitHolds
<1>2. CatalogIInv /\ [CatalogNext]_catalogVars => CatalogIInv'
  BY CatalogStep
<1> QED
  BY <1>1, <1>2, PTL DEF CatalogSpec

(* read_device_range_catalog_for_plc_profile(), of any profile and of a    *)
(* PLC of any sizes: no entry counts a point the PLC does not have or      *)
(* stops short of one without a limit of its own, and every address it     *)
(* lists is one that the client of that profile takes, in its base.        *)
THEOREM TrueCatalog == CatalogSpec => []CatalogHolds
<1>1. CatalogIInv => CatalogHolds
  BY GivenHolds
<1> QED
  BY <1>1, CatalogInvariant, PTL
==============================================================================
