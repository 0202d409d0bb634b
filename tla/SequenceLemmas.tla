--------------------------- MODULE SequenceLemmas ----------------------------
(***************************************************************************)
(* What the operation queues need to know of the line they keep: what is   *)
(* left of a sequence when one of its elements leaves it, and what is      *)
(* picked from it then.                                                    *)
(***************************************************************************)
EXTENDS Naturals, Sequences, SequencesExt, Subsequence,
        WellFoundedInduction, TLAPS

(* The second part of a concatenation begins after the first. *)
LEMMA ConcatSecond ==
  ASSUME NEW S, NEW a \in Seq(S), NEW b \in Seq(S),
         NEW k \in (Len(a) + 1)..(Len(a) + Len(b))
  PROVE  (a \o b)[k] = b[k - Len(a)]
OBVIOUS

(* Removing one element of a sequence keeps the others in their order. *)
LEMMA RemoveAtIsSeq ==
  ASSUME NEW S, NEW s \in Seq(S), NEW i \in DOMAIN s
  PROVE  /\ RemoveAt(s, i) \in Seq(S)
         /\ Len(RemoveAt(s, i)) = Len(s) - 1
         /\ \A j \in 1..(Len(s) - 1) :
              RemoveAt(s, i)[j] = IF j < i THEN s[j] ELSE s[j + 1]
<1> DEFINE a == SubSeq(s, 1, i - 1)
           b == SubSeq(s, i + 1, Len(s))
<1>1. i \in 1..Len(s) /\ Len(s) \in Nat
  OBVIOUS
<1>2. a \in Seq(S) /\ Len(a) = i - 1 /\ \A j \in 1..(i - 1) : a[j] = s[j]
  BY <1>1
<1>3. /\ b \in Seq(S)
      /\ Len(b) = Len(s) - i
      /\ \A j \in 1..(Len(s) - i) : b[j] = s[i + j]
  BY <1>1
<1>4. RemoveAt(s, i) = a \o b
  BY DEF RemoveAt
<1> HIDE DEF a, b
<1>5. a \o b \in Seq(S) /\ Len(a \o b) = Len(s) - 1
  BY <1>1, <1>2, <1>3
<1>6. ASSUME NEW j \in 1..(Len(s) - 1)
      PROVE  (a \o b)[j] = IF j < i THEN s[j] ELSE s[j + 1]
  <2>1. CASE j < i
    BY <2>1, <1>1, <1>2, <1>3
  <2>2. CASE ~(j < i)
    <3>1. j \in (i - 1 + 1)..(i - 1 + (Len(s) - i))
      BY <2>2, <1>1
    <3>2. j \in (Len(a) + 1)..(Len(a) + Len(b))
      BY <3>1, <1>2, <1>3
    <3>3. (a \o b)[j] = b[j - Len(a)]
      BY <3>2, <1>2, <1>3, ConcatSecond
    <3>4. j - (i - 1) \in 1..(Len(s) - i) /\ i + (j - (i - 1)) = j + 1
      BY <2>2, <1>1
    <3>5. b[j - (i - 1)] = s[i + (j - (i - 1))]
      BY <3>4, <1>3
    <3>. QED BY <3>3, <3>4, <3>5, <1>2, <2>2
  <2>. QED BY <2>1, <2>2
<1>. QED BY <1>4, <1>5, <1>6

(* The elements that stay were there before; if each occurred once, it     *)
(* still does, and the one that left is gone; a head that stays is the     *)
(* head.                                                                   *)
LEMMA RemovalFromLine ==
  ASSUME NEW S, NEW s \in Seq(S), NEW k \in DOMAIN s,
         \A i, j \in DOMAIN s : s[i] = s[j] => i = j
  PROVE  LET r == RemoveAt(s, k)
         IN  /\ r \in Seq(S)
             /\ \A j \in DOMAIN r : r[j] # s[k]
             /\ \A j \in DOMAIN r : \E i \in DOMAIN s : r[j] = s[i]
             /\ \A i, j \in DOMAIN r : r[i] = r[j] => i = j
             /\ Head(s) # s[k] => r # <<>> /\ Head(r) = Head(s)
<1> DEFINE r == RemoveAt(s, k)
<1>1. /\ r \in Seq(S)
      /\ Len(r) = Len(s) - 1
      /\ \A j \in 1..(Len(s) - 1) : r[j] = IF j < k THEN s[j] ELSE s[j + 1]
  BY RemoveAtIsSeq
<1> HIDE DEF r
<1>2. DOMAIN r = 1..(Len(s) - 1) /\ DOMAIN s = 1..Len(s) /\ Len(s) \in Nat
  BY <1>1
<1> DEFINE at(j) == IF j < k THEN j ELSE j + 1
<1>3. ASSUME NEW j \in DOMAIN r
      PROVE  at(j) \in DOMAIN s /\ at(j) # k /\ r[j] = s[at(j)]
  BY <1>1, <1>2
<1>4. ASSUME NEW i \in DOMAIN r, NEW j \in DOMAIN r, at(i) = at(j)
      PROVE  i = j
  BY <1>2, <1>4
<1>5. ASSUME Head(s) # s[k]
      PROVE  r # <<>> /\ Head(r) = Head(s)
  <2>1. k # 1 /\ k \in 1..Len(s) /\ Head(s) = s[1]
    BY <1>2, <1>5
  <2>2. 1 \in 1..(Len(s) - 1) /\ 1 < k
    BY <1>2, <2>1
  <2>3. r[1] = s[1] /\ r # <<>> /\ Head(r) = r[1]
    BY <1>1, <1>2, <2>2
  <2>. QED BY <2>1, <2>3
<1> HIDE DEF at
<1>. QED BY <1>1, <1>3, <1>4, <1>5 DEF r

(* A set of numbers that is not empty has a least one. *)
LEMMA LeastExists ==
  ASSUME NEW I \in SUBSET Nat, I # {}
  PROVE  \E x \in I : \A y \in I : x <= y
<1>1. \E x \in I : \A y \in I : ~(<<y, x>> \in OpToRel(<, Nat))
  BY NatLessThanWellFounded, WFMin
<1>2. ASSUME NEW x \in Nat, NEW y \in Nat, ~(<<y, x>> \in OpToRel(<, Nat))
      PROVE  x <= y
  BY <1>2 DEF OpToRel
<1> QED BY <1>1, <1>2

(* What is left when the first of an element is taken out: a sequence that *)
(* is not longer and still has every other element.                        *)
LEMMA RemoveFirstKeeps ==
  ASSUME NEW S, NEW s \in Seq(S), NEW e
  PROVE  /\ RemoveFirst(s, e) \in Seq(S)
         /\ Len(RemoveFirst(s, e)) <= Len(s)
         /\ \A i \in DOMAIN s :
              s[i] # e => \E j \in DOMAIN RemoveFirst(s, e) :
                            RemoveFirst(s, e)[j] = s[i]
<1>1. CASE \E i \in 1..Len(s) : s[i] = e
  <2> DEFINE I == {i \in 1..Len(s) : s[i] = e}
             k == SelectInSeq(s, LAMBDA v : v = e)
  <2>1. I # {} /\ I \subseteq 1..Len(s) /\ Len(s) \in Nat
    BY <1>1
  <2>2. k = (CHOOSE x \in I : \A y \in I : x <= y)
    BY <2>1 DEF SelectInSeq, Min
  <2>3. RemoveFirst(s, e) = RemoveAt(s, k)
    BY <1>1 DEF RemoveFirst
  <2>4. \E x \in I : \A y \in I : x <= y
    <3> HIDE DEF I
    <3> QED BY <2>1, LeastExists
  <2>5. k \in I
    <3> HIDE DEF I, k
    <3> QED BY <2>2, <2>4, Zenon
  <2>6. k \in 1..Len(s) /\ s[k] = e
    <3> HIDE DEF k
    <3> QED BY <2>5
  <2> HIDE DEF I, k
  <2> DEFINE r == RemoveAt(s, k)
  <2>7. /\ r \in Seq(S)
        /\ Len(r) = Len(s) - 1
        /\ \A j \in 1..(Len(s) - 1) : r[j] = IF j < k THEN s[j] ELSE s[j + 1]
    BY <2>6, RemoveAtIsSeq
  <2> HIDE DEF r
  <2>8. ASSUME NEW i \in DOMAIN s, s[i] # e
        PROVE  \E j \in DOMAIN r : r[j] = s[i]
    <3>1. CASE i < k
      <4>1. i \in 1..(Len(s) - 1) /\ i \in DOMAIN r
        BY <3>1, <2>6, <2>7
      <4> QED BY <3>1, <4>1, <2>7
    <3>2. CASE i > k
      <4>1. /\ i - 1 \in 1..(Len(s) - 1) /\ i - 1 \in DOMAIN r
            /\ ~(i - 1 < k) /\ (i - 1) + 1 = i
        BY <3>2, <2>6, <2>7
      <4> QED BY <4>1, <2>7
    <3> QED BY <3>1, <3>2, <2>6, <2>8
  <2>9. Len(r) <= Len(s)
    BY <2>7, <2>1
  <2> QED BY <2>3, <2>7, <2>8, <2>9 DEF r
<1>2. CASE ~(\E i \in 1..Len(s) : s[i] = e)
  BY <1>2 DEF RemoveFirst
<1> QED BY <1>1, <1>2

(* In particular, its type. *)
LEMMA RemoveFirstIsSeq ==
  ASSUME NEW S, NEW s \in Seq(S), NEW e
  PROVE  RemoveFirst(s, e) \in Seq(S)
BY RemoveFirstKeeps

(* A position of a sequence that holds an element only once is the one     *)
(* from which the element is taken out.                                    *)
LEMMA RemoveFirstAt ==
  ASSUME NEW S, NEW s \in Seq(S), NEW k \in DOMAIN s,
         \A i \in DOMAIN s : s[i] = s[k] => i = k
  PROVE  RemoveFirst(s, s[k]) = RemoveAt(s, k)
<1> DEFINE I == {i \in 1..Len(s) : s[i] = s[k]}
           found == SelectInSeq(s, LAMBDA v : v = s[k])
<1>1. I = {k} /\ k \in 1..Len(s)
  OBVIOUS
<1>2. found = (CHOOSE x \in I : \A y \in I : x <= y)
  BY <1>1 DEF SelectInSeq, Min
<1>3. found = k
  <2> HIDE DEF I, found
  <2>1. \A x : x \in I /\ (\A y \in I : x <= y) <=> x = k
    BY <1>1
  <2> QED BY <1>2, <2>1
<1>4. RemoveFirst(s, s[k]) = RemoveAt(s, found)
  BY <1>1 DEF RemoveFirst
<1> HIDE DEF found
<1> QED BY <1>3, <1>4

(* The head is taken out of a sequence that holds it once: the tail is     *)
(* left.                                                                   *)
LEMMA RemoveHead ==
  ASSUME NEW S, NEW s \in Seq(S), s # <<>>
  PROVE  RemoveAt(s, 1) = Tail(s)
<1>1. 1 \in DOMAIN s /\ Len(s) \in Nat
  OBVIOUS
<1>2. /\ RemoveAt(s, 1) \in Seq(S)
      /\ Len(RemoveAt(s, 1)) = Len(s) - 1
      /\ \A j \in 1..(Len(s) - 1) : RemoveAt(s, 1)[j] = s[j + 1]
  BY <1>1, RemoveAtIsSeq
<1> DEFINE r == RemoveAt(s, 1)
<1> HIDE DEF r
<1>3. r \in Seq(S) /\ Len(r) = Len(s) - 1
      /\ \A j \in 1..(Len(s) - 1) : r[j] = s[j + 1]
  BY <1>2 DEF r
<1>4. r = Tail(s)
  BY <1>3
<1> QED BY <1>4 DEF r

(* So for the head, which is the first of its kind.                        *)
LEMMA RemoveFirstHead ==
  ASSUME NEW S, NEW s \in Seq(S), s # <<>>
  PROVE  RemoveFirst(s, Head(s)) = Tail(s)
<1> DEFINE I == {i \in 1..Len(s) : s[i] = Head(s)}
           found == SelectInSeq(s, LAMBDA v : v = Head(s))
<1>1. 1 \in I /\ \A y \in I : 1 <= y /\ y \in Nat
  OBVIOUS
<1>2. found = (CHOOSE x \in I : \A y \in I : x <= y)
  BY <1>1 DEF SelectInSeq, Min
<1>3. found = 1
  <2> HIDE DEF I, found
  <2>1. \A x : x \in I /\ (\A y \in I : x <= y) <=> x = 1
    BY <1>1
  <2> QED BY <1>2, <2>1
<1>4. RemoveFirst(s, Head(s)) = RemoveAt(s, found)
  BY <1>1 DEF RemoveFirst
<1> HIDE DEF found
<1> QED BY <1>3, <1>4, RemoveHead

(* A set that begins at 0 and goes on from every number to the next one    *)
(* has all numbers up to n.                                                *)
LEMMA UpTo ==
  ASSUME NEW n \in Nat, NEW G, 0 \in G,
         \A m \in 1..n : m - 1 \in G => m \in G
  PROVE  0..n \subseteq G
<1> DEFINE bad == {m \in 0..n : m \notin G}
<1> SUFFICES ASSUME bad # {} PROVE FALSE
  OBVIOUS
<1>1. bad \in SUBSET Nat
  OBVIOUS
<1>2. PICK x \in bad : \A y \in bad : x <= y
  <2> HIDE DEF bad
  <2> QED BY <1>1, LeastExists
<1>3. x \in 1..n /\ x - 1 \in 0..n /\ x - 1 \notin bad
  BY <1>2
<1> QED BY <1>2, <1>3

(* What Taken computes, element after element. *)
LEMMA TakenFacts ==
  ASSUME NEW S, NEW s \in Seq(S), NEW I
  PROVE  /\ Taken(s, I)[0] = <<>>
         /\ \A n \in 1..Len(s) :
              Taken(s, I)[n] = IF n \in I
                                 THEN Append(Taken(s, I)[n - 1], s[n])
                                 ELSE Taken(s, I)[n - 1]
<1> DEFINE Next(f, n) == IF n = 0 THEN <<>>
                         ELSE IF n \in I THEN Append(f[n - 1], s[n])
                         ELSE f[n - 1]
           Is(f, n) == f = [m \in 0..n |-> Next(f, m)]
           G == {n \in Nat : \E f : Is(f, n)}
<1>0. Len(s) \in Nat
  OBVIOUS
<1>1. 0 \in G
  <2>1. Is([m \in 0..0 |-> <<>>], 0)
    OBVIOUS
  <2> HIDE DEF Is
  <2> QED BY <2>1
<1>2. ASSUME NEW n \in 1..Len(s), n - 1 \in G PROVE n \in G
  <2>0. n \in Nat /\ n - 1 \in Nat
    BY <1>0
  <2>1. PICK f : Is(f, n - 1)
    BY <1>2
  <2> DEFINE g == [m \in 0..n |-> IF m = n THEN Next(f, n) ELSE f[m]]
  <2>2. \A m \in 0..n : g[m] = Next(g, m)
    <3>1. ASSUME NEW m \in 0..n PROVE g[m] = Next(g, m)
      <4>1. CASE m = n
        BY <4>1, <2>0
      <4>2. CASE m # n
        <5>1. m \in 0..(n - 1) /\ g[m] = f[m]
          BY <4>2, <2>0
        <5>2. f[m] = Next(f, m)
          BY <2>1, <5>1
        <5>3. m # 0 => m - 1 \in 0..n /\ m - 1 # n
          BY <5>1, <2>0
        <5>4. Next(g, m) = Next(f, m)
          BY <5>3
        <5> QED BY <5>1, <5>2, <5>4
      <4> QED BY <4>1, <4>2
    <3> QED BY <3>1
  <2>3. Is(g, n)
    BY <2>2
  <2> HIDE DEF Is, g
  <2> QED BY <2>0, <2>3
<1>3. Len(s) \in G
  <2> HIDE DEF G
  <2>1. 0..Len(s) \subseteq G
    BY <1>0, <1>1, <1>2, UpTo
  <2> QED BY <1>0, <2>1
<1>4. Is(Taken(s, I), Len(s))
  <2>1. Taken(s, I) = CHOOSE f : Is(f, Len(s))
    BY DEF Taken
  <2>2. \E f : Is(f, Len(s))
    BY <1>3
  <2> HIDE DEF Is
  <2> QED BY <2>1, <2>2
<1> DEFINE T == Taken(s, I)
<1>5. T = [m \in 0..Len(s) |-> Next(T, m)]
  BY <1>4
<1> HIDE DEF T
<1>6. T[0] = <<>>
  BY <1>0, <1>5
<1>7. \A n \in 1..Len(s) : n \in 0..Len(s) /\ n # 0
  BY <1>0
<1>8. \A n \in 1..Len(s) : T[n] = IF n \in I THEN Append(T[n - 1], s[n])
                                  ELSE T[n - 1]
  BY <1>5, <1>7
<1> QED BY <1>6, <1>8 DEF T

(* What is taken are the elements at the positions, and all of them.       *)
LEMMA TakenMembers ==
  ASSUME NEW S, NEW s \in Seq(S), NEW I, NEW n \in 0..Len(s)
  PROVE  /\ Taken(s, I)[n] \in Seq(S)
         /\ \A j \in DOMAIN Taken(s, I)[n] :
              \E i \in 1..n : i \in I /\ Taken(s, I)[n][j] = s[i]
         /\ \A i \in 1..n :
              i \in I => \E j \in DOMAIN Taken(s, I)[n] :
                           Taken(s, I)[n][j] = s[i]
<1> DEFINE T == Taken(s, I)
           Holds(m) == /\ T[m] \in Seq(S)
                       /\ \A j \in DOMAIN T[m] :
                            \E i \in 1..m : i \in I /\ T[m][j] = s[i]
                       /\ \A i \in 1..m :
                            i \in I => \E j \in DOMAIN T[m] : T[m][j] = s[i]
           G == {m \in Nat : Holds(m)}
<1>0. /\ T[0] = <<>>
      /\ \A m \in 1..Len(s) :
           T[m] = IF m \in I THEN Append(T[m - 1], s[m]) ELSE T[m - 1]
  BY TakenFacts
<1> HIDE DEF T
<1>1. 0 \in G
  <2>1. <<>> \in Seq(S) /\ DOMAIN <<>> = {} /\ 1..0 = {}
    OBVIOUS
  <2> QED BY <1>0, <2>1
<1>2. ASSUME NEW m \in 1..Len(s), m - 1 \in G PROVE m \in G
  <2>1. /\ m \in Nat /\ Holds(m - 1) /\ s[m] \in S
        /\ \A i \in 1..m : i = m \/ i \in 1..(m - 1)
        /\ 1..(m - 1) \subseteq 1..m /\ m \in 1..m
    BY <1>2
  <2>2. CASE m \notin I
    <3>1. T[m] = T[m - 1]
      BY <1>0, <2>2
    <3> QED BY <2>1, <2>2, <3>1
  <2>3. CASE m \in I
    <3> DEFINE q == T[m - 1]
    <3>1. T[m] = Append(q, s[m]) /\ q \in Seq(S)
      BY <1>0, <2>1, <2>3
    <3> HIDE DEF q
    <3>2. /\ T[m] \in Seq(S)
          /\ DOMAIN T[m] = 1..(Len(q) + 1) /\ Len(q) \in Nat
          /\ DOMAIN q = 1..Len(q)
          /\ T[m][Len(q) + 1] = s[m]
          /\ \A j \in 1..Len(q) : T[m][j] = q[j]
      BY <2>1, <3>1
    <3>3. ASSUME NEW j \in DOMAIN T[m]
          PROVE  \E i \in 1..m : i \in I /\ T[m][j] = s[i]
      <4>1. CASE j = Len(q) + 1
        BY <2>1, <2>3, <3>2, <4>1
      <4>2. CASE j # Len(q) + 1
        <5>1. j \in DOMAIN q /\ T[m][j] = q[j]
          BY <3>2, <4>2
        <5>2. PICK i \in 1..(m - 1) : i \in I /\ q[j] = s[i]
          BY <2>1, <5>1 DEF q
        <5> QED BY <2>1, <5>1, <5>2
      <4> QED BY <4>1, <4>2
    <3>4. ASSUME NEW i \in 1..m, i \in I
          PROVE  \E j \in DOMAIN T[m] : T[m][j] = s[i]
      <4>1. CASE i = m
        BY <3>2, <4>1
      <4>2. CASE i # m
        <5>1. PICK j \in DOMAIN q : q[j] = s[i]
          BY <2>1, <3>4, <4>2 DEF q
        <5>2. j \in DOMAIN T[m] /\ T[m][j] = q[j]
          BY <3>2
        <5> QED BY <5>1, <5>2
      <4> QED BY <4>1, <4>2
    <3> QED BY <2>1, <3>2, <3>3, <3>4
  <2> QED BY <2>2, <2>3
<1>3. n \in G
  <2> HIDE DEF G
  <2>0. Len(s) \in Nat
    OBVIOUS
  <2>1. 0..Len(s) \subseteq G
    BY <1>1, <1>2, <2>0, UpTo
  <2> QED BY <2>1
<1> QED BY <1>3 DEF T

(* What is taken from n elements depends on these and their positions.     *)
LEMMA TakenAgree ==
  ASSUME NEW S, NEW s \in Seq(S), NEW I, NEW r \in Seq(S), NEW J,
         NEW n \in 0..Len(s), n <= Len(r),
         \A i \in 1..n : /\ i \in I <=> i \in J
                         /\ i \in I => s[i] = r[i]
  PROVE  Taken(s, I)[n] = Taken(r, J)[n]
<1> DEFINE T == Taken(s, I)
           U == Taken(r, J)
           G == {m \in Nat : T[m] = U[m]}
<1>0. /\ T[0] = <<>> /\ U[0] = <<>> /\ n \in Nat
      /\ \A m \in 1..Len(s) :
           T[m] = IF m \in I THEN Append(T[m - 1], s[m]) ELSE T[m - 1]
      /\ \A m \in 1..Len(r) :
           U[m] = IF m \in J THEN Append(U[m - 1], r[m]) ELSE U[m - 1]
  BY TakenFacts
<1>1. 1..n \subseteq 1..Len(s) /\ 1..n \subseteq 1..Len(r)
  OBVIOUS
<1> HIDE DEF T, U
<1>2. 0 \in G
  BY <1>0
<1>3. ASSUME NEW m \in 1..n, m - 1 \in G PROVE m \in G
  <2>1. /\ T[m] = IF m \in I THEN Append(T[m - 1], s[m]) ELSE T[m - 1]
        /\ U[m] = IF m \in J THEN Append(U[m - 1], r[m]) ELSE U[m - 1]
        /\ T[m - 1] = U[m - 1] /\ m \in Nat
    BY <1>0, <1>1, <1>3
  <2> QED BY <2>1
<1>4. n \in G
  <2> HIDE DEF G
  <2>1. 0..n \subseteq G
    BY <1>0, <1>2, <1>3, UpTo
  <2> QED BY <1>0, <2>1
<1> QED BY <1>4 DEF T, U

(* So does what is picked. *)
LEMMA PickAgree ==
  ASSUME NEW S, NEW s \in Seq(S), NEW I, NEW r \in Seq(S), NEW J,
         Len(s) = Len(r),
         \A i \in DOMAIN r : /\ i \in J <=> i \in I
                             /\ i \in J => r[i] = s[i]
  PROVE  Pick(r, J) = Pick(s, I)
<1> DEFINE n == Len(r)
<1>1. /\ n \in 0..Len(r) /\ n <= Len(s)
      /\ \A i \in 1..n : /\ i \in J <=> i \in I
                         /\ i \in J => r[i] = s[i]
  OBVIOUS
<1>2. n = Len(s)
  OBVIOUS
<1> HIDE DEF n
<1>3. Taken(r, J)[n] = Taken(s, I)[n]
  BY <1>1, TakenAgree
<1> QED BY <1>2, <1>3 DEF Pick, n

(* The positions of an element that is added at the end.                   *)
LEMMA PickAppend ==
  ASSUME NEW S, NEW s \in Seq(S), NEW e \in S, NEW I, NEW J,
         \A i \in 1..Len(s) : i \in I <=> i \in J
  PROVE  Pick(Append(s, e), J) = IF Len(s) + 1 \in J
                                   THEN Append(Pick(s, I), e)
                                   ELSE Pick(s, I)
<1> DEFINE r == Append(s, e)
           n == Len(s)
<1>1. /\ r \in Seq(S) /\ Len(r) = n + 1 /\ r[n + 1] = e /\ n \in Nat
      /\ \A i \in 1..n : r[i] = s[i]
  OBVIOUS
<1> HIDE DEF r
<1>2. Taken(s, I)[n] = Taken(r, J)[n]
  BY <1>1, TakenAgree
<1>3. Taken(r, J)[n + 1] = IF n + 1 \in J
                             THEN Append(Taken(r, J)[(n + 1) - 1], r[n + 1])
                             ELSE Taken(r, J)[(n + 1) - 1]
  BY <1>1, TakenFacts
<1> QED BY <1>1, <1>2, <1>3 DEF r, Pick

(* Who is not picked may leave the sequence.                               *)
LEMMA PickWithout ==
  ASSUME NEW S, NEW s \in Seq(S), NEW k \in DOMAIN s, NEW I, k \notin I,
         NEW J, \A j \in 1..(Len(s) - 1) :
                  j \in J <=> IF j < k THEN j \in I ELSE j + 1 \in I
  PROVE  Pick(RemoveAt(s, k), J) = Pick(s, I)
<1> DEFINE r == RemoveAt(s, k)
           T == Taken(s, I)
           U == Taken(r, J)
           G == {m \in Nat : k - 1 <= m => U[m] = T[m + 1]}
<1>1. /\ k \in 1..Len(s) /\ Len(s) \in Nat
      /\ r \in Seq(S) /\ Len(r) = Len(s) - 1
      /\ \A j \in 1..(Len(s) - 1) : r[j] = IF j < k THEN s[j] ELSE s[j + 1]
  BY RemoveAtIsSeq
<1> HIDE DEF r
<1>2. U[k - 1] = T[k - 1]
  <2> DEFINE n == k - 1
  <2>1. r \in Seq(S) /\ n \in 0..Len(s) /\ n <= Len(r)
    BY <1>1
  <2>2. \A i \in 1..n : s[i] = r[i] /\ (i \in I <=> i \in J)
    BY <1>1
  <2> HIDE DEF n
  <2>3. Taken(s, I)[n] = Taken(r, J)[n]
    BY <2>1, <2>2, TakenAgree
  <2> QED BY <2>3 DEF n
<1>3. /\ \A m \in 1..Len(s) :
           T[m] = IF m \in I THEN Append(T[m - 1], s[m]) ELSE T[m - 1]
      /\ \A m \in 1..(Len(s) - 1) :
           U[m] = IF m \in J THEN Append(U[m - 1], r[m]) ELSE U[m - 1]
  <2>1. \A m \in 1..Len(r) :
          U[m] = IF m \in J THEN Append(U[m - 1], r[m]) ELSE U[m - 1]
    BY <1>1, TakenFacts
  <2>2. \A m \in 1..Len(s) :
          T[m] = IF m \in I THEN Append(T[m - 1], s[m]) ELSE T[m - 1]
    BY TakenFacts
  <2> HIDE DEF T, U
  <2> QED BY <1>1, <2>1, <2>2
<1> HIDE DEF T, U
<1>4. U[k - 1] = T[k]
  BY <1>1, <1>2, <1>3
<1>5. 0 \in G
  BY <1>1, <1>4
<1>6. ASSUME NEW m \in 1..(Len(s) - 1), m - 1 \in G PROVE m \in G
  <2>1. CASE m < k
    BY <1>1, <1>4, <2>1
  <2>2. CASE m >= k
    <3>1. U[m - 1] = T[(m - 1) + 1] /\ (m - 1) + 1 = m /\ m \in Nat
      BY <1>1, <1>6, <2>2
    <3>2. /\ U[m] = IF m \in J THEN Append(U[m - 1], r[m]) ELSE U[m - 1]
          /\ m + 1 \in 1..Len(s) /\ (m + 1) - 1 = m
          /\ r[m] = s[m + 1] /\ (m \in J <=> m + 1 \in I)
      BY <1>1, <1>3, <2>2
    <3>3. T[m + 1] = IF m + 1 \in I THEN Append(T[(m + 1) - 1], s[m + 1])
                     ELSE T[(m + 1) - 1]
      BY <1>3, <3>2
    <3> QED BY <3>1, <3>2, <3>3
  <2> QED BY <1>1, <2>1, <2>2
<1>7. Len(s) - 1 \in G
  <2> HIDE DEF G
  <2>0. Len(s) - 1 \in Nat
    BY <1>1
  <2>1. 0..(Len(s) - 1) \subseteq G
    BY <1>5, <1>6, <2>0, UpTo
  <2> QED BY <1>1, <2>1
<1>8. U[Len(r)] = T[Len(s)]
  BY <1>1, <1>7
<1> QED BY <1>8 DEF Pick, T, U, r

(* Who is picked no longer is taken out of what was picked.                *)
LEMMA PickFewer ==
  ASSUME NEW S, NEW s \in Seq(S), NEW I, NEW k \in DOMAIN s, k \in I,
         \A i \in DOMAIN s : s[i] = s[k] => i = k
  PROVE  Pick(s, I \ {k}) = RemoveFirst(Pick(s, I), s[k])
<1> DEFINE T == Taken(s, I)
           U == Taken(s, I \ {k})
           p == Len(T[k - 1]) + 1
           Holds(m) == /\ T[m] \in Seq(S)
                       /\ p \in DOMAIN T[m] /\ T[m][p] = s[k]
                       /\ \A i \in DOMAIN T[m] :
                            T[m][i] = s[k] => i = p
                       /\ U[m] = RemoveAt(T[m], p)
           G == {m \in Nat : k <= m => Holds(m)}
<1>1. k \in 1..Len(s) /\ Len(s) \in Nat /\ k - 1 \in 0..Len(s)
  OBVIOUS
<1>2. /\ \A m \in 1..Len(s) :
           T[m] = IF m \in I THEN Append(T[m - 1], s[m]) ELSE T[m - 1]
      /\ \A m \in 1..Len(s) :
           U[m] = IF m \in I \ {k} THEN Append(U[m - 1], s[m]) ELSE U[m - 1]
  BY TakenFacts
<1>3. U[k - 1] = T[k - 1]
  <2>1. \A i \in 1..(k - 1) : s[i] = s[i] /\ (i \in I \ {k} <=> i \in I)
    BY <1>1
  <2> QED BY <1>1, <2>1, TakenAgree
<1>4. /\ \A m \in 0..Len(s) : T[m] \in Seq(S)
      /\ \A j \in DOMAIN T[k - 1] : T[k - 1][j] # s[k]
  <2>1. \A m \in 0..Len(s) : T[m] \in Seq(S)
    BY TakenMembers
  <2>2. \A j \in DOMAIN T[k - 1] :
          \E i \in 1..(k - 1) : i \in I /\ T[k - 1][j] = s[i]
    <3> DEFINE n == k - 1
    <3>1. n \in 0..Len(s)
      BY <1>1
    <3> HIDE DEF n
    <3>2. \A j \in DOMAIN Taken(s, I)[n] :
            \E i \in 1..n : i \in I /\ Taken(s, I)[n][j] = s[i]
      BY <3>1, TakenMembers
    <3> QED BY <3>2 DEF n
  <2>3. \A i \in 1..(k - 1) : s[i] # s[k]
    BY <1>1
  <2> QED BY <2>1, <2>2, <2>3
<1> HIDE DEF T, U
<1>5. Holds(k)
  <2> DEFINE q == T[k - 1]
             r == RemoveAt(T[k], p)
  <2>1. /\ q \in Seq(S) /\ s[k] \in S /\ p = Len(q) + 1
        /\ \A j \in DOMAIN q : q[j] # s[k]
    BY <1>1, <1>4
  <2>2. T[k] = Append(q, s[k]) /\ U[k] = q
    BY <1>1, <1>2, <1>3
  <2> HIDE DEF q, p
  <2>3. /\ T[k] \in Seq(S) /\ p \in DOMAIN T[k] /\ T[k][p] = s[k]
        /\ Len(T[k]) = p /\ p \in Nat \ {0} /\ Len(q) = p - 1
        /\ \A j \in 1..(p - 1) : T[k][j] = q[j]
        /\ \A j \in DOMAIN T[k] : j = p \/ j \in DOMAIN q
    BY <2>1, <2>2
  <2>4. /\ r \in Seq(S) /\ Len(r) = p - 1
        /\ \A j \in 1..(p - 1) : r[j] = T[k][j]
    <3>1. /\ r \in Seq(S) /\ Len(r) = Len(T[k]) - 1
          /\ \A j \in 1..(Len(T[k]) - 1) :
               r[j] = IF j < p THEN T[k][j] ELSE T[k][j + 1]
      BY <2>3, RemoveAtIsSeq
    <3> HIDE DEF r
    <3> QED BY <2>3, <3>1
  <2> HIDE DEF r
  <2>5. r = q
    BY <2>1, <2>3, <2>4
  <2>6. \A i \in DOMAIN T[k] : T[k][i] = s[k] => i = p
    BY <2>1, <2>3
  <2> QED BY <2>2, <2>3, <2>5, <2>6 DEF r
<1> HIDE DEF p
<1>6. 0 \in G
  BY <1>1
<1>7. ASSUME NEW m \in 1..Len(s), m - 1 \in G PROVE m \in G
  <2>1. CASE m < k
    BY <1>1, <2>1
  <2>2. CASE m = k
    BY <1>5, <1>1, <2>2
  <2>3. CASE m > k
    <3> DEFINE q == T[m - 1]
    <3>1. /\ q \in Seq(S) /\ p \in DOMAIN q /\ q[p] = s[k]
          /\ \A i \in DOMAIN q : q[i] = s[k] => i = p
          /\ U[m - 1] = RemoveAt(q, p)
      BY <1>1, <1>7, <2>3
    <3>2. m # k /\ m \in Nat /\ s[m] \in S /\ s[m] # s[k]
      BY <1>1, <2>3
    <3> HIDE DEF q
    <3>3. CASE m \notin I
      <4>1. T[m] = q /\ U[m] = U[m - 1]
        BY <1>2, <3>2, <3>3 DEF q
      <4> QED BY <3>1, <3>2, <4>1
    <3>4. CASE m \in I
      <4> DEFINE a == Append(q, s[m])
                 b == RemoveAt(q, p)
                 c == RemoveAt(a, p)
      <4>1. T[m] = a /\ U[m] = Append(b, s[m])
        BY <1>2, <3>1, <3>2, <3>4 DEF q
      <4>2. /\ a \in Seq(S) /\ Len(a) = Len(q) + 1 /\ p \in DOMAIN a
            /\ a[p] = s[k] /\ a[Len(q) + 1] = s[m] /\ Len(q) \in Nat
            /\ \A j \in 1..Len(q) : a[j] = q[j]
            /\ p \in 1..Len(q) /\ DOMAIN a = 1..(Len(q) + 1)
            /\ DOMAIN q = 1..Len(q)
        BY <3>1, <3>2
      <4> HIDE DEF a
      <4>3. /\ b \in Seq(S) /\ Len(b) = Len(q) - 1
            /\ \A j \in 1..(Len(q) - 1) :
                 b[j] = IF j < p THEN q[j] ELSE q[j + 1]
        BY <3>1, RemoveAtIsSeq
      <4>4. /\ c \in Seq(S) /\ Len(c) = Len(a) - 1
            /\ \A j \in 1..(Len(a) - 1) :
                 c[j] = IF j < p THEN a[j] ELSE a[j + 1]
        BY <4>2, RemoveAtIsSeq
      <4> HIDE DEF b, c
      <4>5. c = Append(b, s[m])
        <5> DEFINE d == Append(b, s[m])
        <5>1. /\ d \in Seq(S) /\ Len(d) = Len(q) /\ d[Len(q)] = s[m]
              /\ \A j \in 1..(Len(q) - 1) : d[j] = b[j]
          <6>1. /\ d \in Seq(S) /\ Len(d) = Len(b) + 1
                /\ d[Len(b) + 1] = s[m] /\ DOMAIN b = 1..Len(b)
                /\ \A j \in 1..Len(b) : d[j] = b[j]
            BY <3>2, <4>3
          <6>2. Len(b) + 1 = Len(q)
            BY <4>2, <4>3
          <6> HIDE DEF d
          <6> QED BY <4>3, <6>1, <6>2
        <5> HIDE DEF d
        <5>2. c \in Seq(S) /\ Len(c) = Len(d)
          BY <4>2, <4>4, <5>1
        <5>3. ASSUME NEW j \in 1..Len(q) PROVE c[j] = d[j]
          <6>1. c[j] = IF j < p THEN a[j] ELSE a[j + 1]
            BY <4>2, <4>4
          <6>2. CASE j < p
            <7>1. j \in 1..(Len(q) - 1) /\ a[j] = q[j]
              BY <4>2, <6>2
            <7> QED BY <4>3, <5>1, <6>1, <6>2, <7>1
          <6>3. CASE j >= p /\ j < Len(q)
            <7>1. j \in 1..(Len(q) - 1) /\ a[j + 1] = q[j + 1] /\ ~(j < p)
              BY <4>2, <6>3
            <7> QED BY <4>3, <5>1, <6>1, <7>1
          <6>4. CASE j = Len(q)
            BY <4>2, <5>1, <6>1, <6>4
          <6> QED BY <4>2, <6>2, <6>3, <6>4
        <5>4. c = d
          BY <5>1, <5>2, <5>3
        <5> QED BY <5>4 DEF d
      <4>6. T[m] = a /\ U[m] = c
        BY <4>1, <4>5
      <4>7. \A i \in DOMAIN a : a[i] = s[k] => i = p
        BY <3>1, <3>2, <4>2
      <4> QED BY <3>2, <4>2, <4>6, <4>7 DEF c
    <3> QED BY <3>3, <3>4
  <2> QED BY <1>1, <2>1, <2>2, <2>3
<1>8. Holds(Len(s))
  <2> HIDE DEF G, Holds
  <2>1. 0..Len(s) \subseteq G
    BY <1>1, <1>6, <1>7, UpTo
  <2> QED BY <1>1, <2>1 DEF G
<1>9. RemoveFirst(T[Len(s)], s[k]) = RemoveAt(T[Len(s)], p)
  BY <1>8, RemoveFirstAt
<1> QED BY <1>8, <1>9 DEF Pick, T, U

(* The first of those who are picked.                                      *)
LEMMA PickHead ==
  ASSUME NEW S, NEW s \in Seq(S), s # <<>>, NEW I, 1 \in I
  PROVE  Pick(s, I) # <<>> /\ Head(Pick(s, I)) = s[1]
<1> DEFINE T == Taken(s, I)
           G == {m \in Nat : 0 < m => T[m] # <<>> /\ Head(T[m]) = s[1]}
<1>1. /\ T[0] = <<>> /\ Len(s) \in Nat \ {0} /\ s[1] \in S
      /\ \A m \in 1..Len(s) :
           T[m] = IF m \in I THEN Append(T[m - 1], s[m]) ELSE T[m - 1]
  BY TakenFacts
<1>2. \A m \in 0..Len(s) : T[m] \in Seq(S)
  BY TakenMembers
<1> HIDE DEF T
<1>3. 0 \in G
  OBVIOUS
<1>4. ASSUME NEW m \in 1..Len(s), m - 1 \in G PROVE m \in G
  <2>1. m \in Nat /\ s[m] \in S /\ T[m - 1] \in Seq(S)
    BY <1>1, <1>2
  <2>2. CASE m = 1
    <3>1. T[1] = Append(<<>>, s[1])
      <4>1. 1 \in 1..Len(s) /\ 1 - 1 = 0
        BY <1>1
      <4> QED BY <1>1, <2>2, <4>1
    <3>2. Append(<<>>, s[1]) # <<>> /\ Head(Append(<<>>, s[1])) = s[1]
      <4>1. <<>> \in Seq(S) /\ Len(<<>>) = 0
        OBVIOUS
      <4>2. /\ Append(<<>>, s[1]) \in Seq(S)
            /\ Len(Append(<<>>, s[1])) = 1
            /\ Append(<<>>, s[1])[1] = s[1]
        BY <1>1, <4>1
      <4> QED BY <4>2
    <3> QED BY <2>2, <3>1, <3>2
  <2>3. CASE m # 1
    <3>1. T[m - 1] # <<>> /\ Head(T[m - 1]) = s[1]
      BY <1>4, <2>1, <2>3
    <3>2. /\ Append(T[m - 1], s[m]) # <<>>
          /\ Head(Append(T[m - 1], s[m])) = Head(T[m - 1])
      BY <2>1, <3>1
    <3> QED BY <1>1, <2>1, <3>1, <3>2
  <2> QED BY <2>2, <2>3
<1>5. Len(s) \in G
  <2> HIDE DEF G
  <2>0. Len(s) \in Nat
    BY <1>1
  <2>1. 0..Len(s) \subseteq G
    BY <1>3, <1>4, <2>0, UpTo
  <2> QED BY <1>1, <2>1
<1>6. T[Len(s)] # <<>> /\ Head(T[Len(s)]) = s[1]
  BY <1>1, <1>5
<1> QED BY <1>6 DEF Pick, T

(* The members of what is picked, and its type.                            *)
LEMMA PickMembers ==
  ASSUME NEW S, NEW s \in Seq(S), NEW I
  PROVE  /\ Pick(s, I) \in Seq(S)
         /\ ToSet(Pick(s, I)) = {s[i] : i \in I \cap DOMAIN s}
         /\ Pick(s, I) = <<>> <=> I \cap DOMAIN s = {}
<1> DEFINE p == Pick(s, I)
<1>1. /\ p \in Seq(S)
      /\ \A j \in DOMAIN p : \E i \in DOMAIN s : i \in I /\ p[j] = s[i]
      /\ \A i \in DOMAIN s : i \in I => \E j \in DOMAIN p : p[j] = s[i]
  <2> DEFINE n == Len(s)
  <2>1. n \in 0..Len(s) /\ DOMAIN s = 1..n
    OBVIOUS
  <2> HIDE DEF n
  <2>2. /\ Taken(s, I)[n] \in Seq(S)
        /\ \A j \in DOMAIN Taken(s, I)[n] :
             \E i \in 1..n : i \in I /\ Taken(s, I)[n][j] = s[i]
        /\ \A i \in 1..n :
             i \in I => \E j \in DOMAIN Taken(s, I)[n] :
                          Taken(s, I)[n][j] = s[i]
    BY <2>1, TakenMembers
  <2>3. p = Taken(s, I)[n]
    BY DEF Pick, n
  <2> HIDE DEF p
  <2> QED BY <2>1, <2>2, <2>3
<1> HIDE DEF p
<1>2. ToSet(p) = {s[i] : i \in I \cap DOMAIN s}
  BY <1>1 DEF ToSet
<1>3. p = <<>> <=> DOMAIN p = {}
  BY <1>1
<1>4. DOMAIN p = {} <=> I \cap DOMAIN s = {}
  BY <1>1
<1> QED BY <1>1, <1>2, <1>3, <1>4 DEF p

(* The head is picked and leaves.                                          *)
LEMMA PickTail ==
  ASSUME NEW S, NEW s \in Seq(S), s # <<>>, NEW I, 1 \in I,
         \A i \in DOMAIN s : s[i] = s[1] => i = 1,
         NEW J, \A j \in 1..(Len(s) - 1) : j \in J <=> j + 1 \in I
  PROVE  Pick(Tail(s), J) = RemoveFirst(Pick(s, I), s[1])
<1>1. 1 \in DOMAIN s /\ 1 \notin I \ {1} /\ Len(s) \in Nat
  OBVIOUS
<1>2. \A j \in 1..(Len(s) - 1) :
        j \in J <=> IF j < 1 THEN j \in I \ {1} ELSE j + 1 \in I \ {1}
  OBVIOUS
<1>3. Pick(RemoveAt(s, 1), J) = Pick(s, I \ {1})
  BY <1>1, <1>2, PickWithout
<1>4. Pick(s, I \ {1}) = RemoveFirst(Pick(s, I), s[1])
  BY <1>1, PickFewer
<1> QED BY <1>3, <1>4, RemoveHead

(* A set of positions has a last one. *)
LEMMA LastExists ==
  ASSUME NEW n \in Nat, NEW I \in SUBSET (1..n), I # {}
  PROVE  \E x \in I : \A y \in I : y <= x
<1> DEFINE J == {n - x : x \in I}
<1>0. \A x \in I : x \in Nat /\ n - x \in Nat
  OBVIOUS
<1>1. J \in SUBSET Nat /\ J # {}
  BY <1>0
<1>2. PICK z \in J : \A y \in J : z <= y
  BY <1>1, LeastExists
<1>3. PICK x \in I : z = n - x
  OBVIOUS
<1>4. ASSUME NEW y \in I PROVE y <= x
  <2>1. n - y \in J
    OBVIOUS
  <2>2. n - x <= n - y /\ x \in Nat /\ y \in Nat
    BY <1>0, <1>2, <1>3, <2>1
  <2> QED
    BY <2>2
<1> QED
  BY <1>4

(* The first element and the rest. *)
LEMMA HeadTail ==
  ASSUME NEW S, NEW s \in Seq(S), s # <<>>
  PROVE  Head(s) \in S /\ Tail(s) \in Seq(S)
OBVIOUS

(* The elements of a sequence that has got one more. *)
LEMMA Appended ==
  ASSUME NEW S, NEW s \in Seq(S), NEW e \in S
  PROVE  /\ Append(s, e) \in Seq(S)
         /\ DOMAIN Append(s, e) = DOMAIN s \cup {Len(s) + 1}
         /\ Append(s, e)[Len(s) + 1] = e
         /\ \A i \in DOMAIN s : Append(s, e)[i] = s[i]
OBVIOUS
==============================================================================
