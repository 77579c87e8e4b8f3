----------------------------- MODULE ListFacts -----------------------------
(***************************************************************************)
(* Facts about the lists of the library, for the proofs that use them:     *)
(* what push_back() and erase() do, and what a search from the front finds.*)
(***************************************************************************)
EXTENDS Integers, Sequences, Lists, SequencesExt, SequenceTheorems,
        WellFoundedInduction, TLAPS

(* The order of the natural numbers, as a relation.                        *)
LEMMA NatOrder ==
  \E R : /\ IsWellFoundedOn(R, Nat)
         /\ \A x, y \in Nat : <<y, x>> \in R <=> y < x
  <1>1. \A x, y \in Nat : <<y, x>> \in OpToRel(<, Nat) <=> y < x
    BY DEF OpToRel
  <1> QED
    BY <1>1, NatLessThanWellFounded

(* A set of natural numbers that is not empty has a least element.         *)
LEMMA LeastElement ==
  ASSUME NEW T, T \subseteq Nat, T # {}
  PROVE  Min(T) \in T /\ \A y \in T : Min(T) <= y
  <1>1. PICK R : /\ IsWellFoundedOn(R, Nat)
                 /\ \A x, y \in Nat : <<y, x>> \in R <=> y < x
    BY NatOrder
  <1>2. PICK x \in T : \A y \in T : ~(<<y, x>> \in R)
    BY <1>1, WFMin
  <1>3. \A y \in T : ~(y < x)
    BY <1>1, <1>2, Zenon
  <1>4. \A y \in T : x <= y
    BY <1>3
  <1> QED
    BY <1>4 DEF Min

(* What erase() leaves of a list: the entries before the erased one, and   *)
(* those after it moved by one.                                            *)
LEMMA RemoveAtProperties ==
  ASSUME NEW S, NEW s \in Seq(S), NEW i \in 1 .. Len(s)
  PROVE  /\ RemoveAt(s, i) \in Seq(S)
         /\ Len(RemoveAt(s, i)) = Len(s) - 1
         /\ \A j \in 1 .. Len(s) - 1 :
                RemoveAt(s, i)[j] = IF j < i THEN s[j] ELSE s[j + 1]
  <1> DEFINE a == SubSeq(s, 1, i - 1)
             b == SubSeq(s, i + 1, Len(s))
  <1>0. Len(s) \in Nat /\ \A j \in 1 .. Len(s) : s[j] \in S
    OBVIOUS
  <1>1. /\ a \in Seq(S) /\ Len(a) = i - 1
        /\ \A j \in 1 .. i - 1 : a[j] = s[j]
    <2>1. \A j \in 1 .. i - 1 : s[j] \in S
      BY <1>0
    <2> QED
      BY <1>0, <2>1, SubSeqProperties
  <1>2. /\ b \in Seq(S) /\ Len(b) = Len(s) - i
        /\ \A j \in 1 .. Len(s) - i : b[j] = s[i + j]
    <2>1. \A j \in i + 1 .. Len(s) : s[j] \in S
      BY <1>0
    <2> QED
      BY <1>0, <2>1, SubSeqProperties
  <1>3. RemoveAt(s, i) = a \o b
    BY DEF RemoveAt
  <1> HIDE DEF a, b
  <1>4. /\ a \o b \in Seq(S) /\ Len(a \o b) = Len(a) + Len(b)
        /\ \A j \in 1 .. Len(a) + Len(b) :
               (a \o b)[j] = IF j <= Len(a) THEN a[j] ELSE b[j - Len(a)]
    BY <1>1, <1>2, ConcatProperties
  <1> DEFINE c == a \o b
             m == Len(s)
  <1>5. /\ m \in Nat /\ i \in 1 .. m
        /\ c \in Seq(S) /\ Len(c) = m - 1
        /\ \A j \in 1 .. m - 1 :
               c[j] = IF j <= i - 1 THEN a[j] ELSE b[j - (i - 1)]
        /\ \A j \in 1 .. i - 1 : a[j] = s[j]
        /\ \A j \in 1 .. m - i : b[j] = s[i + j]
    <2>1. Len(a) = i - 1 /\ Len(b) = m - i /\ m \in Nat /\ i \in 1 .. m
      BY <1>0, <1>1, <1>2
    <2>2. Len(a) + Len(b) = m - 1
      BY <2>1
    <2> QED
      BY <1>1, <1>2, <1>4, <2>1, <2>2
  <1> HIDE DEF c, m
  <1>6. ASSUME NEW j \in 1 .. m - 1
        PROVE  c[j] = IF j < i THEN s[j] ELSE s[j + 1]
    <2>1. CASE j < i
      BY <1>5, <2>1
    <2>2. CASE j >= i
      <3>1. j - (i - 1) \in 1 .. m - i /\ i + (j - (i - 1)) = j + 1
        BY <1>5, <2>2
      <3>2. ~(j <= i - 1) /\ ~(j < i)
        BY <1>5, <2>2
      <3>3. c[j] = b[j - (i - 1)]
        BY <1>5, <3>2
      <3> QED
        BY <1>5, <3>1, <3>2, <3>3
    <2> QED
      BY <1>5, <2>1, <2>2
  <1> QED
    BY <1>3, <1>5, <1>6 DEF c, m

(* erase() keeps a list free of repetitions, and takes one value out of it.*)
LEMMA RemoveAtInjective ==
  ASSUME NEW S, NEW s \in Seq(S), NEW i \in 1 .. Len(s), IsInjective(s)
  PROVE  /\ IsInjective(RemoveAt(s, i))
         /\ ToSet(RemoveAt(s, i)) = ToSet(s) \ {s[i]}
  <1> DEFINE r == RemoveAt(s, i)
  <1>1. /\ r \in Seq(S) /\ Len(r) = Len(s) - 1 /\ Len(s) \in Nat
        /\ DOMAIN r = 1 .. Len(s) - 1 /\ DOMAIN s = 1 .. Len(s)
        /\ \A j \in 1 .. Len(s) - 1 : r[j] = IF j < i THEN s[j] ELSE s[j + 1]
    <2>1. Len(s) \in Nat /\ Len(s) - 1 \in Nat /\ DOMAIN s = 1 .. Len(s)
      OBVIOUS
    <2>2. /\ r \in Seq(S) /\ Len(r) = Len(s) - 1
          /\ \A j \in 1 .. Len(s) - 1 : r[j] = IF j < i THEN s[j] ELSE s[j + 1]
      BY RemoveAtProperties
    <2> HIDE DEF r
    <2>3. DOMAIN r = 1 .. Len(r)
      BY <2>2
    <2> QED
      BY <2>1, <2>2, <2>3
  <1> HIDE DEF r
  <1>2. IsInjective(r)
    <2> DEFINE at(j) == IF j < i THEN j ELSE j + 1
    <2>1. \A j \in DOMAIN r : at(j) \in DOMAIN s /\ r[j] = s[at(j)]
      BY <1>1
    <2>2. \A j, k \in DOMAIN r : at(j) = at(k) => j = k
      BY <1>1
    <2> HIDE DEF at
    <2> QED
      BY <2>1, <2>2 DEF IsInjective
  <1>3. ASSUME NEW x \in ToSet(r) PROVE x \in ToSet(s) \ {s[i]}
    BY <1>1, <1>3 DEF ToSet, IsInjective
  <1>4. ASSUME NEW x \in ToSet(s) \ {s[i]} PROVE x \in ToSet(r)
    <2>1. PICK j \in 1 .. Len(s) : x = s[j] /\ j # i
      BY <1>1 DEF ToSet
    <2>2. CASE j < i
      <3>1. j \in DOMAIN r /\ r[j] = x
        BY <1>1, <2>1, <2>2
      <3> QED
        BY <3>1 DEF ToSet
    <2>3. CASE j > i
      <3>1. j - 1 \in DOMAIN r /\ r[j - 1] = x
        BY <1>1, <2>1, <2>3
      <3> QED
        BY <3>1 DEF ToSet
    <2> QED
      BY <1>1, <2>1, <2>2, <2>3
  <1> QED
    BY <1>2, <1>3, <1>4 DEF r

(* What insert() makes of a list: the entry is there, those before it keep *)
(* their place, and those from there on moved by one.                      *)
LEMMA InsertAtProperties ==
  ASSUME NEW S, NEW s \in Seq(S), NEW i \in 1 .. Len(s), NEW x \in S
  PROVE  /\ InsertAt(s, i, x) \in Seq(S)
         /\ Len(InsertAt(s, i, x)) = Len(s) + 1
         /\ \A j \in 1 .. Len(s) + 1 :
                InsertAt(s, i, x)[j] = IF j < i THEN s[j]
                                       ELSE IF j = i THEN x ELSE s[j - 1]
  <1> DEFINE a == SubSeq(s, 1, i - 1)
             b == SubSeq(s, i, Len(s))
             p == Append(a, x)
             c == p \o b
             m == Len(s)
  <1>0. Len(s) \in Nat /\ \A j \in 1 .. Len(s) : s[j] \in S
    OBVIOUS
  <1>1. /\ a \in Seq(S) /\ Len(a) = i - 1
        /\ \A j \in 1 .. i - 1 : a[j] = s[j]
    <2>1. \A j \in 1 .. i - 1 : s[j] \in S
      BY <1>0
    <2> QED
      BY <1>0, <2>1, SubSeqProperties
  <1>2. /\ b \in Seq(S) /\ Len(b) = Len(s) - i + 1
        /\ \A j \in 1 .. Len(s) - i + 1 : b[j] = s[i + j - 1]
    <2>1. \A j \in i .. Len(s) : s[j] \in S
      BY <1>0
    <2> QED
      BY <1>0, <2>1, SubSeqProperties
  <1>3. InsertAt(s, i, x) = c
    <2>1. p = a \o <<x>>
      <3> HIDE DEF a
      <3> QED
        BY <1>1, AppendIsConcat
    <2> QED
      BY <2>1 DEF InsertAt
  <1> HIDE DEF a, b
  <1>4. /\ p \in Seq(S) /\ Len(p) = i /\ p[i] = x
        /\ \A j \in 1 .. i - 1 : p[j] = a[j]
    <2>1. /\ p \in Seq(S) /\ Len(p) = Len(a) + 1
          /\ \A j \in 1 .. Len(a) : p[j] = a[j]
          /\ p[Len(a) + 1] = x
      BY <1>1, AppendProperties
    <2>2. Len(a) = i - 1 /\ Len(a) + 1 = i
      BY <1>0, <1>1
    <2> QED
      BY <2>1, <2>2
  <1> HIDE DEF p
  <1>5. /\ c \in Seq(S) /\ Len(c) = Len(p) + Len(b)
        /\ \A j \in 1 .. Len(p) + Len(b) :
               c[j] = IF j <= Len(p) THEN p[j] ELSE b[j - Len(p)]
    BY <1>2, <1>4, ConcatProperties
  <1>6. /\ m \in Nat /\ i \in 1 .. m
        /\ c \in Seq(S) /\ Len(c) = m + 1
        /\ \A j \in 1 .. m + 1 : c[j] = IF j <= i THEN p[j] ELSE b[j - i]
        /\ \A j \in 1 .. i - 1 : p[j] = s[j]
        /\ p[i] = x
        /\ \A j \in 1 .. m - i + 1 : b[j] = s[i + j - 1]
    <2>1. Len(p) = i /\ Len(b) = m - i + 1 /\ m \in Nat /\ i \in 1 .. m
      BY <1>0, <1>2, <1>4
    <2>2. Len(p) + Len(b) = m + 1
      BY <2>1
    <2> QED
      BY <1>1, <1>2, <1>4, <1>5, <2>1, <2>2
  <1> HIDE DEF c, m
  <1>7. ASSUME NEW j \in 1 .. m + 1
        PROVE  c[j] = IF j < i THEN s[j] ELSE IF j = i THEN x ELSE s[j - 1]
    <2>1. CASE j <= i
      <3>1. c[j] = p[j]
        BY <1>6, <2>1
      <3>2. CASE j = i
        BY <1>6, <3>1, <3>2
      <3>3. CASE j < i
        <4>1. j \in 1 .. i - 1 /\ j # i
          BY <1>6, <3>3
        <4>2. p[j] = s[j]
          BY <1>6, <4>1
        <4> QED
          BY <3>1, <3>3, <4>2
      <3>4. j = i \/ j < i
        BY <1>6, <2>1
      <3> QED
        BY <3>2, <3>3, <3>4
    <2>2. CASE j > i
      <3>1. j - i \in 1 .. m - i + 1 /\ i + (j - i) - 1 = j - 1
        BY <1>6, <2>2
      <3>2. ~(j <= i) /\ ~(j < i) /\ j # i
        BY <1>6, <2>2
      <3>3. c[j] = b[j - i]
        BY <1>6, <3>2
      <3> QED
        BY <1>6, <3>1, <3>2, <3>3
    <2> QED
      BY <1>6, <2>1, <2>2
  <1> QED
    BY <1>3, <1>6, <1>7 DEF m

(* insert() of a value that the list does not hold.                        *)
LEMMA InsertAtInjective ==
  ASSUME NEW S, NEW s \in Seq(S), NEW i \in 1 .. Len(s), NEW x \in S,
         IsInjective(s), x \notin ToSet(s)
  PROVE  /\ IsInjective(InsertAt(s, i, x))
         /\ ToSet(InsertAt(s, i, x)) = ToSet(s) \cup {x}
  <1> DEFINE r == InsertAt(s, i, x)
  <1>1. /\ r \in Seq(S) /\ Len(s) \in Nat
        /\ DOMAIN r = 1 .. Len(s) + 1 /\ DOMAIN s = 1 .. Len(s)
        /\ \A j \in 1 .. Len(s) + 1 :
             r[j] = IF j < i THEN s[j] ELSE IF j = i THEN x ELSE s[j - 1]
    <2>1. Len(s) \in Nat /\ DOMAIN s = 1 .. Len(s)
      OBVIOUS
    <2>2. /\ r \in Seq(S) /\ Len(r) = Len(s) + 1
          /\ \A j \in 1 .. Len(s) + 1 :
               r[j] = IF j < i THEN s[j] ELSE IF j = i THEN x ELSE s[j - 1]
      <3> HIDE DEF r
      <3>1. r = InsertAt(s, i, x)
        BY DEF r
      <3>2. r \in Seq(S) /\ Len(r) = Len(s) + 1
        BY <3>1, InsertAtProperties
      <3>3. ASSUME NEW j \in 1 .. Len(s) + 1
            PROVE  r[j] = IF j < i THEN s[j] ELSE IF j = i THEN x ELSE s[j - 1]
        BY <3>1, InsertAtProperties
      <3> QED
        BY <3>2, <3>3
    <2> HIDE DEF r
    <2>3. DOMAIN r = 1 .. Len(r)
      BY <2>2
    <2> QED
      BY <2>1, <2>2, <2>3
  <1> HIDE DEF r
  <1>2. \A j \in DOMAIN s : s[j] # x
    BY DEF ToSet
  <1>3. IsInjective(r)
    <2> DEFINE at(j) == IF j < i THEN j ELSE j - 1
    <2>1. \A j \in DOMAIN r \ {i} : at(j) \in DOMAIN s /\ r[j] = s[at(j)]
      BY <1>1
    <2>2. \A j, k \in DOMAIN r \ {i} : at(j) = at(k) => j = k
      BY <1>1
    <2>3. r[i] = x
      BY <1>1
    <2> HIDE DEF at
    <2> QED
      BY <1>2, <2>1, <2>2, <2>3 DEF IsInjective
  <1>4. ASSUME NEW y \in ToSet(r) PROVE y \in ToSet(s) \cup {x}
    <2>1. PICK j \in 1 .. Len(s) + 1 : y = r[j]
      BY <1>1, <1>4 DEF ToSet
    <2>2. \/ j \in DOMAIN s /\ r[j] = s[j]
          \/ r[j] = x
          \/ j - 1 \in DOMAIN s /\ r[j] = s[j - 1]
      BY <1>1, <2>1
    <2> QED
      BY <2>1, <2>2 DEF ToSet
  <1>5. ASSUME NEW y \in ToSet(s) \cup {x} PROVE y \in ToSet(r)
    <2>1. CASE y = x
      <3>1. i \in DOMAIN r /\ r[i] = x
        BY <1>1
      <3> QED
        BY <2>1, <3>1 DEF ToSet
    <2>2. CASE y # x
      <3>1. PICK j \in 1 .. Len(s) : y = s[j]
        BY <1>1, <1>5, <2>2 DEF ToSet
      <3>2. CASE j < i
        <4>1. j \in DOMAIN r /\ r[j] = y
          BY <1>1, <3>1, <3>2
        <4> QED
          BY <4>1 DEF ToSet
      <3>3. CASE j >= i
        <4>1. j + 1 \in DOMAIN r /\ r[j + 1] = y
          BY <1>1, <3>1, <3>3
        <4> QED
          BY <4>1 DEF ToSet
      <3> QED
        BY <1>1, <3>1, <3>2, <3>3
    <2> QED
      BY <2>1, <2>2
  <1> QED
    BY <1>3, <1>4, <1>5 DEF r

(* push_back() of a value that the list does not hold.                     *)
LEMMA AppendInjectiveNew ==
  ASSUME NEW S, NEW s \in Seq(S), NEW x \in S
  PROVE  /\ ToSet(Append(s, x)) = ToSet(s) \cup {x}
         /\ IsInjective(s) /\ x \notin ToSet(s) => IsInjective(Append(s, x))
  <1> DEFINE a == Append(s, x)
  <1>1. /\ Len(s) \in Nat /\ DOMAIN s = 1 .. Len(s)
        /\ DOMAIN a = 1 .. Len(s) + 1
        /\ \A j \in 1 .. Len(s) : a[j] = s[j]
        /\ a[Len(s) + 1] = x
    BY AppendProperties
  <1> HIDE DEF a
  <1>2. ToSet(a) = ToSet(s) \cup {x}
    <2>1. ASSUME NEW y \in ToSet(a) PROVE y \in ToSet(s) \cup {x}
      BY <1>1, <2>1 DEF ToSet
    <2>2. ASSUME NEW y \in ToSet(s) \cup {x} PROVE y \in ToSet(a)
      <3>1. CASE y = x
        BY <1>1, <3>1 DEF ToSet
      <3>2. CASE y \in ToSet(s)
        BY <1>1, <3>2 DEF ToSet
      <3> QED
        BY <2>2, <3>1, <3>2
    <2> QED
      BY <2>1, <2>2
  <1>3. IsInjective(s) /\ x \notin ToSet(s) => IsInjective(a)
    BY <1>1 DEF IsInjective, ToSet
  <1> QED
    BY <1>2, <1>3 DEF a

(* Erasing a value where the search finds it takes nothing else out of     *)
(* the list.                                                               *)
LEMMA RemoveFirstProperties ==
  ASSUME NEW S, NEW s \in Seq(S), NEW x \in ToSet(s)
  PROVE  /\ RemoveFirst(s, x) \in Seq(S)
         /\ ToSet(RemoveFirst(s, x)) \subseteq ToSet(s)
         /\ ToSet(s) \ {x} \subseteq ToSet(RemoveFirst(s, x))
  <1> DEFINE I == {i \in 1 .. Len(s) : s[i] = x}
             k == Min(I)
             r == RemoveAt(s, k)
  <1>0. Len(s) \in Nat /\ DOMAIN s = 1 .. Len(s)
    OBVIOUS
  <1>1. I # {} /\ I \subseteq Nat
    BY <1>0 DEF ToSet
  <1>2. k \in 1 .. Len(s) /\ s[k] = x
    <2>1. k \in I
      BY <1>1, LeastElement
    <2> QED
      BY <2>1
  <1>3. RemoveFirst(s, x) = r
    <2>1. \E i \in 1 .. Len(s) : s[i] = x
      BY <1>2
    <2> QED
      BY <1>1, <2>1 DEF RemoveFirst, SelectInSeq
  <1> HIDE DEF k
  <1>4. /\ r \in Seq(S) /\ Len(r) = Len(s) - 1
        /\ DOMAIN r = 1 .. Len(s) - 1
        /\ \A j \in 1 .. Len(s) - 1 : r[j] = IF j < k THEN s[j] ELSE s[j + 1]
    BY <1>2, RemoveAtProperties
  <1> HIDE DEF r, I
  <1>5. ASSUME NEW y \in ToSet(r) PROVE y \in ToSet(s)
    BY <1>0, <1>2, <1>4, <1>5 DEF ToSet
  <1>6. ASSUME NEW y \in ToSet(s) \ {x} PROVE y \in ToSet(r)
    <2>1. PICK j \in 1 .. Len(s) : y = s[j] /\ j # k
      BY <1>0, <1>2 DEF ToSet
    <2>2. CASE j < k
      <3>1. j \in DOMAIN r /\ r[j] = y
        BY <1>0, <1>2, <1>4, <2>1, <2>2
      <3> QED
        BY <3>1 DEF ToSet
    <2>3. CASE j > k
      <3>1. j - 1 \in DOMAIN r /\ r[j - 1] = y
        BY <1>0, <1>2, <1>4, <2>1, <2>3
      <3> QED
        BY <3>1 DEF ToSet
    <2> QED
      BY <1>2, <2>1, <2>2, <2>3
  <1> QED
    BY <1>3, <1>4, <1>5, <1>6

(* A loop that erases entries has kept the others, each once if they were  *)
(* there once.  That the recursion has a value at every entry, and what it *)
(* f[i] is what a loop that erases entries leaves of the first i.          *)
Leaves(f, s, gone) ==
    /\ f[0] = <<>>
    /\ \A i \in 1 .. Len(s) :
         f[i] = IF s[i] \in gone THEN f[i - 1] ELSE Append(f[i - 1], s[i])

(* The recursive function of Without exists, and its values are the lists  *)
(* that remain of the beginnings of s.                                     *)
LEMMA WithoutComputed ==
  ASSUME NEW S, NEW s \in Seq(S), NEW gone
  PROVE  \E kept : Without(s, gone) = kept[Len(s)] /\ Leaves(kept, s, gone)
  <1> DEFINE Body(f, i) == IF i = 0 THEN <<>>
                           ELSE IF s[i] \in gone THEN f[i - 1]
                           ELSE Append(f[i - 1], s[i])
             Computed(f, n) == f = [i \in 0 .. n |-> Body(f, i)]
             k == CHOOSE f : Computed(f, Len(s))
  <1>0. /\ Len(s) \in Nat /\ DOMAIN s = 1 .. Len(s)
        /\ \A i \in 1 .. Len(s) : s[i] \in S
    OBVIOUS
  <1>1. Without(s, gone) = k[Len(s)]
    BY DEF Without
  <1>2. \E f : Computed(f, Len(s))
    <2> DEFINE T == {n \in Nat : ~ \E f : Computed(f, n)}
    <2> SUFFICES ASSUME T # {} PROVE FALSE
      BY <1>0
    <2>1. PICK n \in T : \A y \in T : n <= y
      BY LeastElement
    <2>2. n # 0
      <3> DEFINE z == [i \in 0 .. 0 |-> <<>>]
      <3>1. Computed(z, 0)
        OBVIOUS
      <3> HIDE DEF z, Computed
      <3> QED
        BY <2>1, <3>1
    <2>3. n \in Nat /\ n - 1 \in Nat /\ n - 1 \notin T
      <3>1. n \in Nat /\ n - 1 \in Nat
        BY <2>1, <2>2
      <3> HIDE DEF T
      <3> QED
        BY <2>1, <3>1
    <2>4. PICK f : Computed(f, n - 1)
      BY <2>3
    <2> DEFINE g == [i \in 0 .. n |-> IF i = n THEN Body(f, n) ELSE f[i]]
    <2>5. \A i \in 0 .. n - 1 : f[i] = Body(f, i) /\ g[i] = f[i]
      <3>1. f = [i \in 0 .. n - 1 |-> Body(f, i)]
        BY <2>4
      <3> HIDE DEF Body
      <3>2. \A i \in 0 .. n - 1 : f[i] = Body(f, i)
        BY <3>1, Zenon
      <3>3. \A i \in 0 .. n - 1 : g[i] = f[i]
        BY <2>3
      <3> QED
        BY <3>2, <3>3
    <2>6. g = [i \in 0 .. n |-> Body(g, i)]
      <3>1. ASSUME NEW i \in 0 .. n PROVE g[i] = Body(g, i)
        <4>1. CASE i = 0
          <5>1. i \in 0 .. n - 1
            BY <4>1, <2>3
          <5>2. g[i] = Body(f, i)
            BY <5>1, <2>5
          <5> QED
            BY <4>1, <5>2
        <4>2. CASE i # 0
          <5>1. i - 1 \in 0 .. n - 1
            BY <4>2, <2>3
          <5>2. g[i - 1] = f[i - 1]
            BY <5>1, <2>5
          <5>3. Body(g, i) = Body(f, i)
            BY <5>2
          <5>4. g[i] = Body(f, i)
            <6> HIDE DEF Body
            <6>1. CASE i = n
              BY <6>1
            <6>2. CASE i # n
              <7>1. i \in 0 .. n - 1
                BY <6>2, <2>3
              <7> QED
                BY <7>1, <2>5
            <6> QED
              BY <6>1, <6>2
          <5> QED
            BY <5>3, <5>4
        <4> QED
          BY <4>1, <4>2
      <3> HIDE DEF Body
      <3>2. \A i \in 0 .. n : g[i] = Body(g, i)
        BY <3>1
      <3>3. g = [i \in 0 .. n |-> g[i]]
        OBVIOUS
      <3> QED
        BY <3>2, <3>3
    <2>7. Computed(g, n)
      BY <2>6
    <2> HIDE DEF Computed, g
    <2> QED
      BY <2>1, <2>7
  <1>3. Computed(k, Len(s))
    <2> HIDE DEF Computed
    <2> QED
      BY <1>2
  <1>4. \A i \in 0 .. Len(s) : k[i] = Body(k, i)
    <2> HIDE DEF k
    <2> QED
      BY <1>3
  <1> HIDE DEF k
  <1>5. /\ k[0] = <<>>
        /\ \A i \in 1 .. Len(s) :
             k[i] = IF s[i] \in gone THEN k[i - 1]
                       ELSE Append(k[i - 1], s[i])
    BY <1>0, <1>4
  <1> HIDE DEF Computed, Body
  <1> QED
    BY <1>1, <1>5 DEF Leaves

(* is, is shown by looking at the first entry where it would fail.         *)
LEMMA WithoutProperties ==
  ASSUME NEW S, NEW s \in Seq(S), NEW gone
  PROVE  /\ Without(s, gone) \in Seq(S)
         /\ ToSet(Without(s, gone)) = ToSet(s) \ gone
         /\ IsInjective(s) => IsInjective(Without(s, gone))
  <1>0. /\ Len(s) \in Nat /\ DOMAIN s = 1 .. Len(s)
        /\ \A i \in 1 .. Len(s) : s[i] \in S
    OBVIOUS
  <1>5. PICK kept : Without(s, gone) = kept[Len(s)] /\ Leaves(kept, s, gone)
    BY WithoutComputed
  <1> USE DEF Leaves
  <1> DEFINE Before(n) == {s[i] : i \in 1 .. n}
             Good(n) == /\ kept[n] \in Seq(S)
                        /\ ToSet(kept[n]) = Before(n) \ gone
                        /\ IsInjective(s) => IsInjective(kept[n])
             T == {n \in 0 .. Len(s) : ~Good(n)}
  <1>6. T = {}
    <2> SUFFICES ASSUME T # {} PROVE FALSE
      OBVIOUS
    <2>0. T \subseteq Nat
      BY <1>0
    <2>1. PICK n \in T : \A y \in T : n <= y
      BY <2>0, LeastElement
    <2>2. n # 0
      <3>1. kept[0] \in Seq(S) /\ ToSet(kept[0]) = {} /\ IsInjective(kept[0])
        BY <1>5 DEF ToSet, IsInjective
      <3>2. Before(0) = {}
        OBVIOUS
      <3> QED
        BY <2>1, <3>1, <3>2
    <2>3. n \in 1 .. Len(s) /\ n - 1 \in 0 .. Len(s) /\ n - 1 \notin T
      <3> HIDE DEF Good
      <3>1. n \in 1 .. Len(s) /\ n - 1 \in 0 .. Len(s)
        BY <1>0, <2>1, <2>2
      <3> HIDE DEF T
      <3> QED
        BY <1>0, <2>1, <3>1
    <2>4. Good(n - 1)
      BY <2>3
    <2>5. Before(n) = Before(n - 1) \cup {s[n]}
      BY <2>3
    <2>6. s[n] \in S
      BY <2>3, <1>0
    <2>7. CASE s[n] \in gone
      <3>1. kept[n] = kept[n - 1]
        BY <1>5, <2>3, <2>7
      <3>2. Before(n) \ gone = Before(n - 1) \ gone
        BY <2>5, <2>7
      <3> HIDE DEF Before
      <3> QED
        BY <2>1, <2>4, <3>1, <3>2
    <2>8. CASE s[n] \notin gone
      <3>1. kept[n] = Append(kept[n - 1], s[n])
        BY <1>5, <2>3, <2>8
      <3>2. IsInjective(s) => s[n] \notin Before(n - 1)
        BY <1>0, <2>3 DEF IsInjective
      <3>3. Before(n) \ gone = (Before(n - 1) \ gone) \cup {s[n]}
        BY <2>5, <2>8
      <3> HIDE DEF Before
      <3>4. /\ ToSet(kept[n]) = ToSet(kept[n - 1]) \cup {s[n]}
            /\ IsInjective(kept[n - 1]) /\ s[n] \notin ToSet(kept[n - 1])
                 => IsInjective(kept[n])
        BY <2>4, <2>6, <3>1, AppendInjectiveNew
      <3>5. kept[n] \in Seq(S)
        BY <2>4, <2>6, <3>1
      <3> QED
        BY <2>1, <2>4, <3>2, <3>3, <3>4, <3>5
    <2> QED
      BY <2>7, <2>8
  <1>7. Good(Len(s))
    <2> HIDE DEF Good
    <2>1. Len(s) \in 0 .. Len(s)
      BY <1>0
    <2> QED
      BY <1>6, <2>1
  <1>8. Before(Len(s)) = ToSet(s)
    BY <1>0 DEF ToSet
  <1> QED
    BY <1>5, <1>7, <1>8

(* Induction up to n, over a set of numbers instead of a predicate.        *)
LEMMA UpTo ==
  ASSUME NEW n \in Nat, NEW good, 0 \in good,
         \A i \in 1 .. n : i - 1 \in good => i \in good
  PROVE  \A i \in 0 .. n : i \in good
  <1> DEFINE T == {i \in 0 .. n : i \notin good}
  <1> SUFFICES ASSUME T # {} PROVE FALSE
    OBVIOUS
  <1>0. T \subseteq Nat
    OBVIOUS
  <1>1. PICK k \in T : \A y \in T : k <= y
    BY <1>0, LeastElement
  <1>2. k \in 1 .. n /\ k - 1 \in 0 .. n
    BY <1>1
  <1>3. k - 1 \notin T
    <2> HIDE DEF T
    <2> QED
      BY <1>1, <1>2
  <1>4. k - 1 \in good
    BY <1>2, <1>3
  <1> QED
    BY <1>1, <1>2, <1>4

(* Entries that are erased from one list may stand for different ones in   *)
(* the other.                                                              *)
LEMMA WithoutSame ==
  ASSUME NEW S, NEW s \in Seq(S), NEW t \in Seq(S), NEW a, NEW b,
         Len(s) = Len(t),
         \A i \in 1 .. Len(s) : \/ s[i] \in a /\ t[i] \in b
                                \/ s[i] \notin a /\ t[i] \notin b /\ s[i] = t[i]
  PROVE  Without(s, a) = Without(t, b)
  <1>1. PICK k : Without(s, a) = k[Len(s)] /\ Leaves(k, s, a)
    BY WithoutComputed
  <1>2. PICK l : Without(t, b) = l[Len(t)] /\ Leaves(l, t, b)
    BY WithoutComputed
  <1> USE DEF Leaves
  <1> DEFINE good == {i \in 0 .. Len(s) : k[i] = l[i]}
  <1>3. 0 \in good
    BY <1>1, <1>2
  <1>4. ASSUME NEW i \in 1 .. Len(s), i - 1 \in good PROVE i \in good
    <2>1. k[i - 1] = l[i - 1] /\ i \in 0 .. Len(s) /\ i \in 1 .. Len(t)
      BY <1>4
    <2>2. CASE s[i] \in a /\ t[i] \in b
      <3>1. k[i] = k[i - 1] /\ l[i] = l[i - 1]
        BY <1>1, <1>2, <2>1, <2>2
      <3> QED
        BY <2>1, <3>1
    <2>3. CASE s[i] \notin a /\ t[i] \notin b /\ s[i] = t[i]
      <3>1. k[i] = Append(k[i - 1], s[i]) /\ l[i] = Append(l[i - 1], t[i])
        BY <1>1, <1>2, <2>1, <2>3
      <3> QED
        BY <2>1, <2>3, <3>1
    <2> QED
      BY <2>2, <2>3
  <1>5. Len(s) \in Nat
    OBVIOUS
  <1> HIDE DEF good
  <1>6. \A i \in 0 .. Len(s) : i \in good
    BY <1>3, <1>4, <1>5, UpTo
  <1>7. Len(s) \in good
    BY <1>5, <1>6
  <1> QED
    BY <1>1, <1>2, <1>7 DEF good

(* A list none of whose entries is erased stays as it is.                  *)
LEMMA WithoutNone ==
  ASSUME NEW S, NEW s \in Seq(S), NEW gone, ToSet(s) \cap gone = {}
  PROVE  Without(s, gone) = s
  <1>1. PICK k : Without(s, gone) = k[Len(s)] /\ Leaves(k, s, gone)
    BY WithoutComputed
  <1> USE DEF Leaves
  <1> DEFINE Begins(i) == /\ k[i] \in Seq(S) /\ Len(k[i]) = i
                          /\ \A j \in 1 .. i : k[i][j] = s[j]
             good == {i \in 0 .. Len(s) : Begins(i)}
  <1>2. Len(s) \in Nat /\ \A i \in 1 .. Len(s) : s[i] \in S /\ s[i] \notin gone
    BY DEF ToSet
  <1>3. 0 \in good
    <2>1. k[0] = <<>>
      BY <1>1
    <2>2. k[0] \in Seq(S) /\ Len(k[0]) = 0
      BY <2>1, EmptySeq
    <2>3. 0 \in 0 .. Len(s) /\ \A j \in 1 .. 0 : k[0][j] = s[j]
      BY <1>2
    <2> QED
      BY <2>2, <2>3
  <1>4. ASSUME NEW i \in 1 .. Len(s), i - 1 \in good PROVE i \in good
    <2>1. Begins(i - 1) /\ i \in 0 .. Len(s) /\ s[i] \in S /\ i \in Nat
      BY <1>2, <1>4
    <2>2. k[i] = Append(k[i - 1], s[i])
      BY <1>1, <1>2, <1>4
    <2>3. k[i] \in Seq(S) /\ Len(k[i]) = i
      BY <2>1, <2>2
    <2>4. ASSUME NEW j \in 1 .. i PROVE k[i][j] = s[j]
      <3>1. CASE j = i
        BY <2>1, <2>2, <3>1
      <3>2. CASE j # i
        <4>1. j \in 1 .. i - 1 /\ i - 1 \in Nat
          BY <2>1, <3>2
        <4>2. k[i][j] = k[i - 1][j]
          BY <2>1, <2>2, <4>1
        <4> QED
          BY <2>1, <4>1, <4>2
      <3> QED
        BY <3>1, <3>2
    <2> QED
      BY <2>1, <2>3, <2>4
  <1> HIDE DEF good
  <1>5. \A i \in 0 .. Len(s) : i \in good
    BY <1>2, <1>3, <1>4, UpTo
  <1>6. Begins(Len(s))
    BY <1>2, <1>5 DEF good
  <1>7. /\ Without(s, gone) \in Seq(S) /\ Len(Without(s, gone)) = Len(s)
        /\ \A i \in 1 .. Len(Without(s, gone)) : Without(s, gone)[i] = s[i]
    BY <1>1, <1>6
  <1> QED
    BY <1>7, SeqEqual

(* A list all of whose entries are erased becomes empty.                   *)
LEMMA WithoutAll ==
  ASSUME NEW S, NEW s \in Seq(S), NEW gone, ToSet(s) \subseteq gone
  PROVE  Without(s, gone) = <<>>
  <1>1. Without(s, gone) \in Seq(S) /\ ToSet(Without(s, gone)) = ToSet(s) \ gone
    BY WithoutProperties
  <1> DEFINE w == Without(s, gone)
  <1> HIDE DEF w
  <1>2. w \in Seq(S) /\ ToSet(w) = {}
    BY <1>1 DEF w
  <1>3. DOMAIN w = {}
    BY <1>2 DEF ToSet
  <1>4. Len(w) = 0
    BY <1>2, <1>3
  <1>5. w = <<>>
    BY <1>2, <1>4
  <1> QED
    BY <1>5 DEF w

(* Erasing from two lists in a row.                                        *)
LEMMA WithoutConcat ==
  ASSUME NEW S, NEW s \in Seq(S), NEW t \in Seq(S), NEW gone
  PROVE  Without(s \o t, gone) = Without(s, gone) \o Without(t, gone)
  <1> DEFINE u == s \o t
  <1>0. /\ u \in Seq(S) /\ Len(u) = Len(s) + Len(t)
        /\ Len(s) \in Nat /\ Len(t) \in Nat
        /\ \A i \in 1 .. Len(s) : u[i] = s[i]
        /\ \A i \in 1 .. Len(t) : u[Len(s) + i] = t[i]
        /\ \A i \in 1 .. Len(t) : t[i] \in S
        /\ \A i \in 1 .. Len(s) : s[i] \in S
    OBVIOUS
  <1> HIDE DEF u
  <1>1. PICK k : Without(s, gone) = k[Len(s)] /\ Leaves(k, s, gone)
    BY WithoutComputed
  <1>2. PICK l : Without(t, gone) = l[Len(t)] /\ Leaves(l, t, gone)
    BY WithoutComputed
  <1>3. PICK m : Without(u, gone) = m[Len(u)] /\ Leaves(m, u, gone)
    BY <1>0, WithoutComputed
  <1> USE DEF Leaves
  <1>4. m[Len(s)] = k[Len(s)]
    <2> DEFINE good == {i \in 0 .. Len(s) : m[i] = k[i]}
    <2>1. 0 \in good
      BY <1>0, <1>1, <1>3
    <2>2. ASSUME NEW i \in 1 .. Len(s), i - 1 \in good PROVE i \in good
      <3>1. m[i - 1] = k[i - 1] /\ i \in 0 .. Len(s) /\ i \in 1 .. Len(u)
            /\ u[i] = s[i]
        BY <1>0, <2>2
      <3>2. /\ m[i] = IF u[i] \in gone THEN m[i - 1] ELSE Append(m[i - 1], u[i])
            /\ k[i] = IF s[i] \in gone THEN k[i - 1] ELSE Append(k[i - 1], s[i])
        BY <1>1, <1>3, <3>1
      <3>3. m[i] = k[i]
        BY <3>1, <3>2
      <3> QED
        BY <3>1, <3>3
    <2> HIDE DEF good
    <2>3. \A i \in 0 .. Len(s) : i \in good
      BY <1>0, <2>1, <2>2, UpTo
    <2> QED
      BY <1>0, <2>3 DEF good
  <1> DEFINE w == Without(s, gone)
             good == {i \in 0 .. Len(t) :
                        l[i] \in Seq(S) /\ m[Len(s) + i] = w \o l[i]}
  <1>5. w \in Seq(S)
    BY WithoutProperties
  <1> HIDE DEF w
  <1>6. 0 \in good
    <2>1. m[Len(s) + 0] = w
      BY <1>0, <1>1, <1>4 DEF w
    <2>2. w \o <<>> = w
      BY <1>5, ConcatEmptySeq
    <2>3. l[0] = <<>> /\ <<>> \in Seq(S) /\ 0 \in 0 .. Len(t)
      BY <1>0, <1>2, EmptySeq
    <2>4. m[Len(s) + 0] = w \o l[0]
      BY <2>1, <2>2, <2>3
    <2> QED
      BY <2>3, <2>4
  <1>7. ASSUME NEW i \in 1 .. Len(t), i - 1 \in good PROVE i \in good
    <2>1. /\ l[i - 1] \in Seq(S) /\ m[Len(s) + (i - 1)] = w \o l[i - 1]
          /\ i \in 0 .. Len(t) /\ Len(s) + i \in 1 .. Len(u)
          /\ Len(s) + i - 1 = Len(s) + (i - 1)
          /\ u[Len(s) + i] = t[i] /\ t[i] \in S
      BY <1>0, <1>7
    <2>2. m[Len(s) + i] = IF t[i] \in gone THEN w \o l[i - 1]
                          ELSE Append(w \o l[i - 1], t[i])
      <3>1. m[Len(s) + i] =
                IF u[Len(s) + i] \in gone THEN m[Len(s) + i - 1]
                ELSE Append(m[Len(s) + i - 1], u[Len(s) + i])
        <4> DEFINE j == Len(s) + i
        <4> HIDE DEF j
        <4>1. j \in 1 .. Len(u)
          BY <2>1 DEF j
        <4>2. m[j] = IF u[j] \in gone THEN m[j - 1] ELSE Append(m[j - 1], u[j])
          BY <1>3, <4>1
        <4> QED
          BY <4>2 DEF j
      <3> QED
        BY <2>1, <3>1
    <2>3. l[i] = IF t[i] \in gone THEN l[i - 1] ELSE Append(l[i - 1], t[i])
      BY <1>2, <1>7
    <2>4. Append(w \o l[i - 1], t[i]) = w \o Append(l[i - 1], t[i])
      <3> DEFINE x == t[i]
                 v == l[i - 1]
      <3> HIDE DEF x, v
      <3>1. x \in S /\ v \in Seq(S)
        BY <2>1 DEF x, v
      <3> DEFINE a == Append(w \o v, x)
                 b == w \o Append(v, x)
      <3>2. a \in Seq(S) /\ b \in Seq(S) /\ Len(a) = Len(b)
        BY <1>5, <3>1
      <3>3. ASSUME NEW j \in 1 .. Len(a) PROVE a[j] = b[j]
        <4>1. /\ Len(w) \in Nat /\ Len(v) \in Nat
              /\ Len(a) = Len(w) + Len(v) + 1 /\ j \in Nat
          BY <1>5, <3>1
        <4>2. CASE j <= Len(w)
          BY <1>5, <3>1, <4>1, <4>2
        <4>3. CASE j > Len(w) /\ j <= Len(w) + Len(v)
          BY <1>5, <3>1, <4>1, <4>3
        <4>4. CASE j = Len(w) + Len(v) + 1
          BY <1>5, <3>1, <4>1, <4>4
        <4> QED
          BY <3>3, <4>1, <4>2, <4>3, <4>4
      <3>4. a = b
        <4> HIDE DEF a, b
        <4> QED
          BY <3>2, <3>3, SeqEqual
      <3> QED
        BY <3>4 DEF x, v
    <2>5. Append(l[i - 1], t[i]) \in Seq(S)
      BY <2>1
    <2> QED
      BY <2>1, <2>2, <2>3, <2>4, <2>5
  <1> HIDE DEF good
  <1>8. \A i \in 0 .. Len(t) : i \in good
    BY <1>0, <1>6, <1>7, UpTo
  <1>9. m[Len(s) + Len(t)] = w \o l[Len(t)]
    BY <1>0, <1>8 DEF good
  <1> QED
    BY <1>0, <1>2, <1>3, <1>9 DEF u, w

(* The lists a recursive walk appends one after the other: f[i] is what it *)
(* has appended after the i-th.                                            *)
LEMMA FlattenComputed ==
  ASSUME NEW S, NEW seqs \in Seq(Seq(S)), seqs # <<>>
  PROVE  \E f : /\ FlattenSeq(seqs) = f[Len(seqs)] /\ f[1] = seqs[1]
                /\ \A i \in 2 .. Len(seqs) : f[i] = f[i - 1] \o seqs[i]
  <1> DEFINE Body(f, i) == IF i = 1 THEN seqs[i] ELSE f[i - 1] \o seqs[i]
             Computed(f, n) == f = [i \in 1 .. n |-> Body(f, i)]
             k == CHOOSE f : Computed(f, Len(seqs))
             good == {n \in Nat : \E f : Computed(f, n)}
  <1>0. Len(seqs) \in Nat \ {0}
    BY EmptySeq
  <1>1. FlattenSeq(seqs) = k[Len(seqs)]
    BY <1>0 DEF FlattenSeq
  <1>2. 0 \in good
    <2> DEFINE z == [i \in 1 .. 0 |-> <<>>]
    <2>1. Computed(z, 0)
      OBVIOUS
    <2> HIDE DEF z, Computed
    <2> QED
      BY <2>1
  <1>3. ASSUME NEW n \in 1 .. Len(seqs), n - 1 \in good PROVE n \in good
    <2>1. PICK f : Computed(f, n - 1)
      BY <1>3
    <2> DEFINE g == [i \in 1 .. n |-> IF i = n THEN Body(f, n) ELSE f[i]]
    <2>2. n \in Nat /\ n - 1 \in Nat
      BY <1>0
    <2>3. \A i \in 1 .. n - 1 : f[i] = Body(f, i) /\ g[i] = f[i]
      <3>1. f = [i \in 1 .. n - 1 |-> Body(f, i)]
        BY <2>1
      <3> HIDE DEF Body
      <3>2. \A i \in 1 .. n - 1 : f[i] = Body(f, i)
        BY <3>1, Zenon
      <3>3. \A i \in 1 .. n - 1 : g[i] = f[i]
        BY <2>2
      <3> QED
        BY <3>2, <3>3
    <2>4. ASSUME NEW i \in 1 .. n PROVE g[i] = Body(g, i)
      <3>1. Body(g, i) = Body(f, i)
        <4>1. CASE i = 1
          BY <4>1
        <4>2. CASE i # 1
          <5>1. i - 1 \in 1 .. n - 1
            BY <2>2, <4>2
          <5>2. g[i - 1] = f[i - 1]
            BY <2>3, <5>1
          <5> QED
            BY <5>2
        <4> QED
          BY <4>1, <4>2
      <3> HIDE DEF Body
      <3>2. CASE i = n
        BY <3>1, <3>2
      <3>3. CASE i # n
        <4>1. i \in 1 .. n - 1
          BY <2>2, <3>3
        <4> QED
          BY <2>3, <3>1, <4>1
      <3> QED
        BY <3>2, <3>3
    <2>5. Computed(g, n)
      <3> HIDE DEF Body
      <3>1. \A i \in 1 .. n : g[i] = Body(g, i)
        BY <2>4
      <3>2. g = [i \in 1 .. n |-> g[i]]
        OBVIOUS
      <3> HIDE DEF g
      <3> QED
        BY <3>1, <3>2
    <2> HIDE DEF Computed, g
    <2> QED
      BY <2>2, <2>5
  <1>4. \E f : Computed(f, Len(seqs))
    <2> HIDE DEF good
    <2>1. \A i \in 0 .. Len(seqs) : i \in good
      BY <1>0, <1>2, <1>3, UpTo
    <2>2. Len(seqs) \in good
      BY <1>0, <2>1
    <2> HIDE DEF Computed
    <2> QED
      BY <2>2 DEF good
  <1>5. Computed(k, Len(seqs))
    <2> HIDE DEF Computed
    <2> QED
      BY <1>4
  <1>6. \A i \in 1 .. Len(seqs) : k[i] = Body(k, i)
    <2> HIDE DEF k
    <2>1. k = [i \in 1 .. Len(seqs) |-> Body(k, i)]
      BY <1>5
    <2> HIDE DEF Body
    <2> QED
      BY <2>1, Zenon
  <1> HIDE DEF k
  <1>7. k[1] = seqs[1] /\ \A i \in 2 .. Len(seqs) : k[i] = k[i - 1] \o seqs[i]
    <2>1. k[1] = seqs[1]
      BY <1>0, <1>6
    <2>2. ASSUME NEW i \in 2 .. Len(seqs) PROVE k[i] = k[i - 1] \o seqs[i]
      <3>1. i \in 1 .. Len(seqs) /\ i # 1
        BY <1>0
      <3>2. k[i] = Body(k, i)
        BY <1>6, <3>1
      <3> QED
        BY <3>1, <3>2
    <2> QED
      BY <2>1, <2>2
  <1> HIDE DEF Computed, Body
  <1> QED
    BY <1>1, <1>7

(* A list is one of whatever its elements belong to.                       *)
LEMMA ListOf ==
  ASSUME NEW S, NEW s \in Seq(S), NEW T, ToSet(s) \subseteq T
  PROVE  s \in Seq(T)
  <1>1. Len(s) \in Nat /\ s \in [1 .. Len(s) -> S]
    BY LenProperties
  <1>2. s \in [1 .. Len(s) -> T]
    BY <1>1 DEF ToSet
  <1> QED
    BY <1>1, <1>2, SeqDef

(* Erasing after push_back().                                              *)
LEMMA WithoutAppend ==
  ASSUME NEW S, NEW s \in Seq(S), NEW x \in S, NEW gone
  PROVE  Without(Append(s, x), gone) =
            IF x \in gone THEN Without(s, gone) ELSE Append(Without(s, gone), x)
  <1> DEFINE w == Without(s, gone)
  <1>1. Append(s, x) = s \o <<x>> /\ <<x>> \in Seq(S)
    OBVIOUS
  <1>2. Without(s \o <<x>>, gone) = w \o Without(<<x>>, gone) /\ w \in Seq(S)
    <2> DEFINE one == <<x>>
    <2>1. one \in Seq(S)
      BY <1>1
    <2> HIDE DEF one
    <2>2. Without(s \o one, gone) = w \o Without(one, gone)
      BY <2>1, WithoutConcat DEF w
    <2>3. w \in Seq(S)
      BY WithoutProperties
    <2> QED
      BY <2>2, <2>3, Zenon DEF one
  <1>3. ToSet(<<x>>) = {x}
    BY DEF ToSet
  <1> HIDE DEF w
  <1>4. CASE x \in gone
    <2>1. Without(<<x>>, gone) = <<>>
      BY <1>1, <1>3, <1>4, WithoutAll
    <2>2. w \o <<>> = w
      BY <1>2, ConcatEmptySeq
    <2> QED
      BY <1>1, <1>2, <1>4, <2>1, <2>2 DEF w
  <1>5. CASE x \notin gone
    <2>1. Without(<<x>>, gone) = <<x>>
      BY <1>1, <1>3, <1>5, WithoutNone
    <2>2. w \o <<x>> = Append(w, x)
      BY <1>2
    <2> QED
      BY <1>1, <1>2, <1>5, <2>1, <2>2 DEF w
  <1> QED
    BY <1>4, <1>5

(* Erasing when the entries before the i-th are erased in any case.        *)
LEMMA WithoutPrefix ==
  ASSUME NEW S, NEW s \in Seq(S), NEW gone, NEW i \in 1 .. Len(s),
         \A j \in 1 .. i - 1 : s[j] \in gone
  PROVE  LET rest == Without(SubSeq(s, i + 1, Len(s)), gone)
         IN  Without(s, gone) = IF s[i] \in gone THEN rest ELSE <<s[i]>> \o rest
  <1> DEFINE a == SubSeq(s, 1, i - 1)
             b == <<s[i]>>
             c == SubSeq(s, i + 1, Len(s))
             rest == Without(c, gone)
  <1>0. Len(s) \in Nat /\ \A j \in 1 .. Len(s) : s[j] \in S
    OBVIOUS
  <1>1. /\ a \in Seq(S) /\ Len(a) = i - 1
        /\ \A j \in 1 .. i - 1 : a[j] = s[j]
    BY <1>0
  <1>2. b \in Seq(S) /\ Len(b) = 1 /\ b[1] = s[i] /\ ToSet(b) = {s[i]}
    BY <1>0 DEF ToSet
  <1>3. /\ c \in Seq(S) /\ Len(c) = Len(s) - i
        /\ \A j \in 1 .. Len(s) - i : c[j] = s[i + j]
    BY <1>0
  <1>4. ToSet(a) \subseteq gone
    <2> HIDE DEF a
    <2>1. DOMAIN a = 1 .. i - 1
      BY <1>1
    <2> QED
      BY <1>1, <2>1 DEF ToSet
  <1>5. s = a \o (b \o c)
    <2> HIDE DEF a, b, c
    <2> DEFINE d == b \o c
    <2>1. /\ d \in Seq(S) /\ Len(d) = Len(s) - i + 1 /\ d[1] = s[i]
          /\ \A j \in 2 .. Len(s) - i + 1 : d[j] = s[i + (j - 1)]
      <3>0. /\ d \in Seq(S) /\ Len(d) = Len(b) + Len(c)
            /\ \A j \in 1 .. Len(b) + Len(c) :
                  d[j] = IF j <= Len(b) THEN b[j] ELSE c[j - Len(b)]
        <4>1. b \in Seq(S) /\ c \in Seq(S)
          BY <1>2, <1>3
        <4> QED
          BY <4>1, ConcatProperties
      <3> HIDE DEF d
      <3>1. d \in Seq(S) /\ Len(d) = Len(s) - i + 1 /\ d[1] = s[i]
        BY <1>0, <1>2, <1>3, <3>0
      <3>2. ASSUME NEW j \in 2 .. Len(s) - i + 1 PROVE d[j] = s[i + (j - 1)]
        <4>1. j - 1 \in 1 .. Len(s) - i /\ j > 1 /\ j <= Len(b) + Len(c)
          BY <1>0, <1>2, <1>3
        <4>2. d[j] = c[j - 1]
          BY <1>2, <1>3, <3>0, <4>1
        <4> QED
          BY <1>3, <4>1, <4>2
      <3> QED
        BY <3>1, <3>2
    <2> HIDE DEF d
    <2> DEFINE e == a \o d
    <2>2. e \in Seq(S) /\ Len(e) = Len(s)
      BY <1>0, <1>1, <2>1
    <2>3. ASSUME NEW j \in 1 .. Len(s) PROVE e[j] = s[j]
      <3>1. CASE j <= i - 1
        BY <1>0, <1>1, <2>1, <3>1
      <3>2. CASE j = i
        BY <1>0, <1>1, <2>1, <3>2
      <3>3. CASE j > i
        <4>1. j - (i - 1) \in 2 .. Len(s) - i + 1
              /\ i + ((j - (i - 1)) - 1) = j
          BY <1>0, <3>3
        <4>2. e[j] = d[j - (i - 1)]
          BY <1>0, <1>1, <2>1, <3>3
        <4> QED
          BY <2>1, <4>1, <4>2
      <3>4. j \in Nat /\ i \in Nat
        BY <1>0
      <3>5. j <= i - 1 \/ j = i \/ j > i
        BY <3>4
      <3> QED
        BY <3>1, <3>2, <3>3, <3>5, Zenon
    <2> HIDE DEF e
    <2>4. s = e
      BY <2>2, <2>3, SeqEqual
    <2> QED
      BY <2>4 DEF e, d
  <1> HIDE DEF a, b, c
  <1>6. b \o c \in Seq(S)
    BY <1>2, <1>3
  <1>7. Without(s, gone) = Without(a, gone) \o Without(b \o c, gone)
    <2> DEFINE d == b \o c
    <2>1. d \in Seq(S) /\ s = a \o d
      BY <1>5, <1>6
    <2> HIDE DEF d
    <2>2. Without(a \o d, gone) = Without(a, gone) \o Without(d, gone)
      BY <1>1, <2>1, WithoutConcat
    <2> QED
      BY <2>1, <2>2, Zenon DEF d
  <1>8. Without(a, gone) = <<>>
    BY <1>1, <1>4, WithoutAll
  <1>9. Without(b \o c, gone) = Without(b, gone) \o rest
    BY <1>2, <1>3, WithoutConcat
  <1>10. Without(b, gone) \in Seq(S) /\ rest \in Seq(S)
    BY <1>2, <1>3, WithoutProperties
  <1> HIDE DEF rest
  <1>11. Without(s, gone) = Without(b, gone) \o rest
    <2>1. Without(b, gone) \o rest \in Seq(S)
      BY <1>10
    <2> QED
      BY <1>7, <1>8, <1>9, <2>1, ConcatEmptySeq
  <1>12. CASE s[i] \in gone
    <2>1. Without(b, gone) = <<>>
      BY <1>2, <1>12, WithoutAll
    <2>2. <<>> \o rest = rest
      BY <1>10, ConcatEmptySeq
    <2> QED
      BY <1>11, <1>12, <2>1, <2>2 DEF rest, c
  <1>13. CASE s[i] \notin gone
    <2>1. Without(b, gone) = b
      BY <1>2, <1>13, WithoutNone
    <2> QED
      BY <1>11, <1>13, <2>1 DEF rest, b, c
  <1> QED
    BY <1>12, <1>13

(* The elements of two lists in a row.                                     *)
LEMMA ConcatElements ==
  ASSUME NEW S, NEW s \in Seq(S), NEW t \in Seq(S)
  PROVE  s \o t \in Seq(S) /\ ToSet(s \o t) = ToSet(s) \cup ToSet(t)
  <1> DEFINE u == s \o t
  <1>1. /\ u \in Seq(S) /\ Len(u) = Len(s) + Len(t)
        /\ \A i \in 1 .. Len(s) + Len(t) :
              u[i] = IF i <= Len(s) THEN s[i] ELSE t[i - Len(s)]
    BY ConcatProperties
  <1>2. /\ Len(s) \in Nat /\ Len(t) \in Nat
        /\ DOMAIN s = 1 .. Len(s) /\ DOMAIN t = 1 .. Len(t)
    OBVIOUS
  <1> HIDE DEF u
  <1>3. DOMAIN u = 1 .. Len(s) + Len(t)
    BY <1>1
  <1>4. ToSet(u) \subseteq ToSet(s) \cup ToSet(t)
    <2> SUFFICES ASSUME NEW i \in 1 .. Len(s) + Len(t)
                 PROVE  u[i] \in ToSet(s) \cup ToSet(t)
      BY <1>3 DEF ToSet
    <2>1. CASE i <= Len(s)
      BY <1>1, <1>2, <2>1 DEF ToSet
    <2>2. CASE i > Len(s)
      <3>1. i - Len(s) \in DOMAIN t /\ u[i] = t[i - Len(s)]
        BY <1>1, <1>2, <2>2
      <3> QED
        BY <3>1 DEF ToSet
    <2> QED
      BY <1>2, <2>1, <2>2
  <1>5. ASSUME NEW i \in DOMAIN s PROVE s[i] \in ToSet(u)
    <2>1. i \in DOMAIN u /\ u[i] = s[i]
      BY <1>1, <1>2, <1>3
    <2> QED
      BY <2>1 DEF ToSet
  <1>6. ASSUME NEW i \in DOMAIN t PROVE t[i] \in ToSet(u)
    <2>1. /\ Len(s) + i \in 1 .. Len(s) + Len(t) /\ ~(Len(s) + i <= Len(s))
          /\ Len(s) + i - Len(s) = i
      BY <1>2
    <2>2. u[Len(s) + i] = t[i]
      BY <1>1, <2>1
    <2> QED
      BY <1>3, <2>1, <2>2 DEF ToSet
  <1>7. ToSet(s) \cup ToSet(t) \subseteq ToSet(u)
    BY <1>5, <1>6 DEF ToSet
  <1> QED
    BY <1>1, <1>4, <1>7 DEF u

(* What follows the i-th element.                                          *)
LEMMA SuffixProperties ==
  ASSUME NEW S, NEW s \in Seq(S), NEW i \in 1 .. Len(s)
  PROVE  /\ SubSeq(s, i + 1, Len(s)) \in Seq(S)
         /\ ToSet(SubSeq(s, i + 1, Len(s))) \subseteq ToSet(s)
  <1> DEFINE r == SubSeq(s, i + 1, Len(s))
  <1>1. Len(s) \in Nat /\ \A j \in 1 .. Len(s) : s[j] \in S
    OBVIOUS
  <1>2. /\ r \in Seq(S) /\ Len(r) = Len(s) - i
        /\ \A j \in 1 .. Len(s) - i : r[j] = s[i + j]
    BY <1>1
  <1> HIDE DEF r
  <1>3. /\ DOMAIN r = 1 .. Len(s) - i
        /\ \A j \in 1 .. Len(s) - i : i + j \in DOMAIN s
    BY <1>1, <1>2
  <1>4. ToSet(r) \subseteq ToSet(s)
    BY <1>2, <1>3 DEF ToSet
  <1> QED
    BY <1>2, <1>4 DEF r

(* What pop_front() takes and what it leaves.                              *)
LEMMA PopFront ==
  ASSUME NEW S, NEW s \in Seq(S), s # <<>>
  PROVE  /\ Head(s) \in S /\ Tail(s) \in Seq(S)
         /\ Head(s) \in ToSet(s) /\ ToSet(s) = {Head(s)} \cup ToSet(Tail(s))
         /\ IsInjective(s) => IsInjective(Tail(s)) /\ Head(s) \notin ToSet(Tail(s))
  <1> DEFINE t == Tail(s)
             n == Len(s)
  <1>1. /\ n \in Nat /\ n # 0 /\ DOMAIN s = 1 .. n /\ \A i \in 1 .. n : s[i] \in S
        /\ Head(s) = s[1]
    OBVIOUS
  <1>2. t \in Seq(S) /\ Len(t) = n - 1 /\ \A i \in 1 .. n - 1 : t[i] = s[i + 1]
    BY HeadTailProperties
  <1> HIDE DEF t, n
  <1>3. DOMAIN t = 1 .. n - 1 /\ \A i \in 1 .. n - 1 : i + 1 \in 1 .. n /\ i + 1 # 1
    BY <1>1, <1>2
  <1>4. 1 \in 1 .. n
    BY <1>1
  <1>5. ToSet(t) \subseteq ToSet(s) /\ s[1] \in ToSet(s)
    BY <1>1, <1>2, <1>3, <1>4 DEF ToSet
  <1>6. ASSUME NEW x \in ToSet(s), x # s[1] PROVE x \in ToSet(t)
    <2>1. PICK i \in 1 .. n : x = s[i]
      BY <1>1 DEF ToSet
    <2>2. i # 1
      BY <1>6, <2>1
    <2>3. i - 1 \in 1 .. n - 1 /\ (i - 1) + 1 = i
      BY <1>1, <2>2
    <2>4. t[i - 1] = x
      BY <1>2, <2>1, <2>3
    <2> QED
      BY <1>3, <2>3, <2>4 DEF ToSet
  <1>7. ASSUME IsInjective(s)
        PROVE  IsInjective(t) /\ s[1] \notin ToSet(t)
    <2>1. \A i, j \in 1 .. n - 1 : i + 1 = j + 1 => i = j
      BY <1>1
    <2>2. \A i, j \in 1 .. n : s[i] = s[j] => i = j
      BY <1>1, <1>7 DEF IsInjective
    <2>3. IsInjective(t)
      BY <1>2, <1>3, <2>1, <2>2 DEF IsInjective
    <2> QED
      BY <1>2, <1>3, <1>4, <2>2, <2>3 DEF ToSet
  <1>8. ToSet(s) = {s[1]} \cup ToSet(t)
    BY <1>5, <1>6
  <1> QED
    BY <1>1, <1>2, <1>4, <1>5, <1>7, <1>8 DEF t

(* Two lists without repetitions that have nothing in common.              *)
LEMMA ConcatInjective ==
  ASSUME NEW S, NEW s \in Seq(S), NEW t \in Seq(S),
         IsInjective(s), IsInjective(t), ToSet(s) \cap ToSet(t) = {}
  PROVE  IsInjective(s \o t)
  <1> DEFINE u == s \o t
             m == Len(s)
             n == Len(t)
  <1>1. /\ u \in Seq(S) /\ Len(u) = m + n
        /\ \A i \in 1 .. m + n : u[i] = IF i <= m THEN s[i] ELSE t[i - m]
    BY ConcatProperties
  <1>2. m \in Nat /\ n \in Nat /\ DOMAIN s = 1 .. m /\ DOMAIN t = 1 .. n
    OBVIOUS
  <1> HIDE DEF u, m, n
  <1>3. DOMAIN u = 1 .. m + n
    BY <1>1, <1>2
  <1>4. /\ \A i, j \in 1 .. m : s[i] = s[j] => i = j
        /\ \A i, j \in 1 .. n : t[i] = t[j] => i = j
        /\ \A i \in 1 .. m, j \in 1 .. n : s[i] # t[j]
    BY <1>2 DEF IsInjective, ToSet
  <1>5. ASSUME NEW i \in 1 .. m + n, NEW j \in 1 .. m + n, u[i] = u[j]
        PROVE  i = j
    <2>1. CASE i <= m /\ j <= m
      <3>1. i \in 1 .. m /\ j \in 1 .. m /\ s[i] = s[j]
        BY <1>1, <1>2, <1>5, <2>1
      <3> QED
        BY <3>1, <1>4
    <2>2. CASE ~(i <= m) /\ ~(j <= m)
      <3>1. i - m \in 1 .. n /\ j - m \in 1 .. n /\ t[i - m] = t[j - m]
        BY <1>1, <1>2, <1>5, <2>2
      <3>2. i - m = j - m
        BY <3>1, <1>4
      <3> QED
        BY <3>2, <1>2
    <2>3. CASE i <= m /\ ~(j <= m)
      <3>1. i \in 1 .. m /\ j - m \in 1 .. n /\ s[i] = t[j - m]
        BY <1>1, <1>2, <1>5, <2>3
      <3> QED
        BY <3>1, <1>4
    <2>4. CASE ~(i <= m) /\ j <= m
      <3>1. i - m \in 1 .. n /\ j \in 1 .. m /\ s[j] = t[i - m]
        BY <1>1, <1>2, <1>5, <2>4
      <3> QED
        BY <3>1, <1>4
    <2> QED
      BY <2>1, <2>2, <2>3, <2>4
  <1> QED
    BY <1>3, <1>5 DEF IsInjective, u
=============================================================================
