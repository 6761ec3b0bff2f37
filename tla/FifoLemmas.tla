----------------------------- MODULE FifoLemmas -----------------------------
(***************************************************************************)
(* What appending to, taking from and removing from a FIFO without         *)
(* duplicates does to the set of its members.  The queues of the project   *)
(* are reasoned about through these facts only.  At the end, what the      *)
(* proofs by induction need: induction over the natural numbers for a set, *)
(* and how many members a stretch of a queue has.                          *)
(***************************************************************************)
EXTENDS Integers, FiniteSets, SequencesExt, SequenceTheorems,
        FiniteSetTheorems, TLAPS

\* A queue is empty exactly when it has no member.
LEMMA FifoEmpty ==
    ASSUME NEW S, NEW s \in Seq(S)
    PROVE  s = <<>> <=> ToSet(s) = {}
<1>1. DOMAIN s = 1..Len(s) /\ Len(s) \in Nat
    OBVIOUS
<1>2. s = <<>> => ToSet(s) = {}
    BY <1>1 DEF ToSet
<1>3. ASSUME s # <<>> PROVE ToSet(s) # {}
    <2>1. Len(s) >= 1 /\ 1 \in DOMAIN s
        BY <1>1, <1>3
    <2>2. s[1] \in ToSet(s)
        BY <2>1 DEF ToSet
    <2> QED BY <2>2
<1> QED BY <1>2, <1>3

\* A queue without duplicates has one member exactly when it is one long.
LEMMA FifoSingleton ==
    ASSUME NEW S, NEW s \in Seq(S), NEW x, IsInjective(s)
    PROVE  s = <<x>> <=> ToSet(s) = {x}
<1>1. DOMAIN s = 1..Len(s) /\ Len(s) \in Nat
    OBVIOUS
<1>2. s = <<x>> => ToSet(s) = {x}
    BY DEF ToSet
<1>3. ASSUME ToSet(s) = {x} PROVE s = <<x>>
    <2>1. \A i \in 1..Len(s) : s[i] = x
        BY <1>1, <1>3 DEF ToSet
    <2>2. Len(s) # 0
        BY <1>1, <1>3 DEF ToSet
    <2>3. ~(Len(s) >= 2)
        <3>1. SUFFICES ASSUME Len(s) >= 2 PROVE FALSE
            OBVIOUS
        <3>2. 1 \in DOMAIN s /\ 2 \in DOMAIN s /\ s[1] = s[2]
            BY <1>1, <2>1, <3>1
        <3> QED BY <3>2 DEF IsInjective
    <2>4. Len(s) = 1 /\ s[1] = x
        BY <1>1, <2>1, <2>2, <2>3
    <2> QED BY <2>4
<1> QED BY <1>2, <1>3

\* Appending a newcomer adds it and keeps the queue free of duplicates.
LEMMA FifoAppend ==
    ASSUME NEW S, NEW s \in Seq(S), NEW x \in S, x \notin ToSet(s), IsInjective(s)
    PROVE  /\ Append(s, x) \in Seq(S)
           /\ ToSet(Append(s, x)) = ToSet(s) \cup {x}
           /\ IsInjective(Append(s, x))
           /\ Append(s, x) # <<>>
<1> DEFINE t == Append(s, x)
<1>1. /\ t \in Seq(S) /\ Len(t) = Len(s) + 1 /\ Len(s) \in Nat
      /\ DOMAIN t = 1..(Len(s) + 1) /\ DOMAIN s = 1..Len(s)
      /\ \A i \in 1..Len(s) : t[i] = s[i]
      /\ t[Len(s) + 1] = x
    OBVIOUS
<1> HIDE DEF t
<1>2. ToSet(t) = ToSet(s) \cup {x}
    BY <1>1 DEF ToSet
<1>3. \A i \in 1..Len(s) : s[i] # x
    BY <1>1 DEF ToSet
<1>4. IsInjective(t)
    BY <1>1, <1>3 DEF IsInjective
<1>5. t # <<>>
    BY <1>1
<1> QED BY <1>1, <1>2, <1>4, <1>5 DEF t

\* Taking the head removes exactly the head.
LEMMA FifoTail ==
    ASSUME NEW S, NEW s \in Seq(S), s # <<>>, IsInjective(s)
    PROVE  /\ Head(s) \in ToSet(s) /\ Head(s) \in S
           /\ Tail(s) \in Seq(S)
           /\ ToSet(Tail(s)) = ToSet(s) \ {Head(s)}
           /\ IsInjective(Tail(s))
           /\ Tail(s) = <<>> <=> Len(s) = 1
<1> DEFINE t == Tail(s)
<1>1. /\ t \in Seq(S) /\ Len(t) = Len(s) - 1 /\ Len(s) \in Nat /\ Len(s) >= 1
      /\ DOMAIN t = 1..(Len(s) - 1) /\ DOMAIN s = 1..Len(s)
      /\ \A i \in 1..(Len(s) - 1) : t[i] = s[i + 1]
      /\ Head(s) = s[1]
    OBVIOUS
<1> HIDE DEF t
<1>2. Head(s) \in ToSet(s) /\ Head(s) \in S
    BY <1>1 DEF ToSet
<1>3. \A i \in 1..(Len(s) - 1) : s[i + 1] # s[1]
    <2> SUFFICES ASSUME NEW i \in 1..(Len(s) - 1), s[i + 1] = s[1] PROVE FALSE
        OBVIOUS
    <2>1. i + 1 \in 1..Len(s) /\ 1 \in 1..Len(s) /\ i + 1 # 1
        BY <1>1
    <2> QED BY <1>1, <2>1 DEF IsInjective
<1>4. ToSet(t) \subseteq ToSet(s) \ {Head(s)}
    BY <1>1, <1>3 DEF ToSet
<1>5. ASSUME NEW y \in ToSet(s) \ {Head(s)} PROVE y \in ToSet(t)
    <2>1. PICK i \in 1..Len(s) : y = s[i]
        BY <1>1 DEF ToSet
    <2>2. i # 1
        BY <2>1, <1>1
    <2>3. i - 1 \in DOMAIN t /\ t[i - 1] = y
        BY <2>1, <2>2, <1>1
    <2> QED BY <2>3 DEF ToSet
<1>6. IsInjective(t)
    BY <1>1 DEF IsInjective
<1>7. t = <<>> <=> Len(s) = 1
    BY <1>1
<1> QED BY <1>1, <1>2, <1>4, <1>5, <1>6, <1>7 DEF t

\* Where the members of a queue are once one of them is removed.
LEMMA FifoRemoveAt ==
    ASSUME NEW S, NEW s \in Seq(S), NEW i \in 1..Len(s), NEW x, s[i] = x, IsInjective(s)
    PROVE  /\ RemoveFirst(s, x) \in Seq(S)
           /\ Len(RemoveFirst(s, x)) = Len(s) - 1
           /\ DOMAIN RemoveFirst(s, x) = 1..(Len(s) - 1)
           /\ \A j \in 1..(Len(s) - 1) :
                 RemoveFirst(s, x)[j] = IF j < i THEN s[j] ELSE s[j + 1]
<1>0. DOMAIN s = 1..Len(s) /\ Len(s) \in Nat
    OBVIOUS
<1>1. s[i] = x /\ \E k \in 1..Len(s) : s[k] = x
    OBVIOUS
<1>2. {j \in 1..Len(s) : s[j] = x} = {i}
    BY <1>0, <1>1 DEF IsInjective
<1>3. SelectInSeq(s, LAMBDA v : v = x) = i
    BY <1>2, <1>0 DEF SelectInSeq, Min
<1>4. RemoveFirst(s, x) = SubSeq(s, 1, i - 1) \o SubSeq(s, i + 1, Len(s))
    BY <1>1, <1>3 DEF RemoveFirst, RemoveAt
<1> DEFINE t == SubSeq(s, 1, i - 1) \o SubSeq(s, i + 1, Len(s))
<1>5. /\ t \in Seq(S) /\ Len(t) = Len(s) - 1 /\ DOMAIN t = 1..(Len(s) - 1)
      /\ \A j \in 1..(Len(s) - 1) : t[j] = IF j < i THEN s[j] ELSE s[j + 1]
    <2> DEFINE a == SubSeq(s, 1, i - 1)
               b == SubSeq(s, i + 1, Len(s))
               c == a \o b
    <2>0. /\ \A k \in 1..(i - 1) : s[k] \in S
          /\ \A k \in (i + 1)..Len(s) : s[k] \in S
          /\ i \in Int /\ 1 \in Int /\ i - 1 \in Int /\ i + 1 \in Int /\ Len(s) \in Int
        BY <1>0
    <2>1. /\ a \in Seq(S) /\ Len(a) = i - 1
          /\ \A j \in 1..(i - 1) : a[j] = s[j]
        BY <1>0, <2>0, SubSeqProperties
    <2>2. /\ b \in Seq(S)
          /\ Len(b) = IF i + 1 <= Len(s) THEN Len(s) - (i + 1) + 1 ELSE 0
          /\ \A j \in 1..(Len(s) - (i + 1) + 1) : b[j] = s[(i + 1) + j - 1]
        BY <2>0, SubSeqProperties
    <2> HIDE DEF a, b
    <2>3. Len(b) = Len(s) - i
        <3>1. Len(b) = IF i + 1 <= Len(s) THEN Len(s) - (i + 1) + 1 ELSE 0
            BY <2>2
        <3>2. i \in Int /\ i <= Len(s) /\ Len(s) \in Int
            BY <1>0
        <3> QED BY <3>1, <3>2
    <2>4. ASSUME NEW j \in 1..(Len(s) - i) PROVE b[j] = s[j + i]
        <3>1. j \in 1..(Len(s) - (i + 1) + 1) /\ (i + 1) + j - 1 = j + i
            BY <1>0
        <3> QED BY <3>1, <2>2
    <2>5. /\ c \in Seq(S) /\ Len(c) = Len(a) + Len(b)
          /\ \A j \in 1..(Len(a) + Len(b)) :
                c[j] = IF j <= Len(a) THEN a[j] ELSE b[j - Len(a)]
        BY <2>1, <2>2, ConcatProperties
    <2> HIDE DEF c
    <2>6. Len(c) = Len(s) - 1 /\ DOMAIN c = 1..(Len(s) - 1)
        BY <1>0, <2>1, <2>3, <2>5
    <2>7. ASSUME NEW j \in 1..(Len(s) - 1)
          PROVE  c[j] = IF j < i THEN s[j] ELSE s[j + 1]
        <3>1. CASE j < i
            <4>1. j \in 1..(i - 1) /\ j \in 1..(Len(a) + Len(b)) /\ j <= Len(a)
                BY <3>1, <1>0, <2>1, <2>3
            <4>2. c[j] = a[j] /\ a[j] = s[j]
                BY <4>1, <2>1, <2>5
            <4> QED BY <3>1, <4>2
        <3>2. CASE ~(j < i)
            <4>1. j - (i - 1) \in 1..(Len(s) - i) /\ ~(j <= i - 1)
                BY <3>2, <1>0
            <4>a. /\ j \in 1..(Len(a) + Len(b)) /\ ~(j <= Len(a))
                  /\ j - Len(a) = j - (i - 1)
                BY <1>0, <2>1, <2>3, <4>1
            <4>b. c[j] = b[j - Len(a)]
                BY <2>5, <4>a
            <4>2. c[j] = b[j - (i - 1)]
                BY <4>a, <4>b
            <4>3. b[j - (i - 1)] = s[(j - (i - 1)) + i] /\ (j - (i - 1)) + i = j + 1
                BY <4>1, <2>4
            <4> QED BY <3>2, <4>2, <4>3
        <3> QED BY <3>1, <3>2
    <2>8. t = c
        BY DEF a, b, c
    <2> QED BY <2>5, <2>6, <2>7, <2>8
<1> HIDE DEF t
<1>6. RemoveFirst(s, x) = t
    BY <1>4 DEF t
<1> QED BY <1>5, <1>6

\* Removing a member leaves the others, each once.
LEMMA FifoRemove ==
    ASSUME NEW S, NEW s \in Seq(S), NEW x, IsInjective(s)
    PROVE  /\ RemoveFirst(s, x) \in Seq(S)
           /\ ToSet(RemoveFirst(s, x)) = ToSet(s) \ {x}
           /\ IsInjective(RemoveFirst(s, x))
<1>0. DOMAIN s = 1..Len(s) /\ Len(s) \in Nat
    OBVIOUS
<1>1. CASE ~ \E i \in 1..Len(s) : s[i] = x
    <2>1. RemoveFirst(s, x) = s
        BY <1>1 DEF RemoveFirst
    <2>2. x \notin ToSet(s)
        BY <1>0, <1>1 DEF ToSet
    <2> QED BY <2>1, <2>2
<1>2. CASE \E i \in 1..Len(s) : s[i] = x
    <2>1. PICK i \in 1..Len(s) : s[i] = x
        BY <1>2
    <2> DEFINE t == RemoveFirst(s, x)
    <2>5. /\ t \in Seq(S) /\ Len(t) = Len(s) - 1 /\ DOMAIN t = 1..(Len(s) - 1)
          /\ \A j \in 1..(Len(s) - 1) : t[j] = IF j < i THEN s[j] ELSE s[j + 1]
        BY <2>1, FifoRemoveAt
    <2> HIDE DEF t
    <2>6. IsInjective(t)
        <3> SUFFICES ASSUME NEW j \in 1..(Len(s) - 1), NEW k \in 1..(Len(s) - 1), t[j] = t[k]
                     PROVE  j = k
            BY <2>5 DEF IsInjective
        <3> DEFINE f(n) == IF n < i THEN n ELSE n + 1
        <3>1. t[j] = s[f(j)] /\ t[k] = s[f(k)]
            BY <2>5
        <3>2. f(j) \in 1..Len(s) /\ f(k) \in 1..Len(s)
            BY <1>0
        <3>3. f(j) = f(k)
            <4> HIDE DEF f
            <4> QED BY <1>0, <3>1, <3>2 DEF IsInjective
        <3> QED BY <1>0, <3>3
    <2>7. ToSet(t) \subseteq ToSet(s) \ {x}
        BY <2>1, <2>5, <1>0 DEF ToSet, IsInjective
    <2>8. ASSUME NEW y \in ToSet(s) \ {x} PROVE y \in ToSet(t)
        <3>1. PICK j \in 1..Len(s) : y = s[j]
            BY <1>0 DEF ToSet
        <3>2. j # i
            BY <2>1, <3>1
        <3>3. CASE j < i
            <4>1. j \in 1..(Len(s) - 1) /\ t[j] = y
                BY <3>3, <3>1, <2>5, <1>0
            <4> QED BY <4>1, <2>5 DEF ToSet
        <3>4. CASE j > i
            <4>1. j - 1 \in 1..(Len(s) - 1) /\ t[j - 1] = y
                BY <3>4, <3>1, <2>1, <2>5, <1>0
            <4> QED BY <4>1, <2>5 DEF ToSet
        <3> QED BY <3>1, <3>2, <3>3, <3>4
    <2> QED BY <2>5, <2>6, <2>7, <2>8 DEF t
<1> QED BY <1>1, <1>2

\* Moving the head of a queue to its back keeps its members.
LEMMA FifoRotate ==
    ASSUME NEW S, NEW s \in Seq(S), s # <<>>, IsInjective(s)
    PROVE  /\ Append(Tail(s), Head(s)) \in Seq(S)
           /\ ToSet(Append(Tail(s), Head(s))) = ToSet(s)
           /\ IsInjective(Append(Tail(s), Head(s)))
<1>1. /\ Head(s) \in ToSet(s) /\ Head(s) \in S /\ Tail(s) \in Seq(S)
      /\ ToSet(Tail(s)) = ToSet(s) \ {Head(s)} /\ IsInjective(Tail(s))
    BY FifoTail
<1>2. Head(s) \notin ToSet(Tail(s))
    BY <1>1
<1>3. /\ Append(Tail(s), Head(s)) \in Seq(S)
      /\ ToSet(Append(Tail(s), Head(s))) = ToSet(Tail(s)) \cup {Head(s)}
      /\ IsInjective(Append(Tail(s), Head(s)))
    <2> DEFINE t == Tail(s)
               x == Head(s)
    <2>1. t \in Seq(S) /\ x \in S /\ x \notin ToSet(t) /\ IsInjective(t)
        BY <1>1, <1>2
    <2> HIDE DEF t, x
    <2>2. /\ Append(t, x) \in Seq(S) /\ ToSet(Append(t, x)) = ToSet(t) \cup {x}
          /\ IsInjective(Append(t, x))
        BY <2>1, FifoAppend
    <2> QED BY <2>2 DEF t, x
<1> QED BY <1>1, <1>3

\* Removing a member moves nobody back.
LEMMA FifoRemoveKeepsTurn ==
    ASSUME NEW S, NEW s \in Seq(S), NEW x, IsInjective(s),
           NEW j \in DOMAIN RemoveFirst(s, x), NEW i \in DOMAIN s, RemoveFirst(s, x)[j] = s[i]
    PROVE  j <= i
<1>0. DOMAIN s = 1..Len(s) /\ Len(s) \in Nat
    OBVIOUS
<1>1. CASE ~ \E n \in 1..Len(s) : s[n] = x
    <2>1. RemoveFirst(s, x) = s
        BY <1>1 DEF RemoveFirst
    <2> QED BY <1>0, <2>1 DEF IsInjective
<1>2. CASE \E n \in 1..Len(s) : s[n] = x
    <2>1. PICK n \in 1..Len(s) : s[n] = x
        BY <1>2
    <2>2. /\ DOMAIN RemoveFirst(s, x) = 1..(Len(s) - 1)
          /\ \A m \in 1..(Len(s) - 1) : RemoveFirst(s, x)[m] = IF m < n THEN s[m] ELSE s[m + 1]
        BY <2>1, FifoRemoveAt
    <2>3. j \in 1..(Len(s) - 1) /\ s[i] = IF j < n THEN s[j] ELSE s[j + 1]
        BY <2>2
    <2>4. CASE j < n
        <3>1. s[i] = s[j] /\ j \in DOMAIN s
            BY <1>0, <2>3, <2>4
        <3>2. i = j
            BY <3>1 DEF IsInjective
        <3> QED BY <1>0, <3>2
    <2>5. CASE ~(j < n)
        <3>1. s[i] = s[j + 1] /\ j + 1 \in DOMAIN s
            BY <1>0, <2>3, <2>5
        <3>2. i = j + 1
            BY <3>1 DEF IsInjective
        <3> QED BY <1>0, <2>3, <3>2
    <2> QED BY <2>4, <2>5
<1> QED BY <1>1, <1>2

\* Removing a member keeps the order of the others and leaves none behind its
\* old index.
LEMMA FifoRemoveOrder ==
    ASSUME NEW S, NEW s \in Seq(S), NEW x, IsInjective(s)
    PROVE  /\ Len(RemoveFirst(s, x)) <= Len(s)
           /\ \A i, j \in DOMAIN RemoveFirst(s, x) : \A a, b \in DOMAIN s :
                 /\ RemoveFirst(s, x)[i] = s[a] /\ RemoveFirst(s, x)[j] = s[b]
                 /\ i < j
                 => a < b
<1> DEFINE t == RemoveFirst(s, x)
<1>0. DOMAIN s = 1..Len(s) /\ Len(s) \in Nat
    OBVIOUS
<1>1. CASE \E k \in 1..Len(s) : s[k] = x
    <2>1. PICK k \in 1..Len(s) : s[k] = x
        BY <1>1
    <2>2. /\ t \in Seq(S) /\ Len(t) = Len(s) - 1 /\ DOMAIN t = 1..(Len(s) - 1)
          /\ \A j \in 1..(Len(s) - 1) : t[j] = IF j < k THEN s[j] ELSE s[j + 1]
        BY <2>1, FifoRemoveAt
    <2> HIDE DEF t
    <2>3. ASSUME NEW i \in DOMAIN t, NEW a \in DOMAIN s, t[i] = s[a]
          PROVE  a = IF i < k THEN i ELSE i + 1
        <3>1. CASE i < k
            <4>1. s[i] = s[a] /\ i \in DOMAIN s
                BY <1>0, <2>2, <2>3, <3>1
            <4> QED BY <3>1, <4>1 DEF IsInjective
        <3>2. CASE ~(i < k)
            <4>1. s[i + 1] = s[a] /\ i + 1 \in DOMAIN s
                BY <1>0, <2>2, <2>3, <3>2
            <4> QED BY <3>2, <4>1 DEF IsInjective
        <3> QED BY <3>1, <3>2
    <2>4. ASSUME NEW i \in DOMAIN t, NEW j \in DOMAIN t, NEW a \in DOMAIN s, NEW b \in DOMAIN s,
                 t[i] = s[a], t[j] = s[b], i < j
          PROVE  a < b
        <3>1. a = IF i < k THEN i ELSE i + 1
            BY <2>3, <2>4
        <3>2. b = IF j < k THEN j ELSE j + 1
            BY <2>3, <2>4
        <3> QED BY <1>0, <2>2, <2>4, <3>1, <3>2
    <2>5. Len(t) <= Len(s)
        BY <1>0, <2>2
    <2> QED BY <2>4, <2>5 DEF t
<1>2. CASE ~ \E k \in 1..Len(s) : s[k] = x
    <2>1. t = s
        BY <1>2 DEF RemoveFirst
    <2> HIDE DEF t
    <2>2. \A i, j, a, b \in DOMAIN s : s[i] = s[a] /\ s[j] = s[b] => i = a /\ j = b
        BY DEF IsInjective
    <2> QED BY <1>0, <2>1, <2>2 DEF t
<1> QED BY <1>1, <1>2

\* A set of natural numbers that is not empty has a least member.
LEMMA LeastNat ==
    ASSUME NEW T, T \subseteq Nat, T # {}
    PROVE  \E x \in T : \A y \in T : x <= y
<1> DEFINE R == OpToRel(<, Nat)
<1>1. IsWellFoundedOn(R, Nat)
    BY NatLessThanWellFounded
<1>2. \A x, y \in Nat : x < y => <<x, y>> \in R
    BY DEF OpToRel
<1> HIDE DEF R
<1>3. PICK x \in T : \A y \in T : ~ (<<y, x>> \in R)
    BY <1>1, WFMin
<1>4. x \in Nat
    OBVIOUS
<1>5. ASSUME NEW y \in T PROVE x <= y
    <2>1. y \in Nat /\ ~ (y < x)
        BY <1>2, <1>3, <1>4
    <2> QED BY <2>1, <1>4
<1> QED BY <1>5

\* Induction over the natural numbers, stated with a set for the property.
LEMMA SetInduction ==
    ASSUME NEW S, 0 \in S, \A n \in Nat : n \in S => n + 1 \in S
    PROVE  \A n \in Nat : n \in S
<1> SUFFICES ASSUME NEW m \in Nat, m \notin S PROVE FALSE
    OBVIOUS
<1> DEFINE T == {n \in Nat : n \notin S}
<1>1. PICK x \in T : \A y \in T : x <= y
    BY LeastNat
<1>2. x # 0 /\ x \in Nat
    BY <1>1
<1>3. x - 1 \in Nat /\ x - 1 \notin T
    BY <1>1, <1>2
<1> QED BY <1>1, <1>2, <1>3

\* The first n members of a queue.
FifoPrefix(s, n) == {s[i] : i \in 1..n}

\* The first n members of a queue without duplicates are n.
LEMMA FifoPrefixCount ==
    ASSUME NEW S, NEW s \in Seq(S), IsInjective(s), NEW n \in 0..Len(s)
    PROVE  /\ IsFiniteSet(FifoPrefix(s, n)) /\ Cardinality(FifoPrefix(s, n)) = n
           /\ FifoPrefix(s, n) \subseteq ToSet(s)
           /\ n = Len(s) => FifoPrefix(s, n) = ToSet(s)
<1> DEFINE T == FifoPrefix(s, n)
           f == [i \in 1..n |-> s[i]]
<1>1. DOMAIN s = 1..Len(s) /\ Len(s) \in Nat /\ n \in Nat /\ 1..n \subseteq DOMAIN s
    OBVIOUS
<1>2. \A i, j \in 1..n : s[i] = s[j] => i = j
    BY <1>1 DEF IsInjective
<1>3. f \in Bijection(1..n, T)
    BY <1>2 DEF FifoPrefix, Bijection, Injection, Surjection, IsInjective
<1>4. ExistsBijection(1..n, T)
    BY <1>3 DEF ExistsBijection
<1>5. IsFiniteSet(1..n) /\ Cardinality(1..n) = n
    BY <1>1, FS_Interval
<1>6. T \subseteq ToSet(s) /\ (n = Len(s) => T = ToSet(s))
    BY <1>1 DEF FifoPrefix, ToSet
<1> HIDE DEF T
<1>7. IsFiniteSet(T) /\ Cardinality(T) = n
    BY <1>4, <1>5, FS_Bijection
<1> QED BY <1>6, <1>7 DEF T
=============================================================================
