----------------------------- MODULE ListLemmas -----------------------------
(***************************************************************************)
(* What the operations of Lists do to a list: its type, its elements, and  *)
(* that none is there twice.                                               *)
(***************************************************************************)
EXTENDS Lists, SequenceTheorems, FiniteSetTheorems, WellFoundedInduction, TLAPS

\* A nonempty set of positions has a first one.
LEMMA FirstOfPositions ==
  ASSUME NEW n \in Nat, NEW I \in SUBSET (1 .. n)
  PROVE  /\ I = {} => First(I) = 0
         /\ I # {} => First(I) \in I /\ \A y \in I : First(I) <= y
<1>1. I \subseteq Nat
  OBVIOUS
<1>2. CASE I # {}
  <2>1. PICK x \in I : \A y \in I : ~(<<y, x>> \in OpToRel(<, Nat))
    BY <1>1, <1>2, WFMin, NatLessThanWellFounded
  <2>2. ASSUME NEW y \in I
        PROVE  x <= y
    <3>1. x \in Nat /\ y \in Nat
      BY <1>1
    <3>2. y < x => <<y, x>> \in OpToRel(<, Nat)
      BY <3>1, Zenon DEF OpToRel
    <3>3. ~(y < x)
      BY <2>1, <3>2, Zenon
    <3> QED
      BY <3>1, <3>3
  <2> QED
    BY <1>2, <2>2 DEF First
<1> QED
  BY <1>2 DEF First

\* Adding: the element goes in at one position, the others keep their order.
LEMMA AddBeforeElements ==
  ASSUME NEW S, NEW q \in Seq(S), NEW e \in S, NEW I \in SUBSET DOMAIN q
  PROVE  /\ AddBefore(q, I, e) \in Seq(S)
         /\ Range(AddBefore(q, I, e)) = Range(q) \cup {e}
         /\ IsInjective(q) /\ e \notin Range(q)
              => IsInjective(AddBefore(q, I, e))
<1> DEFINE n == Len(q)
           r == AddBefore(q, I, e)
           p == IF First(I) = 0 THEN n + 1 ELSE First(I)
<1>1. n \in Nat /\ DOMAIN q = 1 .. n /\ q \in [1 .. n -> S]
  BY LenProperties
<1>2. First(I) = 0 \/ First(I) \in 1 .. n
  BY <1>1, FirstOfPositions
<1>3. p \in 1 .. n + 1
  BY <1>1, <1>2
<1>4. /\ r \in Seq(S) /\ DOMAIN r = 1 .. n + 1
      /\ \A i \in 1 .. n + 1 :
           r[i] = IF i < p THEN q[i] ELSE IF i = p THEN e ELSE q[i - 1]
  <2>1. CASE First(I) = 0
    <3>1. r = Append(q, e)
      BY <2>1 DEF AddBefore
    <3> QED
      BY <1>1, <2>1, <3>1, AppendProperties, LenProperties
  <2>2. CASE First(I) # 0
    <3>1. r = [i \in 1 .. n + 1 |-> IF i < p THEN q[i]
                                    ELSE IF i = p THEN e ELSE q[i - 1]]
      BY <2>2 DEF AddBefore
    <3>2. r \in [1 .. n + 1 -> S]
      BY <1>1, <1>3, <3>1
    <3>3. n + 1 \in Nat
      BY <1>1
    <3>4. r \in Seq(S)
      BY <3>2, <3>3, IsASeq
    <3> QED
      BY <3>1, <3>4
  <2> QED
    BY <2>1, <2>2
<1> HIDE DEF n, r, p
<1>5. ASSUME NEW i \in 1 .. n + 1
      PROVE  r[i] = e \/ \E j \in 1 .. n : r[i] = q[j]
  <2>1. i > p => i - 1 \in 1 .. n
    BY <1>1, <1>3
  <2>2. i < p => i \in 1 .. n
    BY <1>1, <1>3
  <2> QED
    BY <1>1, <1>3, <1>4, <2>1, <2>2
<1>6. ASSUME NEW i \in 1 .. n
      PROVE  \E j \in 1 .. n + 1 : r[j] = q[i]
  <2>1. i \in 1 .. n + 1 /\ i + 1 \in 1 .. n + 1
    BY <1>1
  <2>2. IF i < p THEN r[i] = q[i] ELSE r[i + 1] = q[i]
    BY <1>1, <1>3, <1>4, <2>1
  <2> QED
    BY <2>1, <2>2
<1>7. \E j \in 1 .. n + 1 : r[j] = e
  BY <1>3, <1>4
<1>8. Range(r) = Range(q) \cup {e}
  BY <1>1, <1>4, <1>5, <1>6, <1>7 DEF Range
<1>9. ASSUME IsInjective(q), e \notin Range(q)
      PROVE  IsInjective(r)
  <2>1. \A i, j \in 1 .. n : q[i] = q[j] => i = j
    BY <1>1, <1>9 DEF IsInjective
  <2>2. \A i \in 1 .. n : q[i] # e
    BY <1>1, <1>9 DEF Range
  <2>3. \A i, j \in 1 .. n + 1 : r[i] = r[j] => i = j
    BY <1>1, <1>3, <1>4, <2>1, <2>2
  <2> QED
    BY <1>4, <2>3 DEF IsInjective
<1> QED
  BY <1>4, <1>8, <1>9 DEF r

\* Removing: the element is gone, the others keep their order.
LEMMA UnlinkElements ==
  ASSUME NEW S, NEW q \in Seq(S), NEW e, IsInjective(q)
  PROVE  /\ Unlink(q, e) \in Seq(S)
         /\ Range(Unlink(q, e)) = Range(q) \ {e}
         /\ IsInjective(Unlink(q, e))
<1> DEFINE n == Len(q)
           r == Unlink(q, e)
           I == {i \in DOMAIN q : q[i] = e}
           p == First(I)
<1>1. n \in Nat /\ DOMAIN q = 1 .. n /\ q \in [1 .. n -> S]
  BY LenProperties
<1>2. I \in SUBSET (1 .. n)
  BY <1>1
<1>3. /\ I = {} => p = 0
      /\ I # {} => p \in I
  <2> HIDE DEF I
  <2> QED
    BY <1>1, <1>2, FirstOfPositions
<1>4. CASE I = {}
  <2>1. r = q
    BY <1>3, <1>4 DEF Unlink
  <2>2. e \notin Range(q)
    BY <1>4 DEF Range
  <2> QED
    BY <2>1, <2>2
<1>5. CASE I # {}
  <2>1. p \in 1 .. n /\ q[p] = e
    BY <1>1, <1>3, <1>5
  <2>2. r = [i \in 1 .. n - 1 |-> IF i < p THEN q[i] ELSE q[i + 1]]
    BY <2>1 DEF Unlink
  <2>3. r \in [1 .. n - 1 -> S] /\ n - 1 \in Nat
    BY <1>1, <2>1, <2>2
  <2>4. r \in Seq(S)
    BY <2>3, IsASeq
  <2>5. /\ DOMAIN r = 1 .. n - 1
        /\ \A i \in 1 .. n - 1 : r[i] = IF i < p THEN q[i] ELSE q[i + 1]
    BY <2>2
  <2> HIDE DEF n, r, p, I
  <2>6. \A i, j \in 1 .. n : q[i] = q[j] => i = j
    BY <1>1 DEF IsInjective
  <2>7. IsInjective(r)
    <3>1. \A i, j \in 1 .. n - 1 : r[i] = r[j] => i = j
      BY <1>1, <2>1, <2>5, <2>6
    <3> QED
      BY <2>5, <3>1 DEF IsInjective
  <2>8. ASSUME NEW i \in 1 .. n - 1
        PROVE  \E j \in 1 .. n : r[i] = q[j] /\ j # p
    <3>1. /\ i \in 1 .. n /\ i + 1 \in 1 .. n
          /\ i < p => i # p
          /\ ~(i < p) => i + 1 # p
      BY <1>1, <2>1
    <3> QED
      BY <2>5, <3>1
  <2>9. ASSUME NEW i \in 1 .. n, i # p
        PROVE  \E j \in 1 .. n - 1 : r[j] = q[i]
    <3>1. CASE i < p
      BY <1>1, <2>1, <2>5, <3>1
    <3>2. CASE i > p
      <4>1. i - 1 \in 1 .. n - 1 /\ r[i - 1] = q[i]
        BY <1>1, <2>1, <2>5, <3>2
      <4> QED
        BY <4>1
    <3> QED
      BY <1>1, <2>1, <2>9, <3>1, <3>2
  <2>10. Range(r) = Range(q) \ {e}
    <3>1. \A i \in 1 .. n : q[i] = e => i = p
      BY <2>1, <2>6
    <3>0. /\ \A x : x \in Range(r) <=> \E i \in 1 .. n - 1 : x = r[i]
          /\ \A x : x \in Range(q) <=> \E i \in 1 .. n : x = q[i]
      BY <1>1, <2>5 DEF Range
    <3>2. ASSUME NEW x \in Range(r) PROVE x \in Range(q) \ {e}
      <4>1. PICK i \in 1 .. n - 1 : x = r[i]
        BY <3>0
      <4>2. PICK j \in 1 .. n : r[i] = q[j] /\ j # p
        BY <2>8
      <4> QED
        BY <3>0, <3>1, <4>1, <4>2
    <3>3. ASSUME NEW x \in Range(q) \ {e} PROVE x \in Range(r)
      <4>1. PICK i \in 1 .. n : x = q[i]
        BY <3>0
      <4>2. i # p
        BY <2>1, <4>1
      <4>3. PICK j \in 1 .. n - 1 : r[j] = q[i]
        BY <2>9, <4>2
      <4> QED
        BY <3>0, <4>1, <4>3
    <3> QED
      BY <3>2, <3>3
  <2> QED
    BY <2>4, <2>7, <2>10 DEF r
<1> QED
  BY <1>4, <1>5

\* Taking the first element off.
LEMMA TailElements ==
  ASSUME NEW S, NEW q \in Seq(S), q # <<>>
  PROVE  /\ Head(q) \in S /\ Head(q) \in Range(q) /\ Tail(q) \in Seq(S)
         /\ IsInjective(q) => /\ Range(Tail(q)) = Range(q) \ {Head(q)}
                              /\ IsInjective(Tail(q))
<1> DEFINE r == Tail(q)
<1>1. /\ Head(q) \in S /\ r \in Seq(S) /\ Len(r) = Len(q) - 1
      /\ \A i \in 1 .. Len(r) : r[i] = q[i + 1]
  BY HeadTailProperties
<1>2. /\ Len(q) \in Nat /\ Len(q) > 0
      /\ DOMAIN q = 1 .. Len(q) /\ DOMAIN r = 1 .. Len(q) - 1
  BY <1>1, LenProperties, EmptySeq
<1>3. Head(q) = q[1]
  OBVIOUS
<1> HIDE DEF r
<1>4. Head(q) \in Range(q)
  BY <1>2, <1>3 DEF Range
<1>5. ASSUME IsInjective(q)
      PROVE  Range(r) = Range(q) \ {Head(q)} /\ IsInjective(r)
  <2>1. \A i, j \in 1 .. Len(q) : q[i] = q[j] => i = j
    BY <1>2, <1>5 DEF IsInjective
  <2>2. \A i \in 1 .. Len(q) : i # 1 => i - 1 \in 1 .. Len(q) - 1 /\ r[i - 1] = q[i]
    BY <1>1, <1>2
  <2>3. ASSUME NEW i \in 1 .. Len(q) - 1, NEW j \in 1 .. Len(q) - 1, r[i] = r[j]
        PROVE  i = j
    <3>1. /\ i + 1 \in 1 .. Len(q) /\ r[i] = q[i + 1]
          /\ j + 1 \in 1 .. Len(q) /\ r[j] = q[j + 1]
      BY <1>1, <1>2
    <3>2. i + 1 = j + 1
      BY <2>1, <2>3, <3>1
    <3> QED
      BY <1>2, <3>2
  <2>6. IsInjective(r)
    BY <1>2, <2>3 DEF IsInjective
  <2>7. /\ \A x : x \in Range(r) <=> \E i \in 1 .. Len(q) - 1 : x = r[i]
        /\ \A x : x \in Range(q) <=> \E i \in 1 .. Len(q) : x = q[i]
    BY <1>2 DEF Range
  <2>4. ASSUME NEW x \in Range(r) PROVE x \in Range(q) \ {Head(q)}
    <3>1. PICK i \in 1 .. Len(q) - 1 : x = r[i]
      BY <2>7
    <3>2. i + 1 \in 1 .. Len(q) /\ i + 1 # 1 /\ 1 \in 1 .. Len(q) /\ x = q[i + 1]
      BY <1>1, <1>2, <3>1
    <3> QED
      BY <1>3, <2>1, <2>7, <3>2
  <2>5. ASSUME NEW x \in Range(q) \ {Head(q)} PROVE x \in Range(r)
    <3>1. PICK i \in 1 .. Len(q) : x = q[i]
      BY <2>7
    <3>2. i # 1
      BY <1>3, <3>1
    <3>3. i - 1 \in 1 .. Len(q) - 1 /\ r[i - 1] = x
      BY <2>2, <3>1, <3>2
    <3> QED
      BY <2>7, <3>3
  <2> QED
    BY <2>4, <2>5, <2>6
<1> QED
  BY <1>1, <1>4, <1>5 DEF r

\* Putting an element in front.
LEMMA AddToStartElements ==
  ASSUME NEW S, NEW q \in Seq(S), NEW e \in S
  PROVE  /\ AddToStart(q, e) \in Seq(S)
         /\ Range(AddToStart(q, e)) = Range(q) \cup {e}
         /\ IsInjective(q) /\ e \notin Range(q) => IsInjective(AddToStart(q, e))
<1> DEFINE r == <<e>> \o q
<1>1. <<e>> \in Seq(S) /\ Len(<<e>>) = 1 /\ <<e>>[1] = e
  OBVIOUS
<1>2. /\ r \in Seq(S) /\ Len(r) = Len(q) + 1 /\ Len(q) \in Nat
      /\ \A i \in 1 .. Len(q) + 1 : r[i] = IF i <= 1 THEN e ELSE q[i - 1]
  BY <1>1, ConcatProperties, LenProperties
<1>3. AddToStart(q, e) = r
  BY DEF AddToStart
<1> HIDE DEF r
<1>4. DOMAIN q = 1 .. Len(q) /\ DOMAIN r = 1 .. Len(q) + 1
  BY <1>2, LenProperties
<1>5. ASSUME NEW x \in Range(r) PROVE x \in Range(q) \cup {e}
  <2>1. PICK i \in 1 .. Len(q) + 1 : x = r[i]
    BY <1>4 DEF Range
  <2>2. i > 1 => i - 1 \in DOMAIN q /\ x = q[i - 1]
    BY <1>2, <1>4, <2>1
  <2>3. i <= 1 => x = e
    BY <1>2, <2>1
  <2>4. i > 1 \/ i <= 1
    BY <1>2
  <2> QED
    BY <2>2, <2>3, <2>4 DEF Range
<1>6. Range(q) \cup {e} \subseteq Range(r)
  <2>1. r[1] = e /\ 1 \in DOMAIN r
    BY <1>2, <1>4
  <2>2. \A i \in 1 .. Len(q) : i + 1 \in DOMAIN r /\ r[i + 1] = q[i]
    BY <1>2, <1>4
  <2> QED
    BY <1>4, <2>1, <2>2 DEF Range
<1>7. ASSUME IsInjective(q), e \notin Range(q)
      PROVE  IsInjective(r)
  <2>1. \A i, j \in 1 .. Len(q) : q[i] = q[j] => i = j
    BY <1>4, <1>7 DEF IsInjective
  <2>2. \A i \in 1 .. Len(q) : q[i] # e
    BY <1>4, <1>7 DEF Range
  <2>3. ASSUME NEW i \in 1 .. Len(q) + 1, NEW j \in 1 .. Len(q) + 1, r[i] = r[j]
        PROVE  i = j
    <3>1. /\ i > 1 => i - 1 \in 1 .. Len(q) /\ r[i] = q[i - 1]
          /\ j > 1 => j - 1 \in 1 .. Len(q) /\ r[j] = q[j - 1]
          /\ i <= 1 => i = 1 /\ r[i] = e
          /\ j <= 1 => j = 1 /\ r[j] = e
      BY <1>2
    <3>2. i > 1 /\ j > 1 => i - 1 = j - 1
      BY <2>1, <2>3, <3>1
    <3> QED
      BY <1>2, <2>2, <2>3, <3>1, <3>2
  <2> QED
    BY <1>4, <2>3 DEF IsInjective
<1> QED
  BY <1>2, <1>3, <1>5, <1>6, <1>7

\* A finite set laid out as a list: all its elements, each of them once.
LEMMA ListOfElements ==
  ASSUME NEW S, IsFiniteSet(S)
  PROVE  /\ ListOf(S) \in Seq(S)
         /\ Range(ListOf(S)) = S
         /\ IsInjective(ListOf(S))
<1> DEFINE n == Cardinality(S)
           q == ListOf(S)
<1>1. n \in Nat /\ ExistsBijection(1 .. n, S)
  BY FS_CardinalityType
<1>2. \E f \in [1 .. n -> S] : IsInjective(f)
  BY <1>1, Zenon DEF ExistsBijection, Bijection, Injection
<1>3. q \in [1 .. n -> S] /\ IsInjective(q)
  BY <1>2 DEF ListOf
<1> HIDE DEF q
<1>4. q \in Seq(S)
  BY <1>1, <1>3, IsASeq
<1>5. Range(q) = S
  <2>1. q \in Injection(1 .. n, S)
    BY <1>3 DEF Injection
  <2>2. Cardinality(1 .. n) = n
    BY <1>1, FS_Interval
  <2>3. q \in Surjection(1 .. n, S)
    BY <2>1, <2>2, FS_Injection
  <2>4. DOMAIN q = 1 .. n /\ \A x \in S : \E i \in 1 .. n : q[i] = x
    BY <2>3 DEF Surjection
  <2> QED
    BY <1>3, <2>4 DEF Range
<1> QED
  BY <1>3, <1>4, <1>5 DEF q
\* Where an added element goes, and where the others are then.
LEMMA AddBeforePositions ==
  ASSUME NEW S, NEW q \in Seq(S), NEW e \in S, NEW I \in SUBSET DOMAIN q
  PROVE  \E p \in 1 .. Len(q) + 1 :
           /\ I = {} => p = Len(q) + 1
           /\ I # {} => p \in I /\ \A i \in I : p <= i
           /\ DOMAIN AddBefore(q, I, e) = 1 .. Len(q) + 1
           /\ \A i \in 1 .. Len(q) + 1 :
                AddBefore(q, I, e)[i] = IF i < p THEN q[i] ELSE IF i = p THEN e ELSE q[i - 1]
<1> DEFINE n == Len(q)
           r == AddBefore(q, I, e)
<1>1. n \in Nat /\ DOMAIN q = 1 .. n /\ q \in [1 .. n -> S]
  BY LenProperties
<1>2. /\ I = {} => First(I) = 0
      /\ I # {} => First(I) \in I /\ \A i \in I : First(I) <= i
  BY <1>1, FirstOfPositions
<1>3. CASE I = {}
  <2>1. r = Append(q, e)
    BY <1>2, <1>3 DEF AddBefore
  <2>2. /\ DOMAIN r = 1 .. n + 1
        /\ \A i \in 1 .. n + 1 : r[i] = IF i < n + 1 THEN q[i] ELSE e
    BY <1>1, <2>1, AppendProperties, LenProperties
  <2>3. n + 1 \in 1 .. n + 1
    BY <1>1
  <2> HIDE DEF r, n
  <2>4. \A i \in 1 .. n + 1 : r[i] = IF i < n + 1 THEN q[i] ELSE IF i = n + 1 THEN e ELSE q[i - 1]
    BY <1>1, <2>2
  <2> QED
    BY <1>3, <2>2, <2>3, <2>4 DEF r, n
<1>4. CASE I # {}
  <2> DEFINE p == First(I)
  <2>1. p \in I /\ p \in 1 .. n /\ p # 0 /\ p \in 1 .. n + 1 /\ \A i \in I : p <= i
    BY <1>1, <1>2, <1>4
  <2>2. r = [i \in 1 .. n + 1 |-> IF i < p THEN q[i] ELSE IF i = p THEN e ELSE q[i - 1]]
    BY <2>1 DEF AddBefore
  <2>3. DOMAIN r = 1 .. n + 1
    BY <2>2
  <2>4. \A i \in 1 .. n + 1 : r[i] = IF i < p THEN q[i] ELSE IF i = p THEN e ELSE q[i - 1]
    BY <2>2
  <2> HIDE DEF r, n, p
  <2> QED
    BY <1>4, <2>1, <2>3, <2>4 DEF r, n
<1> QED
  BY <1>3, <1>4

\* Which elements are in front of which once one is added.
LEMMA AddBeforeOrder ==
  ASSUME NEW S, NEW q \in Seq(S), NEW e \in S, NEW I \in SUBSET DOMAIN q, NEW a, NEW b,
         Before(AddBefore(q, I, e), a, b)
  PROVE  \/ Before(q, a, b)
         \/ a = e /\ \E i \in I, j \in DOMAIN q : i <= j /\ q[j] = b
         \/ b = e /\ \E j \in DOMAIN q : q[j] = a /\ \A i \in I : j < i
<1> DEFINE n == Len(q)
           r == AddBefore(q, I, e)
<1>1. n \in Nat /\ DOMAIN q = 1 .. n
  BY LenProperties
<1>2. PICK p \in 1 .. n + 1 :
        /\ I = {} => p = n + 1
        /\ I # {} => p \in I /\ \A i \in I : p <= i
        /\ DOMAIN r = 1 .. n + 1
        /\ \A i \in 1 .. n + 1 : r[i] = IF i < p THEN q[i] ELSE IF i = p THEN e ELSE q[i - 1]
  BY AddBeforePositions
<1>3. PICK k \in 1 .. n + 1, l \in 1 .. n + 1 : k < l /\ r[k] = a /\ r[l] = b
  BY <1>2 DEF Before
<1> HIDE DEF n, r
<1>4. CASE k # p /\ l # p
  <2> DEFINE k2 == IF k < p THEN k ELSE k - 1
             l2 == IF l < p THEN l ELSE l - 1
  <2>1. k2 \in 1 .. n /\ l2 \in 1 .. n /\ k2 < l2
    BY <1>1, <1>3, <1>4
  <2>2. q[k2] = a /\ q[l2] = b
    BY <1>1, <1>2, <1>3, <1>4
  <2> HIDE DEF k2, l2
  <2> QED
    BY <1>1, <2>1, <2>2 DEF Before
<1>5. CASE k = p
  <2>1. l - 1 \in 1 .. n /\ p <= l - 1 /\ q[l - 1] = b /\ a = e
    BY <1>1, <1>2, <1>3, <1>5
  <2>2. I # {}
    BY <1>1, <1>2, <2>1
  <2> QED
    BY <1>1, <1>2, <2>1, <2>2
<1>6. CASE l = p
  <2>1. k \in 1 .. n /\ k < p /\ q[k] = a /\ b = e
    BY <1>1, <1>2, <1>3, <1>6
  <2>2. ASSUME NEW i \in I PROVE k < i
    BY <1>1, <1>2, <2>1
  <2> QED
    BY <1>1, <2>1, <2>2
<1> QED
  BY <1>4, <1>5, <1>6

\* Where the elements are once one is removed.
LEMMA UnlinkPositions ==
  ASSUME NEW S, NEW q \in Seq(S), NEW e
  PROVE  \/ e \notin Range(q) /\ Unlink(q, e) = q
         \/ \E p \in 1 .. Len(q) :
              /\ q[p] = e /\ \A i \in 1 .. Len(q) : q[i] = e => p <= i
              /\ DOMAIN Unlink(q, e) = 1 .. Len(q) - 1
              /\ \A i \in 1 .. Len(q) - 1 :
                   Unlink(q, e)[i] = IF i < p THEN q[i] ELSE q[i + 1]
<1> DEFINE n == Len(q)
           r == Unlink(q, e)
           I == {i \in DOMAIN q : q[i] = e}
           p == First(I)
<1>1. n \in Nat /\ DOMAIN q = 1 .. n /\ I \in SUBSET (1 .. n)
  BY LenProperties
<1>2. /\ I = {} => p = 0
      /\ I # {} => p \in I /\ \A i \in I : p <= i
  <2> HIDE DEF I
  <2> QED
    BY <1>1, FirstOfPositions
<1>3. CASE I = {}
  <2>1. r = q
    BY <1>2, <1>3 DEF Unlink
  <2>2. e \notin Range(q)
    BY <1>3 DEF Range
  <2> QED
    BY <2>1, <2>2
<1>4. CASE I # {}
  <2>1. p \in 1 .. n /\ q[p] = e /\ p # 0 /\ \A i \in 1 .. n : q[i] = e => p <= i
    BY <1>1, <1>2, <1>4
  <2>2. r = [i \in 1 .. n - 1 |-> IF i < p THEN q[i] ELSE q[i + 1]]
    BY <2>1 DEF Unlink
  <2>3. /\ DOMAIN r = 1 .. n - 1
        /\ \A i \in 1 .. n - 1 : r[i] = IF i < p THEN q[i] ELSE q[i + 1]
    BY <2>2
  <2> HIDE DEF r, n, p
  <2> QED
    BY <2>1, <2>3 DEF r, n
<1> QED
  BY <1>3, <1>4

LEMMA UnlinkOrder ==
  ASSUME NEW S, NEW q \in Seq(S), NEW e, NEW a, NEW b, Before(Unlink(q, e), a, b)
  PROVE  Before(q, a, b)
<1> DEFINE n == Len(q)
           r == Unlink(q, e)
<1>1. n \in Nat /\ DOMAIN q = 1 .. n
  BY LenProperties
<1>2. CASE r = q
  BY <1>2
<1>3. CASE r # q
  <2>1. PICK p \in 1 .. n :
          /\ DOMAIN r = 1 .. n - 1
          /\ \A i \in 1 .. n - 1 : r[i] = IF i < p THEN q[i] ELSE q[i + 1]
    BY <1>3, UnlinkPositions
  <2>2. PICK k \in 1 .. n - 1, l \in 1 .. n - 1 : k < l /\ r[k] = a /\ r[l] = b
    BY <2>1 DEF Before
  <2> HIDE DEF n, r
  <2> DEFINE k2 == IF k < p THEN k ELSE k + 1
             l2 == IF l < p THEN l ELSE l + 1
  <2>3. k2 \in 1 .. n /\ l2 \in 1 .. n /\ k2 < l2
    BY <1>1, <2>2
  <2>4. q[k2] = a /\ q[l2] = b
    BY <2>1, <2>2
  <2> HIDE DEF k2, l2
  <2> QED
    BY <1>1, <2>3, <2>4 DEF Before
<1> QED
  BY <1>2, <1>3

LEMMA TailOrder ==
  ASSUME NEW S, NEW q \in Seq(S), q # <<>>, NEW a, NEW b, Before(Tail(q), a, b)
  PROVE  Before(q, a, b)
<1>1. /\ Len(q) \in Nat /\ DOMAIN q = 1 .. Len(q) /\ Tail(q) \in Seq(S)
      /\ Len(Tail(q)) = Len(q) - 1 /\ DOMAIN Tail(q) = 1 .. Len(q) - 1
      /\ \A i \in 1 .. Len(q) - 1 : Tail(q)[i] = q[i + 1]
  BY HeadTailProperties, LenProperties
<1>2. PICK k \in 1 .. Len(q) - 1, l \in 1 .. Len(q) - 1 :
        k < l /\ Tail(q)[k] = a /\ Tail(q)[l] = b
  BY <1>1 DEF Before
<1>3. k + 1 \in 1 .. Len(q) /\ l + 1 \in 1 .. Len(q) /\ k + 1 < l + 1
  BY <1>1, <1>2
<1>4. q[k + 1] = a /\ q[l + 1] = b
  BY <1>1, <1>2
<1> QED
  BY <1>1, <1>3, <1>4 DEF Before

\* Unlink keeps the order of the elements that stay.
LEMMA UnlinkKeepsOrder ==
  ASSUME NEW S, NEW q \in Seq(S), NEW e, NEW a, NEW b, a # e, b # e, IsInjective(q), Before(q, a, b)
  PROVE  Before(Unlink(q, e), a, b)
<1> DEFINE n == Len(q)
           r == Unlink(q, e)
<1>1. n \in Nat /\ DOMAIN q = 1 .. n
  BY LenProperties
<1>2. CASE r = q
  BY <1>2
<1>3. CASE r # q
  <2>1. PICK p \in 1 .. n :
          /\ q[p] = e
          /\ DOMAIN r = 1 .. n - 1
          /\ \A i \in 1 .. n - 1 : r[i] = IF i < p THEN q[i] ELSE q[i + 1]
    BY <1>3, UnlinkPositions
  <2>2. PICK k \in 1 .. n, l \in 1 .. n : k < l /\ q[k] = a /\ q[l] = b
    BY <1>1 DEF Before
  <2>3. k # p /\ l # p
    BY <2>1, <2>2
  <2> DEFINE kk == IF k < p THEN k ELSE k - 1
             ll == IF l < p THEN l ELSE l - 1
  <2>4. kk \in 1 .. n - 1 /\ ll \in 1 .. n - 1 /\ kk < ll
    BY <1>1, <2>2, <2>3
  <2> HIDE DEF r
  <2>5. r[kk] = q[k] /\ r[ll] = q[l]
    <3>1. r[kk] = IF kk < p THEN q[kk] ELSE q[kk + 1]
      BY <2>1, <2>4
    <3>2. r[ll] = IF ll < p THEN q[ll] ELSE q[ll + 1]
      BY <2>1, <2>4
    <3>3. (k < p => kk = k) /\ (~ (k < p) => ~ (kk < p) /\ kk + 1 = k)
      BY <1>1, <2>2, <2>3
    <3>4. (l < p => ll = l) /\ (~ (l < p) => ~ (ll < p) /\ ll + 1 = l)
      BY <1>1, <2>2, <2>3
    <3> HIDE DEF kk, ll
    <3> QED
      BY <3>1, <3>2, <3>3, <3>4
  <2> HIDE DEF kk, ll
  <2>6. QED
    BY <2>1, <2>2, <2>4, <2>5 DEF Before, r
<1>4. QED
  BY <1>2, <1>3

\* Append adds one element, and keeps the order of the others.
LEMMA AppendKeepsOrder ==
  ASSUME NEW S, NEW q \in Seq(S), NEW e \in S
  PROVE  /\ Append(q, e) \in Seq(S)
         /\ Range(Append(q, e)) = Range(q) \cup {e}
         /\ IsInjective(q) /\ e \notin Range(q) => IsInjective(Append(q, e))
         /\ \A a, b : Before(q, a, b) => Before(Append(q, e), a, b)
<1> DEFINE n == Len(q)
           r == Append(q, e)
<1>1. n \in Nat /\ DOMAIN q = 1 .. n /\ q \in [1 .. n -> S]
  BY LenProperties
<1>2. /\ r \in Seq(S) /\ DOMAIN r = 1 .. n + 1 /\ r[n + 1] = e
      /\ \A i \in 1 .. n : r[i] = q[i]
  BY <1>1, AppendProperties, LenProperties
<1>3. 1 .. n + 1 = (1 .. n) \cup {n + 1}
  BY <1>1
<1> HIDE DEF r
<1>4. Range(r) = Range(q) \cup {e}
  BY <1>1, <1>2, <1>3 DEF Range
<1>5. IsInjective(q) /\ e \notin Range(q) => IsInjective(r)
  BY <1>1, <1>2, <1>3 DEF Range, IsInjective
<1>6. \A a, b : Before(q, a, b) => Before(r, a, b)
  BY <1>1, <1>2, <1>3 DEF Before
<1>7. QED
  BY <1>2, <1>4, <1>5, <1>6 DEF r

\* A set of numbers has a least one.
LEMMA LeastNumber ==
  ASSUME NEW V \in SUBSET Nat, V # {}
  PROVE  \E v \in V : \A w \in V : v <= w
<1>1. PICK v \in V : \A w \in V : ~(<<w, v>> \in OpToRel(<, Nat))
  BY WFMin, NatLessThanWellFounded
<1>2. ASSUME NEW w \in V
      PROVE  v <= w
  <2>1. v \in Nat /\ w \in Nat
    OBVIOUS
  <2>2. ~(w < v)
    BY <1>1, <2>1, Zenon DEF OpToRel
  <2>3. QED
    BY <2>1, <2>2
<1>3. QED
  BY <1>2

\* A set of numbers that has a bound has a greatest one.
LEMMA GreatestNumber ==
  ASSUME NEW n \in Nat, NEW V \in SUBSET (0 .. n), V # {}
  PROVE  \E v \in V : \A w \in V : w <= v
<1> DEFINE W == {n - v : v \in V}
<1>1. W \in SUBSET Nat /\ W # {}
  <2>1. \A v \in V : n - v \in Nat
    OBVIOUS
  <2> QED
    BY <2>1
<1>2. PICK u \in W : \A w \in W : u <= w
  <2> HIDE DEF W
  <2> QED BY <1>1, LeastNumber
<1>3. PICK v \in V : u = n - v
  OBVIOUS
<1>4. ASSUME NEW w \in V
      PROVE  w <= v
  <2>1. n - w \in W
    OBVIOUS
  <2>2. n - v <= n - w
    BY <1>2, <1>3, <2>1
  <2>3. QED
    BY <2>2
<1>5. QED
  BY <1>4
=============================================================================
