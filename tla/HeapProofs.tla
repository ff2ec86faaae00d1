----------------------------- MODULE HeapProofs -----------------------------
(***************************************************************************)
(* The heap of nsdynmemLIB stays well formed and keeps the promise of      *)
(* MemoryPool, for arrays and requests of any size.                        *)
(*                                                                         *)
(* The blocks of a heap are described as a tiling: the lengths at both     *)
(* ends of each block agree, and lead to the next block or to the end.     *)
(* Everything the library does to the words is one of two things: to write *)
(* one block over several neighbours (Merge), or to cut one block in two   *)
(* (Cut).  Both leave a tiling.  Besides it the invariant says which       *)
(* blocks are on holes_list and in which order, and that no two free       *)
(* blocks are neighbours; without the last, a request could be refused     *)
(* though there is room.                                                   *)
(***************************************************************************)
EXTENDS Heap, ListLemmas

\* The first word behind block p.
End(m, p) == p + Abs(m[p]) + 2

\* The words of a heap that ends with word e.
Memory(e) == [0 .. e -> Int]

\* The words m up to the last, e, are the blocks B and nothing else.
Tiling(m, B, e) ==
  /\ e \in Nat /\ m \in Memory(e)
  /\ B \subseteq 0 .. e /\ 0 \in B
  /\ \A p \in B : /\ m[p] # 0
                  /\ End(m, p) \in B \cup {e + 1}
                  /\ m[End(m, p) - 1] = m[p]
                  /\ \A q \in B : q > p => q >= End(m, p)

\* No two free blocks are neighbours.
Coalesced(m, B) == \A p \in B : m[p] < 0 /\ End(m, p) \in B => m[End(m, p)] > 0

\* h is the list of the free blocks that hold a descriptor, by address.
ListsHoles(h, m, B) ==
  /\ h \in Seq(Nat)
  /\ Range(h) = {p \in B : m[p] <= -HOLE_T_SIZE}
  /\ \A a, b : Before(h, a, b) => a < b

HeapShape ==
  /\ Tiling(mem, blocks, heap_main_end)
  /\ Coalesced(mem, blocks)
  /\ ListsHoles(holes_list, mem, blocks)

HeapIInv == heap_main_end \in HOLE_T_SIZE + 1 .. MaxWords - 1 /\ HeapShape /\ NeverCorrupted

-----------------------------------------------------------------------------
(* Tilings *)

LEMMA AbsIsNat ==
  ASSUME NEW i \in Int, i # 0
  PROVE  /\ Abs(i) \in Nat \ {0}
         /\ i < 0 => Abs(i) = -i
         /\ i > 0 => Abs(i) = i
BY DEF Abs

\* Where the blocks of a tiling are.
LEMMA TilingFacts ==
  ASSUME NEW e \in Nat, NEW m, NEW B \in SUBSET (0 .. e), Tiling(m, B, e), NEW p \in B
  PROVE  /\ p \in Nat /\ p \in 0 .. e /\ m[p] \in Int /\ m[p] # 0 /\ Abs(m[p]) \in Nat \ {0}
         /\ End(m, p) \in Nat /\ End(m, p) >= p + 3 /\ End(m, p) <= e + 1
<1>1. p \in 0 .. e /\ e \in Nat /\ m[p] \in Int /\ m[p] # 0
  BY DEF Tiling, Memory
<1>2. Abs(m[p]) \in Nat \ {0}
  BY <1>1, AbsIsNat
<1>3. End(m, p) \in B \cup {e + 1} /\ B \subseteq 0 .. e
  BY DEF Tiling
<1> QED
  BY <1>1, <1>2, <1>3 DEF End

\* Every word is in a block.
LEMMA TilingCovers ==
  ASSUME NEW e \in Nat, NEW m, NEW B \in SUBSET (0 .. e), Tiling(m, B, e), NEW w \in 0 .. e
  PROVE  \E p \in B : p <= w /\ w < End(m, p)
<1> DEFINE V == {p \in B : p <= w}
<1>1. e \in Nat /\ B \subseteq 0 .. e /\ 0 \in B
  BY DEF Tiling
<1>2. V \in SUBSET (0 .. e) /\ V # {}
  <2>1. 0 \in V
    BY <1>1
  <2> QED
    BY <2>1
<1>3. PICK p \in V : \A q \in V : q <= p
  <2> HIDE DEF V
  <2> QED
    BY <1>1, <1>2, GreatestNumber
<1>4. p \in B /\ p <= w
  OBVIOUS
<1>5. End(m, p) \in Nat /\ End(m, p) >= p + 3 /\ p \in Nat
  BY <1>4, TilingFacts
<1>6. End(m, p) \in B \cup {e + 1}
  BY <1>4 DEF Tiling
<1>7. w < End(m, p)
  <2> SUFFICES ASSUME ~ (w < End(m, p)) PROVE FALSE
    OBVIOUS
  <2>1. End(m, p) <= w /\ End(m, p) # e + 1
    BY <1>1, <1>5
  <2>2. End(m, p) \in V
    BY <1>6, <2>1
  <2> QED
    BY <1>3, <1>5, <2>2
<1> QED
  BY <1>4, <1>7

\* Every block but the first has one that ends where it starts.
LEMMA TilingBefore ==
  ASSUME NEW e \in Nat, NEW m, NEW B \in SUBSET (0 .. e), Tiling(m, B, e), NEW q \in B, q # 0
  PROVE  \E p \in B : p < q /\ End(m, p) = q /\ m[q - 1] = m[p]
<1>1. q \in 0 .. e /\ e \in Nat /\ q \in Nat
  BY TilingFacts DEF Tiling
<1>2. q - 1 \in 0 .. e
  BY <1>1
<1>3. PICK p \in B : p <= q - 1 /\ q - 1 < End(m, p)
  BY <1>2, TilingCovers
<1>4. p \in Nat /\ End(m, p) \in Nat
  BY TilingFacts
<1>5. q > p
  BY <1>1, <1>3, <1>4
<1>6. q >= End(m, p) /\ m[End(m, p) - 1] = m[p]
  BY <1>5 DEF Tiling
<1>7. End(m, p) = q
  BY <1>1, <1>3, <1>4, <1>6
<1> QED
  BY <1>5, <1>6, <1>7

\* What Tag writes.
LEMMA TagWords ==
  ASSUME NEW e \in Nat, NEW m \in Memory(e), NEW p \in Nat, NEW len \in Int, len # 0,
         p + Abs(len) + 1 <= e
  PROVE  /\ Tag(m, p, len) \in Memory(e)
         /\ Tag(m, p, len)[p] = len
         /\ Tag(m, p, len)[p + Abs(len) + 1] = len
         /\ \A w \in 0 .. e : w < p \/ w > p + Abs(len) + 1 => Tag(m, p, len)[w] = m[w]
<1>1. Abs(len) \in Nat \ {0}
  BY AbsIsNat
<1> DEFINE a == Abs(len)
<1>2. Tag(m, p, len) = [w \in 0 .. e |-> IF w \in {p, p + 1 + a} THEN len
                                         ELSE IF w > p /\ w < p + 1 + a THEN 0 ELSE m[w]]
  BY DEF Tag, Memory
<1>3. a \in Nat \ {0} /\ p + a + 1 <= e
  BY <1>1
<1> HIDE DEF a
<1>4. p \in 0 .. e /\ p + a + 1 \in 0 .. e /\ p + a + 1 = p + 1 + a
  BY <1>3
<1>5. Tag(m, p, len) \in Memory(e)
  BY <1>2 DEF Memory
<1>6. Tag(m, p, len)[p] = len /\ Tag(m, p, len)[p + a + 1] = len
  BY <1>2, <1>4
<1>7. \A w \in 0 .. e : w < p \/ w > p + a + 1 => Tag(m, p, len)[w] = m[w]
  BY <1>2, <1>3
<1> QED
  BY <1>5, <1>6, <1>7 DEF a

\* The blocks but those between start and stop.
Outside(B, start, stop) == {q \in B : q <= start \/ q >= stop}

\* m2 is m with the words from start up to stop made one block, of length c.
OneBlock(m, m2, e, C, start, stop, c) ==
  /\ Tiling(m2, C, e)
  /\ m2[start] = c /\ End(m2, start) = stop
  /\ \A q \in C \ {start} : m2[q] = m[q] /\ End(m2, q) = End(m, q)

\* One block written over a block and those behind it, up to stop.
LEMMA Merge ==
  ASSUME NEW e \in Nat, NEW m, NEW B \in SUBSET (0 .. e), Tiling(m, B, e),
         NEW start \in B, NEW stop \in Nat, stop \in B \cup {e + 1}, NEW c \in Int, c # 0,
         start + Abs(c) + 2 = stop,
         NEW m2, m2 = Tag(m, start, c)
  PROVE  OneBlock(m, m2, e, Outside(B, start, stop), start, stop, c)
<1> DEFINE C == {q \in B : q <= start \/ q >= stop}
<1>1. e \in Nat /\ m \in Memory(e) /\ B \subseteq 0 .. e /\ 0 \in B
  BY DEF Tiling
<1>2. start \in Nat /\ start \in 0 .. e /\ stop \in Nat /\ stop <= e + 1 /\ Abs(c) \in Nat \ {0}
  BY <1>1, AbsIsNat
<1>3. /\ m2 \in Memory(e) /\ m2[start] = c /\ m2[stop - 1] = c
      /\ \A w \in 0 .. e : w < start \/ w >= stop => m2[w] = m[w]
  <2>1. start + Abs(c) + 1 <= e /\ start + Abs(c) + 1 = stop - 1
    BY <1>1, <1>2
  <2>2. /\ m2 \in Memory(e) /\ m2[start] = c /\ m2[start + Abs(c) + 1] = c
        /\ \A w \in 0 .. e : w < start \/ w > start + Abs(c) + 1 => m2[w] = m[w]
    BY <1>1, <1>2, <2>1, TagWords
  <2> QED
    BY <1>1, <1>2, <2>1, <2>2
<1>4. End(m2, start) = stop
  BY <1>3 DEF End
<1>5. C \subseteq 0 .. e /\ 0 \in C /\ start \in C /\ stop \in C \cup {e + 1} /\ C \subseteq B
  <2>1. 0 <= start /\ start <= start /\ stop >= stop
    BY <1>2
  <2>2. C \subseteq B
    OBVIOUS
  <2>3. 0 \in C /\ start \in C /\ stop \in C \cup {e + 1}
    BY <1>1, <2>1
  <2> QED
    BY <1>1, <2>2, <2>3
<1>6. ASSUME NEW q \in C \ {start}
      PROVE  /\ m2[q] = m[q] /\ End(m2, q) = End(m, q)
             /\ End(m, q) \in C \cup {e + 1}
             /\ m2[End(m, q) - 1] = m2[q]
  <2>1. q \in B /\ q \in 0 .. e /\ (q < start \/ q >= stop)
    BY <1>1, <1>2, <1>6
  <2>2. m2[q] = m[q]
    BY <1>3, <2>1
  <2>3. End(m, q) \in Nat /\ End(m, q) >= q + 3 /\ End(m, q) <= e + 1
    BY <2>1, TilingFacts
  <2>4. End(m, q) \in B \cup {e + 1} /\ m[End(m, q) - 1] = m[q]
    BY <2>1 DEF Tiling
  <2>5. q < start => End(m, q) <= start
    BY <2>1 DEF Tiling
  <2>6. End(m, q) <= start \/ End(m, q) > stop
    BY <1>2, <2>1, <2>3, <2>5
  <2>7. End(m, q) \in C \cup {e + 1}
    BY <1>2, <2>3, <2>4, <2>6
  <2>8. End(m, q) - 1 \in 0 .. e /\ (End(m, q) - 1 < start \/ End(m, q) - 1 >= stop)
    BY <1>1, <1>2, <2>1, <2>3, <2>6
  <2>9. m2[End(m, q) - 1] = m[End(m, q) - 1]
    BY <1>3, <2>8
  <2> QED
    BY <2>2, <2>4, <2>7, <2>9 DEF End
<1>7. ASSUME NEW p \in C, NEW q \in C, q > p
      PROVE  q >= End(m2, p)
  <2>1. CASE p = start
    <3>1. q >= stop
      BY <1>2, <1>7, <2>1
    <3> QED
      BY <1>4, <2>1, <3>1
  <2>2. CASE p # start
    <3>1. End(m2, p) = End(m, p)
      BY <1>6, <2>2
    <3>2. q >= End(m, p)
      BY <1>5, <1>7 DEF Tiling
    <3> QED
      BY <3>1, <3>2
  <2> QED
    BY <2>1, <2>2
<1>8. ASSUME NEW p \in C
      PROVE  m2[p] # 0 /\ End(m2, p) \in C \cup {e + 1} /\ m2[End(m2, p) - 1] = m2[p]
  <2>1. CASE p = start
    BY <1>3, <1>4, <1>5, <2>1
  <2>2. CASE p # start
    <3>1. m[p] # 0
      BY <1>5 DEF Tiling
    <3> QED
      BY <1>6, <2>2, <3>1
  <2> QED
    BY <2>1, <2>2
<1>9. Tiling(m2, C, e)
  BY <1>1, <1>3, <1>5, <1>7, <1>8 DEF Tiling
<1> HIDE DEF C
<1>10. OneBlock(m, m2, e, C, start, stop, c)
  BY <1>3, <1>4, <1>6, <1>9 DEF OneBlock
<1> QED
  BY <1>10 DEF C, Outside

\* m2 is m with block p made two, of lengths a and b, the second from mid on.
TwoBlocks(m, m2, e, B, p, a, mid, b) ==
  /\ mid > p /\ mid < End(m, p) /\ mid \notin B
  /\ Tiling(m2, B \cup {mid}, e)
  /\ m2[p] = a /\ End(m2, p) = mid
  /\ m2[mid] = b /\ End(m2, mid) = End(m, p)
  /\ \A q \in B \ {p} : m2[q] = m[q] /\ End(m2, q) = End(m, q)

\* One block written as two.
LEMMA Cut ==
  ASSUME NEW e \in Nat, NEW m, NEW B \in SUBSET (0 .. e), Tiling(m, B, e), NEW p \in B,
         NEW a \in Int, a # 0, NEW b \in Int, b # 0,
         NEW mid \in Nat, mid = p + Abs(a) + 2, mid + Abs(b) + 2 = End(m, p),
         NEW m2, m2 = Tag(Tag(m, p, a), mid, b) \/ m2 = Tag(Tag(m, mid, b), p, a)
  PROVE  TwoBlocks(m, m2, e, B, p, a, mid, b)
<1> DEFINE stop == End(m, p)
<1>1. e \in Nat /\ m \in Memory(e) /\ B \subseteq 0 .. e /\ 0 \in B
  BY DEF Tiling
<1>2. p \in Nat /\ p \in 0 .. e /\ stop \in Nat /\ stop <= e + 1 /\ stop \in B \cup {e + 1}
  BY TilingFacts DEF Tiling
<1>3. Abs(a) \in Nat \ {0} /\ Abs(b) \in Nat \ {0}
  BY AbsIsNat
<1> HIDE DEF stop
<1>4. /\ mid \in Nat /\ mid > p + 2 /\ mid + 2 < stop
      /\ p + Abs(a) + 1 = mid - 1 /\ mid + Abs(b) + 1 = stop - 1
      /\ p + Abs(a) + 1 <= e /\ mid + Abs(b) + 1 <= e
  BY <1>1, <1>2, <1>3 DEF stop
<1>5. mid \notin B
  <2>1. \A q \in B : q > p => q >= stop
    BY DEF Tiling, stop
  <2> QED
    BY <1>2, <1>4, <2>1
<1>6. /\ m2 \in Memory(e) /\ m2[p] = a /\ m2[mid - 1] = a /\ m2[mid] = b /\ m2[stop - 1] = b
      /\ \A w \in 0 .. e : w < p \/ w >= stop => m2[w] = m[w]
  <2>1. p \in 0 .. e /\ mid - 1 \in 0 .. e /\ mid \in 0 .. e /\ stop - 1 \in 0 .. e
    BY <1>1, <1>2, <1>4
  <2>2. CASE m2 = Tag(Tag(m, p, a), mid, b)
    <3> DEFINE m1 == Tag(m, p, a)
    <3>1. /\ m1 \in Memory(e) /\ m1[p] = a /\ m1[mid - 1] = a
          /\ \A w \in 0 .. e : w < p \/ w > mid - 1 => m1[w] = m[w]
      BY <1>1, <1>2, <1>4, TagWords
    <3> HIDE DEF m1
    <3>2. /\ m2 \in Memory(e) /\ m2[mid] = b /\ m2[stop - 1] = b
          /\ \A w \in 0 .. e : w < mid \/ w > stop - 1 => m2[w] = m1[w]
      BY <1>1, <1>4, <2>2, <3>1, TagWords DEF m1
    <3>3. m2[p] = a /\ m2[mid - 1] = a
      BY <1>2, <1>4, <2>1, <3>1, <3>2
    <3> QED
      BY <1>2, <1>4, <3>1, <3>2, <3>3
  <2>3. CASE m2 = Tag(Tag(m, mid, b), p, a)
    <3> DEFINE m1 == Tag(m, mid, b)
    <3>1. /\ m1 \in Memory(e) /\ m1[mid] = b /\ m1[stop - 1] = b
          /\ \A w \in 0 .. e : w < mid \/ w > stop - 1 => m1[w] = m[w]
      BY <1>1, <1>4, TagWords
    <3> HIDE DEF m1
    <3>2. /\ m2 \in Memory(e) /\ m2[p] = a /\ m2[mid - 1] = a
          /\ \A w \in 0 .. e : w < p \/ w > mid - 1 => m2[w] = m1[w]
      BY <1>1, <1>2, <1>4, <2>3, <3>1, TagWords DEF m1
    <3>3. m2[mid] = b /\ m2[stop - 1] = b
      BY <1>2, <1>4, <2>1, <3>1, <3>2
    <3> QED
      BY <1>2, <1>4, <3>1, <3>2, <3>3
  <2> QED
    BY <2>2, <2>3
<1>7. End(m2, p) = mid /\ End(m2, mid) = stop
  BY <1>6 DEF End, stop
<1>8. ASSUME NEW q \in B \ {p}
      PROVE  /\ m2[q] = m[q] /\ End(m2, q) = End(m, q)
             /\ m2[End(m, q) - 1] = m2[q]
             /\ q < p => End(m, q) <= p
             /\ q > p => q >= stop
  <2>1. q \in 0 .. e /\ End(m, q) \in Nat /\ End(m, q) >= q + 3 /\ End(m, q) <= e + 1
    BY TilingFacts
  <2>2. (q < p => End(m, q) <= p) /\ (q > p => q >= stop) /\ m[End(m, q) - 1] = m[q]
    BY DEF Tiling, stop
  <2>3. q < p \/ q >= stop
    BY <1>2, <1>8, <2>1, <2>2
  <2>4. m2[q] = m[q]
    BY <1>6, <2>1, <2>3
  <2>5. End(m, q) - 1 \in 0 .. e /\ (End(m, q) - 1 < p \/ End(m, q) - 1 >= stop)
    BY <1>1, <1>2, <1>4, <2>1, <2>2, <2>3
  <2>6. m2[End(m, q) - 1] = m[End(m, q) - 1]
    BY <1>6, <2>5
  <2> QED
    BY <2>2, <2>4, <2>6 DEF End
<1>9. ASSUME NEW q \in B \cup {mid}
      PROVE  /\ m2[q] # 0 /\ End(m2, q) \in B \cup {mid} \cup {e + 1}
             /\ m2[End(m2, q) - 1] = m2[q]
  <2>1. q \in B => m[q] # 0 /\ End(m, q) \in B \cup {e + 1}
    BY DEF Tiling
  <2> QED
    BY <1>2, <1>6, <1>7, <1>8, <2>1
<1>10. ASSUME NEW q \in B \cup {mid}, NEW r \in B \cup {mid}, r > q
       PROVE  r >= End(m2, q)
  <2>1. q \in Nat /\ r \in Nat
    BY <1>1, <1>4
  <2>2. CASE q = p
    BY <1>2, <1>4, <1>7, <1>8, <1>10, <2>1, <2>2
  <2>3. CASE q = mid
    <3>1. r \in B \ {p} /\ r > p
      BY <1>2, <1>4, <1>10, <2>1, <2>3
    <3> QED
      BY <1>7, <1>8, <2>3, <3>1
  <2>4. CASE q \in B \ {p} /\ r \in B
    <3>1. r >= End(m, q)
      BY <1>10, <2>4 DEF Tiling
    <3> QED
      BY <1>8, <2>4, <3>1
  <2>5. CASE q \in B \ {p} /\ r = mid
    <3>1. ~ (q > p)
      BY <1>2, <1>4, <1>8, <1>10, <2>1, <2>5
    <3>2. q < p /\ End(m, q) <= p /\ End(m, q) \in Nat
      BY <1>2, <1>8, <2>1, <2>5, <3>1, TilingFacts
    <3> QED
      BY <1>2, <1>4, <1>8, <2>5, <3>2
  <2> QED
    BY <2>2, <2>3, <2>4, <2>5
<1>11. Tiling(m2, B \cup {mid}, e)
  <2>1. B \cup {mid} \subseteq 0 .. e /\ 0 \in B \cup {mid}
    <3>1. mid \in 0 .. e
      BY <1>2, <1>4
    <3> QED
      BY <1>1, <3>1
  <2> QED
    BY <1>1, <1>6, <1>9, <1>10, <2>1 DEF Tiling
<1> QED
  BY <1>2, <1>4, <1>5, <1>6, <1>7, <1>8, <1>11 DEF stop, TwoBlocks

-----------------------------------------------------------------------------
(* Lists of holes *)

\* The elements of a list in order.
LEMMA SortedFacts ==
  ASSUME NEW h \in Seq(Nat), \A a, b : Before(h, a, b) => a < b
  PROVE  /\ IsInjective(h)
         /\ \A i, j \in DOMAIN h : i < j => h[i] < h[j]
         /\ \A i \in DOMAIN h : h[i] \in Nat /\ h[i] \in Range(h)
<1>1. Len(h) \in Nat /\ DOMAIN h = 1 .. Len(h) /\ h \in [1 .. Len(h) -> Nat]
  BY LenProperties
<1>2. \A i \in DOMAIN h : h[i] \in Nat /\ h[i] \in Range(h)
  BY <1>1 DEF Range
<1>3. \A i, j \in DOMAIN h : i < j => h[i] < h[j]
  BY DEF Before
<1>4. ASSUME NEW i \in DOMAIN h, NEW j \in DOMAIN h, h[i] = h[j]
      PROVE  i = j
  <2>1. ~ (i < j) /\ ~ (j < i)
    BY <1>2, <1>3, <1>4
  <2> QED
    BY <1>1, <2>1
<1> QED
  BY <1>2, <1>3, <1>4 DEF IsInjective

\* A list in order stays so with x put at its place.
LEMMA SortedInsert ==
  ASSUME NEW h \in Seq(Nat), NEW x \in Nat, NEW I \in SUBSET DOMAIN h,
         \A a, b : Before(h, a, b) => a < b,
         \A i \in I, j \in DOMAIN h : i <= j => x < h[j],
         \A j \in DOMAIN h : (\A i \in I : j < i) => h[j] < x
  PROVE  \A a, b : Before(AddBefore(h, I, x), a, b) => a < b
<1> SUFFICES ASSUME NEW a, NEW b, Before(AddBefore(h, I, x), a, b)
             PROVE  a < b
  OBVIOUS
<1> DEFINE N == Nat
<1>2. h \in Seq(N) /\ x \in N
  OBVIOUS
<1> HIDE DEF N
<1>1. \/ Before(h, a, b)
      \/ a = x /\ \E i \in I, j \in DOMAIN h : i <= j /\ h[j] = b
      \/ b = x /\ \E j \in DOMAIN h : h[j] = a /\ \A i \in I : j < i
  BY <1>2, AddBeforeOrder
<1> QED
  BY <1>1

\* A hole of the list moved within its own words stays at its place.
LEMMA SortedReplace ==
  ASSUME NEW h \in Seq(Nat), NEW i \in DOMAIN h, NEW x \in Nat,
         \A a, b : Before(h, a, b) => a < b,
         h[i] <= x, \A j \in DOMAIN h : i < j => x < h[j]
  PROVE  /\ [h EXCEPT ![i] = x] \in Seq(Nat)
         /\ Range([h EXCEPT ![i] = x]) = (Range(h) \ {h[i]}) \cup {x}
         /\ \A a, b : Before([h EXCEPT ![i] = x], a, b) => a < b
<1> DEFINE g == [h EXCEPT ![i] = x]
<1>1. Len(h) \in Nat /\ DOMAIN h = 1 .. Len(h) /\ h \in [1 .. Len(h) -> Nat]
  BY LenProperties
<1>2. /\ \A k, l \in DOMAIN h : k < l => h[k] < h[l]
      /\ \A k, l \in DOMAIN h : h[k] = h[l] => k = l
      /\ \A k \in DOMAIN h : h[k] \in Nat
  BY SortedFacts DEF IsInjective
<1>3. g \in [1 .. Len(h) -> Nat] /\ DOMAIN g = DOMAIN h
  BY <1>1
<1>4. g[i] = x /\ \A k \in DOMAIN h : k # i => g[k] = h[k]
  BY <1>1
<1> HIDE DEF g
<1>5. g \in Seq(Nat)
  BY <1>1, <1>3, SeqDef, Zenon
<1>6. Range(g) = (Range(h) \ {h[i]}) \cup {x}
  BY <1>2, <1>3, <1>4 DEF Range
<1>7. ASSUME NEW k \in DOMAIN h, NEW l \in DOMAIN h, k < l
      PROVE  g[k] < g[l]
  <2>1. CASE k = i
    BY <1>4, <1>7, <1>1, <2>1
  <2>2. CASE k # i /\ l = i
    <3>1. h[k] < h[i] /\ h[k] \in Nat /\ h[i] \in Nat
      BY <1>2, <1>7, <2>2
    <3> QED
      BY <1>4, <2>2, <3>1
  <2>3. CASE k # i /\ l # i
    BY <1>2, <1>4, <1>7, <2>3
  <2> QED
    BY <2>1, <2>2, <2>3
<1>8. ASSUME NEW a, NEW b, Before(g, a, b)
      PROVE  a < b
  <2>1. PICK k \in DOMAIN h, l \in DOMAIN h : k < l /\ g[k] = a /\ g[l] = b
    BY <1>3, <1>8 DEF Before
  <2> QED
    BY <1>7, <2>1
<1> QED
  BY <1>5, <1>6, <1>8 DEF g

LEMMA ShapeFacts ==
  ASSUME HeapIInv
  PROVE  /\ heap_main_end \in Nat /\ blocks \in SUBSET (0 .. heap_main_end)
         /\ Tiling(mem, blocks, heap_main_end) /\ Coalesced(mem, blocks)
         /\ ListsHoles(holes_list, mem, blocks)
BY DEF HeapIInv, HeapShape, Tiling

\* What is on the list is a hole.
LEMMA ListedIsHole ==
  ASSUME HeapIInv, NEW i \in DOMAIN holes_list
  PROVE  /\ holes_list[i] \in blocks /\ mem[holes_list[i]] \in Int
         /\ mem[holes_list[i]] <= -HOLE_T_SIZE /\ mem[holes_list[i]] < 0
         /\ IsHole(holes_list[i])
<1> DEFINE p == holes_list[i]
<1>1. p \in Range(holes_list)
  BY DEF Range
<1>2. p \in blocks /\ mem[p] <= -HOLE_T_SIZE
  BY <1>1 DEF HeapIInv, HeapShape, ListsHoles
<1> HIDE DEF p
<1>3. mem[p] \in Int /\ p \in Nat /\ Abs(mem[p]) \in Nat
  BY <1>2, ShapeFacts, TilingFacts
<1>4. mem[p] < 0
  BY <1>2, <1>3, HeapAssumption
<1>5. mem[End(mem, p) - 1] = mem[p]
  BY <1>2 DEF HeapIInv, HeapShape, Tiling
<1>6. End(mem, p) - 1 = p + 1 + Abs(mem[p])
  BY <1>3 DEF End
<1>7. IsHole(p)
  BY <1>3, <1>4, <1>5, <1>6 DEF IsHole, ns_mem_block_validate
<1> QED
  BY <1>2, <1>3, <1>4, <1>7 DEF p

LEMMA LastOfPositions ==
  ASSUME NEW n \in Nat, NEW I \in SUBSET (1 .. n)
  PROVE  /\ I = {} => LastOf(I) = 0
         /\ I # {} => LastOf(I) \in I
<1>1. ASSUME I # {}
      PROVE  \E i \in I : \A j \in I : j <= i
  <2>1. I \in SUBSET (0 .. n)
    OBVIOUS
  <2> QED
    BY <1>1, <2>1, GreatestNumber
<1> QED
  BY <1>1 DEF LastOf

\* The search finds a hole that is large enough if there is one on the list.
LEMMA SearchFinds ==
  ASSUME HeapIInv, NEW n \in Nat, NEW direction
  PROVE  LET i == Search(n, direction)
         IN  \/ i = 0 /\ \A j \in DOMAIN holes_list : -mem[holes_list[j]] < n
             \/ i # 0 /\ i \in DOMAIN holes_list /\ -mem[holes_list[i]] >= n
<1> DEFINE stops == {i \in DOMAIN holes_list :
                       ~ IsHole(holes_list[i]) \/ -mem[holes_list[i]] >= n}
<1>1. Len(holes_list) \in Nat /\ DOMAIN holes_list = 1 .. Len(holes_list)
  BY LenProperties DEF HeapIInv, HeapShape, ListsHoles
<1>2. \A i \in DOMAIN holes_list : mem[holes_list[i]] \in Int /\ (i \in stops <=> -mem[holes_list[i]] >= n)
  BY ListedIsHole
<1>3. Search(n, direction) = IF direction > 0 THEN First(stops) ELSE LastOf(stops)
  BY DEF Search
<1>4. stops \in SUBSET (1 .. Len(holes_list))
  BY <1>1
<1> HIDE DEF stops
<1>5. CASE stops = {}
  <2>1. Search(n, direction) = 0
    BY <1>1, <1>3, <1>4, <1>5, FirstOfPositions, LastOfPositions
  <2> QED
    BY <1>2, <1>5, <2>1
<1>6. CASE stops # {}
  <2>1. First(stops) \in stops
    BY <1>1, <1>4, <1>6, FirstOfPositions
  <2>2. LastOf(stops) \in stops
    BY <1>1, <1>4, <1>6, LastOfPositions
  <2>3. Search(n, direction) \in stops
    BY <1>3, <2>1, <2>2
  <2>4. Search(n, direction) \in DOMAIN holes_list /\ Search(n, direction) # 0
    <3>1. Search(n, direction) \in 1 .. Len(holes_list)
      BY <1>4, <2>3
    <3>2. \A k \in 1 .. Len(holes_list) : k # 0
      OBVIOUS
    <3> QED
      BY <1>1, <3>1, <3>2
  <2> QED
    BY <1>2, <2>3, <2>4
<1> QED
  BY <1>5, <1>6

-----------------------------------------------------------------------------
(* Allocation *)

\* Block s, within what was the hole p, is handed out for n words.
HandsOut(n, s, p) ==
  /\ answer' = <<n, s>>
  /\ s \in blocks' /\ mem'[s] >= n /\ mem'[s] > 0
  /\ p <= s /\ End(mem', s) <= End(mem, p)
  /\ Allocated' = Allocated \cup {s}
  /\ \A q \in Allocated : mem'[q] = mem[q]

LEMMA TakeWholeEffect ==
  ASSUME HeapIInv, NEW i \in DOMAIN holes_list, NEW n \in Nat \ {0},
         -mem[holes_list[i]] >= n, UNCHANGED heap_main_end,
         TakeWhole(holes_list[i], n)
  PROVE  HeapShape' /\ HandsOut(n, holes_list[i], holes_list[i])
<1> DEFINE p == holes_list[i]
           c == -mem[p]
<1>1. p \in blocks /\ mem[p] \in Int /\ mem[p] <= -HOLE_T_SIZE /\ mem[p] < 0
  BY ListedIsHole
<1>2. /\ mem' = Tag(mem, p, c) /\ holes_list' = Unlink(holes_list, p)
      /\ answer' = <<n, p>> /\ blocks' = blocks /\ heap_main_end' = heap_main_end
  BY DEF TakeWhole
<1>3. /\ Tiling(mem, blocks, heap_main_end) /\ Coalesced(mem, blocks) /\ ListsHoles(holes_list, mem, blocks)
      /\ heap_main_end \in Nat /\ blocks \in SUBSET (0 .. heap_main_end)
  BY ShapeFacts
<1>4. c >= n
  OBVIOUS
<1> HIDE DEF p
<1>5. c \in Int /\ c > 0 /\ Abs(c) = c /\ Abs(mem[p]) = c
  BY <1>1 DEF Abs
<1> HIDE DEF c
<1>6. /\ p + Abs(c) + 2 = End(mem, p) /\ End(mem, p) \in blocks \cup {heap_main_end + 1}
      /\ End(mem, p) \in Nat
  <2>1. End(mem, p) \in blocks \cup {heap_main_end + 1}
    BY <1>1, <1>3 DEF Tiling
  <2> QED
    BY <1>1, <1>3, <1>5, <2>1, TilingFacts DEF End
<1>7. Outside(blocks, p, End(mem, p)) = blocks
  <2>1. \A q \in blocks : q \in Nat /\ p \in Nat /\ (q > p => q >= End(mem, p))
    BY <1>1, <1>3, TilingFacts DEF Tiling
  <2> QED
    BY <2>1 DEF Outside
<1>8. /\ Tiling(mem', blocks, heap_main_end)
      /\ mem'[p] = c /\ End(mem', p) = End(mem, p)
      /\ \A q \in blocks \ {p} : mem'[q] = mem[q] /\ End(mem', q) = End(mem, q)
  <2>1. c # 0
    BY <1>5
  <2>2. OneBlock(mem, mem', heap_main_end, Outside(blocks, p, End(mem, p)), p, End(mem, p), c)
    BY <1>1, <1>2, <1>3, <1>5, <1>6, <2>1, Merge
  <2> QED
    BY <1>7, <2>2 DEF OneBlock
<1>9. Coalesced(mem', blocks)
  <2> SUFFICES ASSUME NEW q \in blocks, mem'[q] < 0, End(mem', q) \in blocks
               PROVE  mem'[End(mem', q)] > 0
    BY DEF Coalesced
  <2>1. q # p /\ mem'[q] = mem[q] /\ End(mem', q) = End(mem, q)
    BY <1>5, <1>8
  <2>2. mem[End(mem, q)] > 0
    BY <1>3, <2>1 DEF Coalesced
  <2> QED
    BY <1>5, <1>8, <2>1, <2>2
<1>10. ListsHoles(holes_list', mem', blocks)
  <2>1. holes_list \in Seq(Nat) /\ IsInjective(holes_list) /\ \A a, b : Before(holes_list, a, b) => a < b
    BY <1>3, SortedFacts DEF ListsHoles
  <2>2. holes_list' \in Seq(Nat) /\ Range(holes_list') = Range(holes_list) \ {p}
    BY <1>2, <2>1, UnlinkElements
  <2>3. \A a, b : Before(holes_list', a, b) => a < b
    BY <1>2, <2>1, UnlinkOrder
  <2>4. {q \in blocks : mem'[q] <= -HOLE_T_SIZE} = {q \in blocks : mem[q] <= -HOLE_T_SIZE} \ {p}
    <3>1. ~ (mem'[p] <= -HOLE_T_SIZE)
      BY <1>5, <1>8, HeapAssumption
    <3> QED
      BY <1>1, <1>8, <3>1
  <2> QED
    BY <1>3, <2>2, <2>3, <2>4 DEF ListsHoles
<1>11. HeapShape'
  BY <1>2, <1>8, <1>9, <1>10 DEF HeapShape
<1>12. Allocated' = Allocated \cup {p} /\ \A q \in Allocated : mem'[q] = mem[q]
  <2>1. p \notin Allocated
    BY <1>1 DEF Allocated
  <2> QED
    BY <1>1, <1>2, <1>5, <1>8, <2>1 DEF Allocated
<1>13. p \in Nat /\ End(mem, p) \in Nat
  BY <1>1, <1>3, TilingFacts
<1> QED
  BY <1>1, <1>2, <1>4, <1>5, <1>8, <1>11, <1>12, <1>13 DEF HandsOut, p

LEMMA SplitEffect ==
  ASSUME HeapIInv, NEW i \in DOMAIN holes_list, NEW n \in Nat \ {0}, NEW direction,
         -mem[holes_list[i]] >= n + 2 + HOLE_T_SIZE, UNCHANGED heap_main_end,
         Split(i, holes_list[i], n, direction)
  PROVE  HeapShape' /\ \E s \in Nat : HandsOut(n, s, holes_list[i])
<1> DEFINE p == holes_list[i]
           rest == -mem[p] - n - 2
           hole == IF direction > 0 THEN p + n + 2 ELSE p
           block == IF direction > 0 THEN p ELSE p + rest + 2
           a == IF direction > 0 THEN n ELSE -rest
           b == IF direction > 0 THEN -rest ELSE n
           mid == IF direction > 0 THEN hole ELSE block
<1>1. p \in blocks /\ mem[p] \in Int /\ mem[p] <= -HOLE_T_SIZE /\ mem[p] < 0
  BY ListedIsHole
<1>2. /\ mem' = Tag(Tag(mem, hole, -rest), block, n)
      /\ holes_list' = [holes_list EXCEPT ![i] = hole]
      /\ blocks' = blocks \cup {hole, block}
      /\ answer' = <<n, block>> /\ heap_main_end' = heap_main_end
  BY DEF Split
<1>3. /\ Tiling(mem, blocks, heap_main_end) /\ Coalesced(mem, blocks) /\ ListsHoles(holes_list, mem, blocks)
      /\ heap_main_end \in Nat /\ blocks \in SUBSET (0 .. heap_main_end)
  BY ShapeFacts
<1>4. -mem[p] >= n + 2 + HOLE_T_SIZE /\ HOLE_T_SIZE \in Nat \ {0}
  BY HeapAssumption
<1> HIDE DEF p
<1>5. rest \in Nat /\ rest >= HOLE_T_SIZE /\ -mem[p] = rest + n + 2 /\ Abs(mem[p]) = rest + n + 2
  BY <1>1, <1>4 DEF Abs
<1>6. p \in Nat /\ End(mem, p) = p + rest + n + 4
  BY <1>1, <1>3, <1>5, TilingFacts DEF End
<1> HIDE DEF rest
<1>7. /\ a \in Int /\ a # 0 /\ b \in Int /\ b # 0 /\ mid \in Nat
      /\ mid = p + Abs(a) + 2 /\ mid + Abs(b) + 2 = End(mem, p)
  BY <1>4, <1>5, <1>6 DEF Abs
<1>8. mem' = Tag(Tag(mem, p, a), mid, b) \/ mem' = Tag(Tag(mem, mid, b), p, a)
  BY <1>2
<1>9. blocks' = blocks \cup {mid} /\ {p, mid} = {hole, block} /\ hole # block
  BY <1>1, <1>2, <1>5, <1>6
<1>10. /\ hole = p => a = -rest /\ mid = block /\ b = n
       /\ hole = mid => b = -rest /\ p = block /\ a = n
       /\ hole \in Nat /\ block \in Nat /\ p <= hole /\ hole < End(mem, p) /\ p <= block
  BY <1>5, <1>6
<1>11. \/ hole = p /\ block = mid /\ a = -rest /\ b = n
       \/ hole = mid /\ block = p /\ a = n /\ b = -rest
  OBVIOUS
<1> HIDE DEF a, b, mid, hole, block
<1>12. /\ mid \in Nat /\ mid > p /\ mid < End(mem, p) /\ mid \notin blocks
       /\ Tiling(mem', blocks \cup {mid}, heap_main_end)
       /\ mem'[p] = a /\ End(mem', p) = mid
       /\ mem'[mid] = b /\ End(mem', mid) = End(mem, p)
       /\ \A q \in blocks \ {p} : mem'[q] = mem[q] /\ End(mem', q) = End(mem, q)
  <2>1. TwoBlocks(mem, mem', heap_main_end, blocks, p, a, mid, b)
    BY <1>1, <1>3, <1>7, <1>8, Cut
  <2> QED
    BY <1>7, <2>1 DEF TwoBlocks
<1>13. mem'[hole] = -rest /\ mem'[block] = n
  BY <1>11, <1>12
<1>14. \A q \in blocks : mem[q] < 0 => End(mem, q) # p
  BY <1>1, <1>3 DEF Coalesced
<1>15. Coalesced(mem', blocks')
  <2> SUFFICES ASSUME NEW q \in blocks', mem'[q] < 0, End(mem', q) \in blocks'
               PROVE  mem'[End(mem', q)] > 0
    BY DEF Coalesced
  <2>1. CASE q \in blocks \ {p}
    <3>1. mem[q] < 0 /\ End(mem', q) = End(mem, q)
      BY <1>12, <2>1
    <3>2. End(mem, q) \in blocks \cup {heap_main_end + 1}
      BY <1>3, <2>1 DEF Tiling
    <3>3. heap_main_end + 1 \notin blocks'
      <4>1. mid <= heap_main_end
        BY <1>12 DEF Tiling
      <4> QED
        BY <1>3, <1>9, <1>12, <4>1 DEF Tiling
    <3>4. End(mem, q) \in blocks
      BY <3>1, <3>2, <3>3
    <3>5. mem[End(mem, q)] > 0 /\ End(mem, q) # p
      BY <1>3, <1>14, <2>1, <3>1, <3>4 DEF Coalesced
    <3> QED
      BY <1>12, <3>1, <3>4, <3>5
  <2>2. CASE q = p
    <3>1. hole = p /\ block = mid
      BY <1>11, <1>12, <2>2
    <3> QED
      BY <1>12, <1>13, <2>2, <3>1
  <2>3. CASE q = mid
    <3>1. End(mem', q) = End(mem, p)
      BY <1>12, <2>3
    <3>2. End(mem, p) # mid /\ End(mem, p) # p /\ End(mem, p) \in blocks
      BY <1>6, <1>9, <1>12, <3>1
    <3>3. mem[End(mem, p)] > 0
      BY <1>1, <1>3, <3>2 DEF Coalesced
    <3> QED
      BY <1>12, <3>1, <3>2, <3>3
  <2> QED
    BY <1>9, <2>1, <2>2, <2>3
<1>16. ListsHoles(holes_list', mem', blocks')
  <2>1. holes_list \in Seq(Nat) /\ \A x, y : Before(holes_list, x, y) => x < y
    BY <1>3 DEF ListsHoles
  <2>2. \A j \in DOMAIN holes_list : i < j => hole < holes_list[j]
    <3> SUFFICES ASSUME NEW j \in DOMAIN holes_list, i < j
                 PROVE  hole < holes_list[j]
      OBVIOUS
    <3>1. holes_list[j] > p /\ holes_list[j] \in blocks /\ holes_list[j] \in Nat
      BY <1>6, <2>1, SortedFacts, ListedIsHole DEF p
    <3>2. holes_list[j] >= End(mem, p)
      BY <1>1, <1>3, <3>1 DEF Tiling
    <3> QED
      BY <1>5, <1>6, <1>10, <3>1, <3>2
  <2>3. /\ holes_list' \in Seq(Nat) /\ Range(holes_list') = (Range(holes_list) \ {p}) \cup {hole}
        /\ \A x, y : Before(holes_list', x, y) => x < y
    <3>1. holes_list[i] <= hole /\ hole \in Nat
      BY <1>10 DEF p
    <3>2. /\ [holes_list EXCEPT ![i] = hole] \in Seq(Nat)
          /\ Range([holes_list EXCEPT ![i] = hole]) = (Range(holes_list) \ {holes_list[i]}) \cup {hole}
          /\ \A x, y : Before([holes_list EXCEPT ![i] = hole], x, y) => x < y
      BY <2>1, <2>2, <3>1, SortedReplace, Zenon
    <3> QED
      BY <1>2, <3>2 DEF p
  <2>4. mem'[hole] <= -HOLE_T_SIZE /\ ~ (mem'[block] <= -HOLE_T_SIZE)
    BY <1>4, <1>5, <1>13
  <2>5. {q \in blocks' : mem'[q] <= -HOLE_T_SIZE} = ({q \in blocks : mem[q] <= -HOLE_T_SIZE} \ {p}) \cup {hole}
    BY <1>1, <1>9, <1>12, <2>4
  <2> QED
    BY <1>3, <2>3, <2>5 DEF ListsHoles
<1>17. HeapShape'
  BY <1>2, <1>9, <1>12, <1>15, <1>16 DEF HeapShape
<1>18. Allocated' = Allocated \cup {block} /\ \A q \in Allocated : mem'[q] = mem[q]
  <2>1. p \notin Allocated
    BY <1>1 DEF Allocated
  <2>2. mem'[block] > 0 /\ ~ (mem'[hole] > 0)
    BY <1>4, <1>5, <1>13
  <2>3. \A q \in Allocated : mem'[q] = mem[q]
    BY <1>12, <2>1 DEF Allocated
  <2>4. blocks' = (blocks \ {p}) \cup {hole, block}
    BY <1>1, <1>9
  <2> QED
    BY <1>12, <2>1, <2>2, <2>3, <2>4 DEF Allocated
<1>19. End(mem', block) <= End(mem, p)
  BY <1>5, <1>6, <1>11, <1>12
<1>20. HandsOut(n, block, p)
  BY <1>2, <1>9, <1>10, <1>13, <1>18, <1>19 DEF HandsOut
<1> QED
  BY <1>10, <1>17, <1>20 DEF p

\* An allocation, whether it takes a hole or a part of one.
LEMMA TakeEffect ==
  ASSUME HeapIInv, NEW i \in DOMAIN holes_list, NEW n \in Nat \ {0}, NEW direction,
         -mem[holes_list[i]] >= n, UNCHANGED heap_main_end,
         Take(i, holes_list[i], n, direction)
  PROVE  HeapShape' /\ \E s \in Nat : HandsOut(n, s, holes_list[i])
<1>1. CASE -mem[holes_list[i]] >= n + 2 + HOLE_T_SIZE
  <2>1. Split(i, holes_list[i], n, direction)
    BY <1>1 DEF Take
  <2> QED
    BY <1>1, <2>1, SplitEffect
<1>2. CASE ~ (-mem[holes_list[i]] >= n + 2 + HOLE_T_SIZE)
  <2>1. TakeWhole(holes_list[i], n)
    BY <1>2 DEF Take
  <2>2. HeapShape' /\ HandsOut(n, holes_list[i], holes_list[i])
    BY <2>1, TakeWholeEffect
  <2>3. holes_list[i] \in Nat
    <3>1. holes_list[i] \in blocks
      BY ListedIsHole
    <3> QED
      BY <3>1, ShapeFacts, TilingFacts
  <2> QED
    BY <2>2, <2>3
<1> QED
  BY <1>1, <1>2

-----------------------------------------------------------------------------
(* Giving back *)

\* The free block below p, if there is one, and where the merged block starts.
LEMMA BelowFacts ==
  ASSUME HeapIInv, NEW p \in blocks
  PROVE  LET start == p - Below(p)
         IN  /\ start \in blocks
             /\ \/ Below(p) = 0 /\ start = p /\ (p # 0 => mem[p - 1] >= 0)
                \/ /\ Below(p) = 2 - mem[start] /\ Below(p) > 0 /\ start < p
                   /\ mem[start] < 0 /\ End(mem, start) = p /\ mem[p - 1] = mem[start]
<1>1. Tiling(mem, blocks, heap_main_end) /\ p \in Nat /\ p <= heap_main_end
  BY ShapeFacts, TilingFacts
<1>2. mem \in Memory(heap_main_end) /\ heap_main_end \in Nat
  BY <1>1 DEF Tiling
<1>3. CASE p # 0 /\ mem[p - 1] < 0
  <2>1. PICK r \in blocks : r < p /\ End(mem, r) = p /\ mem[p - 1] = mem[r]
    BY <1>3, ShapeFacts, TilingBefore
  <2>2. r \in Nat /\ mem[r] \in Int /\ mem[r] < 0
    BY <1>3, <2>1, ShapeFacts, TilingFacts
  <2>3. p = r - mem[r] + 2 /\ Below(p) = 2 - mem[r]
    BY <1>3, <2>1, <2>2 DEF End, Abs, Below
  <2>4. p - Below(p) = r
    BY <2>2, <2>3
  <2> QED
    BY <1>3, <2>1, <2>2, <2>3, <2>4
<1>4. CASE ~ (p # 0 /\ mem[p - 1] < 0)
  <2>1. Below(p) = 0
    BY <1>4 DEF Below
  <2>2. p # 0 => mem[p - 1] \in Int
    BY <1>1, <1>2 DEF Memory
  <2> QED
    BY <1>1, <1>4, <2>1, <2>2
<1> QED
  BY <1>3, <1>4

\* The free block behind p, at n, if there is one, and where the merged block ends.
LEMMA AboveFacts ==
  ASSUME HeapIInv, NEW p \in blocks, NEW n, n = End(mem, p)
  PROVE  LET stop == n + Above(n)
         IN  /\ stop \in blocks \cup {heap_main_end + 1} /\ stop \in Nat /\ n \in Nat
             /\ stop \in blocks => mem[stop] > 0
             /\ \/ Above(n) = 0 /\ stop = n /\ (n \in blocks => mem[n] > 0)
                \/ /\ Above(n) = 2 - mem[n] /\ Above(n) > 0 /\ n \in blocks
                   /\ mem[n] < 0 /\ stop = End(mem, n)
<1>1. /\ Tiling(mem, blocks, heap_main_end) /\ Coalesced(mem, blocks)
      /\ n \in Nat /\ n \in blocks \cup {heap_main_end + 1}
  BY ShapeFacts, TilingFacts DEF Tiling
<1>2. heap_main_end \in Nat /\ heap_main_end + 1 \notin blocks /\ heap_main_end + 1 \in Nat
  BY <1>1 DEF Tiling
<1>3. CASE n # heap_main_end + 1 /\ mem[n] < 0
  <2>1. n \in blocks /\ mem[n] \in Int /\ End(mem, n) \in Nat
    BY <1>1, <1>3, ShapeFacts, TilingFacts
  <2>2. Above(n) = 2 - mem[n] /\ End(mem, n) = n + Above(n) /\ Above(n) > 0
    BY <1>1, <1>3, <2>1 DEF Above, End, Abs
  <2>3. End(mem, n) \in blocks \cup {heap_main_end + 1}
    BY <1>1, <2>1 DEF Tiling
  <2>4. End(mem, n) \in blocks => mem[End(mem, n)] > 0
    BY <1>1, <1>3, <2>1 DEF Coalesced
  <2> QED
    BY <1>1, <1>3, <2>1, <2>2, <2>3, <2>4
<1>4. CASE ~ (n # heap_main_end + 1 /\ mem[n] < 0)
  <2>1. Above(n) = 0 /\ n + Above(n) = n
    BY <1>1, <1>4 DEF Above
  <2>2. n \in blocks => mem[n] > 0
    <3> SUFFICES ASSUME n \in blocks PROVE mem[n] > 0
      OBVIOUS
    <3>1. mem[n] \in Int /\ mem[n] # 0
      BY ShapeFacts, TilingFacts
    <3> QED
      BY <1>2, <1>4, <3>1
  <2> QED
    BY <1>1, <2>1, <2>2
<1> QED
  BY <1>3, <1>4

LEMMA GiveBackEffect ==
  ASSUME HeapIInv, NEW p \in Allocated, UNCHANGED heap_main_end,
         ns_mem_free_and_merge_with_adjacent_blocks(p)
  PROVE  /\ HeapShape' /\ failure' = failure
         /\ Allocated' = Allocated \ {p}
         /\ \A q \in Allocated \ {p} : mem'[q] = mem[q]
<1> DEFINE n == p + mem[p] + 2
           start == p - Below(p)
           stop == n + Above(n)
           len == Below(p) + mem[p] + Above(n)
           below == HasDescriptor(Below(p))
           above == HasDescriptor(Above(n))
           C == {q \in blocks : q <= start \/ q >= stop}
           H == {q \in blocks : mem[q] <= -HOLE_T_SIZE}
<1>1. /\ mem' = Tag(mem, start, -len) /\ heap_main_end' = heap_main_end
      /\ holes_list' = Merged(start, len, below, above, n)
      /\ blocks' = (blocks \ {b \in {p, n} : b # start /\ (b = n => Above(n) > 0)})
      /\ failure' = IF Corrupt(p, n) THEN "corrupted" ELSE failure
  BY DEF ns_mem_free_and_merge_with_adjacent_blocks
<1>2. /\ Tiling(mem, blocks, heap_main_end) /\ Coalesced(mem, blocks) /\ ListsHoles(holes_list, mem, blocks)
      /\ heap_main_end \in Nat /\ blocks \in SUBSET (0 .. heap_main_end)
  BY ShapeFacts
<1>3. p \in blocks /\ p \in Nat /\ mem[p] \in Int /\ mem[p] > 0
  BY <1>2, TilingFacts DEF Allocated
<1>4. n = End(mem, p) /\ n \in Nat /\ n > p
  BY <1>3 DEF End, Abs
<1>5. /\ start \in blocks
      /\ \/ Below(p) = 0 /\ start = p /\ (p # 0 => mem[p - 1] >= 0)
         \/ /\ Below(p) = 2 - mem[start] /\ Below(p) > 0 /\ start < p
            /\ mem[start] < 0 /\ End(mem, start) = p /\ mem[p - 1] = mem[start]
  BY <1>3, BelowFacts
<1> HIDE DEF n
<1>6. /\ stop \in blocks \cup {heap_main_end + 1} /\ stop \in Nat
      /\ stop \in blocks => mem[stop] > 0
      /\ \/ Above(n) = 0 /\ stop = n /\ (n \in blocks => mem[n] > 0)
         \/ /\ Above(n) = 2 - mem[n] /\ Above(n) > 0 /\ n \in blocks
            /\ mem[n] < 0 /\ stop = End(mem, n)
  BY <1>3, <1>4, AboveFacts
<1>7. start \in Nat /\ mem[start] \in Int /\ Below(p) \in Nat /\ start = p - Below(p) /\ start <= p
  <2>1. start \in Nat /\ mem[start] \in Int
    BY <1>2, <1>5, TilingFacts
  <2> QED
    BY <1>3, <1>5, <2>1
<1>8. Above(n) \in Nat /\ (n \in blocks => mem[n] \in Int) /\ stop = n + Above(n) /\ stop >= n
  <2>1. n \in blocks => mem[n] \in Int
    BY <1>2, TilingFacts
  <2> QED
    BY <1>4, <1>6, <2>1
<1>9. len \in Nat \ {0} /\ start + len + 2 = stop /\ len >= Below(p) /\ len >= Above(n)
  <2>1. len \in Nat \ {0} /\ len >= Below(p) /\ len >= Above(n)
    BY <1>3, <1>7, <1>8
  <2>2. n = p + mem[p] + 2
    BY DEF n
  <2> HIDE DEF start, stop
  <2>3. start + len + 2 = p + mem[p] + 2 + Above(n)
    BY <1>3, <1>7, <1>8
  <2> HIDE DEF len
  <2> QED
    BY <1>3, <1>4, <1>8, <2>1, <2>2, <2>3
<1> HIDE DEF start, stop, len
<1>10. \A q \in blocks : /\ q \in Nat
                         /\ q > p => q >= n
                         /\ q > start /\ q < p => FALSE
                         /\ q > n /\ q < stop => FALSE
  <2> TAKE q \in blocks
  <2>1. q \in Nat
    BY <1>2, TilingFacts
  <2>2. q > p => q >= n
    BY <1>2, <1>3, <1>4 DEF Tiling
  <2>3. start < p /\ q > start => q >= p
    BY <1>2, <1>5, <1>7, <1>3 DEF Tiling
  <2>4. stop # n /\ q > n => q >= stop
    BY <1>2, <1>6 DEF Tiling
  <2> QED
    BY <1>3, <1>4, <1>6, <1>7, <2>1, <2>2, <2>3, <2>4
<1>11. blocks' = C
  <2>1. \A q \in blocks : (q <= start \/ q >= stop) <=> ~ (q \in {p, n} /\ q # start /\ (q = n => Above(n) > 0))
    <3> TAKE q \in blocks
    <3>1. CASE q = p
      BY <1>3, <1>4, <1>7, <1>8, <3>1
    <3>2. CASE q = n
      BY <1>3, <1>4, <1>7, <1>8, <3>2
    <3>3. CASE q # p /\ q # n
      BY <1>3, <1>4, <1>7, <1>8, <1>10, <3>3
    <3> QED
      BY <3>1, <3>2, <3>3
  <2> QED
    BY <1>1, <2>1
<1>12. -len \in Int /\ -len # 0 /\ Abs(-len) = len /\ start + Abs(-len) + 2 = stop
  BY <1>9 DEF Abs
<1>13. /\ Tiling(mem', C, heap_main_end)
       /\ mem'[start] = -len /\ End(mem', start) = stop
       /\ \A q \in C \ {start} : mem'[q] = mem[q] /\ End(mem', q) = End(mem, q)
  <2>1. OneBlock(mem, mem', heap_main_end, Outside(blocks, start, stop), start, stop, -len)
    BY <1>1, <1>2, <1>5, <1>6, <1>12, Merge
  <2>2. C = Outside(blocks, start, stop)
    BY DEF Outside
  <2> HIDE DEF C
  <2> QED
    BY <2>1, <2>2 DEF OneBlock
<1>14. ~ Corrupt(p, n)
  <2>1. Below(p) > 0 => mem[p - Below(p)] = mem[p - 1]
    BY <1>5, <1>7
  <2>2. Above(n) > 0 => mem[n + Above(n) - 1] = mem[n]
    <3> SUFFICES ASSUME Above(n) > 0 PROVE mem[n + Above(n) - 1] = mem[n]
      OBVIOUS
    <3>1. n \in blocks /\ n + Above(n) = End(mem, n)
      BY <1>6, <1>8
    <3>2. mem[End(mem, n) - 1] = mem[n]
      BY <1>2, <3>1 DEF Tiling
    <3>3. n + Above(n) - 1 = End(mem, n) - 1
      BY <1>4, <1>8, <3>1
    <3> HIDE DEF n
    <3> QED
      BY <3>2, <3>3
  <2> QED
    BY <2>1, <2>2 DEF Corrupt
<1>15. Coalesced(mem', C)
  <2> SUFFICES ASSUME NEW q \in C, mem'[q] < 0, End(mem', q) \in C
               PROVE  mem'[End(mem', q)] > 0
    BY DEF Coalesced
  <2>1. CASE q = start
    <3>1. End(mem', q) = stop /\ stop \in blocks /\ stop # start
      BY <1>7, <1>9, <1>13, <2>1
    <3> QED
      BY <1>6, <1>13, <3>1
  <2>2. CASE q # start
    <3>1. q \in blocks /\ mem[q] < 0 /\ End(mem', q) = End(mem, q) /\ End(mem, q) \in blocks
      BY <1>13, <2>2
    <3>2. mem[End(mem, q)] > 0
      BY <1>2, <3>1 DEF Coalesced
    <3>3. End(mem, q) # start
      <4> SUFFICES ASSUME End(mem, q) = start PROVE FALSE
        OBVIOUS
      <4>1. start = p /\ (p # 0 => mem[p - 1] >= 0)
        BY <1>5, <1>7, <3>2
      <4>2. mem[p - 1] = mem[q] /\ mem[q] \in Int /\ p # 0
        BY <1>2, <3>1, <4>1, TilingFacts DEF Tiling
      <4> QED
        BY <3>1, <4>1, <4>2
    <3> QED
      BY <1>13, <3>1, <3>2, <3>3
  <2> QED
    BY <2>1, <2>2
<1>16. Allocated' = Allocated \ {p} /\ \A q \in Allocated \ {p} : mem'[q] = mem[q]
  <2>1. ~ (mem'[start] > 0)
    BY <1>9, <1>13
  <2>2. p \in C => p = start
    BY <1>3, <1>4, <1>7, <1>8
  <2>3. ASSUME NEW q \in blocks, mem[q] > 0, q # p
        PROVE  q \in C \ {start}
    <3>1. q # start
      BY <1>5, <1>7, <2>3
    <3>2. ~ (q = n /\ Above(n) > 0)
      BY <1>6, <1>8, <2>3
    <3> QED
      BY <1>1, <1>11, <2>3, <3>1, <3>2
  <2>4. Allocated' = {q \in C : mem'[q] > 0}
    BY <1>11 DEF Allocated
  <2>5. C \subseteq blocks
    OBVIOUS
  <2> HIDE DEF C
  <2> QED
    BY <1>13, <2>1, <2>2, <2>3, <2>4, <2>5 DEF Allocated
<1>17. below <=> start \in H
  <2>1. HOLE_T_SIZE \in Nat
    BY HeapAssumption
  <2> QED
    BY <1>3, <1>5, <1>7, <2>1 DEF HasDescriptor
<1>18. above <=> n \in H
  <2>1. HOLE_T_SIZE \in Nat
    BY HeapAssumption
  <2> QED
    BY <1>4, <1>6, <1>8, <2>1 DEF HasDescriptor
<1>19. {q \in C : mem'[q] <= -HOLE_T_SIZE} = (H \ {start, n}) \cup (IF len >= HOLE_T_SIZE THEN {start} ELSE {})
  <2>1. mem'[start] <= -HOLE_T_SIZE <=> len >= HOLE_T_SIZE
    BY <1>9, <1>13, HeapAssumption
  <2>2. start \in C
    BY <1>5, <1>7
  <2>3. ASSUME NEW q \in H, q # start, q # n
        PROVE  q \in C \ {start}
    <3>1. q # p
      BY <1>3, <2>3, HeapAssumption
    <3> QED
      BY <1>1, <1>11, <2>3, <3>1
  <2>4. n \notin {q \in C : mem'[q] <= -HOLE_T_SIZE}
    <3> SUFFICES ASSUME n \in C, mem'[n] <= -HOLE_T_SIZE
                 PROVE  FALSE
      OBVIOUS
    <3>1. n \in blocks /\ n # start /\ n >= stop
      BY <1>3, <1>4, <1>7
    <3>2. Above(n) = 0 /\ mem[n] > 0
      BY <1>4, <1>6, <1>8, <3>1
    <3>3. mem'[n] = mem[n] /\ mem[n] \in Int
      BY <1>8, <1>13, <3>1
    <3> QED
      BY <3>2, <3>3, HeapAssumption
  <2> QED
    BY <1>13, <2>1, <2>2, <2>3, <2>4
<1> DEFINE rest == IF above THEN Unlink(holes_list, n) ELSE holes_list
           place == {i \in DOMAIN rest : IF above THEN holes_list[i] = n ELSE holes_list[i] > start}
<1>20. holes_list' = IF below \/ len < HOLE_T_SIZE THEN rest ELSE AddBefore(rest, place, start)
  BY <1>1 DEF Merged
<1>21. /\ holes_list \in Seq(Nat) /\ IsInjective(holes_list) /\ Range(holes_list) = H
       /\ \A a, b : Before(holes_list, a, b) => a < b
       /\ \A i, j \in DOMAIN holes_list : i < j => holes_list[i] < holes_list[j]
       /\ \A i \in DOMAIN holes_list : holes_list[i] \in Nat /\ holes_list[i] \in H
  BY <1>2, SortedFacts DEF ListsHoles
<1>22. rest \in Seq(Nat) /\ Range(rest) = H \ {n} /\ \A a, b : Before(rest, a, b) => a < b
  <2>1. CASE above
    <3>1. rest = Unlink(holes_list, n)
      BY <2>1
    <3> HIDE DEF rest, H
    <3>2. rest \in Seq(Nat) /\ Range(rest) = H \ {n}
      BY <1>21, <3>1, UnlinkElements
    <3>3. \A a, b : Before(rest, a, b) => a < b
      BY <1>21, <3>1, UnlinkOrder
    <3> QED
      BY <3>2, <3>3
  <2>2. CASE ~ above
    BY <1>18, <1>21, <2>2
  <2> QED
    BY <2>1, <2>2
<1>23. ASSUME ~ below
       PROVE  /\ place \in SUBSET DOMAIN rest
              /\ \A i \in place, j \in DOMAIN rest : i <= j => start < rest[j]
              /\ \A j \in DOMAIN rest : (\A i \in place : j < i) => rest[j] < start
  <2>1. start \notin H /\ p \notin H
    BY <1>3, <1>17, <1>23, HeapAssumption
  <2>2. Len(holes_list) \in Nat /\ DOMAIN holes_list = 1 .. Len(holes_list)
    BY <1>21, LenProperties
  <2>3. CASE above
    <3>1. n \in Range(holes_list) /\ rest = Unlink(holes_list, n)
      BY <1>18, <1>21, <2>3
    <3> HIDE DEF H
    <3>2. PICK k \in 1 .. Len(holes_list) :
            /\ holes_list[k] = n
            /\ DOMAIN rest = 1 .. Len(holes_list) - 1
            /\ \A i \in 1 .. Len(holes_list) - 1 :
                 rest[i] = IF i < k THEN holes_list[i] ELSE holes_list[i + 1]
      <4> DEFINE N == Nat
      <4>1. holes_list \in Seq(N)
        BY <1>21
      <4> HIDE DEF rest, N
      <4> QED
        BY <3>1, <4>1, UnlinkPositions
    <3>3. \A i \in DOMAIN rest : i \in place <=> i = k
      <4>1. \A i \in DOMAIN rest : i \in place <=> holes_list[i] = n
        BY <2>3
      <4>2. \A i \in DOMAIN holes_list : holes_list[i] = n => i = k
        BY <1>21, <2>2, <3>2 DEF IsInjective
      <4> HIDE DEF place, rest
      <4> QED
        BY <2>2, <3>2, <4>1, <4>2
    <3> HIDE DEF rest
    <3>4. place \in SUBSET DOMAIN rest
      OBVIOUS
    <3> HIDE DEF place
    <3>5. ASSUME NEW i \in place, NEW j \in DOMAIN rest, i <= j
          PROVE  start < rest[j]
      <4>1. i = k /\ j \in 1 .. Len(holes_list) - 1
        BY <3>2, <3>3, <3>4
      <4>2. rest[j] = holes_list[j + 1] /\ j + 1 \in DOMAIN holes_list /\ k < j + 1
        BY <2>2, <3>2, <3>5, <4>1
      <4>3. n < holes_list[j + 1] /\ holes_list[j + 1] \in Nat
        BY <1>21, <2>2, <3>2, <4>2
      <4> QED
        BY <1>3, <1>4, <1>7, <4>2, <4>3
    <3>6. ASSUME NEW j \in DOMAIN rest, \A i \in place : j < i
          PROVE  rest[j] < start
      <4>1. j < k
        <5>1. k \in DOMAIN rest => k \in place
          BY <3>3
        <5> QED
          BY <2>2, <3>2, <3>6, <5>1
      <4>2. rest[j] = holes_list[j] /\ j \in DOMAIN holes_list
        BY <2>2, <3>2, <4>1
      <4>3. holes_list[j] < n /\ holes_list[j] \in H /\ holes_list[j] \in Nat
        BY <1>21, <2>2, <3>2, <4>1, <4>2
      <4>4. holes_list[j] \in blocks /\ holes_list[j] # p /\ holes_list[j] # start
        BY <2>1, <4>3 DEF H
      <4> QED
        BY <1>3, <1>4, <1>7, <1>10, <4>2, <4>3, <4>4
    <3> QED
      BY <3>4, <3>5, <3>6
  <2>4. CASE ~ above
    <3>1. rest = holes_list /\ place = {i \in DOMAIN holes_list : holes_list[i] > start}
      BY <2>4
    <3> HIDE DEF rest, place, H
    <3>2. ASSUME NEW i \in place, NEW j \in DOMAIN rest, i <= j
          PROVE  start < rest[j]
      <4>1. i \in DOMAIN holes_list /\ j \in DOMAIN holes_list /\ start < holes_list[i]
        BY <1>7, <1>21, <3>1
      <4>2. i = j \/ holes_list[i] < holes_list[j]
        BY <1>21, <2>2, <3>2, <4>1
      <4> QED
        BY <1>7, <1>21, <3>1, <4>1, <4>2
    <3>3. ASSUME NEW j \in DOMAIN rest, \A i \in place : j < i
          PROVE  rest[j] < start
      <4>1. j \notin place
        BY <2>2, <3>1, <3>3
      <4>2. ~ (holes_list[j] > start) /\ holes_list[j] \in Nat /\ holes_list[j] # start
        BY <1>21, <2>1, <3>1, <4>1
      <4> QED
        BY <1>7, <3>1, <4>2
    <3> QED
      BY <3>1, <3>2, <3>3
  <2> QED
    BY <2>3, <2>4
<1>24. ListsHoles(holes_list', mem', C)
  <2> DEFINE H2 == {q \in C : mem'[q] <= -HOLE_T_SIZE}
  <2>1. n # start
    BY <1>3, <1>4, <1>7
  <2>2. CASE below
    <3>1. len >= HOLE_T_SIZE
      BY <1>7, <1>9, <2>2, HeapAssumption DEF HasDescriptor
    <3>2. H2 = H \ {n}
      BY <1>17, <1>19, <2>1, <2>2, <3>1
    <3>3. holes_list' = rest
      BY <1>20, <2>2
    <3> HIDE DEF H, rest, C
    <3> QED
      BY <1>22, <3>2, <3>3 DEF ListsHoles
  <2>3. CASE ~ below /\ len < HOLE_T_SIZE
    <3>1. H2 = H \ {n}
      <4>1. ~ (len >= HOLE_T_SIZE)
        BY <1>9, <2>3, HeapAssumption
      <4>2. start \notin H
        BY <1>17, <2>3
      <4> HIDE DEF H
      <4> QED
        BY <1>19, <4>1, <4>2
    <3>2. holes_list' = rest
      BY <1>20, <2>3
    <3> HIDE DEF H, rest, C
    <3> QED
      BY <1>22, <3>1, <3>2 DEF ListsHoles
  <2>4. CASE ~ below /\ ~ (len < HOLE_T_SIZE)
    <3>1. H2 = (H \ {n}) \cup {start}
      <4>1. len >= HOLE_T_SIZE
        BY <1>9, <2>4, HeapAssumption
      <4> HIDE DEF H
      <4> QED
        BY <1>19, <2>1, <4>1
    <3>2. holes_list' = AddBefore(rest, place, start)
      BY <1>20, <2>4
    <3>3. /\ place \in SUBSET DOMAIN rest
          /\ \A i \in place, j \in DOMAIN rest : i <= j => start < rest[j]
          /\ \A j \in DOMAIN rest : (\A i \in place : j < i) => rest[j] < start
      BY <1>23, <2>4
    <3> HIDE DEF H, rest, place, C, below
    <3>4. holes_list' \in Seq(Nat) /\ Range(holes_list') = Range(rest) \cup {start}
      <4> DEFINE N == Nat
      <4>1. rest \in Seq(N) /\ start \in N
        BY <1>7, <1>22
      <4> HIDE DEF N
      <4>2. holes_list' \in Seq(N) /\ Range(holes_list') = Range(rest) \cup {start}
        BY <3>2, <3>3, <4>1, AddBeforeElements
      <4> QED
        BY <4>2 DEF N
    <3>5. \A a, b : Before(holes_list', a, b) => a < b
      BY <1>7, <1>22, <3>2, <3>3, SortedInsert
    <3> QED
      BY <1>22, <3>1, <3>4, <3>5 DEF ListsHoles
  <2> QED
    BY <2>2, <2>3, <2>4
<1> HIDE DEF C
<1>25. HeapShape'
  BY <1>1, <1>11, <1>13, <1>15, <1>24 DEF HeapShape
<1> QED
  BY <1>1, <1>14, <1>16, <1>25

-----------------------------------------------------------------------------
(* The invariant *)

LEMMA HeapInitEstablishes == HeapInit => HeapIInv
<1> SUFFICES ASSUME NEW b \in Buffers, ns_mem_init(b)
             PROVE  HeapIInv
  BY DEF HeapInit
<1> DEFINE e == heap_main_end
           zero == [w \in 0 .. e |-> 0]
<1>1. e \in HOLE_T_SIZE + 1 .. MaxWords - 1 /\ HOLE_T_SIZE \in Nat \ {0} /\ MaxWords \in Nat
  BY HeapAssumption DEF ns_mem_init
<1>2. mem = Tag(zero, 0, -(e - 1)) /\ holes_list = <<0>> /\ blocks = {0} /\ failure = "none"
  BY DEF ns_mem_init
<1>3. e \in Nat /\ zero \in Memory(e)
  BY <1>1 DEF Memory
<1>4. -(e - 1) \in Int /\ -(e - 1) < 0 /\ Abs(-(e - 1)) = e - 1 /\ -(e - 1) <= -HOLE_T_SIZE
  BY <1>1 DEF Abs
<1> HIDE DEF e, zero
<1>5. mem \in Memory(e) /\ mem[0] = -(e - 1) /\ mem[e] = -(e - 1)
  <2>1. 0 + Abs(-(e - 1)) + 1 <= e /\ 0 + Abs(-(e - 1)) + 1 = e /\ -(e - 1) # 0
    BY <1>3, <1>4
  <2>2. /\ Tag(zero, 0, -(e - 1)) \in Memory(e)
        /\ Tag(zero, 0, -(e - 1))[0] = -(e - 1)
        /\ Tag(zero, 0, -(e - 1))[0 + Abs(-(e - 1)) + 1] = -(e - 1)
    BY <1>3, <1>4, <2>1, TagWords
  <2> QED
    BY <1>2, <2>1, <2>2
<1>6. End(mem, 0) = e + 1
  BY <1>3, <1>4, <1>5 DEF End
<1>7. Tiling(mem, blocks, e)
  <2>1. mem[0] # 0 /\ e + 1 - 1 = e
    BY <1>3, <1>4, <1>5
  <2> QED
    BY <1>2, <1>3, <1>5, <1>6, <2>1 DEF Tiling
<1>8. Coalesced(mem, blocks)
  BY <1>2, <1>3, <1>6 DEF Coalesced
<1>9. ListsHoles(holes_list, mem, blocks)
  <2>1. holes_list \in Seq(Nat) /\ DOMAIN holes_list = {1} /\ holes_list[1] = 0
    BY <1>2
  <2>2. Range(holes_list) = {0}
    BY <2>1 DEF Range
  <2>3. ~ \E x, y : Before(holes_list, x, y)
    BY <2>1 DEF Before
  <2> QED
    BY <1>2, <1>4, <1>5, <2>1, <2>2, <2>3 DEF ListsHoles
<1> QED
  BY <1>1, <1>2, <1>7, <1>8, <1>9 DEF HeapIInv, HeapShape, NeverCorrupted, e

\* A request is for whole words.
LEMMA WordsAreWhole ==
  ASSUME NEW bytes \in Requests
  PROVE  InWords(bytes) \in Nat
<1>1. bytes \in Nat /\ WordSize \in Nat \ {0}
  BY HeapAssumption
<1>2. bytes + WordSize - 1 \in Nat
  BY <1>1
<1> QED
  BY <1>1, <1>2 DEF InWords

\* What a request may come to.
LEMMA AllocCases ==
  ASSUME HeapIInv, NEW bytes \in Requests, NEW direction, ns_mem_internal_alloc(bytes, direction)
  PROVE  LET n == InWords(bytes)
         IN  /\ UNCHANGED heap_main_end /\ NeverCorrupted'
             /\ \/ n = 0 /\ AllocFails(0)
                \/ /\ n # 0 /\ AllocFails(n)
                   /\ \A j \in DOMAIN holes_list : -mem[holes_list[j]] < n
                \/ /\ n # 0 /\ HeapShape'
                   /\ \E i \in DOMAIN holes_list, s \in Nat : HandsOut(n, s, holes_list[i])
<1> DEFINE n == InWords(bytes)
           i == Search(n, direction)
<1>1. n \in Nat
  BY WordsAreWhole
<1>2. /\ IF n = 0 \/ i = 0 THEN AllocFails(n) /\ failure' = SizeFailure(bytes)
         ELSE IF ~ IsHole(holes_list[i]) THEN AllocFails(n) /\ failure' = "corrupted"
         ELSE Take(i, holes_list[i], n, direction) /\ failure' = SizeFailure(bytes)
      /\ UNCHANGED <<heap_main_end, buffer>>
  BY DEF ns_mem_internal_alloc
<1> HIDE DEF n
<1>3. \/ i = 0 /\ \A j \in DOMAIN holes_list : -mem[holes_list[j]] < n
      \/ i # 0 /\ i \in DOMAIN holes_list /\ -mem[holes_list[i]] >= n
  BY <1>1, SearchFinds
<1> HIDE DEF i
<1>4. SizeFailure(bytes) \in {"none", "size"}
  BY DEF SizeFailure, HeapIInv, NeverCorrupted
<1>5. CASE n = 0
  BY <1>2, <1>4, <1>5 DEF NeverCorrupted, n
<1>6. CASE n # 0 /\ i = 0
  BY <1>2, <1>3, <1>4, <1>6 DEF NeverCorrupted, n
<1>7. CASE n # 0 /\ i # 0
  <2>1. i \in DOMAIN holes_list /\ -mem[holes_list[i]] >= n
    BY <1>3, <1>7
  <2>2. IsHole(holes_list[i])
    BY <2>1, ListedIsHole
  <2>3. Take(i, holes_list[i], n, direction) /\ failure' = SizeFailure(bytes) /\ UNCHANGED heap_main_end
    BY <1>2, <1>7, <2>2
  <2>4. HeapShape' /\ \E s \in Nat : HandsOut(n, s, holes_list[i])
    <3>1. n \in Nat \ {0}
      BY <1>1, <1>7
    <3> QED
      BY <2>1, <2>3, <3>1, TakeEffect
  <2> QED
    BY <1>4, <1>7, <2>1, <2>3, <2>4 DEF NeverCorrupted, n
<1> QED
  BY <1>5, <1>6, <1>7

\* A block that was handed out is taken back, without complaint.
LEMMA FreeEffect ==
  ASSUME HeapIInv, NEW p \in Allocated, ns_mem_free(p)
  PROVE  /\ UNCHANGED heap_main_end /\ failure' = failure /\ answer' = <<0, -1>>
         /\ HeapShape' /\ Allocated' = Allocated \ {p}
         /\ \A q \in Allocated \ {p} : mem'[q] = mem[q]
<1>1. p \in blocks /\ p \in Nat /\ mem[p] \in Int /\ mem[p] > 0
  BY ShapeFacts, TilingFacts DEF Allocated
<1>2. /\ End(mem, p) <= heap_main_end + 1 /\ heap_main_end \in Nat
      /\ mem[End(mem, p) - 1] = mem[p]
  BY <1>1, ShapeFacts, TilingFacts DEF Tiling
<1>3. End(mem, p) = p + mem[p] + 2 /\ Abs(mem[p]) = mem[p]
  BY <1>1 DEF End, Abs
<1>4. ~ (p >= heap_main_end \/ p + mem[p] >= heap_main_end) /\ ~ (mem[p] < 0)
  BY <1>1, <1>2, <1>3
<1>5. End(mem, p) - 1 = p + 1 + Abs(mem[p]) /\ mem[p] # 0
  BY <1>1, <1>3
<1>6. ns_mem_block_validate(p)
  BY <1>2, <1>5 DEF ns_mem_block_validate
<1>7. FreeFailure(p) = "none"
  BY <1>4, <1>6 DEF FreeFailure
<1>8. ns_mem_free_and_merge_with_adjacent_blocks(p) /\ answer' = <<0, -1>> /\ UNCHANGED heap_main_end
  BY <1>7 DEF ns_mem_free
<1> QED
  BY <1>8, GiveBackEffect

LEMMA HeapInvariance == HeapSpec => []HeapIInv
<1>1. HeapIInv /\ [HeapNext]_heapVars => HeapIInv'
  <2> SUFFICES ASSUME HeapIInv, [HeapNext]_heapVars
               PROVE  HeapIInv'
    OBVIOUS
  <2>1. ASSUME NEW bytes \in Requests, NEW direction, ns_mem_internal_alloc(bytes, direction)
        PROVE  HeapIInv'
    <3>1. UNCHANGED heap_main_end /\ NeverCorrupted' /\ (HeapShape' \/ \E n : AllocFails(n))
      BY <2>1, AllocCases
    <3>2. (\E n : AllocFails(n)) => HeapShape'
      BY <3>1 DEF AllocFails, HeapIInv, HeapShape
    <3> QED
      BY <3>1, <3>2 DEF HeapIInv
  <2>2. ASSUME NEW p \in Allocated, ns_mem_free(p)
        PROVE  HeapIInv'
    BY <2>2, FreeEffect DEF HeapIInv, NeverCorrupted
  <2>3. CASE UNCHANGED heapVars
    BY <2>3 DEF heapVars, HeapIInv, HeapShape, NeverCorrupted
  <2> QED
    BY <2>1, <2>2, <2>3 DEF HeapNext, ns_mem_alloc, ns_mem_temporary_alloc
<1> QED
  BY <1>1, HeapInitEstablishes, PTL DEF HeapSpec

\* The lengths at both ends of every block agree and lead from each block to
\* the next, and exactly the free blocks that can hold a descriptor are on
\* holes_list, by address, whatever ns_mem_alloc, ns_mem_temporary_alloc and
\* ns_mem_free are called for.
THEOREM HeapStaysWellFormed == HeapSpec => []WellFormed
<1>1. HeapIInv => WellFormed
  <2> SUFFICES ASSUME HeapIInv PROVE WellFormed
    OBVIOUS
  <2>1. Tiling(mem, blocks, heap_main_end) /\ ListsHoles(holes_list, mem, blocks)
    BY DEF HeapIInv, HeapShape
  <2>2. Tiled
    <3>1. 0 \in blocks
      BY <2>1 DEF Tiling
    <3>2. ASSUME NEW p \in blocks
          PROVE  /\ ns_mem_block_validate(p)
                 /\ p + Abs(mem[p]) + 2 \in blocks \cup {heap_main_end + 1}
                 /\ \A q \in blocks : q > p => q >= p + Abs(mem[p]) + 2
      <4>1. p \in Nat /\ Abs(mem[p]) \in Nat
        BY ShapeFacts, TilingFacts
      <4>2. End(mem, p) - 1 = p + 1 + Abs(mem[p])
        BY <4>1 DEF End
      <4>3. /\ mem[p] # 0 /\ mem[End(mem, p) - 1] = mem[p]
            /\ End(mem, p) \in blocks \cup {heap_main_end + 1}
            /\ \A q \in blocks : q > p => q >= End(mem, p)
        BY <2>1 DEF Tiling
      <4>4. ns_mem_block_validate(p)
        BY <4>2, <4>3 DEF ns_mem_block_validate
      <4> QED
        BY <4>3, <4>4 DEF End
    <3> QED
      BY <3>1, <3>2 DEF Tiled
  <2>3. HolesInOrder
    BY <2>1, SortedFacts DEF ListsHoles, HolesInOrder
  <2> QED
    BY <2>2, <2>3 DEF WellFormed
<1> QED
  BY <1>1, HeapInvariance, PTL

\* ns_mem_free and the search of ns_mem_alloc never report a corrupted heap, a
\* double free or a wrong pointer while callers free what they were given, once.
THEOREM HeapIsNeverTakenForCorrupted == HeapSpec => []NeverCorrupted
<1>1. HeapIInv => NeverCorrupted
  BY DEF HeapIInv
<1> QED
  BY <1>1, HeapInvariance, PTL

-----------------------------------------------------------------------------
(* What the users rely on *)

LEMMA InitIsPoolInit == HeapInit => Pool!Init
<1> SUFFICES ASSUME HeapInit PROVE Pool!Init
  OBVIOUS
<1>1. HeapIInv
  BY HeapInitEstablishes
<1>2. heap_main_end + 1 \in HOLE_T_SIZE + 2 .. MaxWords
  BY <1>1, HeapAssumption DEF HeapIInv
<1>3. answer = <<0, -1>> /\ blocks = {0} /\ holes_list = <<0>>
  BY DEF HeapInit, ns_mem_init
<1>4. Allocated = {}
  <2>1. 1 \in DOMAIN holes_list /\ holes_list[1] = 0
    BY <1>3
  <2>2. mem[0] \in Int /\ mem[0] < 0
    BY <1>1, <2>1, ListedIsHole
  <2> QED
    BY <1>3, <2>2 DEF Allocated
<1> QED
  BY <1>2, <1>3, <1>4 DEF Pool!Init, Pool!Nothing

\* Words of a hole are nobody's.
LEMMA HandingOutIsGrant ==
  ASSUME HeapIInv, NEW n \in Nat \ {0}, NEW i \in DOMAIN holes_list, NEW s \in Nat,
         HandsOut(n, s, holes_list[i]), HeapShape', UNCHANGED heap_main_end
  PROVE  Pool!Grant(n)
<1> DEFINE p == holes_list[i]
           e == heap_main_end
           used == {<<q, mem[q]>> : q \in Allocated}
<1>0. PICK len : len = mem'[s]
  OBVIOUS
<1>1. /\ Tiling(mem, blocks, e) /\ Tiling(mem', blocks', e) /\ e \in Nat
      /\ blocks \in SUBSET (0 .. e) /\ blocks' \in SUBSET (0 .. e)
  BY DEF HeapIInv, HeapShape, Tiling
<1>2. p \in blocks /\ mem[p] \in Int /\ mem[p] < 0
  BY ListedIsHole
<1>3. /\ answer' = <<n, s>> /\ s \in blocks' /\ len >= n /\ len > 0
      /\ p <= s /\ End(mem', s) <= End(mem, p)
      /\ Allocated' = Allocated \cup {s} /\ \A q \in Allocated : mem'[q] = mem[q]
  BY <1>0 DEF HandsOut
<1> HIDE DEF p, e
<1>4. /\ p \in Nat /\ End(mem, p) \in Nat /\ End(mem, p) <= e + 1
      /\ len \in Int /\ s \in 0 .. e
  <2>1. p \in Nat /\ End(mem, p) \in Nat /\ End(mem, p) <= e + 1
    BY <1>1, <1>2, TilingFacts
  <2>2. mem'[s] \in Int /\ s \in 0 .. e
    BY <1>1, <1>3, TilingFacts
  <2> QED
    BY <1>0, <2>1, <2>2
<1>5. End(mem', s) = s + len + 2
  BY <1>0, <1>3, <1>4 DEF End, Abs
<1>6. s \in 0 .. (e + 1) - 1 /\ len \in 1 .. e + 1 /\ s .. s + len + 2 - 1 \subseteq 0 .. (e + 1) - 1
  BY <1>1, <1>3, <1>4, <1>5
<1>7. ASSUME NEW q \in Allocated
      PROVE  (s .. s + len + 2 - 1) \cap (q .. q + mem[q] + 2 - 1) = {}
  <2>1. q \in blocks /\ q # p /\ q \in Nat /\ mem[q] \in Int /\ mem[q] > 0
    <3>1. q \in blocks /\ mem[q] > 0
      BY DEF Allocated
    <3>2. q \in Nat /\ mem[q] \in Int
      BY <1>1, <3>1, TilingFacts
    <3> QED
      BY <1>2, <3>1, <3>2
  <2>2. End(mem, q) = q + mem[q] + 2
    BY <2>1 DEF End, Abs
  <2>3. (q < p => End(mem, q) <= p) /\ (q > p => q >= End(mem, p))
    BY <1>1, <1>2, <2>1 DEF Tiling
  <2> QED
    BY <1>3, <1>4, <1>5, <2>1, <2>2, <2>3
<1>8. {<<q, mem'[q]>> : q \in Allocated'} = used \cup {<<s, len>>}
  <2>1. {<<q, mem'[q]>> : q \in Allocated'} = {<<q, mem'[q]>> : q \in Allocated} \cup {<<s, len>>}
    BY <1>0, <1>3
  <2>2. {<<q, mem'[q]>> : q \in Allocated} = used
    BY <1>3
  <2> QED
    BY <2>1, <2>2
<1>9. s # -1 /\ answer'[1] = n /\ answer'[2] = s
  BY <1>3, <1>4
<1>10. \A b \in used : (s .. s + len + 2 - 1) \cap (b[1] .. b[1] + b[2] + 2 - 1) = {}
  BY <1>7
<1> HIDE DEF used
<1>11. Pool!Words(<<s, len>>) = s .. s + len + 2 - 1
  BY DEF Pool!Words
<1>12. Pool!Free(s .. s + len + 2 - 1)
  BY <1>10 DEF Pool!Free, Pool!Words, used
<1>13. (IF answer[2] = -1 THEN <<answer[1], <<0, 0>>>>
        ELSE <<answer[1], <<answer[2], mem[answer[2]]>>>>)' = <<n, <<s, len>>>>
  BY <1>0, <1>9
<1>14. /\ s \in 0 .. (heap_main_end + 1) - 1 /\ len \in 1 .. heap_main_end + 1 /\ n <= len
       /\ Pool!Words(<<s, len>>) \subseteq 0 .. (heap_main_end + 1) - 1
       /\ Pool!Free(Pool!Words(<<s, len>>))
  BY <1>3, <1>6, <1>11, <1>12 DEF e
<1>15. {<<q, mem[q]>> : q \in Allocated}' = {<<q, mem[q]>> : q \in Allocated} \cup {<<s, len>>}
  BY <1>8 DEF used
<1>16. UNCHANGED (heap_main_end + 1)
  OBVIOUS
<1> QED
  BY <1>13, <1>14, <1>15, <1>16, Zenon DEF Pool!Grant

\* No hole of the list is large enough: then no stretch of free words is, for
\* free neighbours are merged and smaller blocks could not hold a descriptor.
LEMMA FailingIsRefuse ==
  ASSUME HeapIInv, NEW n \in Nat \ {0}, AllocFails(n), UNCHANGED heap_main_end,
         \A j \in DOMAIN holes_list : -mem[holes_list[j]] < n
  PROVE  Pool!Refuse(n)
<1> DEFINE e == heap_main_end
           used == {<<q, mem[q]>> : q \in Allocated}
<1>1. /\ Tiling(mem, blocks, e) /\ Coalesced(mem, blocks) /\ e \in Nat
      /\ blocks \in SUBSET (0 .. e) /\ ListsHoles(holes_list, mem, blocks) /\ HOLE_T_SIZE \in Nat \ {0}
  BY HeapAssumption DEF HeapIInv, HeapShape, Tiling
<1> HIDE DEF e
<1>2. ASSUME NEW s \in 0 .. (e + 1) - 1, NEW m \in 1 .. e + 1, n <= m, HOLE_T_SIZE <= m,
             s .. s + m + 2 - 1 \subseteq 0 .. (e + 1) - 1,
             \A q \in Allocated : (s .. s + m + 2 - 1) \cap (q .. q + mem[q] + 2 - 1) = {}
      PROVE  FALSE
  <2>1. s \in 0 .. e /\ s \in Nat /\ m \in Nat
    BY <1>1
  <2>2. PICK x \in blocks : x <= s /\ s < End(mem, x)
    BY <1>1, <2>1, TilingCovers
  <2>3. x \in Nat /\ mem[x] \in Int /\ mem[x] # 0 /\ End(mem, x) \in Nat
    BY <1>1, TilingFacts
  <2>4. ASSUME NEW q \in blocks, mem[q] > 0, NEW w \in s .. s + m + 2 - 1, q <= w, w < End(mem, q)
        PROVE  FALSE
    <3>1. q \in Allocated /\ q \in Nat /\ mem[q] \in Int
      <4>1. q \in Nat /\ mem[q] \in Int
        BY <1>1, TilingFacts
      <4> QED
        BY <2>4, <4>1 DEF Allocated
    <3>2. End(mem, q) = q + mem[q] + 2
      BY <2>4, <3>1 DEF End, Abs
    <3>3. w \in q .. q + mem[q] + 2 - 1
      BY <2>1, <2>4, <3>1, <3>2
    <3> QED
      BY <1>2, <2>4, <3>1, <3>3
  <2>5. mem[x] < 0
    <3>1. s \in s .. s + m + 2 - 1
      BY <2>1
    <3> QED
      BY <2>2, <2>3, <2>4, <3>1
  <2>6. s + m + 1 < End(mem, x)
    <3> SUFFICES ASSUME ~ (s + m + 1 < End(mem, x)) PROVE FALSE
      OBVIOUS
    <3>1. End(mem, x) \in s .. s + m + 2 - 1
      BY <2>1, <2>2, <2>3
    <3>2. End(mem, x) \in 0 .. (e + 1) - 1
      BY <1>2, <3>1
    <3>3. End(mem, x) \in blocks
      BY <1>1, <3>2 DEF Tiling
    <3>4. mem[End(mem, x)] > 0
      BY <1>1, <2>5, <3>3 DEF Coalesced
    <3>5. End(mem, End(mem, x)) \in Nat /\ End(mem, End(mem, x)) >= End(mem, x) + 3
      BY <1>1, <3>3, TilingFacts
    <3> QED
      BY <2>3, <2>4, <3>1, <3>3, <3>4, <3>5
  <2>7. -mem[x] >= m
    BY <2>1, <2>2, <2>3, <2>5, <2>6 DEF End, Abs
  <2>8. x \in Range(holes_list)
    BY <1>1, <1>2, <2>1, <2>3, <2>7 DEF ListsHoles
  <2>9. PICK j \in DOMAIN holes_list : holes_list[j] = x
    BY <2>8 DEF Range
  <2> QED
    BY <1>2, <2>1, <2>3, <2>7, <2>9
<1>3. answer' = <<n, -1>> /\ UNCHANGED <<mem, blocks>> /\ Allocated' = Allocated
  BY DEF AllocFails, Allocated
<1>4. answer'[1] = n /\ answer'[2] = -1
  BY <1>3
<1>5. \A s \in 0 .. (e + 1) - 1, m \in 1 .. e + 1 :
        n <= m /\ HOLE_T_SIZE <= m /\ Pool!Words(<<s, m>>) \subseteq 0 .. (e + 1) - 1
          => ~ Pool!Free(Pool!Words(<<s, m>>))
  <2> SUFFICES ASSUME NEW s \in 0 .. (e + 1) - 1, NEW m \in 1 .. e + 1, n <= m, HOLE_T_SIZE <= m,
                      Pool!Words(<<s, m>>) \subseteq 0 .. (e + 1) - 1,
                      Pool!Free(Pool!Words(<<s, m>>))
               PROVE  FALSE
    OBVIOUS
  <2>1. Pool!Words(<<s, m>>) = s .. s + m + 2 - 1
    BY DEF Pool!Words
  <2>2. ASSUME NEW q \in Allocated
        PROVE  (s .. s + m + 2 - 1) \cap (q .. q + mem[q] + 2 - 1) = {}
    <3>1. <<q, mem[q]>> \in used
      OBVIOUS
    <3>2. \A b \in used : (s .. s + m + 2 - 1) \cap Pool!Words(b) = {}
      BY <2>1 DEF Pool!Free
    <3>3. Pool!Words(<<q, mem[q]>>) = q .. q + mem[q] + 2 - 1
      BY DEF Pool!Words
    <3> HIDE DEF used
    <3> QED
      BY <3>1, <3>2, <3>3
  <2> QED
    BY <1>2, <2>1, <2>2
<1>6. {<<q, mem'[q]>> : q \in Allocated'} = used
  BY <1>3
<1>7. (IF answer[2] = -1 THEN <<answer[1], <<0, 0>>>>
       ELSE <<answer[1], <<answer[2], mem[answer[2]]>>>>)' = <<n, Pool!Nothing>>
  BY <1>4 DEF Pool!Nothing
<1>8. UNCHANGED <<heap_main_end + 1, {<<q, mem[q]>> : q \in Allocated}>>
  BY <1>6
<1> QED
  BY <1>5, <1>7, <1>8 DEF Pool!Refuse, e

LEMMA FreeIsGiveBack ==
  ASSUME HeapIInv, NEW p \in Allocated, ns_mem_free(p)
  PROVE  Pool!GiveBack(<<p, mem[p]>>) /\ <<p, mem[p]>> \in {<<q, mem[q]>> : q \in Allocated}
<1>1. /\ UNCHANGED heap_main_end /\ answer' = <<0, -1>>
      /\ Allocated' = Allocated \ {p} /\ \A q \in Allocated \ {p} : mem'[q] = mem[q]
  BY FreeEffect
<1>2. {<<q, mem'[q]>> : q \in Allocated'} = {<<q, mem[q]>> : q \in Allocated} \ {<<p, mem[p]>>}
  <2>1. {<<q, mem'[q]>> : q \in Allocated'} = {<<q, mem[q]>> : q \in Allocated \ {p}}
    BY <1>1
  <2>2. {<<q, mem[q]>> : q \in Allocated \ {p}} = {<<q, mem[q]>> : q \in Allocated} \ {<<p, mem[p]>>}
    OBVIOUS
  <2> QED
    BY <2>1, <2>2
<1>3. answer'[1] = 0 /\ answer'[2] = -1
  BY <1>1
<1> QED
  BY <1>1, <1>2, <1>3 DEF Pool!GiveBack, Pool!Nothing

\* The heap does what its users rely on: blocks handed out never overlap, are
\* as large as asked for and within the heap, and a request is refused only
\* when no stretch of free words can hold it.
THEOREM HeapIsAMemoryPool == HeapSpec => HeapKeepsThePromise
<1> DEFINE poolVars == <<heap_main_end + 1, {<<p, mem[p]>> : p \in Allocated},
                         IF answer[2] = -1 THEN <<answer[1], <<0, 0>>>>
                         ELSE <<answer[1], <<answer[2], mem[answer[2]]>>>> >>
<1>1. HeapIInv /\ [HeapNext]_heapVars => [Pool!Next]_poolVars
  <2> SUFFICES ASSUME HeapIInv, [HeapNext]_heapVars
               PROVE  [Pool!Next]_poolVars
    OBVIOUS
  <2>1. ASSUME NEW bytes \in Requests, NEW direction, ns_mem_internal_alloc(bytes, direction)
        PROVE  Pool!Next
    <3> DEFINE n == InWords(bytes)
    <3>1. /\ UNCHANGED heap_main_end
          /\ \/ n = 0 /\ AllocFails(0)
             \/ /\ n # 0 /\ AllocFails(n)
                /\ \A j \in DOMAIN holes_list : -mem[holes_list[j]] < n
             \/ /\ n # 0 /\ HeapShape'
                /\ \E i \in DOMAIN holes_list, s \in Nat : HandsOut(n, s, holes_list[i])
      BY <2>1, AllocCases
    <3>2. n \in Nat /\ n \in {InWords(b) : b \in Requests}
      BY WordsAreWhole
    <3> HIDE DEF n
    <3>3. CASE n = 0 /\ AllocFails(0)
      <4>1. answer' = <<0, -1>> /\ UNCHANGED <<mem, blocks>> /\ Allocated' = Allocated
        BY <3>3 DEF AllocFails, Allocated
      <4>2. answer'[1] = 0 /\ answer'[2] = -1
        BY <4>1
      <4>3. Pool!RefuseEmpty
        BY <3>1, <4>1, <4>2 DEF Pool!RefuseEmpty, Pool!Nothing
      <4> QED
        BY <4>3 DEF Pool!Next
    <3>4. CASE n # 0 /\ Pool!Refuse(n)
      BY <3>2, <3>4 DEF Pool!Next
    <3>5. CASE n # 0 /\ Pool!Grant(n)
      BY <3>2, <3>5 DEF Pool!Next
    <3> QED
      BY <3>1, <3>2, <3>3, <3>4, <3>5, FailingIsRefuse, HandingOutIsGrant
  <2>2. ASSUME NEW p \in Allocated, ns_mem_free(p)
        PROVE  Pool!Next
    <3>1. Pool!GiveBack(<<p, mem[p]>>) /\ <<p, mem[p]>> \in {<<q, mem[q]>> : q \in Allocated}
      BY <2>2, FreeIsGiveBack
    <3>2. PICK b \in {<<q, mem[q]>> : q \in Allocated} : b = <<p, mem[p]>>
      BY <3>1
    <3>3. Pool!GiveBack(b)
      BY <3>1, <3>2 DEF Pool!GiveBack
    <3> QED
      BY <3>2, <3>3 DEF Pool!Next
  <2>3. CASE UNCHANGED heapVars
    BY <2>3 DEF heapVars, Allocated
  <2> QED
    BY <2>1, <2>2, <2>3 DEF HeapNext, ns_mem_alloc, ns_mem_temporary_alloc
<1> QED
  BY <1>1, HeapInvariance, InitIsPoolInit, PTL DEF HeapSpec, HeapKeepsThePromise, Pool!Spec
=============================================================================
