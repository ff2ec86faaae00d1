-------------------------------- MODULE Heap --------------------------------
(***************************************************************************)
(* nsdynmemLIB: a heap in one array of words.  A block is | len | data |   *)
(* len |, with a negative length while it is free.  Free blocks of         *)
(* HOLE_T_SIZE words or more hold a descriptor in their data and are on    *)
(* holes_list; here a descriptor is known by the address of its block.     *)
(* Addresses count words from heap_main.  A word of data is 0, which is no *)
(* length: the library must not look at it.  Each call is one critical     *)
(* section.  Callers free what they were given, once.                      *)
(***************************************************************************)
EXTENDS Lists

CONSTANTS HOLE_T_SIZE,  \* words of a descriptor: two pointers
          WordSize,     \* bytes of a word
          BookSize,     \* bytes of the book keeping in front of the heap
          Buffers,      \* the arrays given to ns_mem_init: [at |-> address, size |-> bytes]
          Requests,     \* the sizes asked for, in bytes
          MaxWords      \* a bound on the words of a heap

VARIABLES heap_main_end,  \* the last word
          mem,            \* the words
          holes_list,     \* the free blocks with a descriptor
          stat,           \* heap_sector_alloc_cnt and heap_sector_allocated_bytes
          failure,        \* the reason last given to the failure callback
          buffer,         \* the array the heap is in
          blocks,         \* auxiliary: the blocks there are
          answer          \* auxiliary: the words asked for last and the block got, -1 if none

heapVars == <<heap_main_end, mem, holes_list, stat, failure, buffer, blocks, answer>>

Abs(i) == IF i < 0 THEN -i ELSE i

\* The words m with the lengths of block p written, and data between them.
Tag(m, p, len) ==
  [w \in DOMAIN m |-> IF w \in {p, p + 1 + Abs(len)} THEN len
                      ELSE IF w > p /\ w < p + 1 + Abs(len) THEN 0 ELSE m[w]]

-----------------------------------------------------------------------------
(* ns_mem_init *)

\* The bytes left of an array once its start is aligned; then the length is
\* corrected, by what is missing to a whole word.
Misaligned(b) == IF b.at % WordSize = 0 THEN 0 ELSE WordSize - (b.at % WordSize)

Corrected(bytes) ==
  IF bytes % WordSize = 0 THEN bytes ELSE bytes - (WordSize - (bytes % WordSize))

heap_size(b) == Corrected(b.size - Misaligned(b)) - BookSize

LastWord(b) == heap_size(b) \div WordSize - 1

ASSUME HeapAssumption ==
  /\ HOLE_T_SIZE \in Nat \ {0} /\ WordSize \in Nat \ {0}
  /\ Requests \subseteq Nat /\ MaxWords \in Nat
  /\ \A b \in Buffers : LastWord(b) \in HOLE_T_SIZE + 1 .. MaxWords - 1

ns_mem_init(b) ==
  /\ buffer = b
  /\ heap_main_end = LastWord(b)
  /\ mem = Tag([w \in 0 .. heap_main_end |-> 0], 0, -(heap_main_end - 1))
  /\ holes_list = <<0>>
  /\ stat = [cnt |-> 0, bytes |-> 0]
  /\ failure = "none"
  /\ blocks = {0}
  /\ answer = <<0, -1>>

HeapInit == \E b \in Buffers : ns_mem_init(b)

-----------------------------------------------------------------------------
(* ns_mem_alloc and ns_mem_temporary_alloc *)

SizeFailure(bytes) ==
  IF bytes < 1 \/ bytes > heap_size(buffer) - 2 * WordSize THEN "size" ELSE failure

InWords(bytes) == (bytes + WordSize - 1) \div WordSize

ns_mem_block_validate(p) == mem[p] # 0 /\ mem[p] = mem[p + 1 + Abs(mem[p])]

IsHole(p) == ns_mem_block_validate(p) /\ mem[p] < 0

\* Where the search for data_size words ends: upwards (1) at the first such
\* position of the list, downwards (-1) at the last; 0 if it finds nothing.
LastOf(I) == IF I = {} THEN 0 ELSE CHOOSE i \in I : \A j \in I : j <= i

Search(data_size, direction) ==
  LET stops == {i \in DOMAIN holes_list :
                  ~ IsHole(holes_list[i]) \/ -mem[holes_list[i]] >= data_size}
  IN  IF direction > 0 THEN First(stops) ELSE LastOf(stops)

Count(n, words) == stat' = [cnt |-> stat.cnt + n, bytes |-> stat.bytes + n * (words + 2) * WordSize]

\* The block is cut off the hole's start (1) or end (-1), and the rest stays a hole.
Split(i, p, data_size, direction) ==
  LET rest == -mem[p] - data_size - 2
      hole == IF direction > 0 THEN p + data_size + 2 ELSE p
      block == IF direction > 0 THEN p ELSE p + rest + 2
  IN  /\ mem' = Tag(Tag(mem, hole, -rest), block, data_size)
      /\ holes_list' = [holes_list EXCEPT ![i] = hole]
      /\ blocks' = blocks \cup {hole, block}
      /\ answer' = <<data_size, block>>
      /\ Count(1, data_size)

\* The rest would not hold a descriptor: the whole block is used.
TakeWhole(p, data_size) ==
  /\ mem' = Tag(mem, p, -mem[p])
  /\ holes_list' = Unlink(holes_list, p)
  /\ answer' = <<data_size, p>>
  /\ Count(1, -mem[p])
  /\ UNCHANGED blocks

AllocFails(data_size) ==
  answer' = <<data_size, -1>> /\ UNCHANGED <<mem, holes_list, blocks, stat>>

\* Mutant: forgets the length words of the new block.
Take_tight(i, p, data_size, direction) ==
  IF -mem[p] >= data_size + HOLE_T_SIZE THEN Split(i, p, data_size, direction)
  ELSE TakeWhole(p, data_size)

Take(i, p, data_size, direction) ==
  IF -mem[p] >= data_size + 2 + HOLE_T_SIZE THEN Split(i, p, data_size, direction)
  ELSE TakeWhole(p, data_size)

ns_mem_internal_alloc(bytes, direction) ==
  LET data_size == InWords(bytes)
      i == Search(data_size, direction)
  IN  /\ IF data_size = 0 \/ i = 0 THEN AllocFails(data_size) /\ failure' = SizeFailure(bytes)
         ELSE IF ~ IsHole(holes_list[i]) THEN AllocFails(data_size) /\ failure' = "corrupted"
         ELSE Take(i, holes_list[i], data_size, direction) /\ failure' = SizeFailure(bytes)
      /\ UNCHANGED <<heap_main_end, buffer>>

ns_mem_alloc(bytes) == ns_mem_internal_alloc(bytes, -1)

ns_mem_temporary_alloc(bytes) == ns_mem_internal_alloc(bytes, 1)

-----------------------------------------------------------------------------
(* ns_mem_free *)

Allocated == {p \in blocks : mem[p] > 0}

FreeFailure(p) ==
  CASE p >= heap_main_end \/ p + mem[p] >= heap_main_end -> "pointer"
    [] mem[p] < 0 -> "double_free"
    [] ~ ns_mem_block_validate(p) -> "corrupted"
    [] OTHER -> "none"

\* Mutant: merges only with blocks that have a descriptor.
Below_listed(p) == IF p # 0 /\ mem[p - 1] <= -HOLE_T_SIZE THEN 2 - mem[p - 1] ELSE 0

\* The words of the free block that ends before p, and of the one that starts
\* at n; 0 when there is none.
Below(p) == IF p # 0 /\ mem[p - 1] < 0 THEN 2 - mem[p - 1] ELSE 0
Above(n) == IF n # heap_main_end + 1 /\ mem[n] < 0 THEN 2 - mem[n] ELSE 0

Corrupt(p, n) ==
  \/ Below(p) > 0 /\ mem[p - Below(p)] # mem[p - 1]
  \/ Above(n) > 0 /\ mem[n + Above(n) - 1] # mem[n]

HasDescriptor(words) == words >= HOLE_T_SIZE + 2

\* Mutant: the descriptor of the block above stays on the list.
Merged_stale(start, len, below, above, n) ==
  LET place == {i \in DOMAIN holes_list : holes_list[i] > start}
  IN  IF below \/ len < HOLE_T_SIZE THEN holes_list ELSE AddBefore(holes_list, place, start)

\* holes_list once the len words of data after start are one hole.  The
\* descriptor of the block below stays; that of the block above, at n, gives
\* its place to the new one, which else goes before the first higher one.
Merged(start, len, below, above, n) ==
  LET rest == IF above THEN Unlink(holes_list, n) ELSE holes_list
      place == {i \in DOMAIN rest : IF above THEN holes_list[i] = n ELSE holes_list[i] > start}
  IN  IF below \/ len < HOLE_T_SIZE THEN rest ELSE AddBefore(rest, place, start)

ns_mem_free_and_merge_with_adjacent_blocks(p) ==
  LET n == p + mem[p] + 2
      start == p - Below(p)
      len == Below(p) + mem[p] + Above(n)
  IN  /\ mem' = Tag(mem, start, -len)
      /\ holes_list' = Merged(start, len, HasDescriptor(Below(p)), HasDescriptor(Above(n)), n)
      /\ blocks' = (blocks \ {b \in {p, n} : b # start /\ (b = n => Above(n) > 0)})
      /\ failure' = IF Corrupt(p, n) THEN "corrupted" ELSE failure

\* Block p is given back; the pointer passed is that of its data.
ns_mem_free(p) ==
  /\ IF FreeFailure(p) = "none"
     THEN ns_mem_free_and_merge_with_adjacent_blocks(p) /\ Count(-1, mem[p])
     ELSE failure' = FreeFailure(p) /\ UNCHANGED <<mem, holes_list, blocks, stat>>
  /\ answer' = <<0, -1>>
  /\ UNCHANGED <<heap_main_end, buffer>>

-----------------------------------------------------------------------------
HeapNext == \/ \E bytes \in Requests : ns_mem_alloc(bytes) \/ ns_mem_temporary_alloc(bytes)
            \/ \E p \in Allocated : ns_mem_free(p)

HeapSpec == HeapInit /\ [][HeapNext]_heapVars

HeapTypeOK ==
  /\ heap_main_end \in HOLE_T_SIZE + 1 .. MaxWords - 1
  /\ mem \in [0 .. heap_main_end -> Int]
  /\ holes_list \in Seq(0 .. heap_main_end)
  /\ stat.cnt \in Nat /\ stat.bytes \in Nat
  /\ blocks \subseteq 0 .. heap_main_end
  /\ answer \in Nat \X (blocks \cup {-1})

\* The heap uses no byte outside of the array that ns_mem_init was given,
\* whatever its start and length (its length is corrected by the wrong amount,
\* to the safe side).
InsideBuffer ==
  Misaligned(buffer) + BookSize + (heap_main_end + 1) * WordSize <= buffer.size

\* The lengths at both ends of every block agree, and lead from each block to
\* the next, from the first word to the last: ns_mem_free finds its neighbours
\* by them, and nothing else tells it where a block is.
Tiled ==
  /\ 0 \in blocks
  /\ \A p \in blocks :
       /\ ns_mem_block_validate(p)
       /\ p + Abs(mem[p]) + 2 \in blocks \cup {heap_main_end + 1}
       /\ \A q \in blocks : q > p => q >= p + Abs(mem[p]) + 2

\* Exactly the free blocks that can hold a descriptor are on holes_list, in
\* the order of their addresses: what ns_mem_free merges or replaces.
HolesInOrder ==
  /\ Range(holes_list) = {p \in blocks : mem[p] <= -HOLE_T_SIZE}
  /\ \A i, j \in DOMAIN holes_list : i < j => holes_list[i] < holes_list[j]

WellFormed == Tiled /\ HolesInOrder

\* The library never takes its own heap for corrupted, nor a block that it
\* handed out for a pointer that is not its own.
NeverCorrupted == failure \in {"none", "size"}

\* The statistics tell the blocks handed out, and the words they take.
StatIsExact ==
  /\ stat.cnt = Cardinality(Allocated)
  /\ stat.bytes = WordSize * Cardinality(UNION {p .. p + mem[p] + 1 : p \in Allocated})

\* The heap does what its users rely on (MemoryPool): blocks never overlap and
\* are as large as asked for, and a request is refused only when no stretch of
\* free words can hold it, so free neighbours are always merged.
Pool == INSTANCE MemoryPool WITH
  Overhead <- 2, Smallest <- HOLE_T_SIZE,
  Sizes <- {InWords(b) : b \in Requests} \ {0},
  PoolSizes <- HOLE_T_SIZE + 2 .. MaxWords,
  size <- heap_main_end + 1,
  used <- {<<p, mem[p]>> : p \in Allocated},
  told <- IF answer[2] = -1 THEN <<answer[1], <<0, 0>>>>
          ELSE <<answer[1], <<answer[2], mem[answer[2]]>>>>

HeapKeepsThePromise == Pool!Spec
=============================================================================
