---- MODULE HeapProofs ----
(***************************************************************************)
(* The blocks of the heap tile it and its list stays sorted through every  *)
(* sequence of malloc, free and heap_defrag, for every size of the heap    *)
(* and of the header; nothing leaks, and the heap is an allocator.         *)
(*                                                                         *)
(* The loop of heap_defrag is a recursive function of how many blocks it   *)
(* has visited.  What is said of every one of its rounds is proved by the  *)
(* least number for which it would fail (NatMin).                          *)
(***************************************************************************)
EXTENDS Heap, SequenceTheorems, FiniteSetTheorems, WellFoundedInduction, TLAPS
(* A set of natural numbers has a least one.                               *)
LEMMA NatMin ==
  ASSUME NEW S \in SUBSET Nat, S # {}
  PROVE  \E n \in S : \A m \in S : n <= m
<1> DEFINE R == OpToRel(<, Nat)
<1>1. \E n \in S : \A m \in S : ~ (<<m, n>> \in R)
  <2> HIDE DEF R
  <2>1. IsWellFoundedOn(R, Nat)
    BY NatLessThanWellFounded DEF R
  <2> QED
    BY <2>1, WFMin
<1>2. ASSUME NEW m \in Nat, NEW n \in Nat, m < n PROVE <<m, n>> \in R
  BY <1>2 DEF OpToRel
<1> HIDE DEF R
<1>3. PICK n \in S : \A m \in S : ~ (<<m, n>> \in R)
  BY <1>1
<1>4. ASSUME NEW m \in S PROVE n <= m
  <2>1. m \in Nat /\ n \in Nat /\ ~ (m < n)
    BY <1>2, <1>3
  <2> QED
    BY <2>1
<1> QED
  BY <1>4

(* f takes the list one block at a time, as the loop of heap_defrag does.  *)
IsRun(f, base, list, n) ==
  f = [k \in 0 .. n |-> IF k = 0 THEN base ELSE Visit(f[k - 1], list[k])]

(* The loop has a result after each of its rounds.                         *)
LEMMA Run ==
  ASSUME NEW base, NEW list, NEW n \in Nat
  PROVE  \E f : IsRun(f, base, list, n)
<1> DEFINE P(m) == \E f : IsRun(f, base, list, m)
           Bad == {m \in Nat : ~ P(m)}
<1>1. SUFFICES ASSUME Bad # {} PROVE FALSE
  OBVIOUS
<1>2. PICK m \in Bad : \A l \in Bad : m <= l
  BY <1>1, NatMin
<1>3. CASE m = 0
  <2>1. [k \in 0 .. 0 |-> base] = [k \in 0 .. 0 |-> IF k = 0 THEN base ELSE Visit([j \in 0 .. 0 |-> base][k - 1], list[k])]
    OBVIOUS
  <2>2. QED BY <1>2, <1>3, <2>1 DEF IsRun
<1>4. CASE m # 0
  <2>1. m \in Nat /\ m - 1 \in Nat /\ ~ (m <= m - 1)
    BY <1>2, <1>4
  <2>2. P(m - 1)
    BY <1>2, <2>1
  <2>3. PICK f : f = [k \in 0 .. m - 1 |-> IF k = 0 THEN base ELSE Visit(f[k - 1], list[k])]
    BY <2>2 DEF IsRun
  <2> DEFINE g == [k \in 0 .. m |-> IF k = m THEN Visit(f[m - 1], list[m]) ELSE f[k]]
  <2>4. ASSUME NEW k \in 0 .. m PROVE g[k] = IF k = 0 THEN base ELSE Visit(g[k - 1], list[k])
    BY <1>4, <2>1, <2>3
  <2>5. g = [k \in 0 .. m |-> IF k = 0 THEN base ELSE Visit(g[k - 1], list[k])]
    BY <2>4
  <2>6. QED
    BY <1>2, <2>5 DEF IsRun
<1>5. QED
  BY <1>3, <1>4

(* Visited is what its definition says: one block per round.               *)
LEMMA VisitedStep ==
  ASSUME Len(freelist) \in Nat
  PROVE  /\ Visited[0] = [list |-> <<>>, size |-> size]
         /\ \A k \in 1 .. Len(freelist) :
              Visited[k] = Visit(Visited[k - 1], freelist[k])
<1> DEFINE base == [list |-> <<>>, size |-> size]
<1> HIDE DEF base
<1>1. \E f : IsRun(f, base, freelist, Len(freelist))
  BY Run
<1>2. Visited = [k \in 0 .. Len(freelist) |-> IF k = 0 THEN base ELSE Visit(Visited[k - 1], freelist[k])]
  BY <1>1 DEF Visited, base, IsRun
<1>3. \A k \in 0 .. Len(freelist) : Visited[k] = IF k = 0 THEN base ELSE Visit(Visited[k - 1], freelist[k])
  BY <1>2
<1> QED
  BY <1>3 DEF base

-----------------------------------------------------------------------------
(* The blocks B of the sizes s tile the heap: each ends where another one  *)
(* begins, or at the end of the heap.                                      *)
Tiling(B, s) ==
  /\ DOMAIN s = B
  /\ \A b \in B : b \in Start .. Limit - HEADER /\ s[b] \in Nat
  /\ Start \in B
  /\ \A b \in B : b + HEADER + s[b] = Limit \/ b + HEADER + s[b] \in B
  /\ \A b, other \in B : other <= b \/ b + HEADER + s[b] <= other

(* Merging two blocks that touch leaves a tiling (heap.c 116-118).         *)
LEMMA MergeTiles ==
  ASSUME NEW B, NEW s, NEW p, NEW q, NEW t,
         Tiling(B, s), p \in B, q \in B, p + HEADER + s[p] = q,
         t = Merged(s, p, q)
  PROVE  Tiling(B \ {q}, t)
<1>1. /\ HEADER \in Nat /\ HEADER > 0 /\ Start = 0 /\ Limit \in Int
      /\ p \in Int /\ q \in Int /\ s[p] \in Nat /\ s[q] \in Nat /\ p < q /\ 0 <= p
  BY HeapAssumption DEF Tiling, Start, Limit
<1>2. /\ DOMAIN t = B \ {q}
      /\ t[p] = s[p] + HEADER + s[q]
      /\ \A b \in B \ {q} : b # p => t[b] = s[b]
  BY <1>1 DEF Merged, Tiling
<1>3. \A b \in B \ {q} : b \in Start .. Limit - HEADER /\ t[b] \in Nat
  BY <1>1, <1>2 DEF Tiling
<1>4. Start \in B \ {q}
  BY <1>1 DEF Tiling
<1>5. ASSUME NEW b \in B \ {q}
      PROVE  b + HEADER + t[b] = Limit \/ b + HEADER + t[b] \in B \ {q}
  <2>1. CASE b = p
    BY <2>1, <1>1, <1>2 DEF Tiling
  <2>2. CASE b # p
    <3>1. b \in Int /\ s[b] \in Nat /\ t[b] = s[b]
      BY <2>2, <1>2, <1>3
    <3>2. b + HEADER + s[b] # q
      BY <3>1, <2>2, <1>1 DEF Tiling
    <3> QED
      BY <3>1, <3>2 DEF Tiling
  <2> QED
    BY <2>1, <2>2
<1>6. ASSUME NEW b \in B \ {q}, NEW other \in B \ {q}
      PROVE  other <= b \/ b + HEADER + t[b] <= other
  <2>1. b \in Int /\ other \in Int /\ s[b] \in Nat
    BY <1>1 DEF Tiling
  <2>2. CASE b = p
    <3>1. other <= p \/ q <= other
      BY <1>1 DEF Tiling
    <3>2. other <= q \/ q + HEADER + s[q] <= other
      BY <1>1 DEF Tiling
    <3> QED
      BY <3>1, <3>2, <2>1, <2>2, <1>1, <1>2
  <2>3. CASE b # p
    BY <2>3, <1>2 DEF Tiling
  <2> QED
    BY <2>2, <2>3
<1> QED
  BY <1>2, <1>3, <1>4, <1>5, <1>6 DEF Tiling

(* Splitting a block for n units leaves a tiling (heap.c 39-46).           *)
LEMMA SplitTiles ==
  ASSUME NEW B, NEW s, Tiling(B, s),
         NEW p \in B, NEW n \in Nat, s[p] > HEADER + n, NEW t,
         t = [b \in B \union {p + HEADER + n} |->
                IF b = p THEN n
                ELSE IF b = p + HEADER + n THEN s[p] - (HEADER + n) ELSE s[b]]
  PROVE  /\ Tiling(B \union {p + HEADER + n}, t)
         /\ p + HEADER + n \notin B
<1> DEFINE q == p + HEADER + n
<1>1. /\ HEADER \in Nat /\ HEADER > 0 /\ Start = 0 /\ Limit \in Int
      /\ p \in Int /\ q \in Int /\ s[p] \in Nat /\ p < q /\ 0 <= p
      /\ q < p + HEADER + s[p] /\ s[p] - (HEADER + n) \in Nat
  BY HeapAssumption DEF Tiling, Start, Limit
<1>2. q \notin B
  BY <1>1 DEF Tiling
<1>3. /\ DOMAIN t = B \union {q}
      /\ t[p] = n /\ t[q] = s[p] - (HEADER + n)
      /\ \A b \in B : b # p => t[b] = s[b]
  BY <1>1, <1>2 DEF Tiling
<1> HIDE DEF q
<1>9. q = p + HEADER + n
  BY DEF q
<1>4. q + HEADER + t[q] = p + HEADER + s[p]
  BY <1>1, <1>3, <1>9
<1>5. q \in Start .. Limit - HEADER /\ t[q] \in Nat
  <2>1. p + HEADER + s[p] <= Limit
    BY <1>1 DEF Tiling
  <2> QED
    BY <2>1, <1>1, <1>3, <1>9
<1>6. \A b \in B \union {q} : b \in Start .. Limit - HEADER /\ t[b] \in Nat
  BY <1>3, <1>5 DEF Tiling
<1>7. ASSUME NEW b \in B \union {q}
      PROVE  b + HEADER + t[b] = Limit \/ b + HEADER + t[b] \in B \union {q}
  <2>1. CASE b = p
    BY <2>1, <1>3, <1>9
  <2>2. CASE b = q
    BY <2>2, <1>4 DEF Tiling
  <2>3. CASE b # p /\ b # q
    BY <2>3, <1>3 DEF Tiling
  <2> QED
    BY <2>1, <2>2, <2>3
<1>8. ASSUME NEW b \in B \union {q}, NEW other \in B \union {q}
      PROVE  other <= b \/ b + HEADER + t[b] <= other
  <2>1. b \in Int /\ other \in Int
    BY <1>6
  <2>2. other # q => (other <= p \/ p + HEADER + s[p] <= other)
    BY DEF Tiling
  <2>3. b \notin {p, q} => (p <= b \/ b + HEADER + s[b] <= p)
    BY DEF Tiling
  <2>4. b \notin {p, q} => s[b] \in Nat /\ t[b] = s[b] /\ (b <= p \/ p + HEADER + s[p] <= b)
    BY <1>3 DEF Tiling
  <2>5. b \notin {p, q} /\ other # q => (other <= b \/ b + HEADER + s[b] <= other)
    BY DEF Tiling
  <2> QED
    BY <2>1, <2>2, <2>3, <2>4, <2>5, <1>1, <1>3, <1>4, <1>9
<1> QED
  BY <1>2, <1>3, <1>6, <1>7, <1>8, <1>1, <1>9 DEF Tiling

-----------------------------------------------------------------------------
(* What a part of a list holds.                                            *)
LEMMA Slice ==
  ASSUME NEW s \in Seq(Int), NEW m \in 1 .. Len(s) + 1, NEW n \in 0 .. Len(s),
         m <= n + 1
  PROVE  /\ SubSeq(s, m, n) \in Seq(Int)
         /\ Len(SubSeq(s, m, n)) = n - m + 1
         /\ \A i \in 1 .. n - m + 1 : SubSeq(s, m, n)[i] = s[m + i - 1]
<1>1. Len(s) \in Nat /\ \A i \in m .. n : s[i] \in Int
  BY ElementOfSeq, LenProperties
<1>2. /\ SubSeq(s, m, n) \in Seq(Int)
      /\ Len(SubSeq(s, m, n)) = IF m <= n THEN n - m + 1 ELSE 0
      /\ \A i \in 1 .. n - m + 1 : SubSeq(s, m, n)[i] = s[m + i - 1]
  BY <1>1, SubSeqProperties
<1> QED
  BY <1>1, <1>2

(* What a list holds without its i-th element.                             *)
LEMMA Removed ==
  ASSUME NEW s \in Seq(Int), NEW i \in 1 .. Len(s)
  PROVE  /\ RemoveAt(s, i) \in Seq(Int)
         /\ Len(RemoveAt(s, i)) = Len(s) - 1
         /\ \A j \in 1 .. Len(s) - 1 :
              RemoveAt(s, i)[j] = IF j < i THEN s[j] ELSE s[j + 1]
<1> DEFINE a == SubSeq(s, 1, i - 1)
           b == SubSeq(s, i + 1, Len(s))
<1>1. Len(s) \in Nat
  BY LenProperties
<1>2. /\ a \in Seq(Int) /\ Len(a) = i - 1
      /\ \A j \in 1 .. i - 1 : a[j] = s[j]
  <2>1. 1 \in 1 .. Len(s) + 1 /\ i - 1 \in 0 .. Len(s) /\ 1 <= i - 1 + 1
    BY <1>1
  <2>2. /\ a \in Seq(Int) /\ Len(a) = i - 1 - 1 + 1
        /\ \A j \in 1 .. i - 1 - 1 + 1 : a[j] = s[1 + j - 1]
    BY <2>1, Slice
  <2> HIDE DEF a
  <2> QED
    BY <2>2
<1>3. /\ b \in Seq(Int) /\ Len(b) = Len(s) - i
      /\ \A j \in 1 .. Len(s) - i : b[j] = s[i + j]
  <2>1. i + 1 \in 1 .. Len(s) + 1 /\ Len(s) \in 0 .. Len(s) /\ i + 1 <= Len(s) + 1
    BY <1>1
  <2>2. /\ b \in Seq(Int) /\ Len(b) = Len(s) - (i + 1) + 1
        /\ \A j \in 1 .. Len(s) - (i + 1) + 1 : b[j] = s[i + 1 + j - 1]
    BY <2>1, Slice
  <2> HIDE DEF b
  <2> QED
    BY <2>2, <1>1
<1>4. RemoveAt(s, i) = a \o b
  BY DEF RemoveAt
<1> HIDE DEF a, b
<1>5. /\ a \o b \in Seq(Int)
      /\ Len(a \o b) = Len(a) + Len(b)
      /\ \A j \in 1 .. Len(a) + Len(b) :
           (a \o b)[j] = IF j <= Len(a) THEN a[j] ELSE b[j - Len(a)]
  BY <1>2, <1>3, ConcatProperties
<1>6. Len(a \o b) = Len(s) - 1
  BY <1>1, <1>2, <1>3, <1>5
<1>7. ASSUME NEW j \in 1 .. Len(s) - 1
      PROVE  (a \o b)[j] = IF j < i THEN s[j] ELSE s[j + 1]
  <2>1. (a \o b)[j] = IF j <= i - 1 THEN a[j] ELSE b[j - (i - 1)]
    <3>1. j \in 1 .. Len(a) + Len(b)
      BY <1>1, <1>2, <1>3
    <3> QED
      BY <3>1, <1>2, <1>5
  <2>2. CASE j < i
    BY <2>1, <2>2, <1>1, <1>2
  <2>3. CASE ~ (j < i)
    <3>1. j - (i - 1) \in 1 .. Len(s) - i /\ i + (j - (i - 1)) = j + 1
      BY <2>3, <1>1
    <3> QED
      BY <3>1, <2>1, <2>3, <1>1, <1>3
  <2> QED
    BY <2>2, <2>3
<1> QED
  BY <1>4, <1>5, <1>6, <1>7

(* What a list holds with one more element, e in the i-th place.           *)
LEMMA Inserted ==
  ASSUME NEW s \in Seq(Int), NEW i \in 1 .. Len(s) + 1, NEW e \in Int
  PROVE  /\ InsertAt(s, i, e) \in Seq(Int)
         /\ Len(InsertAt(s, i, e)) = Len(s) + 1
         /\ \A j \in 1 .. Len(s) + 1 :
              InsertAt(s, i, e)[j] = IF j < i THEN s[j]
                                     ELSE IF j = i THEN e ELSE s[j - 1]
<1> DEFINE a == SubSeq(s, 1, i - 1)
           b == SubSeq(s, i, Len(s))
           c == a \o <<e>>
<1>1. Len(s) \in Nat
  BY LenProperties
<1>2. /\ a \in Seq(Int) /\ Len(a) = i - 1
      /\ \A j \in 1 .. i - 1 : a[j] = s[j]
  <2>1. 1 \in 1 .. Len(s) + 1 /\ i - 1 \in 0 .. Len(s) /\ 1 <= i - 1 + 1
    BY <1>1
  <2>2. /\ a \in Seq(Int) /\ Len(a) = i - 1 - 1 + 1
        /\ \A j \in 1 .. i - 1 - 1 + 1 : a[j] = s[1 + j - 1]
    BY <2>1, Slice
  <2> HIDE DEF a
  <2> QED
    BY <2>2
<1>3. /\ b \in Seq(Int) /\ Len(b) = Len(s) - i + 1
      /\ \A j \in 1 .. Len(s) - i + 1 : b[j] = s[i + j - 1]
  <2>1. i \in 1 .. Len(s) + 1 /\ Len(s) \in 0 .. Len(s) /\ i <= Len(s) + 1
    BY <1>1
  <2> QED
    BY <2>1, Slice
<1>4. InsertAt(s, i, e) = c \o b
  BY DEF InsertAt
<1> HIDE DEF a, b
<1>5. /\ c \in Seq(Int) /\ Len(c) = i
      /\ \A j \in 1 .. i : c[j] = IF j < i THEN s[j] ELSE e
  <2>1. <<e>> \in Seq(Int) /\ Len(<<e>>) = 1 /\ <<e>>[1] = e
    OBVIOUS
  <2>2. /\ c \in Seq(Int)
        /\ Len(c) = Len(a) + 1
        /\ \A j \in 1 .. Len(a) + 1 :
             c[j] = IF j <= Len(a) THEN a[j] ELSE <<e>>[j - Len(a)]
    BY <1>2, <2>1, ConcatProperties
  <2> HIDE DEF c
  <2>3. Len(c) = i
    BY <2>2, <1>1, <1>2
  <2>4. ASSUME NEW j \in 1 .. i PROVE c[j] = IF j < i THEN s[j] ELSE e
    <3>1. c[j] = IF j <= i - 1 THEN a[j] ELSE <<e>>[j - (i - 1)]
      BY <2>2, <1>2
    <3>2. CASE j < i
      BY <3>1, <3>2, <1>1, <1>2
    <3>3. CASE j = i
      <4>1. j - (i - 1) = 1
        BY <3>3
      <4> QED
        BY <4>1, <3>1, <3>3, <2>1
    <3> QED
      BY <3>2, <3>3
  <2> QED
    BY <2>2, <2>3, <2>4
<1> HIDE DEF c
<1>6. /\ c \o b \in Seq(Int)
      /\ Len(c \o b) = Len(c) + Len(b)
      /\ \A j \in 1 .. Len(c) + Len(b) :
           (c \o b)[j] = IF j <= Len(c) THEN c[j] ELSE b[j - Len(c)]
  BY <1>3, <1>5, ConcatProperties
<1>7. Len(c \o b) = Len(s) + 1
  BY <1>1, <1>3, <1>5, <1>6
<1>8. ASSUME NEW j \in 1 .. Len(s) + 1
      PROVE  (c \o b)[j] = IF j < i THEN s[j] ELSE IF j = i THEN e ELSE s[j - 1]
  <2>1. (c \o b)[j] = IF j <= i THEN c[j] ELSE b[j - i]
    <3>1. j \in 1 .. Len(c) + Len(b)
      BY <1>1, <1>3, <1>5
    <3> QED
      BY <3>1, <1>5, <1>6
  <2>2. CASE j <= i
    BY <2>1, <2>2, <1>1, <1>5
  <2>3. CASE ~ (j <= i)
    <3>1. j - i \in 1 .. Len(s) - i + 1 /\ i + (j - i) - 1 = j - 1
      BY <2>3, <1>1
    <3> QED
      BY <3>1, <2>1, <2>3, <1>1, <1>3
  <2> QED
    BY <2>2, <2>3
<1> QED
  BY <1>4, <1>6, <1>7, <1>8

-----------------------------------------------------------------------------
(* Each chunk the program holds has a block of its own, no shorter than    *)
(* the chunk.                                                              *)
Owned ==
  /\ freelist \in Seq(Int)
  /\ chunks \subseteq [at : Int, len : Sizes \ {0}]
  /\ \A c \in chunks : c.len <= size[BlockOf(c)]
  /\ \A c, d \in chunks : BlockOf(c) = BlockOf(d) => c = d

(* The inductive invariant.  WellFormed alone is not inductive: free takes *)
(* back the block of a chunk, and nothing in WellFormed says that no other *)
(* chunk has the same block.                                               *)
HeapInv == WellFormed /\ Owned

(* WellFormed is a tiling by two kinds of blocks and a sorted list.        *)
LEMMA Formed ==
  WellFormed <=> /\ Tiling(Blocks, size)
                 /\ FreeBlocks \cap HeldBlocks = {}
                 /\ Sorted
BY DEF WellFormed, TypeOK, Tiles, Tiling, Blocks, End

(* The same of the next state.                                             *)
LEMMA FormedNext ==
  WellFormed' <=> /\ Tiling(Blocks', size')
                  /\ FreeBlocks' \cap HeldBlocks' = {}
                  /\ Sorted'
BY DEF WellFormed, TypeOK, Tiles, Tiling, Blocks, End

(* heap_init makes one block of the whole heap.                            *)
LEMMA Inits == Init => HeapInv
<1> SUFFICES ASSUME Init PROVE HeapInv
  OBVIOUS
<1>1. /\ HEADER \in Nat /\ HEADER > 0 /\ HEAP_SIZE \in Nat /\ HEAP_SIZE > HEADER
      /\ Start = 0 /\ Limit = HEAP_SIZE
  BY HeapAssumption DEF Start, Limit
<1>2. /\ freelist = <<0>> /\ chunks = {}
      /\ size = [blk \in {0} |-> HEAP_SIZE - HEADER]
  BY <1>1 DEF Init
<1>3. FreeBlocks = {0} /\ HeldBlocks = {} /\ Blocks = {0}
  BY <1>2 DEF FreeBlocks, HeldBlocks, Blocks
<1>4. Tiling({0}, size)
  BY <1>1, <1>2 DEF Tiling
<1>5. Sorted /\ Owned
  BY <1>2 DEF Sorted, Owned
<1> QED
  BY <1>3, <1>4, <1>5, Formed DEF HeapInv

(* The first block that fits exists and is one of the list. *)
LEMMA FirstFit ==
  ASSUME HeapInv, NEW n \in Sizes, Fits(n) # {}
  PROVE  /\ Min(Fits(n)) \in 1 .. Len(freelist)
         /\ freelist[Min(Fits(n))] \in FreeBlocks
         /\ size[freelist[Min(Fits(n))]] >= n
<1>1. Fits(n) \in SUBSET Nat /\ DOMAIN freelist = 1 .. Len(freelist)
  BY LenProperties DEF Fits, HeapInv, Owned
<1>2. \E x \in Fits(n) : \A y \in Fits(n) : x <= y
  BY <1>1, NatMin
<1>3. Min(Fits(n)) \in Fits(n)
  BY <1>2 DEF Min
<1> QED
  BY <1>1, <1>3 DEF Fits, FreeBlocks

(* Taking a block, whole or in part, keeps the heap in order.              *)
LEMMA MallocInv ==
  ASSUME HeapInv, NEW n \in Sizes, Malloc(n)
  PROVE  HeapInv'
<1> DEFINE i == Min(Fits(n))
           blk == freelist[i]
           new == blk + HEADER + n
<1>1. /\ n \in Nat /\ n > 0 /\ HEADER \in Nat /\ HEADER > 0
  BY HeapAssumption DEF Malloc
<1>2. /\ i \in 1 .. Len(freelist) /\ blk \in FreeBlocks /\ size[blk] >= n
  BY FirstFit DEF Malloc
<1>3. /\ Tiling(Blocks, size) /\ FreeBlocks \cap HeldBlocks = {} /\ Sorted
      /\ Owned
  BY Formed DEF HeapInv
<1>4. /\ freelist \in Seq(Int) /\ Len(freelist) \in Nat
      /\ DOMAIN freelist = 1 .. Len(freelist)
      /\ \A j \in 1 .. Len(freelist) : freelist[j] \in Int
  BY <1>3, LenProperties, ElementOfSeq DEF Owned
<1>5. /\ \/ /\ Splits(blk, n)
            /\ freelist' = [freelist EXCEPT ![i] = new]
            /\ size' = [b \in DOMAIN size \union {new} |->
                          IF b = blk THEN n
                          ELSE IF b = new THEN Rest(blk, n) ELSE size[b]]
         \/ /\ ~ Splits(blk, n)
            /\ freelist' = RemoveAt(freelist, i)
            /\ size' = size
      /\ chunks' = chunks \union {Chunk(blk, n)}
  BY DEF Malloc
<1> HIDE DEF i
<1>6. \A j, k \in 1 .. Len(freelist) : j < k => freelist[j] < freelist[k]
  BY <1>3, <1>4 DEF Sorted
<1>7. /\ \A j \in 1 .. Len(freelist) : j # i => freelist[j] # blk
      /\ blk \in Int /\ blk \in Blocks /\ blk \notin HeldBlocks
      /\ size[blk] \in Nat
  <2>1. \A j \in 1 .. Len(freelist) : j # i => freelist[j] # blk
    BY <1>2, <1>4, <1>6
  <2> QED
    BY <2>1, <1>2, <1>3, <1>4 DEF Blocks, Tiling
<1> HIDE DEF blk
<1>8. /\ BlockOf(Chunk(blk, n)) = blk
      /\ Chunk(blk, n) \in [at : Int, len : Sizes \ {0}]
      /\ Chunk(blk, n).len = n
  BY <1>1, <1>7 DEF BlockOf, Chunk
<1>9. HeldBlocks' = HeldBlocks \union {blk}
  BY <1>5, <1>8 DEF HeldBlocks
<1>10. CASE Splits(blk, n)
  <2>1. /\ freelist' = [freelist EXCEPT ![i] = new]
        /\ size' = [b \in Blocks \union {new} |->
                      IF b = blk THEN n
                      ELSE IF b = new THEN size[blk] - (HEADER + n) ELSE size[b]]
        /\ size[blk] > HEADER + n
    BY <1>3, <1>5, <1>10 DEF Rest, Splits, Tiling
  <2>2. Tiling(Blocks \union {new}, size') /\ new \notin Blocks
    BY <2>1, <1>1, <1>3, <1>7, SplitTiles
  <2>3. /\ freelist' \in Seq(Int) /\ Len(freelist') = Len(freelist)
        /\ \A j \in 1 .. Len(freelist) :
             freelist'[j] = IF j = i THEN new ELSE freelist[j]
        /\ DOMAIN freelist' = 1 .. Len(freelist)
    BY <2>1, <1>1, <1>2, <1>4, <1>7, ExceptSeq, LenProperties
  <2>4. FreeBlocks' = (FreeBlocks \ {blk}) \union {new}
    <3>1. FreeBlocks' = {freelist'[j] : j \in 1 .. Len(freelist)}
      BY <2>3 DEF FreeBlocks
    <3>2. FreeBlocks = {freelist[j] : j \in 1 .. Len(freelist)}
      BY <1>4 DEF FreeBlocks
    <3> HIDE DEF new
    <3>3. blk = freelist[i]
      BY DEF blk
    <3> QED
      BY <3>1, <3>2, <3>3, <2>3, <1>2, <1>7
  <2>5. Blocks' = Blocks \union {new}
    BY <2>4, <1>2, <1>9 DEF Blocks
  <2>6. FreeBlocks' \cap HeldBlocks' = {}
    BY <2>2, <2>4, <1>3, <1>7, <1>9 DEF Blocks
  <2>7. Sorted'
    <3>1. \A j \in 1 .. Len(freelist) : freelist[j] > blk => freelist[j] > new
      <4>1. \A j \in 1 .. Len(freelist) : freelist[j] \in Blocks
        BY <1>4 DEF FreeBlocks, Blocks
      <4> QED
        BY <4>1, <2>1, <1>1, <1>3, <1>4, <1>7 DEF Tiling
    <3>2. ASSUME NEW j \in 1 .. Len(freelist), NEW k \in 1 .. Len(freelist), j < k
          PROVE  freelist'[j] < freelist'[k]
      <4>1. CASE j = i
        BY <4>1, <3>1, <3>2, <2>3, <1>6 DEF blk
      <4>2. CASE k = i
        <5>1. freelist[j] < blk /\ blk < new
          BY <4>2, <3>2, <1>6, <1>1, <1>7 DEF blk
        <5> QED
          BY <5>1, <4>2, <3>2, <2>3, <1>1, <1>4, <1>7
      <4>3. CASE j # i /\ k # i
        BY <4>3, <3>2, <2>3, <1>6
      <4> QED
        BY <4>1, <4>2, <4>3
    <3> QED
      BY <3>2, <2>3 DEF Sorted
  <2>8. Owned'
    <3>1. \A c \in chunks : BlockOf(c) \in HeldBlocks /\ BlockOf(c) # blk
      BY <1>7 DEF HeldBlocks
    <3>2. \A b \in HeldBlocks : size'[b] = size[b]
      BY <2>1, <2>2, <1>7 DEF Blocks
    <3>3. size'[blk] = n
      BY <2>1, <1>7
    <3>4. \A c \in chunks' : c.len <= size'[BlockOf(c)]
      BY <3>1, <3>2, <3>3, <1>1, <1>3, <1>5, <1>8 DEF Owned
    <3>5. \A c, d \in chunks' : BlockOf(c) = BlockOf(d) => c = d
      BY <3>1, <1>3, <1>5, <1>8 DEF Owned
    <3>6. chunks' \subseteq [at : Int, len : Sizes \ {0}]
      BY <1>3, <1>5, <1>8 DEF Owned
    <3> QED
      BY <3>4, <3>5, <3>6, <2>3 DEF Owned, BlockOf
  <2> QED
    BY <2>2, <2>5, <2>6, <2>7, <2>8, FormedNext DEF HeapInv
<1>11. CASE ~ Splits(blk, n)
  <2>1. /\ freelist' = RemoveAt(freelist, i) /\ size' = size
    BY <1>5, <1>11
  <2>2. /\ freelist' \in Seq(Int) /\ Len(freelist') = Len(freelist) - 1
        /\ \A j \in 1 .. Len(freelist) - 1 :
             freelist'[j] = IF j < i THEN freelist[j] ELSE freelist[j + 1]
        /\ DOMAIN freelist' = 1 .. Len(freelist) - 1
    BY <2>1, <1>2, <1>4, Removed, LenProperties
  <2>3. FreeBlocks' = FreeBlocks \ {blk}
    <3>1. FreeBlocks' = {freelist'[j] : j \in 1 .. Len(freelist) - 1}
      BY <2>2 DEF FreeBlocks
    <3>2. FreeBlocks = {freelist[j] : j \in 1 .. Len(freelist)}
      BY <1>4 DEF FreeBlocks
    <3>3. ASSUME NEW b \in FreeBlocks' PROVE b \in FreeBlocks \ {blk}
      <4>1. PICK j \in 1 .. Len(freelist) - 1 : b = freelist'[j]
        BY <3>1, <3>3
      <4>2. CASE j < i
        <5>1. j \in 1 .. Len(freelist) /\ j # i /\ b = freelist[j]
          BY <4>1, <4>2, <2>2, <1>2, <1>4
        <5> QED
          BY <5>1, <3>2, <1>7
      <4>3. CASE ~ (j < i)
        <5>1. j + 1 \in 1 .. Len(freelist) /\ j + 1 # i /\ b = freelist[j + 1]
          BY <4>1, <4>3, <2>2, <1>2, <1>4
        <5> QED
          BY <5>1, <3>2, <1>7
      <4> QED
        BY <4>2, <4>3
    <3>4. ASSUME NEW b \in FreeBlocks \ {blk} PROVE b \in FreeBlocks'
      <4>1. PICK j \in 1 .. Len(freelist) : b = freelist[j]
        BY <3>2, <3>4
      <4>2. j # i
        BY <4>1, <3>4 DEF blk
      <4>3. CASE j < i
        <5>1. j \in 1 .. Len(freelist) - 1
          BY <4>3, <1>2, <1>4
        <5> QED
          BY <5>1, <4>1, <4>3, <3>1, <2>2
      <4>4. CASE j > i
        <5>1. j - 1 \in 1 .. Len(freelist) - 1 /\ ~ (j - 1 < i) /\ j - 1 + 1 = j
          BY <4>4, <1>2, <1>4
        <5> QED
          BY <5>1, <4>1, <3>1, <2>2
      <4> QED
        BY <4>2, <4>3, <4>4, <1>2
    <3> QED
      BY <3>3, <3>4
  <2>4. Blocks' = Blocks
    BY <2>3, <1>2, <1>9 DEF Blocks
  <2>5. FreeBlocks' \cap HeldBlocks' = {}
    BY <2>3, <1>3, <1>9
  <2>6. Sorted'
    <3>1. ASSUME NEW j \in 1 .. Len(freelist) - 1,
                 NEW k \in 1 .. Len(freelist) - 1, j < k
          PROVE  freelist'[j] < freelist'[k]
      <4>1. /\ j \in 1 .. Len(freelist) /\ k \in 1 .. Len(freelist)
            /\ j + 1 \in 1 .. Len(freelist) /\ k + 1 \in 1 .. Len(freelist)
            /\ j < k + 1 /\ j + 1 < k + 1 /\ (j >= i => k >= i)
        BY <3>1, <1>2, <1>4
      <4>2. /\ freelist[j] < freelist[k] /\ freelist[j] < freelist[k + 1]
            /\ freelist[j + 1] < freelist[k + 1]
        BY <4>1, <3>1, <1>6
      <4> QED
        BY <4>1, <4>2, <2>2, <1>2
    <3> QED
      BY <3>1, <2>2 DEF Sorted
  <2>7. Owned'
    <3>1. \A c \in chunks : BlockOf(c) \in HeldBlocks /\ BlockOf(c) # blk
      BY <1>7 DEF HeldBlocks
    <3>4. \A c \in chunks' : c.len <= size'[BlockOf(c)]
      BY <2>1, <1>1, <1>2, <1>3, <1>5, <1>7, <1>8 DEF Owned
    <3>5. \A c, d \in chunks' : BlockOf(c) = BlockOf(d) => c = d
      BY <3>1, <1>3, <1>5, <1>8 DEF Owned
    <3>6. chunks' \subseteq [at : Int, len : Sizes \ {0}]
      BY <1>3, <1>5, <1>8 DEF Owned
    <3> QED
      BY <3>4, <3>5, <3>6, <2>2 DEF Owned, BlockOf
  <2> QED
    BY <2>1, <2>4, <2>5, <2>6, <2>7, <1>3, FormedNext DEF HeapInv
<1> QED
  BY <1>10, <1>11

-----------------------------------------------------------------------------
(* The march of free stops at the first block that is not below blk.       *)
LEMMA March ==
  ASSUME HeapInv, NEW blk \in Int
  PROVE  \E m \in 1 .. Len(freelist) + 1 :
           /\ Cardinality(Before(blk)) + 1 = m
           /\ \A j \in 1 .. m - 1 : freelist[j] < blk
           /\ \A j \in m .. Len(freelist) : freelist[j] >= blk
<1> DEFINE N == Len(freelist)
           Ends == {j \in 1 .. N + 1 : j = N + 1 \/ freelist[j] >= blk}
<1>1. /\ N \in Nat /\ DOMAIN freelist = 1 .. N
      /\ \A j \in 1 .. N : freelist[j] \in Int
      /\ \A j, k \in 1 .. N : j < k => freelist[j] < freelist[k]
  BY LenProperties, ElementOfSeq DEF HeapInv, Owned, WellFormed, Sorted
<1> HIDE DEF N
<1>2. Ends \in SUBSET Nat /\ N + 1 \in Ends
  BY <1>1
<1>3. PICK m \in Ends : \A j \in Ends : m <= j
  BY <1>2, NatMin
<1>4. m \in 1 .. N + 1 /\ \A j \in 1 .. m - 1 : freelist[j] < blk
  <2>1. m \in 1 .. N + 1
    BY <1>3
  <2>2. ASSUME NEW j \in 1 .. m - 1 PROVE freelist[j] < blk
    <3>1. j \in 1 .. N /\ ~ (m <= j)
      BY <2>1, <1>1
    <3>2. j \notin Ends
      BY <3>1, <1>3
    <3> QED
      BY <3>1, <3>2, <1>1
  <2> QED
    BY <2>1, <2>2
<1>5. \A j \in m .. N : freelist[j] >= blk
  <2>1. ASSUME NEW j \in m .. N PROVE freelist[j] >= blk
    <3>1. m \in 1 .. N /\ j \in 1 .. N
      BY <1>1, <1>4
    <3>2. freelist[m] >= blk
      BY <3>1, <1>1, <1>3
    <3> QED
      BY <3>1, <3>2, <1>1
  <2> QED
    BY <2>1
<1>6. Before(blk) = 1 .. m - 1
  <2>1. ASSUME NEW k \in Before(blk) PROVE k \in 1 .. m - 1
    <3>1. k \in 1 .. N /\ \A j \in 1 .. k : freelist[j] < blk
      BY <2>1, <1>1 DEF Before
    <3>2. k >= m => m \in 1 .. k /\ m \in m .. N
      BY <3>1, <1>1, <1>4
    <3>3. ~ (k >= m)
      BY <3>1, <3>2, <1>1, <1>4, <1>5
    <3> QED
      BY <3>1, <3>3, <1>4, <1>1
  <2>2. ASSUME NEW k \in 1 .. m - 1 PROVE k \in Before(blk)
    BY <1>1, <1>4 DEF Before
  <2> QED
    BY <2>1, <2>2
<1>7. Cardinality(Before(blk)) = m - 1
  <2>1. Cardinality(1 .. m - 1) = IF 1 > m - 1 THEN 0 ELSE (m - 1) - 1 + 1
    BY <1>1, <1>4, FS_Interval
  <2> QED
    BY <2>1, <1>1, <1>4, <1>6
<1> QED
  BY <1>1, <1>4, <1>5, <1>7 DEF N

(* Putting a block back in its place keeps the heap in order.              *)
LEMMA FreeInv ==
  ASSUME HeapInv, NEW chunk \in chunks, Free(chunk)
  PROVE  HeapInv'
<1> DEFINE blk == BlockOf(chunk)
           N   == Len(freelist)
<1>1. /\ Tiling(Blocks, size) /\ FreeBlocks \cap HeldBlocks = {} /\ Sorted
      /\ Owned /\ HEADER \in Nat
  BY Formed, HeapAssumption DEF HeapInv
<1>2. /\ freelist \in Seq(Int) /\ N \in Nat
      /\ DOMAIN freelist = 1 .. N
      /\ \A j \in 1 .. N : freelist[j] \in Int
      /\ \A j, k \in 1 .. N : j < k => freelist[j] < freelist[k]
  BY <1>1, LenProperties, ElementOfSeq DEF Owned, Sorted
<1>3. /\ blk \in HeldBlocks /\ blk \in Int /\ blk \notin FreeBlocks
  BY <1>1 DEF HeldBlocks, Blocks, Tiling
<1>4. HeldBlocks' = HeldBlocks \ {blk}
  <2>1. chunks' = chunks \ {chunk}
    BY DEF Free
  <2>2. \A c \in chunks : BlockOf(c) = blk => c = chunk
    BY <1>1 DEF Owned
  <2> QED
    BY <2>1, <2>2 DEF HeldBlocks, BlockOf
<1>5. PICK m \in 1 .. N + 1 :
        /\ Cardinality(Before(blk)) + 1 = m
        /\ \A j \in 1 .. m - 1 : freelist[j] < blk
        /\ \A j \in m .. N : freelist[j] >= blk
  BY <1>3, March
<1>6. /\ freelist' = InsertAt(freelist, m, blk)
      /\ size' = size
      /\ chunks' = chunks \ {chunk}
  BY <1>5 DEF Free
<1> HIDE DEF blk
<1>7. /\ freelist' \in Seq(Int) /\ Len(freelist') = N + 1
      /\ \A j \in 1 .. N + 1 :
           freelist'[j] = IF j < m THEN freelist[j]
                          ELSE IF j = m THEN blk ELSE freelist[j - 1]
      /\ DOMAIN freelist' = 1 .. N + 1
  <2>1. m \in 1 .. Len(freelist) + 1
    OBVIOUS
  <2>2. /\ freelist' \in Seq(Int) /\ Len(freelist') = Len(freelist) + 1
        /\ \A j \in 1 .. Len(freelist) + 1 :
             freelist'[j] = IF j < m THEN freelist[j]
                            ELSE IF j = m THEN blk ELSE freelist[j - 1]
    <3> DEFINE ins == InsertAt(freelist, m, blk)
    <3>1. freelist \in Seq(Int) /\ blk \in Int
      BY <1>2, <1>3
    <3>2. /\ ins \in Seq(Int) /\ Len(ins) = Len(freelist) + 1
          /\ \A j \in 1 .. Len(freelist) + 1 :
               ins[j] = IF j < m THEN freelist[j]
                        ELSE IF j = m THEN blk ELSE freelist[j - 1]
      BY <2>1, <3>1, Inserted
    <3> QED
      BY <3>2, <1>6
  <2>3. DOMAIN freelist' = 1 .. Len(freelist')
    BY <2>2, LenProperties
  <2> QED
    BY <2>2, <2>3
<1>8. \A j \in 1 .. N : freelist[j] # blk
  BY <1>2, <1>3 DEF FreeBlocks
<1>9. FreeBlocks' = FreeBlocks \union {blk}
  <2>1. FreeBlocks' = {freelist'[j] : j \in 1 .. N + 1}
    BY <1>7 DEF FreeBlocks
  <2>2. FreeBlocks = {freelist[j] : j \in 1 .. N}
    BY <1>2 DEF FreeBlocks
  <2> HIDE DEF N
  <2>3. ASSUME NEW b \in FreeBlocks' PROVE b \in FreeBlocks \union {blk}
    <3>1. PICK j \in 1 .. N + 1 : b = freelist'[j]
      BY <2>1, <2>3
    <3>2. CASE j < m
      <4>1. j \in 1 .. N
        BY <3>2, <1>2, <1>5
      <4> QED
        BY <4>1, <3>1, <3>2, <1>7, <2>2
    <3>3. CASE j = m
      BY <3>1, <3>3, <1>7
    <3>4. CASE j > m
      <4>1. j - 1 \in 1 .. N /\ ~ (j < m) /\ j # m
        BY <3>4, <1>2, <1>5
      <4> QED
        BY <4>1, <3>1, <1>7, <2>2
    <3> QED
      BY <3>2, <3>3, <3>4, <1>2, <1>5
  <2>4. blk \in FreeBlocks'
    BY <2>1, <1>2, <1>5, <1>7
  <2>5. ASSUME NEW b \in FreeBlocks PROVE b \in FreeBlocks'
    <3>1. PICK j \in 1 .. N : b = freelist[j]
      BY <2>2, <2>5
    <3>2. CASE j < m
      <4>1. j \in 1 .. N + 1
        BY <1>2
      <4> QED
        BY <4>1, <3>1, <3>2, <1>7, <2>1
    <3>3. CASE j >= m
      <4>1. j + 1 \in 1 .. N + 1 /\ ~ (j + 1 < m) /\ j + 1 # m /\ j + 1 - 1 = j
        BY <3>3, <1>2, <1>5
      <4> QED
        BY <4>1, <3>1, <1>7, <2>1
    <3> QED
      BY <3>2, <3>3, <1>2, <1>5
  <2> QED
    BY <2>3, <2>4, <2>5
<1>10. Blocks' = Blocks
  BY <1>3, <1>4, <1>9 DEF Blocks
<1>11. FreeBlocks' \cap HeldBlocks' = {}
  BY <1>1, <1>4, <1>9
<1>12. Sorted'
  <2>1. ASSUME NEW j \in 1 .. N + 1, NEW k \in 1 .. N + 1, j < k
        PROVE  freelist'[j] < freelist'[k]
    <3>1. CASE k < m
      <4>1. j \in 1 .. N /\ k \in 1 .. N /\ j < m
        BY <3>1, <2>1, <1>2, <1>5
      <4> QED
        BY <4>1, <3>1, <2>1, <1>2, <1>7
    <3>2. CASE k = m
      <4>1. j \in 1 .. m - 1 /\ j < m
        BY <3>2, <2>1, <1>2, <1>5
      <4> QED
        BY <4>1, <3>2, <1>5, <1>7
    <3>3. CASE k > m
      <4>1. k - 1 \in 1 .. N /\ k - 1 \in m .. N /\ ~ (k < m) /\ k # m
        BY <3>3, <1>2, <1>5
      <4>2. freelist'[k] = freelist[k - 1] /\ freelist[k - 1] > blk
        <5>1. freelist'[k] = freelist[k - 1]
          BY <4>1, <1>7
        <5>2. /\ freelist[k - 1] >= blk /\ freelist[k - 1] # blk
              /\ freelist[k - 1] \in Int
          BY <4>1, <1>2, <1>5, <1>8
        <5> QED
          BY <5>1, <5>2, <1>3
      <4>3. CASE j < m
        <5>1. j \in 1 .. m - 1 /\ j \in 1 .. N
          BY <4>3, <1>2, <1>5
        <5> QED
          BY <5>1, <4>1, <4>2, <4>3, <1>2, <1>3, <1>5, <1>7
      <4>4. CASE j = m
        BY <4>2, <4>4, <1>7
      <4>5. CASE j > m
        <5>1. j - 1 \in 1 .. N /\ j - 1 < k - 1 /\ ~ (j < m) /\ j # m
          BY <4>5, <2>1, <1>2, <1>5
        <5> QED
          BY <5>1, <4>1, <4>2, <1>2, <1>7
      <4> QED
        BY <4>3, <4>4, <4>5, <1>2, <1>5
    <3> QED
      BY <3>1, <3>2, <3>3, <1>2, <1>5
  <2> QED
    BY <2>1, <1>7 DEF Sorted
<1>13. Owned'
  <2>1. \A c \in chunks' : c.len <= size'[BlockOf(c)]
    BY <1>1, <1>6 DEF Owned
  <2>2. chunks' \subseteq [at : Int, len : Sizes \ {0}]
    BY <1>1, <1>6 DEF Owned
  <2>3. \A c, d \in chunks' : BlockOf(c) = BlockOf(d) => c = d
    BY <1>1, <1>6 DEF Owned
  <2> QED
    BY <2>1, <2>2, <2>3, <1>7 DEF Owned, BlockOf
<1> QED
  BY <1>1, <1>6, <1>10, <1>11, <1>12, <1>13, FormedNext DEF HeapInv

-----------------------------------------------------------------------------
(* The free blocks in the middle of heap_defrag: those of the new list,    *)
(* and those the loop has not come to.                                     *)
Merging(d) == {d.list[i] : i \in 1 .. Len(d.list)}
Ahead(k) == {freelist[j] : j \in k + 1 .. Len(freelist)}

(* The loop invariant of heap_defrag after k rounds: the heap is tiled,    *)
(* the list is sorted and no two blocks behind the loop touch.             *)
Loop(d, k) ==
  /\ d.list \in Seq(Int)
  /\ \A i \in 1 .. Len(d.list) : \E j \in 1 .. k : d.list[i] = freelist[j]
  /\ \A i, j \in 1 .. Len(d.list) : i < j => d.list[i] < d.list[j]
  /\ Tiling(Merging(d) \union Ahead(k) \union HeldBlocks, d.size)
  /\ \A b \in HeldBlocks : d.size[b] = size[b]
  /\ \A b, c \in Merging(d) : b + HEADER + d.size[b] # c

(* A round of the loop, whether it merges or moves on, keeps Loop.         *)
LEMMA LoopStep ==
  ASSUME HeapInv, NEW k \in 1 .. Len(freelist), NEW d, Loop(d, k - 1),
         d = [list |-> d.list, size |-> d.size]
  PROVE  LET e == Visit(d, freelist[k]) IN
         Loop(e, k) /\ e = [list |-> e.list, size |-> e.size]
<1> DEFINE blk == freelist[k]
           N   == Len(freelist)
           e   == Visit(d, blk)
           l   == d.list[Len(d.list)]
           old == Merging(d) \union Ahead(k - 1) \union HeldBlocks
           was == Merging(d) \union Ahead(k) \union HeldBlocks
<1>1. /\ Sorted /\ Owned /\ FreeBlocks \cap HeldBlocks = {}
      /\ HEADER \in Nat /\ HEADER > 0
  BY Formed, HeapAssumption DEF HeapInv
<1>2. /\ N \in Nat /\ DOMAIN freelist = 1 .. N
      /\ \A j \in 1 .. N : freelist[j] \in Int /\ freelist[j] \in FreeBlocks
      /\ \A j, m \in 1 .. N : j < m => freelist[j] < freelist[m]
  BY <1>1, LenProperties, ElementOfSeq DEF Owned, Sorted, FreeBlocks
<1>3. blk \in Int /\ blk \notin HeldBlocks /\ k \in Nat /\ k <= N /\ k - 1 \in Nat
  BY <1>1, <1>2
<1>4. /\ Len(d.list) \in Nat /\ d.list \in Seq(Int)
      /\ \A i \in 1 .. Len(d.list) : d.list[i] \in Int
  BY LenProperties, ElementOfSeq DEF Loop
<1>5. \A b \in Merging(d) : b \in Int /\ b < blk /\ b \notin HeldBlocks
  <2>1. ASSUME NEW b \in Merging(d) PROVE b \in Int /\ b < blk /\ b \notin HeldBlocks
    <3>1. PICK i \in 1 .. Len(d.list) : b = d.list[i]
      BY <2>1 DEF Merging
    <3>2. PICK j \in 1 .. k - 1 : b = freelist[j]
      BY <3>1 DEF Loop
    <3>3. j \in 1 .. N /\ j < k
      BY <3>2, <1>3
    <3> QED
      BY <3>2, <3>3, <1>1, <1>2
  <2> QED
    BY <2>1
<1>6. \A b \in Ahead(k) : b \in Int /\ b > blk
  <2>1. ASSUME NEW b \in Ahead(k) PROVE b \in Int /\ b > blk
    <3>1. PICK j \in k + 1 .. N : b = freelist[j]
      BY <2>1 DEF Ahead
    <3>2. j \in 1 .. N /\ k < j
      BY <3>1, <1>3
    <3> QED
      BY <3>1, <3>2, <1>2
  <2> QED
    BY <2>1
<1>7. Ahead(k - 1) = Ahead(k) \union {blk}
  <2>1. \A j : j \in k - 1 + 1 .. N <=> j = k \/ j \in k + 1 .. N
    BY <1>2, <1>3
  <2> QED
    BY <2>1 DEF Ahead
<1>8. /\ Tiling(old, d.size)
      /\ \A b \in HeldBlocks : d.size[b] = size[b]
      /\ \A b, c \in Merging(d) : b + HEADER + d.size[b] # c
      /\ \A i, j \in 1 .. Len(d.list) : i < j => d.list[i] < d.list[j]
      /\ \A i \in 1 .. Len(d.list) : \E j \in 1 .. k - 1 : d.list[i] = freelist[j]
  BY DEF Loop
<1>9. old = was \union {blk} /\ old \ {blk} = was /\ blk \notin was
  BY <1>3, <1>5, <1>6, <1>7
<1> HIDE DEF old, was
<1>10. CASE d.list # <<>> /\ l + HEADER + d.size[l] = blk
  <2>1. l \in Merging(d) /\ l \in old /\ blk \in old
    <3>1. Len(d.list) \in 1 .. Len(d.list)
      BY <1>4, <1>10
    <3>2. l \in Merging(d)
      BY <3>1 DEF Merging
    <3> QED
      BY <3>2, <1>9 DEF was
  <2>2. e.list = d.list /\ e.size = Merged(d.size, l, blk)
        /\ e = [list |-> e.list, size |-> e.size]
    BY <1>10 DEF Visit, Last
  <2> HIDE DEF e, blk, l
  <2>3. /\ Tiling(old \ {blk}, e.size)
        /\ \A b \in old \ {blk} : b # l => e.size[b] = d.size[b]
        /\ e.size[l] = d.size[l] + HEADER + d.size[blk]
    <3> DEFINE s == d.size
               t == e.size
    <3>1. Tiling(old, s) /\ l + HEADER + s[l] = blk /\ t = Merged(s, l, blk)
      BY <2>2, <1>8, <1>10
    <3> HIDE DEF s, t
    <3>2. l \in old \ {blk} /\ DOMAIN s = old
      BY <2>1, <3>1, <1>3, <1>5 DEF Tiling
    <3>3. Tiling(old \ {blk}, t)
      BY <3>1, <2>1, MergeTiles
    <3>4. t = [b \in old \ {blk} |-> IF b = l THEN s[b] + HEADER + s[blk] ELSE s[b]]
      BY <3>1, <3>2 DEF Merged
    <3>5. /\ \A b \in old \ {blk} : b # l => t[b] = s[b]
          /\ t[l] = s[l] + HEADER + s[blk]
      BY <3>2, <3>4
    <3> QED
      BY <3>3, <3>5 DEF s, t
  <2>4. Merging(e) = Merging(d)
    BY <2>2 DEF Merging
  <2>5. Tiling(Merging(e) \union Ahead(k) \union HeldBlocks, e.size)
    BY <2>3, <2>4, <1>9 DEF was
  <2>6. \A b \in HeldBlocks : e.size[b] = size[b]
    BY <2>1, <2>3, <1>5, <1>8, <1>9 DEF was
  <2>7. ASSUME NEW b \in Merging(e), NEW c \in Merging(e)
        PROVE  b + HEADER + e.size[b] # c
    <3>1. CASE b = l
      <4>1. d.size[l] \in Nat /\ d.size[blk] \in Nat
        BY <2>1, <1>8 DEF Tiling
      <4>2. c < blk /\ c \in Int /\ l \in Int
        BY <2>1, <2>4, <1>5
      <4> QED
        BY <3>1, <4>1, <4>2, <2>3, <1>1, <1>3, <1>10
    <3>2. CASE b # l
      BY <3>2, <2>3, <2>4, <1>5, <1>8, <1>9 DEF was
    <3> QED
      BY <3>1, <3>2
  <2>8. \A i \in 1 .. Len(e.list) : \E j \in 1 .. k : e.list[i] = freelist[j]
    <3>1. \A j \in 1 .. k - 1 : j \in 1 .. k
      BY <1>3
    <3> QED
      BY <3>1, <2>2, <1>8
  <2>9. Loop(e, k)
    BY <2>2, <2>5, <2>6, <2>7, <2>8, <1>4, <1>8 DEF Loop
  <2> QED
    BY <2>2, <2>9 DEF e, blk
<1>11. CASE ~ (d.list # <<>> /\ l + HEADER + d.size[l] = blk)
  <2>1. e.list = Append(d.list, blk) /\ e.size = d.size
        /\ e = [list |-> e.list, size |-> e.size]
    BY <1>11 DEF Visit, Last
  <2> HIDE DEF e
  <2>2. /\ e.list \in Seq(Int) /\ Len(e.list) = Len(d.list) + 1
        /\ e.list[Len(d.list) + 1] = blk
        /\ \A i \in 1 .. Len(d.list) : e.list[i] = d.list[i]
    BY <2>1, <1>3, <1>4
  <2> HIDE DEF blk
  <2>3. Merging(e) = Merging(d) \union {blk}
    <3>1. \A i : i \in 1 .. Len(e.list) <=> i \in 1 .. Len(d.list) \/ i = Len(d.list) + 1
      BY <2>2, <1>4
    <3> QED
      BY <3>1, <2>2 DEF Merging
  <2>4. Tiling(Merging(e) \union Ahead(k) \union HeldBlocks, e.size)
    <3>1. Merging(e) \union Ahead(k) \union HeldBlocks = old
      BY <2>3, <1>9 DEF was
    <3> QED
      BY <3>1, <2>1, <1>8
  <2>5. \A b \in HeldBlocks : e.size[b] = size[b]
    BY <2>1, <1>8
  <2>6. \A i, j \in 1 .. Len(e.list) : i < j => e.list[i] < e.list[j]
    <3>1. ASSUME NEW i \in 1 .. Len(e.list), NEW j \in 1 .. Len(e.list), i < j
          PROVE  e.list[i] < e.list[j]
      <4>1. i \in 1 .. Len(d.list)
        BY <3>1, <2>2, <1>4
      <4>2. CASE j \in 1 .. Len(d.list)
        BY <4>1, <4>2, <3>1, <2>2, <1>8
      <4>3. CASE j = Len(d.list) + 1
        <5>1. d.list[i] \in Merging(d)
          BY <4>1 DEF Merging
        <5> QED
          BY <5>1, <4>1, <4>3, <2>2, <1>5
      <4> QED
        BY <4>2, <4>3, <2>2, <1>4
    <3> QED
      BY <3>1
  <2>7. \A i \in 1 .. Len(e.list) : \E j \in 1 .. k : e.list[i] = freelist[j]
    <3>1. ASSUME NEW i \in 1 .. Len(e.list)
          PROVE  \E j \in 1 .. k : e.list[i] = freelist[j]
      <4>1. CASE i \in 1 .. Len(d.list)
        <5>1. PICK j \in 1 .. k - 1 : d.list[i] = freelist[j]
          BY <4>1, <1>8
        <5>2. j \in 1 .. k
          BY <1>3
        <5> QED
          BY <5>1, <5>2, <4>1, <2>2
      <4>2. CASE i = Len(d.list) + 1
        <5>1. k \in 1 .. k
          BY <1>3
        <5> QED
          BY <5>1, <4>2, <2>2 DEF blk
      <4> QED
        BY <4>1, <4>2, <2>2, <1>4
    <3> QED
      BY <3>1
  <2>8. ASSUME NEW b \in Merging(e), NEW c \in Merging(e)
        PROVE  b + HEADER + e.size[b] # c
    <3>1. /\ b \in old /\ b \in Int /\ c \in Int /\ c <= blk
          /\ d.size[b] \in Nat
      BY <2>3, <1>3, <1>5, <1>8, <1>9 DEF Tiling, was
    <3>2. CASE b = blk
      BY <3>1, <3>2, <2>1, <1>1
    <3>3. CASE b # blk /\ c # blk
      BY <3>3, <2>1, <2>3, <1>8
    <3>4. CASE b # blk /\ c = blk
      <4>1. PICK i \in 1 .. Len(d.list) : b = d.list[i]
        BY <3>4, <2>3 DEF Merging
      <4>2. d.list # <<>> /\ Len(d.list) \in 1 .. Len(d.list)
        BY <4>1, <1>4
      <4>3. CASE i = Len(d.list)
        BY <4>1, <4>2, <4>3, <3>4, <2>1, <1>11
      <4>4. CASE i # Len(d.list)
        <5>1. i < Len(d.list)
          BY <4>2, <4>4
        <5>2. b < l /\ l \in Merging(d)
          BY <5>1, <4>1, <4>2, <1>8 DEF Merging
        <5>3. l \in Int /\ l < blk /\ l \in old
          BY <5>2, <1>5, <1>9 DEF was
        <5>4. b + HEADER + d.size[b] <= l
          BY <5>2, <5>3, <3>1, <1>8 DEF Tiling
        <5> QED
          BY <5>3, <5>4, <3>1, <3>4, <2>1, <1>1, <1>3
      <4> QED
        BY <4>3, <4>4
    <3> QED
      BY <3>2, <3>3, <3>4
  <2>9. Loop(e, k)
    BY <2>1, <2>2, <2>4, <2>5, <2>6, <2>7, <2>8 DEF Loop
  <2> QED
    BY <2>1, <2>9 DEF e, blk
<1> QED
  BY <1>10, <1>11

(* Loop holds when the loop ends.                                          *)
LEMMA Loops ==
  ASSUME HeapInv
  PROVE  Loop(Visited[Len(freelist)], Len(freelist))
<1> DEFINE N == Len(freelist)
           Good(k) == /\ Loop(Visited[k], k)
                      /\ Visited[k] = [list |-> Visited[k].list,
                                       size |-> Visited[k].size]
           Bad == {k \in 0 .. N : ~ Good(k)}
<1>1. /\ N \in Nat /\ Visited[0] = [list |-> <<>>, size |-> size]
      /\ \A k \in 1 .. N : Visited[k] = Visit(Visited[k - 1], freelist[k])
  BY VisitedStep, LenProperties DEF HeapInv, Owned
<1>2. Good(0)
  <2>1. Visited[0].list = <<>> /\ Visited[0].size = size
    BY <1>1
  <2>2. Merging(Visited[0]) = {} /\ Ahead(0) = FreeBlocks
    <3>1. DOMAIN freelist = 1 .. N
      BY LenProperties DEF HeapInv, Owned
    <3> QED
      BY <3>1, <2>1 DEF Merging, Ahead, FreeBlocks
  <2>3. Tiling(Merging(Visited[0]) \union Ahead(0) \union HeldBlocks, Visited[0].size)
    <3>1. Merging(Visited[0]) \union Ahead(0) \union HeldBlocks = Blocks
      BY <2>2 DEF Blocks
    <3> QED
      BY <3>1, <2>1, Formed DEF HeapInv
  <2>4. <<>> \in Seq(Int) /\ Len(<<>>) = 0
    OBVIOUS
  <2> QED
    BY <1>1, <2>1, <2>2, <2>3, <2>4 DEF Loop
<1>3. ASSUME NEW k \in 1 .. N, Good(k - 1) PROVE Good(k)
  BY <1>1, <1>3, LoopStep
<1>4. Bad = {}
  <2>1. SUFFICES ASSUME Bad # {} PROVE FALSE
    OBVIOUS
  <2> HIDE DEF Good, N
  <2>2. PICK k \in Bad : \A j \in Bad : k <= j
    <3>1. Bad \in SUBSET Nat
      OBVIOUS
    <3> HIDE DEF Bad
    <3> QED
      BY <3>1, <2>1, NatMin
  <2>3. k \in 0 .. N /\ k # 0 /\ ~ Good(k)
    BY <2>2, <1>2
  <2>4. k \in 1 .. N /\ k - 1 \in 0 .. N /\ ~ (k <= k - 1)
    BY <2>3, <1>1
  <2>5. Good(k - 1)
    BY <2>2, <2>4
  <2> QED
    BY <1>3, <2>3, <2>4, <2>5
<1>5. N \in 0 .. N
  BY <1>1
<1>6. Good(N)
  BY <1>4, <1>5
<1> QED
  BY <1>6

(* heap_defrag keeps the heap in order and leaves no two free blocks that  *)
(* touch.                                                                  *)
LEMMA DefragInv ==
  ASSUME HeapInv, heap_defrag
  PROVE  /\ HeapInv'
         /\ \A b, c \in FreeBlocks' : b + HEADER + size'[b] # c
<1> DEFINE N == Len(freelist)
           d == Visited[N]
<1>1. Loop(d, N)
  BY Loops
<1>2. freelist' = d.list /\ size' = d.size /\ chunks' = chunks
  BY DEF heap_defrag
<1>3. N \in Nat /\ Owned /\ FreeBlocks \cap HeldBlocks = {} /\ DOMAIN freelist = 1 .. N
  BY Formed, LenProperties DEF HeapInv, Owned
<1> HIDE DEF d
<1>4. /\ freelist' \in Seq(Int) /\ DOMAIN freelist' = 1 .. Len(freelist')
  BY <1>1, <1>2, LenProperties DEF Loop
<1>5. FreeBlocks' = Merging(d) /\ HeldBlocks' = HeldBlocks
  BY <1>2, <1>4 DEF FreeBlocks, Merging, HeldBlocks, BlockOf
<1>6. Ahead(N) = {}
  <2>1. N + 1 .. N = {}
    BY <1>3
  <2> QED
    BY <2>1 DEF Ahead
<1>7. Tiling(Blocks', size')
  BY <1>1, <1>2, <1>5, <1>6 DEF Loop, Blocks
<1>8. FreeBlocks' \cap HeldBlocks' = {}
  <2>1. FreeBlocks' \subseteq FreeBlocks
    <3>1. ASSUME NEW b \in Merging(d) PROVE b \in FreeBlocks
      <4>1. PICK i \in 1 .. Len(d.list) : b = d.list[i]
        BY <3>1 DEF Merging
      <4>2. PICK j \in 1 .. N : d.list[i] = freelist[j]
        BY <1>1 DEF Loop
      <4> QED
        BY <4>1, <4>2, <1>3 DEF FreeBlocks
    <3> QED
      BY <3>1, <1>5
  <2> QED
    BY <2>1, <1>3, <1>5
<1>9. Sorted'
  BY <1>1, <1>2, <1>4 DEF Loop, Sorted
<1>10. Owned'
  <2>1. \A c \in chunks : size'[BlockOf(c)] = size[BlockOf(c)]
    BY <1>1, <1>2 DEF Loop, HeldBlocks
  <2> QED
    BY <2>1, <1>2, <1>3, <1>4 DEF Owned, BlockOf
<1>11. \A b, c \in FreeBlocks' : b + HEADER + size'[b] # c
  BY <1>1, <1>2, <1>5 DEF Loop
<1> QED
  BY <1>7, <1>8, <1>9, <1>10, <1>11, FormedNext DEF HeapInv

(* A step that leaves the heap alone.                                      *)
LEMMA Stutters == HeapInv /\ UNCHANGED vars => HeapInv'
<1> SUFFICES ASSUME HeapInv, UNCHANGED vars PROVE HeapInv'
  OBVIOUS
<1>1. freelist' = freelist /\ size' = size /\ chunks' = chunks
  BY DEF vars
<1>2. FreeBlocks' = FreeBlocks /\ HeldBlocks' = HeldBlocks
  BY <1>1 DEF FreeBlocks, HeldBlocks, BlockOf
<1>3. Tiling(Blocks', size') /\ FreeBlocks' \cap HeldBlocks' = {} /\ Sorted'
  BY <1>1, <1>2, Formed DEF HeapInv, Blocks, Sorted
<1>4. Owned'
  BY <1>1 DEF HeapInv, Owned, BlockOf
<1> QED
  BY <1>3, <1>4, FormedNext DEF HeapInv

(* Every step keeps the inductive invariant.                               *)
LEMMA Steps == HeapInv /\ [Next]_vars => HeapInv'
<1> SUFFICES ASSUME HeapInv, [Next]_vars PROVE HeapInv'
  OBVIOUS
<1>1. CASE \E n \in Sizes : Malloc(n)
  BY <1>1, MallocInv
<1>2. CASE \E chunk \in chunks : Free(chunk)
  BY <1>2, FreeInv
<1>3. CASE heap_defrag
  BY <1>3, DefragInv
<1>4. CASE UNCHANGED vars
  BY <1>4, Stutters
<1> QED
  BY <1>1, <1>2, <1>3, <1>4 DEF Next, MallocFails, FreeNull

(* The inductive invariant holds for ever.                                 *)
LEMMA Always == Spec => []HeapInv
BY Inits, Steps, PTL DEF Spec

(* The blocks tile the heap, free or held, and the list is in the order of *)
(* addresses, through any sequence of calls and for every heap, header and *)
(* set of sizes.                                                           *)
THEOREM HeapWellFormed == Spec => []WellFormed
<1>1. HeapInv => WellFormed
  BY DEF HeapInv
<1> QED
  BY <1>1, Always, PTL

(* After heap_defrag no two free blocks touch: with HeapWellFormed, a      *)
(* program that has freed everything has its whole heap in one block.      *)
THEOREM NothingLeaks == Spec => Defragments
<1>1. HeapInv /\ [Next]_vars =>
        [heap_defrag => \A b, c \in FreeBlocks' : b + HEADER + size'[b] # c]_vars
  BY DefragInv
<1> QED
  BY <1>1, Always, PTL DEF Spec, Defragments

(* What malloc returns lies in the heap and overlaps no chunk.             *)
LEMMA Allocates ==
  ASSUME HeapInv, NEW n \in Sizes, Malloc(n)
  PROVE  Promise!Malloc
<1> DEFINE i == Min(Fits(n))
           blk == freelist[i]
<1>1. /\ n \in Nat /\ n > 0 /\ HEADER \in Nat /\ HEADER > 0 /\ Limit \in Int
      /\ Start = 0
  BY HeapAssumption DEF Malloc, Start, Limit
<1>2. /\ blk \in FreeBlocks /\ size[blk] >= n
  BY FirstFit DEF Malloc
<1>3. /\ Tiling(Blocks, size) /\ FreeBlocks \cap HeldBlocks = {} /\ Owned
  BY Formed DEF HeapInv
<1>4. chunks' = chunks \union {Chunk(blk, n)}
  BY DEF Malloc
<1> HIDE DEF blk
<1>5. /\ blk \in Int /\ blk >= 0 /\ size[blk] \in Nat /\ blk \in Blocks
      /\ blk + HEADER + size[blk] <= Limit
  BY <1>1, <1>2, <1>3 DEF Tiling, Blocks
<1> DEFINE at == blk + HEADER
<1>6. at \in Start .. Limit - 1 /\ at + n <= Limit
  BY <1>1, <1>2, <1>5
<1>7. ASSUME NEW d \in chunks PROVE Promise!Disjoint([at |-> at, len |-> n], d)
  <2>1. /\ BlockOf(d) \in HeldBlocks /\ d.at \in Int /\ d.len \in Nat
        /\ d.len <= size[BlockOf(d)] /\ d.at = BlockOf(d) + HEADER
    <3>1. d \in [at : Int, len : Sizes \ {0}]
      BY <1>3 DEF Owned
    <3>2. d.at \in Int /\ d.len \in Nat
      BY <3>1, HeapAssumption
    <3>3. d.at = BlockOf(d) + HEADER
      BY <3>2, <1>1 DEF BlockOf
    <3> QED
      BY <3>2, <3>3, <1>3 DEF Owned, HeldBlocks
  <2>2. /\ BlockOf(d) \in Blocks /\ BlockOf(d) # blk /\ BlockOf(d) \in Int
        /\ size[BlockOf(d)] \in Nat
    BY <2>1, <1>2, <1>3 DEF Blocks, Tiling
  <2>3. \/ BlockOf(d) + HEADER + size[BlockOf(d)] <= blk
        \/ blk + HEADER + size[blk] <= BlockOf(d)
    BY <2>2, <1>3, <1>5 DEF Tiling
  <2>4. d.at + d.len <= blk \/ at + n <= d.at
    BY <2>1, <2>2, <2>3, <1>1, <1>2, <1>5
  <2>5. d.at + d.len <= at \/ at + n <= d.at
    BY <2>1, <2>4, <1>1, <1>5
  <2>6. at \in Int
    BY <1>1, <1>5
  <2> HIDE DEF at
  <2> DEFINE c == [at |-> at, len |-> n]
  <2>7. ASSUME NEW a \in Start .. Limit - 1
        PROVE  ~ (Promise!Covers(c, a) /\ Promise!Covers(d, a))
    <3>1. c.at = at /\ c.len = n
      OBVIOUS
    <3> HIDE DEF c
    <3> QED
      BY <3>1, <2>1, <2>5, <2>6, <1>1 DEF Promise!Covers
  <2> HIDE DEF c
  <2>8. Promise!Disjoint(c, d)
    BY <2>7 DEF Promise!Disjoint
  <2> QED
    BY <2>8 DEF c
<1>8. Chunk(blk, n) = [at |-> at, len |-> n]
  BY DEF Chunk
<1> HIDE DEF at
<1> QED
  BY <1>4, <1>6, <1>7, <1>8 DEF Promise!Malloc

(* The heap implements the allocator: a chunk is as long as asked for and  *)
(* overlaps no other until it is freed.                                    *)
THEOREM KeepsPromise == Spec => ImplementsAllocator
<1>1. Init => Promise!Init
  BY DEF Init, Promise!Init
<1>2. HeapInv /\ [Next]_vars => [Promise!Next]_chunks
  <2> SUFFICES ASSUME HeapInv, [Next]_vars PROVE [Promise!Next]_chunks
    OBVIOUS
  <2>1. CASE \E n \in Sizes : Malloc(n)
    BY <2>1, Allocates DEF Promise!Next
  <2>2. CASE \E chunk \in chunks : Free(chunk)
    BY <2>2 DEF Free, Promise!Next, Promise!Free
  <2>3. CASE heap_defrag
    BY <2>3 DEF heap_defrag
  <2>4. CASE UNCHANGED vars
    BY <2>4 DEF vars
  <2> QED
    BY <2>1, <2>2, <2>3, <2>4 DEF Next, MallocFails, FreeNull
<1> QED
  BY <1>1, <1>2, Always, PTL DEF Spec, ImplementsAllocator, Promise!Spec
====
