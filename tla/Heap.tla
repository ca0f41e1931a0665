-------------------------------- MODULE Heap --------------------------------
(***************************************************************************)
(* The heap of libcatom (sw/lib/libcatom/heap.c): a list of free blocks    *)
(* in the heap itself, first fit with splitting, insertion by address and  *)
(* merging on demand.  Every block is a header of HEADER units followed by *)
(* size units; the free list is the sequence of the addresses of its       *)
(* headers.                                                                *)
(***************************************************************************)
EXTENDS Integers, Sequences, SequencesExt

CONSTANTS
  HEAP_SIZE,
  HEADER,       \* sizeof(HeapBlock)
  Sizes         \* the sizes programs ask for

ASSUME HeapAssumption ==
  /\ HEADER \in Nat \ {0}
  /\ HEAP_SIZE \in Nat /\ HEAP_SIZE > HEADER
  /\ Sizes \subseteq Nat

VARIABLES
  freelist,     \* _freelist and the next pointers
  size,         \* the size fields: a function on the headers in the heap
  chunks        \* history: what the program holds, by address and length

vars == <<freelist, size, chunks>>

Start == 0
Limit == Start + HEAP_SIZE

Chunk(blk, n) == [at |-> blk + HEADER, len |-> n]
BlockOf(chunk) == chunk.at - HEADER
End(blk) == blk + HEADER + size[blk]

(* heap_init. *)
Init ==
  /\ freelist = <<Start>>
  /\ size = [blk \in {Start} |-> HEAP_SIZE - HEADER]
  /\ chunks = {}

-----------------------------------------------------------------------------
Fits(n) == {i \in DOMAIN freelist : size[freelist[i]] >= n}

Splits(blk, n) == size[blk] > HEADER + n

(* Mutant of Rest: the header of the rest is not paid for. *)
RestTooLong(blk, n) == size[blk] - n

Rest(blk, n) == size[blk] - (HEADER + n)

(* The first block that fits leaves the list, and the rest of it, when     *)
(* there is one, takes its place.                                          *)
Malloc(n) ==
  /\ n # 0
  /\ Fits(n) # {}
  /\ LET i   == Min(Fits(n))
         blk == freelist[i]
         new == blk + HEADER + n
     IN  /\ IF Splits(blk, n)
            THEN /\ freelist' = [freelist EXCEPT ![i] = new]
                 /\ size' = [b \in DOMAIN size \union {new} |->
                               IF b = blk THEN n
                               ELSE IF b = new THEN Rest(blk, n) ELSE size[b]]
            ELSE /\ freelist' = RemoveAt(freelist, i)
                 /\ UNCHANGED size
         /\ chunks' = chunks \union {Chunk(blk, n)}

(* No block fits, or nothing is asked for: NULL. *)
MallocFails(n) ==
  /\ n = 0 \/ Fits(n) = {}
  /\ UNCHANGED vars

(* Mutant of Before: the list is not searched. *)
BeforeNone(blk) == {}

(* The blocks the march passes on its way to blk. *)
Before(blk) ==
  {i \in DOMAIN freelist : \A j \in 1 .. i : freelist[j] < blk}

Free(chunk) ==
  LET blk == BlockOf(chunk) IN
  /\ freelist' = InsertAt(freelist, Cardinality(Before(blk)) + 1, blk)
  /\ chunks' = chunks \ {chunk}
  /\ UNCHANGED size

FreeNull == UNCHANGED vars

(* Mutant of Merged: the header of the second block is forgotten. *)
MergedShort(s, prev, blk) ==
  [b \in DOMAIN s \ {blk} |-> IF b = prev THEN s[b] + s[blk] ELSE s[b]]

(* The header of the second block becomes part of the first. *)
Merged(s, prev, blk) ==
  [b \in DOMAIN s \ {blk} |->
     IF b = prev THEN s[b] + HEADER + s[blk] ELSE s[b]]

(* One step of the loop in heap_defrag: the block joins the one before it  *)
(* when they touch.                                                        *)
Visit(done, blk) ==
  IF done.list # <<>> /\ Last(done.list) + HEADER + done.size[Last(done.list)] = blk
  THEN [done EXCEPT !.size = Merged(done.size, Last(done.list), blk)]
  ELSE [done EXCEPT !.list = Append(@, blk)]

(* The list and the sizes once the loop has visited the first k blocks.    *)
Visited[k \in 0 .. Len(freelist)] ==
  IF k = 0 THEN [list |-> <<>>, size |-> size]
  ELSE Visit(Visited[k - 1], freelist[k])

heap_defrag ==
  LET done == Visited[Len(freelist)] IN
  /\ freelist' = done.list
  /\ size' = done.size
  /\ UNCHANGED chunks

Next ==
  \/ \E n \in Sizes : Malloc(n) \/ MallocFails(n)
  \/ \E chunk \in chunks : Free(chunk)
  \/ FreeNull
  \/ heap_defrag

Spec == Init /\ [][Next]_vars

-----------------------------------------------------------------------------
FreeBlocks == {freelist[i] : i \in DOMAIN freelist}
HeldBlocks == {BlockOf(c) : c \in chunks}

TypeOK ==
  /\ DOMAIN size = FreeBlocks \union HeldBlocks
  /\ \A blk \in FreeBlocks \union HeldBlocks :
       size[blk] \in Nat /\ blk \in Start .. Limit - HEADER

Blocks == FreeBlocks \union HeldBlocks

Tiles ==
  /\ FreeBlocks \cap HeldBlocks = {}
  /\ Start \in Blocks
  /\ \A blk \in Blocks :
       /\ End(blk) = Limit \/ End(blk) \in Blocks
       /\ \A other \in Blocks : other <= blk \/ End(blk) <= other

Sorted ==
  \A i, j \in DOMAIN freelist : i < j => freelist[i] < freelist[j]

(* The blocks tile the heap: free or held, each ends where another one     *)
(* begins, or at the end of the heap, so that no unit of it is lost or     *)
(* belongs to two, through any sequence of splits, frees and merges.  The  *)
(* list is in the order of addresses, without which merging misses         *)
(* neighbours and marching misses its place (heap.c 69-89).                *)
WellFormed == TypeOK /\ Tiles /\ Sorted

(* After heap_defrag no two free blocks touch.  With WellFormed: when the  *)
(* program has freed everything, the whole heap is one block again, and    *)
(* nothing has leaked.                                                     *)
Defragments ==
  [][heap_defrag => \A b, c \in FreeBlocks' : b + HEADER + size'[b] # c]_vars

Promise == INSTANCE Allocator WITH Base <- Start

(* Chunks never overlap and lie inside the heap. *)
ImplementsAllocator == Promise!Spec
=============================================================================
