------------------------------- MODULE Heap --------------------------------
(***************************************************************************)
(* The kernel heap: kernel/kernel/heap.c over vmm_alloc_region of          *)
(* kernel/arch/x86_64/vmm.c.                                               *)
(*                                                                         *)
(* The heap is a doubly linked list of blocks.  A block is a mem_header    *)
(* followed by size bytes of payload and is named by the address of its    *)
(* header, so the fields of the headers are functions on addresses.  All   *)
(* memory comes from one break, curr_brk, which only grows and which other *)
(* parts of the kernel (thread stacks, tmpfs blocks) advance as well.      *)
(*                                                                         *)
(* A kmalloc is a Kmalloc step (the call), any number of ExpandHeap steps  *)
(* (turns of its loop that found no block and grew the heap) and one Take  *)
(* step (the block found, the return).  kfree is one step.                 *)
(***************************************************************************)
EXTENDS Integers, Functions

CONSTANTS
  Base,         \* curr_brk when init_heap runs: info->first_free_page
  MaxBrk,       \* bound of the model: the break never passes it
  Sizes,        \* the sizes callers pass to kmalloc
  RegionPages   \* the page counts other callers pass to vmm_alloc_region

ASSUME HeapAssumption ==
  /\ Base \in Nat \ {0}
  /\ MaxBrk \in Nat
  /\ Sizes \subseteq Nat
  /\ RegionPages \subseteq Nat \ {0}

NULL == 0                \* no block lies at address 0
PAGE == 4096
HEAP_ALIGN == 8
HDR == 32                \* sizeof(struct mem_header): 8 + 8 + 1 (padded to 8) + 8
INIT_HEAP_PAGES == 1
NoReq == -1              \* no kmalloc is in progress

VARIABLES
  blocks,      \* the addresses of the headers on the list
  next, prev,  \* the links of each header
  used, size,  \* its other fields
  next_free,   \* where kmalloc starts to look
  curr_brk,    \* the end of the memory given out by vmm_alloc_region
  req,         \* the (rounded) size kmalloc is looking for, or NoReq
  foreign,     \* the regions other callers of vmm_alloc_region own
  crossed      \* history: kfree has merged two blocks that do not touch

hvars == <<blocks, next, prev, used, size, next_free>>
vars  == <<blocks, next, prev, used, size, next_free,
           curr_brk, req, foreign, crossed>>

----------------------------------------------------------------------------
(* Operators.  A definition marked "mutant" is used by no action: it is a  *)
(* plausible mistake in the definition that follows it, kept to show that  *)
(* a property notices it (README, "Mutants").                              *)

\* kmalloc rounds the size up to a multiple of HEAP_ALIGN.
RoundUp(n) == ((n + HEAP_ALIGN - 1) \div HEAP_ALIGN) * HEAP_ALIGN

\* expand_heap asks for whole pages; it does not count the header.
NumPagesDown(n) == n \div PAGE   \* mutant: rounds down
NumPages(n) == (n + (PAGE - 1)) \div PAGE

\* The payload of a new block of the pages asked for.
NewSizeNoHeader(n) == NumPages(n) * PAGE   \* mutant: forgets the header
NewSize(n) == NumPages(n) * PAGE - HDR

\* The address just past a block's payload.
End(b) == b + HDR + size[b]

FitsEvenUsed(b) == size[b] >= req   \* mutant: does not look at used
Fits(b) == ~used[b] /\ size[b] >= req

\* kmalloc walks the list from next_free to the first block that fits.  The
\* list is in address order (Ordered below), so that is the lowest one.
FirstFit(b) ==
  /\ b >= next_free
  /\ Fits(b)
  /\ \A c \in blocks : c >= next_free /\ Fits(c) => b <= c

\* A block is split when the rest can hold a header and more than
\* HEAP_ALIGN bytes.
Splits(b) == size[b] > req + HDR + HEAP_ALIGN

\* What a split leaves for the new block, and the links of the two halves.
RestNoHeader(b) == size[b] - req   \* mutant: forgets the header
Rest(b) == size[b] - req - HDR

NextSplit(b, new) ==
  [c \in blocks \cup {new} |-> IF c = b THEN new
                               ELSE IF c = new THEN next[b] ELSE next[c]]

PrevSplitStale(b, new) ==   \* mutant: block->next->prev is not updated
  [c \in blocks \cup {new} |-> IF c = new THEN b ELSE prev[c]]
PrevSplit(b, new) ==
  [c \in blocks \cup {new} |-> IF c = new THEN b
                               ELSE IF c = next[b] THEN new ELSE prev[c]]

\* kfree merges a block into the free block before it (Low) and the free
\* block after it (High) into the result.  The code compares links, not
\* addresses, when it merges.
Low(b)  == IF prev[b] # NULL /\ ~used[prev[b]] THEN prev[b] ELSE b
High(b) == IF next[b] # NULL /\ ~used[next[b]] THEN next[b] ELSE b

MergedSizeNoHeader(b) ==   \* mutant: the header of the second block is lost
  size[b] + (IF Low(b) = b THEN 0 ELSE size[Low(b)])
          + (IF High(b) = b THEN 0 ELSE size[High(b)])
MergedSize(b) ==
  size[b] + (IF Low(b) = b THEN 0 ELSE size[Low(b)] + HDR)
          + (IF High(b) = b THEN 0 ELSE size[High(b)] + HDR)

\* kfree moves next_free down to the block it freed.
LoweredKept(low) == next_free   \* mutant: next_free stays
Lowered(low) == IF next_free > low THEN low ELSE next_free

----------------------------------------------------------------------------
(* Actions                                                                 *)

\* init_heap: one free block over the first page.
Init ==
  /\ blocks = {Base}
  /\ next = [b \in {Base} |-> NULL]
  /\ prev = [b \in {Base} |-> NULL]
  /\ used = [b \in {Base} |-> FALSE]
  /\ size = [b \in {Base} |-> INIT_HEAP_PAGES * PAGE - HDR]
  /\ next_free = Base
  /\ curr_brk = Base + INIT_HEAP_PAGES * PAGE
  /\ req = NoReq
  /\ foreign = {}
  /\ crossed = FALSE

\* A caller enters kmalloc(n).
Kmalloc(n) ==
  /\ req = NoReq
  /\ req' = RoundUp(n)
  /\ UNCHANGED <<hvars, curr_brk, foreign, crossed>>

\* expand_heap(n), with the caller's linking of the new block after the
\* block last; usedOf is the used flags of the blocks already there.
Expanded(last, n, usedOf) ==
  LET new == curr_brk
      all == blocks \cup {curr_brk}
  IN /\ curr_brk + NumPages(n) * PAGE <= MaxBrk
     /\ curr_brk' = curr_brk + NumPages(n) * PAGE
     /\ blocks' = all
     /\ next' = [b \in all |-> IF b = new THEN NULL
                               ELSE IF b = last THEN new ELSE next[b]]
     /\ prev' = [b \in all |-> IF b = new THEN last ELSE prev[b]]
     /\ used' = [b \in all |-> IF b = new THEN FALSE ELSE usedOf[b]]
     /\ size' = [b \in all |-> IF b = new THEN NewSize(n) ELSE size[b]]

\* The walk reached the end of the list: the heap grows, the walk goes on
\* with the new block.
ExpandHeap ==
  /\ req # NoReq
  /\ \A b \in blocks : b >= next_free => ~Fits(b)
  /\ \E last \in blocks : next[last] = NULL /\ Expanded(last, req, used)
  /\ UNCHANGED <<next_free, req, foreign, crossed>>

\* The block found is split; next_free, if it was this block, moves on to
\* the new one, which is free.
TakeSplit(b) ==
  LET new == b + HDR + req
      all == blocks \cup {b + HDR + req}
  IN /\ req # NoReq
     /\ FirstFit(b)
     /\ Splits(b)
     /\ blocks' = all
     /\ next' = NextSplit(b, new)
     /\ prev' = PrevSplit(b, new)
     /\ used' = [c \in all |-> IF c = new THEN FALSE
                               ELSE IF c = b THEN TRUE ELSE used[c]]
     /\ size' = [c \in all |-> IF c = new THEN Rest(b)
                               ELSE IF c = b THEN req ELSE size[c]]
     /\ next_free' = IF next_free = b THEN new ELSE next_free
     /\ req' = NoReq
     /\ UNCHANGED <<curr_brk, foreign, crossed>>

\* The block is taken whole and next_free stays, or moves on to the next
\* free block.
TakeWhole(b) ==
  /\ req # NoReq
  /\ FirstFit(b)
  /\ ~Splits(b)
  /\ used' = [used EXCEPT ![b] = TRUE]
  /\ \/ next_free # b /\ UNCHANGED next_free
     \/ /\ next_free = b
        /\ \E f \in blocks :
             /\ f > b /\ ~used[f]
             /\ \A c \in blocks : c > b /\ ~used[c] => f <= c
             /\ next_free' = f
  /\ req' = NoReq
  /\ UNCHANGED <<blocks, next, prev, size, curr_brk, foreign, crossed>>

\* The block is taken whole and no block after it is free: the heap grows
\* by a page so that next_free has a free block to point to.
TakeLast(b) ==
  /\ req # NoReq
  /\ FirstFit(b)
  /\ ~Splits(b)
  /\ next_free = b
  /\ \A c \in blocks : c > b => used[c]
  /\ \E last \in blocks :
       /\ next[last] = NULL
       /\ Expanded(last, 1, [used EXCEPT ![b] = TRUE])
  /\ next_free' = curr_brk
  /\ req' = NoReq
  /\ UNCHANGED <<foreign, crossed>>

\* kfree(b + HDR): the block joins its free neighbours.
Kfree(b) ==
  LET low  == Low(b)
      high == High(b)
      left == blocks \ ({b, high} \ {low})
  IN /\ req = NoReq
     /\ used[b]
     /\ blocks' = left
     /\ next' = [c \in left |-> IF c = low THEN next[high] ELSE next[c]]
     /\ prev' = [c \in left |-> IF c = next[high] THEN low ELSE prev[c]]
     /\ used' = [c \in left |-> IF c = low THEN FALSE ELSE used[c]]
     /\ size' = [c \in left |-> IF c = low THEN MergedSize(b) ELSE size[c]]
     /\ next_free' = Lowered(low)
     /\ crossed' = \/ crossed
                   \/ low # b /\ End(low) # b
                   \/ high # b /\ End(b) # high
     /\ UNCHANGED <<curr_brk, req, foreign>>

\* Another part of the kernel takes n pages from the break: create_task and
\* tasking_init for stacks, tmpfs_write for the blocks of a file.
VmmAllocRegion(n) ==
  /\ req = NoReq
  /\ curr_brk + n * PAGE <= MaxBrk
  /\ curr_brk' = curr_brk + n * PAGE
  /\ foreign' = foreign \cup {[lo |-> curr_brk, hi |-> curr_brk + n * PAGE]}
  /\ UNCHANGED <<hvars, req, crossed>>

Next ==
  \/ \E n \in Sizes : Kmalloc(n)
  \/ ExpandHeap
  \/ \E b \in blocks : TakeSplit(b)
  \/ \E b \in blocks : TakeWhole(b)
  \/ \E b \in blocks : TakeLast(b)
  \/ \E b \in blocks : Kfree(b)
  \/ \E n \in RegionPages : VmmAllocRegion(n)

Spec == Init /\ [][Next]_vars

----------------------------------------------------------------------------
(* Invariants                                                              *)

Addr == Nat \ {0}

\* The headers' fields have the types of struct mem_header.
TypeOK ==
  /\ blocks \subseteq Addr
  /\ next \in [blocks -> blocks \cup {NULL}]
  /\ prev \in [blocks -> blocks \cup {NULL}]
  /\ used \in [blocks -> BOOLEAN]
  /\ size \in [blocks -> Nat]
  /\ next_free \in blocks
  /\ curr_brk \in Addr
  /\ req \in Nat \cup {NoReq}
  /\ foreign \subseteq [lo : Addr, hi : Addr]
  /\ crossed \in BOOLEAN

\* The links are each other's inverse: what a split, a merge or an expansion
\* must leave behind for the next walk and the next merge to be right.
Linked ==
  /\ \A b \in blocks : next[b] # NULL => prev[next[b]] = b
  /\ \A b \in blocks : prev[b] # NULL => next[prev[b]] = b

\* A block's next is the lowest block above it: the list is in address
\* order and reaches every block, which first fit relies on.
Ordered ==
  /\ \A b \in blocks : next[b] # NULL => b < next[b]
  /\ \A b, c \in blocks : b < c => next[b] # NULL /\ next[b] <= c

\* No byte, header or payload, belongs to two blocks, and none lies past the
\* break: however blocks were split, merged and grown, two callers of
\* kmalloc never share memory.
Disjoint ==
  /\ \A b, c \in blocks : b < c => End(b) <= c
  /\ \A b \in blocks : End(b) <= curr_brk

\* next_free is the first free block.  kmalloc skips everything below it, so
\* a free block below would be lost; kfree moves it down, also when the
\* block it pointed to has just been merged away.
NextFreeFirst ==
  /\ next_free \in blocks
  /\ ~used[next_free]
  /\ \A b \in blocks : ~used[b] => next_free <= b

\* The regions of other callers are not empty and lie below the break.
ForeignBelow == \A r \in foreign : r.lo < r.hi /\ r.hi <= curr_brk

\* No block overlaps a region another caller got from vmm_alloc_region,
\* as long as kfree has not merged two blocks that lie on either side of
\* such a region.
ForeignApart ==
  ~crossed => \A r \in foreign, b \in blocks : End(b) <= r.lo \/ r.hi <= b

\* Every byte between Base and the break is in a block or in a region of
\* another caller: no split, merge or expansion loses a header or leaks
\* memory, not even a merge across a region.
NothingLost ==
  curr_brk - Base = SumFunction([b \in blocks |-> HDR + size[b]])
                    + SumFunction([r \in foreign |-> r.hi - r.lo])

----------------------------------------------------------------------------
(* Action properties and refinement                                        *)

\* The sizes expand_heap does not make room for: a header does not fit in
\* what the last page has left.
InGap(n) == n % PAGE = 0 \/ n % PAGE > PAGE - HDR

\* Growing the heap for a request makes room for it, except for the sizes
\* of the gap, for which kmalloc's loop expands the heap for ever.
ExpansionServes ==
  [][ExpandHeap => InGap(req) \/ \E b \in blocks' : ~used'[b] /\ size'[b] >= req]_vars

\* The allocator the callers see: a used block is a region in its caller's
\* hands.
held == {[ptr |-> b + HDR, len |-> size[b]] : b \in {c \in blocks : used[c]}}

A == INSTANCE Allocator WITH Requests <- {RoundUp(n) : n \in Sizes},
                             None <- NoReq, asked <- req

AllocatorSpec == A!ASpec

============================================================================
