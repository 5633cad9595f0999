------------------------------ MODULE HeapRace ------------------------------
(***************************************************************************)
(* The heap under the timer interrupt.  kmalloc and kfree take no lock.    *)
(* Most callers have interrupts disabled (the timer's handler, sleep_until *)
(* under its lock), but create_task has not: its kmalloc may stop between  *)
(* two of its steps, and whatever the handler and the threads it switches  *)
(* to do with the heap comes in between.  Its steps are the loop's tests   *)
(* and moves, the split of the block found (Take) and the move of          *)
(* next_free (Advance).  Each of the last two is one step here, though the *)
(* code takes interrupts inside them too: what a call does that meets a    *)
(* block half split, or changes the list under the walk to the next free   *)
(* block, is not modelled and may do harm.                                 *)
(*                                                                         *)
(* The steps of Heap are the calls that are not interrupted; while one of  *)
(* them is under way (req # NoReq) the interrupted kmalloc stands still.   *)
(* The interrupted one holds a pointer to a header, which is good as long  *)
(* as kfree does not merge that block into another: after that, and after  *)
(* a change that undoes a test, it is not followed further (torn).         *)
(***************************************************************************)
EXTENDS Heap

CONSTANT Wanted   \* the sizes the interrupted kmalloc is asked for

ASSUME HeapRaceAssumption == Wanted \subseteq Nat

VARIABLES
  at,      \* where the interrupted kmalloc is, or "out"
  block,   \* its pointer into the list
  want,    \* its (rounded) size, NoReq outside
  torn     \* history: a block it relied on has changed under it

walk == <<at, block, want>>
raceVars == <<vars, walk, torn>>

\* The heap as the interrupted kmalloc sees it: its size in the place of req.
W == INSTANCE Heap WITH req <- want

RaceInit ==
  /\ Init
  /\ at = "out" /\ block = NULL /\ want = NoReq
  /\ torn = FALSE

\* A step of the interrupted kmalloc: no other call is under way.
Step(here, there) ==
  /\ at = here /\ at' = there
  /\ req = NoReq
  /\ ~torn /\ UNCHANGED torn

\* It is called, and starts where next_free points.
Enter(n) ==
  /\ Step("out", "test")
  /\ want' = RoundUp(n)
  /\ block' = next_free
  /\ UNCHANGED vars

\* The test of a block, and of its end of the list.
Test ==
  /\ \/ Step("test", "take") /\ W!Fits(block)
     \/ Step("test", "move") /\ ~W!Fits(block) /\ next[block] # NULL
     \/ Step("test", "grow") /\ ~W!Fits(block) /\ next[block] = NULL
  /\ UNCHANGED <<vars, block, want>>

\* On to the next block, which is read only now.
Move ==
  /\ Step("move", "test")
  /\ block' = next[block]
  /\ UNCHANGED <<vars, want>>

\* The heap grows behind the block.
Grow ==
  /\ Step("grow", "move")
  /\ Expanded(block, want, used)
  /\ UNCHANGED <<next_free, req, foreign, crossed, block, want>>

\* The block is split if it is to be, and marked used.
Take ==
  LET split == W!Splits(block)
      new == block + HDR + want
      all == IF split THEN blocks \cup {new} ELSE blocks
  IN /\ Step("take", "advance")
     /\ blocks' = all
     /\ IF split THEN next' = NextSplit(block, new) /\ prev' = PrevSplit(block, new)
        ELSE UNCHANGED <<next, prev>>
     /\ used' = [b \in all |-> IF b = block THEN TRUE ELSE IF b \notin blocks THEN FALSE ELSE used[b]]
     /\ size' = [b \in all |-> IF split /\ b = block THEN want
                               ELSE IF b \notin blocks THEN W!Rest(block) ELSE size[b]]
     /\ UNCHANGED <<next_free, curr_brk, req, foreign, crossed, block, want>>

Leave == block' = NULL /\ want' = NoReq

AdvancePast ==   \* mutant: next_free moves on without a look whether it still is the block
  /\ Step("advance", "out")
  /\ \E f \in blocks :
       /\ f > block /\ ~used[f]
       /\ \A b \in blocks : b > block /\ ~used[b] => f <= b
       /\ next_free' = f
  /\ Leave
  /\ UNCHANGED <<blocks, next, prev, used, size, curr_brk, req, foreign, crossed>>

\* next_free, if it is the block taken, moves on to a free one, which is made
\* if there is none.
Advance ==
  /\ Step("advance", "out")
  /\ \/ next_free # block /\ UNCHANGED <<hvars, curr_brk>>
     \/ /\ next_free = block
        /\ \E f \in blocks :
             /\ f > block /\ ~used[f]
             /\ \A b \in blocks : b > block /\ ~used[b] => f <= b
             /\ next_free' = f
        /\ UNCHANGED <<blocks, next, prev, used, size, curr_brk>>
     \/ /\ next_free = block
        /\ \A b \in blocks : b > block => used[b]
        /\ \E last \in blocks : next[last] = NULL /\ Expanded(last, 1, used)
        /\ next_free' = curr_brk
  /\ Leave
  /\ UNCHANGED <<req, foreign, crossed>>

\* A call that is not interrupted.  It spoils the interrupted one if it
\* merges away the block that one points to, or makes what that one has just
\* tested untrue: that the block is free and large enough, that it is the
\* last, that it is not (kmalloc would return NULL).  The block the
\* interrupted call has taken is in nobody else's hands.
Others ==
  /\ ~torn
  /\ Next
  /\ UNCHANGED walk
  /\ at = "advance" => block \in blocks' /\ used'[block]
  /\ torn' = \/ at # "out" /\ block \notin blocks'
             \/ at = "take" /\ ~W!Fits(block)'
             \/ at = "grow" /\ next'[block] # NULL
             \/ at = "move" /\ next'[block] = NULL

RaceNext ==
  \/ \E n \in Wanted : Enter(n)
  \/ Test \/ Move \/ Grow \/ Take \/ Advance
  \/ Others

RaceSpec == RaceInit /\ [][RaceNext]_raceVars

----------------------------------------------------------------------------

\* However whole calls come between the turns of kmalloc's search, and between
\* its search, its split and its walk to the next free block (each of these two
\* uninterrupted): the list stays linked, no byte gets two owners, and next_free
\* is the first free block again when it is done, as long as no call merges away
\* the block it points to or undoes what it has just tested.
RaceSound ==
  ~torn => /\ Linked
           /\ Ordered
           /\ Disjoint
           /\ at # "advance" => NextFreeFirst

=============================================================================
