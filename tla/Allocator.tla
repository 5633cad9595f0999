----------------------------- MODULE Allocator -----------------------------
(***************************************************************************)
(* What a caller of kmalloc and kfree relies on, with no heap inside: a    *)
(* request is answered with a region that nobody else holds, a region      *)
(* stays where it is until its holder frees it, and one request is served  *)
(* at a time.  Heap.tla, the model of kernel/heap.c, implements this.      *)
(***************************************************************************)
EXTENDS Integers

CONSTANTS
  Requests,   \* the sizes callers may ask for
  None        \* no request is being served

VARIABLES
  held,       \* the regions in callers' hands: a set of [ptr, len] records
  asked       \* the size being served, or None

avars == <<held, asked>>

Region == [ptr : Nat, len : Nat]

\* Two regions share no byte.  Regions of length zero are told apart by
\* their address alone.
Apart(r, s) == r.ptr + r.len <= s.ptr \/ s.ptr + s.len <= r.ptr

AInit == held = {} /\ asked = None

Ask(n) ==
  /\ asked = None
  /\ asked' = n
  /\ UNCHANGED held

\* The region granted is at least as long as asked for, apart from every
\* region held, and not at the address of one.
Grant(r) ==
  /\ asked # None
  /\ r \in Region
  /\ r.len >= asked
  /\ \A s \in held : s.ptr # r.ptr /\ Apart(r, s)
  /\ held' = held \cup {r}
  /\ asked' = None

Release(r) ==
  /\ asked = None
  /\ r \in held
  /\ held' = held \ {r}
  /\ UNCHANGED asked

ANext ==
  \/ \E n \in Requests : Ask(n)
  \/ \E r \in held' \ held : Grant(r)   \* the region granted is the new one
  \/ \E r \in held : Release(r)

ASpec == AInit /\ [][ANext]_avars

============================================================================
