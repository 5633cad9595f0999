---------------------------- MODULE AddressSpace ----------------------------
(***************************************************************************)
(* What the kernel relies on when it uses virtual memory: a page has       *)
(* contents of its own, zero when it is first touched, which nothing       *)
(* but a store to that page changes.  Paging.tla implements this.          *)
(***************************************************************************)
CONSTANTS
  Places,    \* the virtual pages looked at
  Zeroed,    \* the contents of a page of zeros
  Nothing    \* what lies at a page that is not there

VARIABLE at  \* the contents of each page, or Nothing

AInit == at = [v \in Places |-> Nothing]

\* The boot loader hands the kernel its first pages.
ALoad == \A v \in Places : at[v] = Nothing

ATouch(v) == at[v] = Nothing /\ at' = [at EXCEPT ![v] = Zeroed]

AStore(v) ==
  /\ at[v] # Nothing
  /\ \E i \in DOMAIN at[v] : at' = [at EXCEPT ![v][i] = at'[v][i]]

ANext == ALoad \/ \E v \in Places : ATouch(v) \/ AStore(v)

ASpec == AInit /\ [][ANext]_at

============================================================================
