----------------------------- MODULE Namespace -----------------------------
(***************************************************************************)
(* What a user of the vfs sees: which file, directory or device each path  *)
(* names.  A path is the sequence of its components; the root is <<>>.     *)
(* Vfs.tla, with its mount tree and file systems, implements this.         *)
(***************************************************************************)
EXTENDS Sequences, SequencesExt

CONSTANTS
  Paths,     \* the paths looked at: with a path, its prefixes
  Nothing    \* what a path that leads nowhere names

VARIABLE at  \* what each path names: a record with a kind, or Nothing

IsDirectory(x) == x.kind \in {"dir", "devfs"}

\* A directory nobody has seen before; all devfs roots are one directory.
IsFresh(x) == x.kind = "devfs" \/ \A q \in Paths : at[q] # x

NInit == at = [p \in Paths |-> Nothing]

\* A file system is mounted at the root, once, or at a directory.  Only what
\* lies there and below may change.
NMount(p, changed) ==
  /\ \A q \in changed : IsPrefix(p, q)
  /\ IF p = <<>> THEN at[p] = Nothing ELSE IsDirectory(at[p])
  /\ IsDirectory(at'[p]) /\ IsFresh(at'[p])

\* A path that named nothing names a new directory, and nothing else changes.
NMkdir(p, changed) ==
  /\ changed = {p}
  /\ p # <<>>
  /\ at[p] = Nothing /\ IsDirectory(at[Front(p)])
  /\ at'[p].kind = "dir" /\ IsFresh(at'[p])

\* A device appears in the directories of devices, where its name is free.
NAddDevice(changed) ==
  \A q \in changed :
    /\ q # <<>>
    /\ at[q] = Nothing /\ at[Front(q)].kind = "devfs"
    /\ at'[q].kind = "device"

NNext ==
  LET changed == {q \in Paths : at'[q] # at[q]}
  IN \/ \E p \in changed : NMount(p, changed) \/ NMkdir(p, changed)
     \/ NAddDevice(changed)

NSpec == NInit /\ [][NNext]_at

============================================================================
