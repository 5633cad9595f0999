--------------------------- MODULE CanonicalPath ----------------------------
(***************************************************************************)
(* vfs_canonicize_path of kernel/fs/vfs.c.  A path is the sequence of its  *)
(* components, an empty one wherever two slashes meet or one ends it; cwd  *)
(* is absolute.                                                            *)
(***************************************************************************)
EXTENDS Integers, Sequences, SequencesExt

\* Components that lead nowhere else.
Staying == {"", "."}

\* One component of the walk from the end of the path to its start: "done"
\* is the path built behind it and the number of directories to skip.
MovedForgets(dir, done) ==   \* mutant: one skip serves any number of ".."
  IF dir \in Staying THEN done
  ELSE IF dir = ".." THEN [done EXCEPT !.skip = 1]
  ELSE IF done.skip > 0 THEN [done EXCEPT !.skip = @ - 1]
  ELSE [done EXCEPT !.path = <<dir>> \o @]
Moved(dir, done) ==
  IF dir \in Staying THEN done
  ELSE IF dir = ".." THEN [done EXCEPT !.skip = @ + 1]
  ELSE IF done.skip > 0 THEN [done EXCEPT !.skip = @ - 1]
  ELSE [done EXCEPT !.path = <<dir>> \o @]

VfsCanonicizePath(path, absolute, cwd) ==
  FoldRight(Moved, IF absolute THEN path ELSE cwd \o path, [path |-> <<>>, skip |-> 0]).path

----------------------------------------------------------------------------
(* The reference: go along the path from the root.                         *)

Gone(at, dir) ==
  IF dir \in Staying THEN at
  ELSE IF dir = ".." THEN (IF at = <<>> THEN at ELSE Front(at))
  ELSE Append(at, dir)

Led(from, path) == FoldLeft(Gone, from, path)

============================================================================
