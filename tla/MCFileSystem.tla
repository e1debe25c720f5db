---- MODULE MCFileSystem ----
(***************************************************************************)
(* A file system of two regular files, one of which ends within a block,   *)
(* and states with at most MaxOpen descriptors open, whoever opened them,  *)
(* and index_dir, which has no bound, at most MaxIndexDir.                 *)
(***************************************************************************)
EXTENDS FileSystem

MCFileSize == [frame |-> 5, block |-> 2]
MaxOpen == 2
MaxIndexDir == 4

Bounded ==
    /\ index_dir <= MaxIndexDir
    /\ Cardinality({<<p, fd>> \in Pids \X Fds : fdt[p][fd].flags = 1}) <= MaxOpen

\* Once listings are not orderly, what was listed is of no more interest.
Seen == <<pids, fdt, index_dir, call, content, orderly,
          IF orderly THEN <<listed, lister, fresh>> ELSE <<>>>>
====
