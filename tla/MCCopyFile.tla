----------------------------- MODULE MCCopyFile -----------------------------
(* An instance of CopyFile for TLC: beside a copy of two chunks, one that   *)
(* shares a chunk with it, or one without chunks onto a base that has its   *)
(* path.                                                                    *)
EXTENDS CopyFile

MCJobs ==
  LET Job(chunks, base, policy) == [chunks |-> chunks, base |-> base, policy |-> policy]
  IN  {<<Job(<<1, 2>>, {}, "overwrite"), job2>> :
         job2 \in {Job(<<2>>, {}, "rename"), Job(<<>>, {0, 1}, "rename"),
                   Job(<<>>, {0, 1}, "skip"), Job(<<>>, {1}, "overwrite")}}
=============================================================================
