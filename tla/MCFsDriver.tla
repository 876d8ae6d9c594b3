------------------------------ MODULE MCFsDriver ------------------------------
(***************************************************************************)
(* Model-checking instances of FsDriver.                                  *)
(***************************************************************************)
EXTENDS FsDriver, TLC

\* "/" and "/a" are mounted; "/a/b" resolves through "/a" and is the
\* path vfs_mkdir finds a parent ("/a") for.
MCMountPaths == {<<"/">>, <<"/", "a">>}
MCPaths == {<<"/">>, <<"/", "a">>, <<"/", "a", "/", "b">>}

\* SEEK_SET to before the start, SEEK_CUR forward.
MCOffsets == {-1, 1}

\* Heap objects are interchangeable.
MCSymmetry == Permutations(Objs)
====
