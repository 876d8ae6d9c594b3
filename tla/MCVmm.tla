------------------------------- MODULE MCVmm -------------------------------
(***************************************************************************)
(* Model-checking instances of Vmm.                                       *)
(***************************************************************************)
EXTENDS Vmm

\* Twelve frames of RAM from frame 8, seeded as six order-1 blocks.  Every
\* order-0 request splits a block and loses its lower half (pmm.c's split
\* loop), so the kernel root, a user space (struct and root) and a
\* one-page allocation with its three tables already take most of it.
MCRegionsVmm == {<<8, 12>>}

\* Eight frames: little enough that a map runs out of table pages on the
\* way down in both the kernel space and a user space.
MCRegionsVmmSmall == {<<8, 8>>}
====
