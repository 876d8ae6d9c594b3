------------------------------- MODULE MCExt2 -------------------------------
(* The ext2 driver over one RAM disk, for TLC. *)
EXTENDS Ext2
====
