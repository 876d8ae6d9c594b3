------------------------------- MODULE MCPmm -------------------------------
(***************************************************************************)
(* Model-checking instances of Pmm.  Regions are <<base frame, frames>>.  *)
(***************************************************************************)
EXTENDS Pmm

\* One Available region of eight frames starting at frame 8 (32 KiB),
\* seeded as one order-3 block.
MCRegionsOne == {<<8, 8>>}

\* Four Available entries, the first three adjacent, as BIOS maps report
\* them: seeded per entry as 8@1, 10@1, 12@2, 16@1 and 18@0 (frame@order).
\* 8@1 and 10@1 are buddies the seeding leaves apart, so pmm_free_pages
\* has buddies to merge; 11 pages, so requests up to order 2 are admitted.
MCRegionsMixed == {<<8, 2>>, <<10, 2>>, <<12, 4>>, <<16, 3>>}

\* Two adjacent one-frame Available entries: two order-0 buddies.
MCRegionsAdjacent == {<<8, 1>>, <<9, 1>>}
=============================================================================
