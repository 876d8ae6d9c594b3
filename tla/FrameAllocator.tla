---------------------------- MODULE FrameAllocator ----------------------------
(***************************************************************************)
(* What a physical frame allocator promises its callers, without orders,   *)
(* lists or buddies: a pool of available frames and the blocks callers     *)
(* own.  An allocation hands out a non-empty block of available frames    *)
(* that no caller owns; it may also take further frames out of the pool    *)
(* (a frame no longer available and owned by nobody is lost, which this    *)
(* abstraction allows and does not hide: it never comes back).  A free     *)
(* returns exactly the block's frames to the pool.  No other step makes a  *)
(* frame available.                                                        *)
(***************************************************************************)
EXTENDS FiniteSets

CONSTANT Frames   \* the frames the memory map makes available

VARIABLES
  avail,   \* the frames the allocator may still hand out
  owned    \* the blocks (sets of frames) callers hold

vars == <<avail, owned>>

\* The allocator may start with blocks already handed out (the tables a
\* boot step allocated before its callers run), disjoint from the pool
\* and from each other.
Init ==
  /\ avail \cup UNION owned \subseteq Frames
  /\ \A B \in owned : B # {} /\ B \cap avail = {}
  /\ \A B1, B2 \in owned : B1 # B2 => B1 \cap B2 = {}

\* The block B is handed out; frames leave the pool, none enters it.
Alloc(B) ==
  /\ B # {} /\ B \subseteq avail \ avail'
  /\ B \cap UNION owned = {}
  /\ avail' \subseteq avail
  /\ owned' = owned \cup {B}

\* The owner of B gives it back: its frames, and no others, become
\* available again.
Free(B) ==
  /\ B \in owned
  /\ owned' = owned \ {B}
  /\ B \cap avail = {}
  /\ avail' = avail \cup B

Next == \E B \in owned' \cup owned : Alloc(B) \/ Free(B)

Spec == Init /\ [][Next]_vars

(***************************************************************************)
(* A caller that makes several calls in one step (an allocation that also *)
(* allocates page tables, a cleanup that frees what it allocated) is seen *)
(* by their net effect: blocks handed out come from the pool and are not  *)
(* available after the step, and a frame becomes available only because  *)
(* a block it belongs to was given back.                                   *)
(***************************************************************************)
Calls ==
  LET new  == owned' \ owned
      back == owned \ owned'
  IN  /\ \A B \in new : B # {} /\ B \subseteq avail /\ B \cap avail' = {}
      /\ \A B1, B2 \in new : B1 # B2 => B1 \cap B2 = {}
      /\ avail' \ avail \subseteq UNION back
      /\ UNION back \subseteq avail' \cup UNION new

CallsSpec == Init /\ [][Calls]_vars
================================================================================
