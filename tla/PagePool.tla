------------------------------ MODULE PagePool ------------------------------
(***************************************************************************)
(* What the physical page allocator of src/memory.c promises to the rest   *)
(* of the kernel, without the free list: a set of free pages.              *)
(* memory_detect donates the usable memory to the pool, once and page by   *)
(* page at most once; memory_allocate_page hands out some free page, or    *)
(* panics if there is none; memory_free_page takes a page back.            *)
(***************************************************************************)

CONSTANT Usable     \* the pages the memory map lets the kernel manage

VARIABLES
  free,             \* pages in the pool
  owned,            \* pages handed out and not given back
  halted            \* TRUE once the kernel has panicked

poolVars == <<free, owned, halted>>

PoolTypeOK ==
  /\ free   \in SUBSET Usable
  /\ owned  \in SUBSET Usable
  /\ halted \in BOOLEAN

PoolInit ==
  /\ free   = {}
  /\ owned  = {}
  /\ halted = FALSE

\* Memory found at boot enters the pool.
Donate(S) ==
  /\ ~halted
  /\ S \subseteq Usable \ (free \union owned)
  /\ free' = free \union S
  /\ UNCHANGED <<owned, halted>>

AllocatePage(p) ==
  /\ ~halted
  /\ p \in free
  /\ free'  = free \ {p}
  /\ owned' = owned \union {p}
  /\ UNCHANGED halted

\* The only reason to refuse a page is that there is none.
OutOfMemory ==
  /\ ~halted
  /\ free = {}
  /\ halted' = TRUE
  /\ UNCHANGED <<free, owned>>

FreePage(p) ==
  /\ ~halted
  /\ p \in owned
  /\ owned' = owned \ {p}
  /\ free'  = free \union {p}
  /\ UNCHANGED halted

PoolNext ==
  \/ \E S \in SUBSET Usable : Donate(S)
  \/ \E p \in Usable : AllocatePage(p) \/ FreePage(p)
  \/ OutOfMemory

PoolSpec == PoolInit /\ [][PoolNext]_poolVars

\* No page is free and handed out at the same time.
PoolDisjoint == free \intersect owned = {}
=============================================================================
