-------------------------------- MODULE Heap --------------------------------
(***************************************************************************)
(* The memory of the Lua VM, port/luat_malloc_idf5.c: luat_heap_init gives *)
(* the pool to the bget allocator, luat_heap_alloc is the lua_Alloc of the *)
(* VM.  The pool is half of the PSRAM on the S3, else the array vmheap;    *)
(* off the S3 (the code-mmap optimization) some objects of the VM lie in   *)
(* the mapped script partition, and a test of the address against vmheap   *)
(* skips their free.                                                       *)
(*                                                                         *)
(* bget is external: bgetr takes the new block before it gives the old one *)
(* back, so that it may fail on a shrink too, and it may fail for want of  *)
(* one piece even when the sum of the free memory would do.                *)
(***************************************************************************)
EXTENDS Integers, FiniteSetsExt

CONSTANTS
  Objs,     \* objects of the VM
  RomObjs,  \* those among them in the mapped script partition
  PoolSize  \* units of the pool

ASSUME HeapAssumption == PoolSize \in Nat \ {0} /\ RomObjs \subseteq Objs

VARIABLES
  pool,      \* bget has its pool
  osize,     \* size the VM holds of each object, 0: no such object
  block,     \* size of its block in the pool, 0: none
  panicked   \* a shrink returned NULL, which the VM takes for impossible

heapVars == <<pool, osize, block, panicked>>

Ram == Objs \ RomObjs

HeapInit == /\ pool = FALSE
            /\ osize = [o \in Objs |-> IF o \in RomObjs THEN 1 ELSE 0]
            /\ block = [o \in Objs |-> 0]
            /\ panicked = FALSE

\* luat_heap_init.
HeapOpen == /\ ~pool
            /\ pool' = TRUE
            /\ UNCHANGED <<osize, block, panicked>>

InUse == MapThenSumSet(LAMBDA o : block[o], Objs)

Set(f, o, n) == [f EXCEPT ![o] = n]

\* A new object: luat_heap_alloc(NULL, tag, n); on NULL the VM raises an error.
Alloc(o, n) == /\ pool /\ o \in Ram /\ osize[o] = 0
               /\ \/ /\ InUse + n <= PoolSize
                     /\ osize' = Set(osize, o, n) /\ block' = Set(block, o, n)
                  \/ UNCHANGED <<osize, block>>
               /\ UNCHANGED <<pool, panicked>>

ReallocWorks(o, n) == /\ o \in Ram /\ osize[o] > 0
                      /\ InUse + n <= PoolSize
                      /\ osize' = Set(osize, o, n) /\ block' = Set(block, o, n)
                      /\ UNCHANGED <<pool, panicked>>

\* bgetr failed: whether the old block is returned for the new size.
KeptNever(o, n) == FALSE
Kept(o, n)      == osize[o] >= n

ReallocFails(o, n) == /\ o \in Ram /\ osize[o] > 0
                      /\ osize' = IF Kept(o, n) THEN Set(osize, o, n) ELSE osize
                      /\ panicked' = (panicked \/ (n <= osize[o] /\ ~Kept(o, n)))
                      /\ UNCHANGED <<pool, block>>

\* The address test: what is not in the mapped script is in the pool.
InRange(o) == o \in Ram

\* luat_heap_alloc(ptr, size, 0).
Free(o) == /\ pool /\ osize[o] > 0
           /\ osize' = Set(osize, o, 0)
           /\ block' = IF InRange(o) THEN Set(block, o, 0) ELSE block
           /\ UNCHANGED <<pool, panicked>>

HeapNext == \/ HeapOpen
            \/ \E o \in Objs : Free(o)
            \/ \E o \in Objs, n \in 1..PoolSize :
                 Alloc(o, n) \/ ReallocWorks(o, n) \/ ReallocFails(o, n)

HeapSpec == HeapInit /\ [][HeapNext]_heapVars

-----------------------------------------------------------------------------

\* The contract of a lua_Alloc, which the VM relies on without a test: every
\* object it holds in RAM has a block of at least its size, an object it let
\* go of has none (objects in the mapped script are never released), and a
\* shrink never fails, although bget may refuse one.
ObjectsBacked == /\ \A o \in Ram : block[o] >= osize[o] /\ (osize[o] = 0 => block[o] = 0)
                 /\ \A o \in RomObjs : block[o] = 0
                 /\ ~panicked
=============================================================================
