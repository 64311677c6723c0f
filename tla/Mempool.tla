------------------------------ MODULE Mempool ------------------------------
(***************************************************************************)
(* The memory pool (src/lib/plm_mempool.c): objects are cut off the front  *)
(* of the newest block, and given back only all together.  A pool is a     *)
(* record, so that the module that owns one keeps it in a variable.        *)
(***************************************************************************)
EXTENDS Naturals, Sequences, FiniteSets

CONSTANTS
  Word,     \* sizeof(void *)
  NodeSize  \* sizeof(struct plm_memnode), the head of a block

ASSUME MempoolAssumption == Word \in Nat \ {0} /\ NodeSize \in Nat \ {0}

(* plm_mempool_init().  m_blk_list is a sequence of block sizes, the oldest*)
(* first; m_curr an offset into the last of them; objs is history: where   *)
(* the objects are.                                                        *)
NewPool(blk_sz) ==
  [m_init_blksz |-> blk_sz, m_blk_list |-> <<>>, m_curr |-> 0, m_curr_free |-> 0,
   objs |-> {}]

RoundUp(n) == IF n % Word = 0 THEN n ELSE n + Word - (n % Word)

(* The first block: the object is compared with the size that includes the *)
(* head.                                                                   *)
FirstSize(pool, n) ==
  LET blksz == pool.m_init_blksz + NodeSize
  IN RoundUp(IF blksz >= n THEN blksz ELSE n)

(* A later one: a multiple of the initial size.                            *)
NextSize(pool, n) ==
  LET k == CHOOSE k \in 1 .. n + 1 :
             /\ k * pool.m_init_blksz >= n
             /\ \A j \in 1 .. k - 1 : j * pool.m_init_blksz < n
  IN RoundUp(k * pool.m_init_blksz + NodeSize)

AddBlock(pool, size) ==
  [pool EXCEPT !.m_blk_list = Append(@, size),
               !.m_curr = NodeSize, !.m_curr_free = size - NodeSize]

Cut(pool, n) ==
  [pool EXCEPT !.m_curr = @ + n, !.m_curr_free = @ - n,
     !.objs = @ \cup {[blk |-> Len(pool.m_blk_list), at |-> pool.m_curr, size |-> n]}]

(* Mutant of Outcomes: an object as long as the first block is not given a *)
(* second one.                                                             *)
OutcomesFirst(pool, n) ==
  LET fresh == pool.m_blk_list = <<>>
      first == IF fresh THEN AddBlock(pool, FirstSize(pool, n)) ELSE pool
      fits  == fresh \/ n <= first.m_curr_free
      later == IF fits THEN first ELSE AddBlock(first, NextSize(first, n))
  IN {[pool |-> Cut(later, n), ok |-> TRUE]}
     \cup (IF fresh THEN {[pool |-> pool, ok |-> FALSE]} ELSE {})
     \cup (IF fits THEN {} ELSE {[pool |-> first, ok |-> FALSE]})

(* plm_mempool_alloc(): the pool afterwards, and whether there is an       *)
(* object.  Either malloc() may fail; the block of the first one stays.    *)
Outcomes(pool, n) ==
  LET fresh == pool.m_blk_list = <<>>
      first == IF fresh THEN AddBlock(pool, FirstSize(pool, n)) ELSE pool
      fits  == n <= first.m_curr_free
      later == IF fits THEN first ELSE AddBlock(first, NextSize(first, n))
  IN {[pool |-> Cut(later, n), ok |-> TRUE]}
     \cup (IF fresh THEN {[pool |-> pool, ok |-> FALSE]} ELSE {})
     \cup (IF fits THEN {} ELSE {[pool |-> first, ok |-> FALSE]})

(* Several allocations in a row: the pools and the results, in all ways in *)
(* which they may turn out.                                                *)
NoneYet(pool) == {[pool |-> pool, got |-> <<>>]}
Then(runs, n) ==
  UNION {{[pool |-> o.pool, got |-> Append(r.got, o.ok)] : o \in Outcomes(r.pool, n)} :
         r \in runs}

AllGot(r) == \A i \in DOMAIN r.got : r.got[i]

(* The next allocation is made only when all those before it were.         *)
ThenIfGot(runs, n) ==
  {r \in runs : ~AllGot(r)} \cup Then({r \in runs : AllGot(r)}, n)

(* The objects lie behind the head of their block and inside it, and no    *)
(* two of them overlap.                                                    *)
Sound(pool) ==
  \A o \in pool.objs :
    /\ o.at >= NodeSize /\ o.at + o.size <= pool.m_blk_list[o.blk]
    /\ \A u \in pool.objs \ {o} :
         o.blk = u.blk => o.at + o.size <= u.at \/ u.at + u.size <= o.at

(* Only what is behind m_curr is free.                                     *)
FreeIsBehind(pool) ==
  pool.m_blk_list # <<>> =>
    pool.m_curr + pool.m_curr_free = pool.m_blk_list[Len(pool.m_blk_list)]
=============================================================================
