------------------------------- MODULE MemPool -------------------------------
(***************************************************************************)
(* The memory pool of 6.2mem_pool/mmpool.c: small allocations are cut from *)
(* a list of blocks, large ones come from malloc and are recorded in a     *)
(* list whose records are small allocations themselves.  One thread calls. *)
(*                                                                         *)
(* Addresses are offsets from the start of their block, which is aligned,  *)
(* in words of 8 bytes.  The list of blocks is a sequence: a new block is  *)
(* linked after the last one.  mp_calloc is mp_alloc and a memset of what  *)
(* it returned.  Memory contents are left out.                             *)
(*                                                                         *)
(* Blocks are apart, as posix_memalign gives them, and an offset behind    *)
(* the end of a block is memory of anybody: of another block, its          *)
(* structures, a record, or of the rest of the program.  Once the pool has *)
(* handed out such memory, or followed a pointer that was never set,       *)
(* nothing is said of what happens next (status = "wild").                 *)
(***************************************************************************)
EXTENDS Integers, Sequences, FiniteSets, TLC

CONSTANTS
    Alignment,      \* MP_ALIGNMENT
    PoolHeader,     \* sizeof(struct mp_pool_s)
    NodeHeader,     \* sizeof(struct mp_node_s)
    Record,         \* sizeof(struct mp_large_s)
    Size,           \* the argument of mp_create_pool
    MaxFromPool,    \* MP_MAX_ALLOC_FROM_POOL
    SizeT,          \* the number of values of size_t
    Sizes,          \* arguments of the allocations
    Larges,         \* addresses that malloc returns
    MaxBlocks       \* bound on the number of blocks

max == IF Size < MaxFromPool THEN Size ELSE MaxFromPool

\* A pool that cannot hold a record would call itself for ever.
ASSUME RecordFits == Record <= max
ASSUME LayoutAssumption ==
    /\ {Alignment, PoolHeader, NodeHeader, Record, Size, MaxFromPool} \subseteq Nat \ {0}
    /\ NodeHeader % Alignment = 0          \* both are 32 bytes
    /\ Sizes \subseteq Nat \ {0}             \* a size of 0 hands out nothing

\* No offset in a block exceeds a size_t.
ASSUME BoundAssumption ==
    /\ {MaxBlocks, SizeT} \subseteq Nat \ {0}
    /\ SizeT > PoolHeader + NodeHeader + Size

None == "none"
ASSUME NoneNotLarge == None \notin Larges

VARIABLES
    status,         \* "none", "live" or "wild"
    garbage,        \* head->next, which mp_create_pool does not set, is not NULL
    blocks,         \* the blocks: head first; last, end and failed of each
    current,        \* pool->current, the number of a block
    large,          \* pool->large: alloc of each record, and where the record is
    heap,           \* what malloc gave and was not freed
    given           \* history: the parts of blocks handed out since creation or reset

vars == <<status, garbage, blocks, current, large, heap, given>>

Block == [last : Nat, end : Nat, failed : Nat]
Place == [blk : 1 .. MaxBlocks, lo : Nat, hi : Nat]

TypeOK ==
    /\ status \in {"none", "live", "wild"}
    /\ garbage \in BOOLEAN
    /\ blocks \in Seq(Block) /\ Len(blocks) <= MaxBlocks
    /\ current \in IF status = "none" THEN {0} ELSE DOMAIN blocks
    /\ large \in Seq([alloc : Larges \cup {None}, at : Place])
    /\ heap \subseteq Larges
    /\ given \subseteq Place

\* The node structure of the head follows the pool structure, others begin the block.
base(i) == IF i = 1 THEN PoolHeader ELSE 0

\* Where a block's memory begins.
FreeFrom(i) == base(i) + NodeHeader

mp_align_ptr(p) == ((p + Alignment - 1) \div Alignment) * Alignment

-----------------------------------------------------------------------------
(* Creation and destruction *)

mp_create_pool ==
    /\ status = "none"
    /\ status' = "live"
    /\ garbage' \in BOOLEAN
    /\ blocks' = <<[last |-> FreeFrom(1), end |-> FreeFrom(1) + Size, failed |-> 0]>>
    /\ current' = 1
    /\ large' = <<>> /\ given' = {}
    /\ UNCHANGED heap

\* Whoever goes from the head to its successor follows garbage.
Wild ==
    /\ garbage
    /\ status' = "wild"
    /\ UNCHANGED <<garbage, blocks, current, large, heap, given>>

Allocs == {large[i].alloc : i \in DOMAIN large} \ {None}

mp_destory_pool ==
    /\ status = "live"
    /\ \/ Wild
       \/ /\ ~garbage
          /\ status' = "none"
          /\ heap' = heap \ Allocs
          /\ blocks' = <<>> /\ current' = 0
          /\ large' = <<>> /\ given' = {}
          /\ UNCHANGED garbage

\* current and failed stay as they are.
mp_reset_pool ==
    /\ status = "live"
    /\ \/ Wild
       \/ /\ ~garbage
          /\ heap' = heap \ Allocs
          /\ large' = <<>>
          /\ blocks' = [i \in DOMAIN blocks |->
                           [blocks[i] EXCEPT !.last = FreeFrom(i)]]
          /\ given' = {}
          /\ UNCHANGED <<status, garbage, current>>

-----------------------------------------------------------------------------
(* Small allocations.  p is a pool: its blocks and current.                *)

\* Where block b would put an allocation.
Start(b, aligned) == IF aligned THEN mp_align_ptr(b.last) ELSE b.last

\* Faulty variant: one too many.
FitsOneMore(b, size, aligned) == (b.end - Start(b, aligned)) % SizeT >= size - 1

\* The difference is converted to size_t before it is compared.
Fits(b, size, aligned) == (b.end - Start(b, aligned)) % SizeT >= size

\* The blocks from current on that can take the allocation.
Fitting(p, size, aligned) ==
    {i \in p.current .. Len(p.blocks) : Fits(p.blocks[i], size, aligned)}

First(S) == CHOOSE i \in S : \A j \in S : i <= j

\* The blocks that count a failure when a block is added, and those among them
\* that current will be moved behind.
Failing(p) == p.current .. Len(p.blocks) - 1

Tired(p) == {i \in Failing(p) : p.blocks[i].failed > 4}

\* A new block, of the head's size without the pool structure, at the end.
mp_alloc_block(p, size) ==
    LET n == Len(p.blocks)
        m == mp_align_ptr(FreeFrom(n + 1))
    IN [blocks |-> [i \in 1 .. n + 1 |->
                       IF i = n + 1
                       THEN [last |-> m + size, end |-> p.blocks[1].end - base(1), failed |-> 0]
                       ELSE IF i \in Failing(p) THEN [p.blocks[i] EXCEPT !.failed = @ + 1]
                       ELSE p.blocks[i]],
        current |-> IF Tired(p) = {} THEN p.current
                    ELSE 1 + CHOOSE i \in Tired(p) : \A j \in Tired(p) : j <= i,
        at |-> [blk |-> n + 1, lo |-> m, hi |-> m + size]]

\* The allocation of a size up to max, from the first block that fits.
FromBlock(p, size, aligned) ==
    LET i == First(Fitting(p, size, aligned))
        m == Start(p.blocks[i], aligned)
    IN [blocks |-> [p.blocks EXCEPT ![i].last = m + size],
        current |-> p.current,
        at |-> [blk |-> i, lo |-> m, hi |-> m + size]]

pool == [blocks |-> blocks, current |-> current]

Needs(size, aligned) == Fitting(pool, size, aligned) = {}   \* a new block is needed
Taken(size, aligned) ==
    IF Needs(size, aligned) THEN mp_alloc_block(pool, size)
                            ELSE FromBlock(pool, size, aligned)

\* The pool after an allocation of size, within the bound.  When aligning has moved
\* the start behind the end, the memory handed out is not the block's.
TakeSmall(size, aligned) ==
    LET t == Taken(size, aligned)
    IN /\ ~(garbage /\ Needs(size, aligned))
       /\ Len(t.blocks) <= MaxBlocks
       /\ status' = IF t.at.lo > t.blocks[t.at.blk].end THEN "wild" ELSE status
       /\ blocks' = t.blocks
       /\ current' = t.current
       /\ given' = given \cup {t.at}

\* mp_alloc and mp_nalloc of a small size: memory, or NULL when posix_memalign
\* gives no block.
Small(size, aligned) ==
    /\ status = "live" /\ size <= max
    /\ \/ TakeSmall(size, aligned) /\ UNCHANGED <<garbage, large, heap>>
       \/ Needs(size, aligned) /\ Wild

-----------------------------------------------------------------------------
(* Large allocations *)

\* The records that mp_alloc_large looks at for one to use again.
Reusable == {i \in DOMAIN large : i <= 5 /\ large[i].alloc = None}

\* A new record for x, taken from the pool; if there is none x is freed.
\* Faulty variant: x is not freed.
RecordOrLeak(x) ==
    \/ /\ TakeSmall(Record, TRUE)
       /\ large' = <<[alloc |-> x, at |-> Taken(Record, TRUE).at]>> \o large
       /\ heap' = heap \cup {x}
       /\ UNCHANGED garbage
    \/ /\ Needs(Record, TRUE) /\ ~garbage
       /\ heap' = heap \cup {x}
       /\ UNCHANGED <<status, garbage, blocks, current, large, given>>

NewRecord(x) ==
    \/ /\ TakeSmall(Record, TRUE)
       /\ large' = <<[alloc |-> x, at |-> Taken(Record, TRUE).at]>> \o large
       /\ heap' = heap \cup {x}
       /\ UNCHANGED garbage
    \/ /\ Needs(Record, TRUE)
       /\ \/ Wild
          \/ ~garbage /\ UNCHANGED vars

\* malloc gives x; a failing malloc changes nothing.
mp_alloc_large(x) ==
    /\ status = "live" /\ x \notin heap
    /\ IF Reusable # {}
       THEN /\ large' = [large EXCEPT ![First(Reusable)].alloc = x]
            /\ heap' = heap \cup {x}
            /\ UNCHANGED <<status, garbage, blocks, current, given>>
       ELSE NewRecord(x)

mp_memalign(x) ==
    /\ status = "live" /\ x \notin heap
    /\ NewRecord(x)

\* Whatever the caller passes: a large block, NULL, or memory that is not large.
mp_free(x) ==
    /\ status = "live"
    /\ IF x \in Allocs
       THEN LET i == First({j \in DOMAIN large : large[j].alloc = x})
            IN large' = [large EXCEPT ![i].alloc = None] /\ heap' = heap \ {x}
       ELSE UNCHANGED <<large, heap>>
    /\ UNCHANGED <<status, garbage, blocks, current, given>>

-----------------------------------------------------------------------------
Init ==
    /\ status = "none" /\ garbage = FALSE
    /\ blocks = <<>> /\ current = 0
    /\ large = <<>> /\ heap = {} /\ given = {}

mp_alloc(size, x) == IF size <= max THEN Small(size, TRUE) ELSE mp_alloc_large(x)
mp_nalloc(size, x) == IF size <= max THEN Small(size, FALSE) ELSE mp_alloc_large(x)

Next ==
    \/ mp_create_pool
    \/ mp_destory_pool
    \/ mp_reset_pool
    \/ \E size \in Sizes, x \in Larges : mp_alloc(size, x) \/ mp_nalloc(size, x)
    \/ \E x \in Larges : mp_memalign(x) \/ mp_free(x)

Spec == Init /\ [][Next]_vars

\* malloc's addresses are interchangeable.
Symmetry == Permutations(Larges)

-----------------------------------------------------------------------------
(* Properties *)

\* Memory handed out by mp_alloc, mp_nalloc or for a record lies in its block, behind
\* the structures at the block's start and before p->last, from which the next
\* allocation is cut, and overlaps no other memory that is still handed out.  Blocks
\* are apart, so that this holds of all memory handed out, not only of one block's.
RegionsDisjoint ==
    status = "live" =>
        /\ \A r \in given : /\ base(r.blk) + NodeHeader <= r.lo /\ r.hi <= blocks[r.blk].last
                            /\ blocks[r.blk].last <= blocks[r.blk].end
        /\ \A r, s \in given : r # s /\ r.blk = s.blk => r.hi <= s.lo \/ s.hi <= r.lo

\* Memory leaves its block only by beginning behind its end: the comparison in
\* mp_alloc is exact as long as the aligned start does not exceed p->end, and only
\* once it does, the difference wraps and everything is granted.
InsideOrBeyond ==
    \A r \in given :
        \/ r.hi <= blocks[r.blk].end
        \/ status = "wild" /\ r.lo > blocks[r.blk].end

\* What malloc gave and was not freed is in exactly one record, so that it is
\* freed once, by mp_free, reset or destruction, and nothing is left after them.
LargeOnce ==
    /\ heap = Allocs
    /\ \A i, j \in DOMAIN large : large[i].alloc = large[j].alloc => i = j \/ large[i].alloc = None

\* The records of the list of large blocks lie in memory that the pool has handed
\* out for them and for nothing else: as long as RegionsDisjoint speaks of it, no
\* reset or later allocation overwrites a record in the list.
RecordsKept ==
    /\ \A i \in DOMAIN large : large[i].at \in given
    /\ \A i, j \in DOMAIN large : i # j => large[i].at # large[j].at

\* mp_alloc_block gives up a block only after more than five failures of that
\* block: failures never grow along the list, so that none is skipped by chance.
GivenUpWhenTired ==
    /\ \A i \in 1 .. Len(blocks) : i < current => blocks[i].failed > 5
    /\ \A i, j \in 1 .. Len(blocks) : i <= j => blocks[i].failed >= blocks[j].failed

\* The blocks of the pool, what lies in them and the choice of the current one are
\* sound as long as no memory behind a block has been handed out, and that happens
\* only where the comparison wraps.
PoolSound ==
    TypeOK /\ RegionsDisjoint /\ InsideOrBeyond /\ RecordsKept /\ GivenUpWhenTired
=============================================================================
