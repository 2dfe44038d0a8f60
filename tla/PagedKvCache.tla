---------------------------- MODULE PagedKvCache ----------------------------
(***************************************************************************)
(* The paged KV cache of src/inference/pagedKvCache.ts: physical blocks    *)
(* with reference counts, one table of logical blocks per request, sharing *)
(* with copy on write, and eviction when no block is free.                 *)
(*                                                                         *)
(* Every method is synchronous, so an action is one call; a call that      *)
(* finds no memory, or no block behind a table's entry, throws and changes *)
(* nothing.  A page holds one token: a block's value is whose token was    *)
(* written there last.  Tables are written page after page, as tokens are  *)
(* produced.  MaxDrawn and MaxRefs bound a behaviour, not the code.        *)
(***************************************************************************)
EXTENDS Integers, FiniteSets, SequencesExt, Places

CONSTANTS
  KvRequests,   \* requests that own a table
  Pages,        \* number of pages of a request
  MaxBlocks,    \* maxBlocks
  MaxDrawn,     \* ids generateId will draw
  MaxRefs,      \* how far a block's reference count is taken
  Nobody

ASSUME KvAssumption ==
  /\ IsFiniteSet(KvRequests) /\ Nobody \notin KvRequests
  /\ MaxBlocks \in Nat \ {0} /\ {Pages, MaxDrawn, MaxRefs} \subseteq Nat

VARIABLES
  block,       \* physicalBlocks: for every id in it refCount, isShared and value
  drawn,       \* how many ids have been drawn
  usedBlocks,
  lruQueue,
  table,       \* physicalBlockId of each request's pages, 0 without one
  held         \* references of the callers of allocateBlock and copyOnWrite

kvVars == <<block, drawn, usedBlocks, lruQueue, table, held>>

Ids      == 1..MaxDrawn
Index    == 1..Pages
Physical == DOMAIN block

KvTypeOK ==
  /\ drawn \in 0..MaxDrawn
  /\ Physical \subseteq 1..drawn
  /\ block \in [Physical -> [refs : Nat \ {0}, shared : BOOLEAN, value : KvRequests \cup {Nobody}]]
  /\ usedBlocks \in 0..MaxBlocks
  /\ lruQueue \in Seq(Ids)
  /\ table \in [KvRequests -> [Index -> 0..drawn]]
  /\ held \in [Ids -> Nat]

KvInit ==
  /\ block = <<>>
  /\ drawn = 0
  /\ usedBlocks = 0
  /\ lruQueue = <<>>
  /\ table = [r \in KvRequests |-> [i \in Index |-> 0]]
  /\ held = [b \in Ids |-> 0]

Length(r) == Cardinality({i \in Index : table[r][i] # 0})

-----------------------------------------------------------------------------
(* evictLRU takes the first of the queue it may.                           *)
Evictable(b) == b \in Physical /\ block[b].refs <= 1 /\ ~block[b].shared

Victims ==
  LET at == SelectInSeq(lruQueue, Evictable)
  IN  IF usedBlocks < MaxBlocks \/ at = 0 THEN {} ELSE {lruQueue[at]}

(* What if freeBlock left the id in the eviction queue?                    *)
QueueKeepsFreed(gone) == lruQueue

QueueWithout(gone) == AtPlaces(lruQueue, {k \in DOMAIN lruQueue : lruQueue[k] \notin gone})

(* allocateBlock, after freeing the victim if there is one; value is what  *)
(* the block holds, others the map of those that stay.                     *)
Allocate(value, others) ==
  /\ drawn < MaxDrawn
  /\ usedBlocks < MaxBlocks \/ Victims # {}
  /\ drawn' = drawn + 1
  /\ block' = [b \in (Physical \ Victims) \cup {drawn + 1} |->
                 IF b = drawn + 1 THEN [refs |-> 1, shared |-> FALSE, value |-> value]
                                  ELSE others[b]]
  /\ usedBlocks' = usedBlocks - Cardinality(Victims) + 1
  /\ lruQueue' = Append(QueueWithout(Victims), drawn + 1)

(* What if a block stayed when its last reference is given back?           *)
StaysAtZero(given) == {b \in Physical : block[b].refs < given[b]}

(* What if it went with its last but one?                                  *)
GoesAtOne(given) == {b \in Physical : given[b] > 0 /\ block[b].refs <= given[b] + 1}

Emptied(given) == {b \in Physical : block[b].refs <= given[b]}

(* freeBlock, given[b] times for each b.                                   *)
FreeBlocks(given) ==
  LET gone == Emptied(given) IN
  /\ block' = [b \in Physical \ gone |-> [block[b] EXCEPT !.refs = @ - given[b]]]
  /\ usedBlocks' = usedBlocks - Cardinality(gone)
  /\ lruQueue' = QueueWithout(gone)
  /\ UNCHANGED drawn

(* writeKvCache to the next page, for which getLogicalBlock allocates.     *)
WriteNew(r) ==
  /\ Length(r) < Pages
  /\ Allocate(r, block)
  /\ table' = [table EXCEPT ![r][Length(r) + 1] = drawn + 1]
  /\ UNCHANGED held

(* writeKvCache to a page the request has.  Of a shared block it gets a    *)
(* copy, but the value is written to the block that was looked up before.  *)
Rewrite(r, i) ==
  LET b       == table[r][i]
      written == [block EXCEPT ![b].value = r]
  IN /\ b \in Physical
     /\ \/ /\ ~block[b].shared
           /\ block' = written
           /\ UNCHANGED <<drawn, usedBlocks, lruQueue, table>>
        \/ /\ block[b].shared
           /\ Allocate(block[b].value, written)
           /\ table' = [table EXCEPT ![r][i] = drawn + 1]
     /\ UNCHANGED held

(* What if the reader were not counted?                                    *)
MarkOnly(b) == [block EXCEPT ![b].shared = TRUE]

(* What if the block were not marked?                                      *)
CountOnly(b) == [block EXCEPT ![b].refs = @ + 1]

OneMoreReader(b) == [block EXCEPT ![b].refs = @ + 1, ![b].shared = TRUE]

(* shareLogicalBlock: the target's own block of that page, if it had one,  *)
(* is forgotten without being freed.  A dangling entry is copied as it is. *)
Share(source, i, target) ==
  LET b == table[source][i] IN
  /\ b # 0
  /\ i <= Length(target) + 1
  /\ table' = [table EXCEPT ![target][i] = b]
  /\ \/ b \in Physical /\ block[b].refs < MaxRefs /\ block' = OneMoreReader(b)
     \/ b \notin Physical /\ UNCHANGED block
  /\ UNCHANGED <<drawn, usedBlocks, lruQueue, held>>

Cleanup(r) ==
  /\ Length(r) > 0
  /\ FreeBlocks([b \in Ids |-> Cardinality({i \in Index : table[r][i] = b})])
  /\ table' = [table EXCEPT ![r] = [i \in Index |-> 0]]
  /\ UNCHANGED held

(* A caller's own allocateBlock, copyOnWrite and freeBlock.                *)
AllocateForCaller ==
  /\ Allocate(Nobody, block)
  /\ held' = [held EXCEPT ![drawn + 1] = 1]
  /\ UNCHANGED table

(* Of an unshared block the caller gets the block itself, now shared.      *)
CopyForCaller(b) ==
  /\ b \in Physical /\ held[b] > 0
  /\ \/ /\ ~block[b].shared /\ block[b].refs < MaxRefs
        /\ block' = OneMoreReader(b)
        /\ held' = [held EXCEPT ![b] = @ + 1]
        /\ UNCHANGED <<drawn, usedBlocks, lruQueue>>
     \/ /\ block[b].shared
        /\ Allocate(block[b].value, block)
        /\ held' = [held EXCEPT ![drawn + 1] = 1]
  /\ UNCHANGED table

FreeForCaller(b) ==
  /\ held[b] > 0
  /\ FreeBlocks([k \in Ids |-> IF k = b THEN 1 ELSE 0])
  /\ held' = [held EXCEPT ![b] = @ - 1]
  /\ UNCHANGED table

KvNext ==
  \/ \E r \in KvRequests :
       \/ WriteNew(r)
       \/ Cleanup(r)
       \/ \E i \in Index : Rewrite(r, i)
       \/ \E i \in Index, t \in KvRequests : Share(r, i, t)
  \/ AllocateForCaller
  \/ \E b \in Ids : CopyForCaller(b) \/ FreeForCaller(b)

KvSpec == KvInit /\ [][KvNext]_kvVars

-----------------------------------------------------------------------------
(* The three records of what is allocated agree: the counter, the map and  *)
(* the eviction queue, in which every block is once.                       *)
BlockAccounting ==
  /\ usedBlocks = Cardinality(Physical)
  /\ ToSet(lruQueue) = Physical
  /\ Len(lruQueue) = Cardinality(Physical)

References(b) ==
  Cardinality({p \in KvRequests \X Index : table[p[1]][p[2]] = b}) + held[b]

(* A block in memory counts at least the references there are to it, so no *)
(* cleanup and no caller can free it under another reader.                 *)
CountCoversReferences == \A b \in Physical : block[b].refs >= References(b)

(* A block several readers hold is marked as shared: eviction spares it    *)
(* and a write makes a copy.                                               *)
SharedIsMarked == \A b \in Physical : References(b) > 1 => block[b].shared

(* The manager's accounts are right: types and limits, the three records   *)
(* of what is allocated, and counts and marks that cover every reader.     *)
KvSound == KvTypeOK /\ BlockAccounting /\ CountCoversReferences /\ SharedIsMarked

(* A block that goes while it is referred to was evicted to make room for  *)
(* another, and it had one reader.                                         *)
OnlyEvictionDangles ==
  [][\A b \in Physical \ Physical' :
       References(b)' > 0 => drawn' # drawn /\ References(b) = 1]_kvVars
=============================================================================
