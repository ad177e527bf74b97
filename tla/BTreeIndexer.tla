---------------------------- MODULE BTreeIndexer ----------------------------
(***************************************************************************)
(* BTreeIndexer<KeyType> (rtype/BTreeIndexer.h): a property index kept as  *)
(* a table db_ from key to an unsorted vector of doc ids, in front of      *)
(* which a write cache cache_ logs add/remove operations per key.  A full  *)
(* cache, or flush(), folds the log into db_ (cacheClear_).  Queries       *)
(* combine db_ with the pending log.                                       *)
(*                                                                         *)
(* add, remove and flush hold mutex_ exclusively and queries hold it       *)
(* shared, so the writers' steps are atomic and no writer step happens     *)
(* while a reader is inside.  count() is the one reader that writes: it    *)
(* caches its answer under a second mutex, count_mutex_, and readers may   *)
(* run it concurrently, so it is split into its steps.                     *)
(*                                                                         *)
(* InMemoryBTreeCache is not in the source tree; it is modelled from its   *)
(* use here: per key, the log of (doc id, add?) pairs in call order,       *)
(* full once it holds CacheCap entries, empty when it holds none.          *)
(***************************************************************************)
EXTENDS Naturals, Sequences, FiniteSets, SequencesExt

CONSTANTS
    Keys,      \* keys, ordered by <= as compare_ orders them
    Docs,      \* doc ids
    CacheCap,  \* cache_.set_max_capacity(cacheSize)
    Readers,   \* threads calling count() (model values)
    None       \* an empty boost::optional

ASSUME Keys \subseteq Nat /\ Docs \subseteq Nat \ {0} /\ CacheCap \in Nat \ {0}

VARIABLES
    db,              \* db_: key -> vector of doc ids; <<>> when absent
    cache,           \* cache_: key -> log of <<doc id, add?>>
    countInCache,    \* count_in_cache_
    countHasModify,  \* count_has_modify_
    pc,              \* where each count() caller is
    lastOp           \* history: the last add, remove or flush call

vars == <<db, cache, countInCache, countHasModify, pc, lastOp>>

CacheSize == LET n[K \in SUBSET Keys] ==
                   IF K = {} THEN 0
                   ELSE LET k == CHOOSE x \in K : TRUE
                        IN Len(cache[k]) + n[K \ {k}]
             IN n[Keys]

(* cache_.empty()                                                          *)
CacheEmpty == \A k \in Keys : cache[k] = <<>>

(***************************************************************************)
(* Folding the log into a value                                            *)
(***************************************************************************)

(* Mutant: a remove overwrites the doc id with 0 instead of erasing it.  *)
ApplyToVectorZeroOut(v, log) ==
    LET step(acc, e) ==
            IF e[2] THEN Append(acc, e[1])
            ELSE [i \in DOMAIN acc |-> IF acc[i] = e[1] THEN 0 ELSE acc[i]]
    IN FoldLeft(step, v, log)

(* applyCacheValue_(ValueType&): an add is pushed back, a remove erases   *)
(* every copy (VectorRemove_).                                             *)
ApplyToVector(v, log) ==
    LET step(acc, e) == IF e[2] THEN Append(acc, e[1]) ELSE Remove(acc, e[1])
    IN FoldLeft(step, v, log)

(* applyCacheValue_(BitVector&) after decompress_: set and clear bits in  *)
(* log order.                                                              *)
ApplyToBits(bits, log) ==
    LET step(acc, e) == IF e[2] THEN acc \cup {e[1]} ELSE acc \ {e[1]}
    IN FoldLeft(step, bits, log)

(* getValue_(key, BitVector&): the doc ids a key holds.                   *)
GetValueBits(k) == ApplyToBits(ToSet(db[k]), cache[k])

(* getCount_(): db_.size() when the cache is empty, else the keys whose   *)
(* merged bit vector is not empty.                                         *)
GetCount == IF CacheEmpty
            THEN Cardinality({k \in Keys : db[k] # <<>>})
            ELSE Cardinality({k \in Keys : GetValueBits(k) # {}})

(* cacheIterator_ on every key, then cache_.clear(): a key whose vector   *)
(* ends empty is deleted from db_.                                         *)
CacheClear(d, c) == [k \in Keys |-> ApplyToVector(d[k], c[k])]

NoLog == [k \in Keys |-> <<>>]

(***************************************************************************)
(* Writers: add, remove, flush (mutex_ held exclusively)                   *)
(***************************************************************************)

(* No count() caller holds mutex_ shared.                                  *)
WriterMayLock == \A r \in Readers : pc[r] = "idle"

(* Mutant: a full cache is folded and cleared without the entry just     *)
(* logged.                                                                 *)
LogAndCheckDropsLast(k, e) ==
    LET c == [cache EXCEPT ![k] = Append(@, e)]
        full == CacheSize + 1 >= CacheCap
    IN /\ db' = IF full THEN CacheClear(db, cache) ELSE db
       /\ cache' = IF full THEN NoLog ELSE c

(* cache_.add / cache_.remove followed by checkCache_(): the log entry is *)
(* appended and, if the cache is now full, folded into db_.               *)
LogAndCheck(k, e) ==
    LET c == [cache EXCEPT ![k] = Append(@, e)]
        full == CacheSize + 1 >= CacheCap
    IN /\ db' = IF full THEN CacheClear(db, c) ELSE db
       /\ cache' = IF full THEN NoLog ELSE c

(* Mutant: add does not mark the cached count stale.                    *)
AddKeepsCount(k, d) ==
    /\ WriterMayLock
    /\ d \notin GetValueBits(k)
    /\ LogAndCheck(k, <<d, TRUE>>)
    /\ lastOp' = <<"add", k, d>>
    /\ UNCHANGED <<countInCache, countHasModify, pc>>

(* add(key, docid).  The guard is the callers' side, not add's: callers  *)
(* (not in the tree) are taken to add a doc id only to a key not holding  *)
(* it.  add itself would log it again and a fold push a second copy, and  *)
(* without the guard the db vectors grow without bound.                   *)
Add(k, d) ==
    /\ WriterMayLock
    /\ d \notin GetValueBits(k)
    /\ LogAndCheck(k, <<d, TRUE>>)
    /\ countHasModify' = TRUE
    /\ lastOp' = <<"add", k, d>>
    /\ UNCHANGED <<countInCache, pc>>

(* Mutant: remove takes mutex_ while count() callers still hold it shared. *)
RemoveUnlocked(k, d) ==
    /\ LogAndCheck(k, <<d, FALSE>>)
    /\ countHasModify' = TRUE
    /\ lastOp' = <<"remove", k, d>>
    /\ UNCHANGED <<countInCache, pc>>

(* remove(key, docid)                                                      *)
Remove_(k, d) ==
    /\ WriterMayLock
    /\ LogAndCheck(k, <<d, FALSE>>)
    /\ countHasModify' = TRUE
    /\ lastOp' = <<"remove", k, d>>
    /\ UNCHANGED <<countInCache, pc>>

(* flush(): cacheClear_(), db_.flush(), count_has_modify_ = true.          *)
Flush ==
    /\ WriterMayLock
    /\ db' = CacheClear(db, cache)
    /\ cache' = NoLog
    /\ countHasModify' = TRUE
    /\ lastOp' = <<"flush">>
    /\ UNCHANGED <<countInCache, pc>>

(***************************************************************************)
(* count() callers (mutex_ held shared from CountBegin to CountReturn)     *)
(***************************************************************************)

NeedsCount == countHasModify \/ countInCache = None

(* Take mutex_ shared and test the cached count without count_mutex_.     *)
CountBegin(r) ==
    /\ pc[r] = "idle"
    /\ pc' = [pc EXCEPT ![r] = IF NeedsCount THEN "locking" ELSE "returning"]
    /\ UNCHANGED <<db, cache, countInCache, countHasModify, lastOp>>

(* Under count_mutex_, test again and, if still needed, recompute.        *)
CountRecompute(r) ==
    /\ pc[r] = "locking"
    /\ countInCache' = IF NeedsCount THEN GetCount ELSE countInCache
    /\ countHasModify' = IF NeedsCount THEN FALSE ELSE countHasModify
    /\ pc' = [pc EXCEPT ![r] = "returning"]
    /\ UNCHANGED <<db, cache, lastOp>>

(* Read count_in_cache_ and release mutex_.                                *)
CountReturn(r) ==
    /\ pc[r] = "returning"
    /\ pc' = [pc EXCEPT ![r] = "idle"]
    /\ UNCHANGED <<db, cache, countInCache, countHasModify, lastOp>>

Init ==
    /\ db = NoLog
    /\ cache = NoLog
    /\ countInCache = None
    /\ countHasModify = FALSE
    /\ pc = [r \in Readers |-> "idle"]
    /\ lastOp = <<"none">>

Next ==
    \/ \E k \in Keys, d \in Docs : Add(k, d) \/ Remove_(k, d)
    \/ Flush
    \/ \E r \in Readers : CountBegin(r) \/ CountRecompute(r) \/ CountReturn(r)

Spec == Init /\ [][Next]_vars

(***************************************************************************)
(* Queries                                                                 *)
(***************************************************************************)

(* The doc ids of vector v read before the first one >= maxDoc.          *)
TakeBelow(v, maxDoc) ==
    LET stop == SelectInSeq(v, LAMBDA x : x >= maxDoc)
    IN ToSet(IF stop = 0 THEN v ELSE SubSeq(v, 1, stop - 1))

(* getValueBetween(low, high, maxDoc, data): the doc ids written to data. *)
(* With an empty cache the db vectors are scanned and each scan stops at  *)
(* the first doc id >= maxDoc; otherwise the merged bit vectors are       *)
(* scanned from doc id 1 up to maxDoc.                                    *)
GetValueBetweenData(low, high, maxDoc) ==
    LET InRange == {k \in Keys : low <= k /\ k <= high}
    IN IF low > high THEN {}
       ELSE IF CacheEmpty
       THEN UNION {TakeBelow(db[k], maxDoc) : k \in InRange}
       ELSE UNION {{d \in GetValueBits(k) : 1 <= d /\ d < maxDoc} : k \in InRange}

(***************************************************************************)
(* Properties                                                              *)
(***************************************************************************)

Abs == INSTANCE BTreeAbstract
           WITH index <- [k \in Keys |-> GetValueBits(k)], op <- lastOp

TypeOK ==
    /\ db \in [Keys -> Seq(Docs)]
    /\ cache \in [Keys -> Seq(Docs \X BOOLEAN)]
    /\ countInCache \in Nat \cup {None}
    /\ countHasModify \in BOOLEAN
    /\ pc \in [Readers -> {"idle", "locking", "returning"}]
    /\ lastOp \in Abs!Ops


(* add, remove and flush, seen through getValue_, behave as the abstract  *)
(* key -> doc-set map: each add or remove takes effect in its own call,   *)
(* and folding the cache log into db_ (push_back, VectorRemove_, del of   *)
(* empty vectors, on a full cache or in flush) loses and invents no doc   *)
(* id.                                                                     *)
AbstractSpec == Abs!Spec

(* A count() caller about to return reads a cached count equal to the     *)
(* number of keys some document holds: every add, remove and flush marks  *)
(* the cache stale, and concurrent callers recompute it under             *)
(* count_mutex_ at most once.                                             *)
CountCorrect ==
    \A r \in Readers : pc[r] = "returning" => countInCache = Abs!KeyCount

(* The maxDoc arguments tried: 0, every doc id, and one past the largest. *)
MaxDocs == {0} \cup Docs \cup {d + 1 : d \in Docs}

(* getValueBetween with maxDoc returns every doc id below maxDoc that     *)
(* holds a key in range, whichever branch (empty cache or not) runs.      *)
GetValueBetweenComplete ==
    \A low, high \in Keys, maxDoc \in MaxDocs :
        GetValueBetweenData(low, high, maxDoc)
            = Abs!DocsBetweenBelow(low, high, maxDoc)

=============================================================================
