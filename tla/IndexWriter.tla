---------------------------- MODULE IndexWriter ----------------------------
(***************************************************************************)
(* The barrel lifecycle driven by IndexWriter (IndexWriter.cpp) over the   *)
(* barrel manifest BarrelsInfo (BarrelInfo.h).                             *)
(*                                                                         *)
(* One writer thread, serialised by Indexer::indexMutex_, calls            *)
(* addDocument, flush and optimizeIndex; each call runs to completion, so  *)
(* each is one atomic action that composes every method it calls.  The    *)
(* document cache holds NUM_CACHED_DOC = 1 document, so addDocument always *)
(* drains it at once (flushDocuments) and the cache is empty between       *)
(* calls; it is therefore not a variable.                                  *)
(*                                                                         *)
(* The merger (IndexMerger, OfflineIndexMerger), BarrelsInfo.cpp and       *)
(* IndexReader's delete filter are not in the source tree; they are        *)
(* modelled from spec.md (sections 4.5, 4.7, 4.8): a merge replaces a set  *)
(* of sealed barrels by one barrel appended under a fresh name, the        *)
(* manifest appends new barrels at its end, and the reader's delete filter *)
(* is a set of doc ids that may be absent (NULL).                          *)
(***************************************************************************)
EXTENDS Naturals, Sequences, FiniteSets, FiniteSetsExt

CONSTANTS
    Collections,   \* collection ids in use (model values)
    MaxDocId,      \* doc ids are 1..MaxDocId
    MemCap,        \* documents after which the in-memory barrel is surely full
    MaxBarrels,    \* bound on barrel names handed out by the barrel counter
    MergeStrategy, \* mergeStrategy_.param_: "no" or a merging strategy
    Updates,       \* TRUE: callers may update documents (update = true)
    EmptyDocs,     \* TRUE: callers may pass documents without properties
    Optimize,      \* TRUE: callers may call optimizeIndex
    None           \* NULL pointer / absent map entry

ASSUME MemCap \in Nat \ {0} /\ MaxDocId \in Nat \ {0} /\ MaxBarrels \in Nat
ASSUME Updates \in BOOLEAN /\ EmptyDocs \in BOOLEAN /\ Optimize \in BOOLEAN

VARIABLES
    barrels,    \* BarrelsInfo::barrelInfos, in manifest order
    counter,    \* BarrelsInfo::nBarrelCounter, source of barrel names
    maxDocId,   \* BarrelsInfo::maxDocId()
    writerOpen, \* pIndexBarrelWriter_ # NULL
    memDocs,    \* documents in the in-memory barrel (*pCurDocCount_)
    baseMap,    \* IndexWriter::baseDocIDMap_
    cur,        \* name of the barrel pCurBarrelInfo_ points to, or None
    merger,     \* pIndexMerger_ # NULL
    filter,     \* the reader's delete filter: a set of doc ids, or None
    indexed     \* history: <<collection, doc id>> pairs ever indexed

vars == <<barrels, counter, maxDocId, writerOpen, memDocs, baseMap,
          cur, merger, filter, indexed>>

DocIds == 1..MaxDocId
Names  == 0..(MaxBarrels - 1)
NoBase == [c \in Collections |-> None]

Barrel == [name: Nat, docs: SUBSET (Collections \X DocIds),
           base: [Collections -> DocIds \cup {None}],
           hasUpdate: BOOLEAN, inMem: BOOLEAN]

(* The whole state as a record, so that a call chain is a composition.    *)
State == [barrels |-> barrels, counter |-> counter, maxDocId |-> maxDocId,
          writerOpen |-> writerOpen, memDocs |-> memDocs,
          baseMap |-> baseMap, cur |-> cur, merger |-> merger,
          filter |-> filter, indexed |-> indexed]

Assign(s) ==
    /\ barrels' = s.barrels       /\ counter' = s.counter
    /\ maxDocId' = s.maxDocId     /\ writerOpen' = s.writerOpen
    /\ memDocs' = s.memDocs
    /\ baseMap' = s.baseMap       /\ cur' = s.cur
    /\ merger' = s.merger         /\ filter' = s.filter
    /\ indexed' = s.indexed

LastBarrel(s) == s.barrels[Len(s.barrels)]

BarrelNamed(s, n) == CHOOSE b \in Range(s.barrels) : b.name = n

(* Replace the barrel named n by New(old barrel).                         *)
SetBarrel(bs, n, New(_)) ==
    [i \in DOMAIN bs |-> IF bs[i].name = n THEN New(bs[i]) ELSE bs[i]]

(***************************************************************************)
(* BarrelsInfo (spec-modelled: BarrelsInfo.cpp is not in the tree)         *)
(***************************************************************************)

(* newBarrel() names the barrel after the counter and bumps it;           *)
(* addBarrel(name, 0) appends an empty descriptor.                         *)
AddBarrel(s) ==
    [s EXCEPT !.barrels = Append(@, [name |-> s.counter, docs |-> {},
                                     base |-> NoBase, hasUpdate |-> FALSE,
                                     inMem |-> FALSE]),
              !.counter = @ + 1]

(* IndexMerger::merge / addToMerge: the barrels of S that are sealed are  *)
(* merged into one barrel under a fresh name, appended to the manifest;   *)
(* the merged base doc id of a collection is the least of the inputs'.    *)
(* Fewer than two sealed inputs: the policy does not merge.               *)
MergeSet(s, S) ==
    LET In   == {b \in Range(s.barrels) : b.name \in S /\ ~b.inMem}
        Keep == SelectSeq(s.barrels, LAMBDA b : b \notin In)
        Base(c) == LET bs == {b.base[c] : b \in In} \ {None}
                   IN IF bs = {} THEN None ELSE Min(bs)
    IN IF Cardinality(In) < 2 THEN s
       ELSE [s EXCEPT !.barrels = Append(Keep,
                         [name |-> s.counter,
                          docs |-> UNION {b.docs : b \in In},
                          base |-> [c \in Collections |-> Base(c)],
                          hasUpdate |-> FALSE, inMem |-> FALSE]),
                      !.counter = @ + 1]

(* IndexReader::delDocument creates the filter if absent and sets d.      *)
DelDocument(s, d) ==
    [s EXCEPT !.filter = IF @ = None THEN {d} ELSE @ \cup {d}]

(***************************************************************************)
(* IndexWriter                                                             *)
(***************************************************************************)

(* createBarrelWriter(update)                                              *)
CreateBarrelWriter(s, u) ==
    LET s1 == AddBarrel(s)
        n  == s.counter
    IN [s1 EXCEPT !.barrels = SetBarrel(@, n,
                     LAMBDA b : [b EXCEPT !.inMem = TRUE,
                                          !.hasUpdate = @ \/ u]),
                  !.cur = n, !.memDocs = 0,
                  !.writerOpen = TRUE]

(* createMerger(): strategy "no" leaves pIndexMerger_ NULL.               *)
CreateMerger(s) == [s EXCEPT !.merger = MergeStrategy # "no"]

(* Mutant: the merge runs before the last barrel is sealed, so the       *)
(* in-memory barrel is never among the merge inputs.                      *)
MergeAndWriteCachedIndexMergeFirst(s, S) ==
    LET n  == LastBarrel(s).name
        s0 == MergeSet(s, S)
        s1 == [s0 EXCEPT !.barrels = SetBarrel(@, n,
                   LAMBDA b : [b EXCEPT !.base = s.baseMap,
                                        !.inMem = @ /\ s.memDocs = 0])]
        s2 == AddBarrel(s1)
    IN [s2 EXCEPT !.barrels = SetBarrel(@, s1.counter,
                     LAMBDA b : [b EXCEPT !.inMem = TRUE]),
                  !.cur = s1.counter, !.memDocs = 0]

(* Mutant: the fresh barrel is added before the merge, so the merged      *)
(* barrel lands after it in the manifest.                                 *)
MergeAndWriteCachedIndexAddFirst(s, S) ==
    LET n  == LastBarrel(s).name
        s1 == [s EXCEPT !.barrels = SetBarrel(@, n,
                   LAMBDA b : [b EXCEPT !.base = s.baseMap,
                                        !.inMem = @ /\ s.memDocs = 0])]
        s2 == AddBarrel(s1)
        m  == s1.counter
        s3 == [s2 EXCEPT !.barrels = SetBarrel(@, m,
                   LAMBDA b : [b EXCEPT !.inMem = TRUE]),
                  !.cur = m, !.memDocs = 0]
    IN MergeSet(s3, S)

(* mergeAndWriteCachedIndex(mergeUpdateOnly): seal the last barrel with   *)
(* baseDocIDMap_, close the in-memory index if it holds documents, merge, *)
(* and open a fresh barrel that the same barrel writer fills next.        *)
(* baseDocIDMap_ is left as it is.                                        *)
MergeAndWriteCachedIndex(s, S) ==
    LET n  == LastBarrel(s).name
        s1 == [s EXCEPT !.barrels = SetBarrel(@, n,
                   LAMBDA b : [b EXCEPT !.base = s.baseMap,
                                        !.inMem = @ /\ s.memDocs = 0])]
        s2 == AddBarrel(MergeSet(s1, S))
        m  == MergeSet(s1, S).counter
    IN [s2 EXCEPT !.barrels = SetBarrel(@, m,
                     LAMBDA b : [b EXCEPT !.inMem = TRUE]),
                  !.cur = m, !.memDocs = 0]

(* addToMergeAndWriteCachedIndex(): the same sealing and fresh barrel;    *)
(* the merge policy is offered the sealed barrel only if a merger exists. *)
AddToMergeAndWriteCachedIndex(s, S) ==
    MergeAndWriteCachedIndex(s, IF s.merger THEN S ELSE {})

(* mergeUpdatedBarrel(currDocId) reads getDocFilter()->getMaxSet() with   *)
(* no NULL check: this is the condition under which it does not crash.    *)
MergeUpdatedBarrelSafe(s) ==
    ~s.merger \/ s.memDocs = 0 \/ s.filter # None

(* mergeUpdatedBarrel(currDocId)                                           *)
MergeUpdatedBarrel(s, d, S) ==
    IF ~s.merger \/ s.memDocs = 0 THEN s
    ELSE LET s1 == MergeAndWriteCachedIndex(s, S)
             stillUpdate == ~(d > s.maxDocId \/ Max(s.filter) > s.maxDocId)
         IN [s1 EXCEPT !.barrels = SetBarrel(@, s1.cur,
                          LAMBDA b : [b EXCEPT !.hasUpdate = stillUpdate]),
                       !.filter = None]

(* indexDocument(pDoc, update) for doc d of collection c; full is the     *)
(* barrel writer's cacheFull(), S the barrels a merge policy would pick.  *)
(* It dereferences pCurBarrelInfo_, so cur must be set.                   *)
IndexDocument(s, c, d, u, full, S) ==
    LET s1 == IF u THEN DelDocument(s, d) ELSE s
        s2 == IF ~full THEN s1
              ELSE LET t == IF BarrelNamed(s1, s1.cur).hasUpdate
                            THEN MergeUpdatedBarrel(s1, d, S)
                            ELSE AddToMergeAndWriteCachedIndex(s1, S)
                   IN [t EXCEPT !.baseMap = [x \in Collections |->
                                               IF x = c THEN d ELSE None]]
    IN [s2 EXCEPT !.maxDocId = IF d > @ THEN d ELSE @,
                  !.barrels = SetBarrel(@, s2.cur,
                     LAMBDA b : [b EXCEPT !.docs = @ \cup {<<c, d>>}]),
                  !.memDocs = @ + 1]

IndexDocumentEnabled(s, full) ==
    /\ s.cur # None
    /\ full /\ BarrelNamed(s, s.cur).hasUpdate => MergeUpdatedBarrelSafe(s)

(* Mutant: the base doc id is overwritten by every document.            *)
FlushDocumentsOverwriteBase(s, c, d, u, empty, full, S) ==
    IF empty THEN s
    ELSE IndexDocument([s EXCEPT !.baseMap[c] = d], c, d, u, full, S)

(* flushDocuments(update) on the one cached document: an empty document   *)
(* is skipped; otherwise its collection's base doc id is recorded if the  *)
(* map has none yet, and it is indexed.                                   *)
FlushDocuments(s, c, d, u, empty, full, S) ==
    IF empty THEN s
    ELSE IndexDocument([s EXCEPT !.baseMap[c] = IF @ = None THEN d ELSE @],
                       c, d, u, full, S)

(* cacheFull() of the barrel writer: a memory budget, so any barrel with  *)
(* documents may be full, and one with MemCap documents is.               *)
FullChoices(n) ==
    IF n = 0 THEN {FALSE} ELSE IF n >= MemCap THEN {TRUE} ELSE BOOLEAN

(* A caller's document: an insert carries a fresh id above maxDocId, an   *)
(* update the id of a document of the same collection indexed before.     *)
ValidInput(c, d, u, empty) ==
    /\ u => Updates /\ <<c, d>> \in indexed /\ ~empty
    /\ ~u => d > maxDocId
    /\ empty => EmptyDocs

(* addDocument(pDoc, update)                                               *)
AddDocument(c, d, u, empty) ==
    /\ ValidInput(c, d, u, empty)
    /\ LET s1 == IF writerOpen THEN State ELSE CreateBarrelWriter(State, u)
           s2 == IF s1.merger THEN s1 ELSE CreateMerger(s1)
       IN \E full \in FullChoices(s2.memDocs), S \in SUBSET Names :
            /\ empty \/ IndexDocumentEnabled(s2, full)
            /\ LET s3 == FlushDocuments(s2, c, d, u, empty, full, S)
               IN /\ s3.counter <= MaxBarrels
                  /\ Assign([s3 EXCEPT !.indexed = IF empty THEN @
                                                   ELSE @ \cup {<<c, d>>}])

(* Mutant: flush clears baseDocIDMap_ to doc id 0 instead of emptying it. *)
FlushZeroBase ==
    \/ /\ ~writerOpen
       /\ UNCHANGED vars
    \/ /\ writerOpen
       /\ Len(barrels) > 0
       /\ barrels' = SetBarrel(barrels, barrels[Len(barrels)].name,
                        LAMBDA b : [b EXCEPT !.base = baseMap, !.inMem = FALSE])
       /\ baseMap' = [c \in Collections |-> 0]
       /\ writerOpen' = FALSE
       /\ memDocs' = 0
       /\ UNCHANGED <<counter, maxDocId, cur, merger, filter, indexed>>

(* flush(): with no barrel writer it returns at once; otherwise the last  *)
(* barrel gets baseDocIDMap_, the in-memory index is written, the last    *)
(* barrel loses its writer, the manifest is written, the writer deleted.  *)
Flush ==
    \/ /\ ~writerOpen
       /\ UNCHANGED vars
    \/ /\ writerOpen
       /\ Len(barrels) > 0
       /\ barrels' = SetBarrel(barrels, barrels[Len(barrels)].name,
                        LAMBDA b : [b EXCEPT !.base = baseMap, !.inMem = FALSE])
       /\ baseMap' = NoBase
       /\ writerOpen' = FALSE
       /\ memDocs' = 0
       /\ UNCHANGED <<counter, maxDocId, cur, merger, filter, indexed>>

(* mergeIndex(pMerger) with the OfflineIndexMerger of optimizeIndex,     *)
(* which merges every barrel: an in-memory barrel with documents is       *)
(* written and merged through mergeAndWriteCachedIndex(); otherwise       *)
(* pCurBarrelInfo_ is cleared and the barrels merged.  Then the reader's  *)
(* delete filter is dropped and pIndexMerger_ deleted.                    *)
MergeIndex(s) ==
    LET s1 == IF s.writerOpen /\ s.cur # None /\ s.memDocs > 0
              THEN MergeAndWriteCachedIndex(s, Names)
              ELSE MergeSet([s EXCEPT !.cur = None], Names)
    IN [s1 EXCEPT !.filter = None, !.merger = FALSE]

(* optimizeIndex() without a standalone merger: a synchronous mergeIndex. *)
OptimizeIndex ==
    /\ Optimize
    /\ MergeIndex(State).counter <= MaxBarrels
    /\ Assign(MergeIndex(State))

Init ==
    /\ barrels = <<>>
    /\ counter = 0
    /\ maxDocId = 0
    /\ writerOpen = FALSE
    /\ memDocs = 0
    /\ baseMap = NoBase
    /\ cur = None
    /\ merger = FALSE
    /\ filter = None
    /\ indexed = {}

Next ==
    \/ \E c \in Collections, d \in DocIds, u, empty \in BOOLEAN :
          AddDocument(c, d, u, empty)
    \/ Flush
    \/ OptimizeIndex

Spec == Init /\ [][Next]_vars

(***************************************************************************)
(* Invariants                                                              *)
(***************************************************************************)

TypeOK ==
    /\ barrels \in Seq(Barrel)
    /\ counter \in 0..MaxBarrels
    /\ maxDocId \in 0..MaxDocId
    /\ writerOpen \in BOOLEAN
    /\ memDocs \in Nat
    /\ baseMap \in [Collections -> DocIds \cup {None}]
    /\ cur \in Names \cup {None}
    /\ merger \in BOOLEAN
    /\ filter \in SUBSET DocIds \cup {None}
    /\ indexed \in SUBSET (Collections \X DocIds)

MinDocOf(b, c) ==
    LET ds == {p[2] : p \in {q \in b.docs : q[1] = c}}
    IN IF ds = {} THEN None ELSE Min(ds)

(* Every sealed barrel records, for each collection, the smallest doc id  *)
(* of that collection it holds, and none for a collection it does not    *)
(* hold (BarrelInfo::baseDocIDMap, set by flush, mergeAndWriteCachedIndex *)
(* and addToMergeAndWriteCachedIndex from IndexWriter::baseDocIDMap_);    *)
(* deletes locate a document's barrel by it.                              *)
BaseDocIDsExact ==
    \A i \in DOMAIN barrels :
        ~barrels[i].inMem =>
            \A c \in Collections : barrels[i].base[c] = MinDocOf(barrels[i], c)

(* While a barrel writer exists, pCurBarrelInfo_ names the last barrel of *)
(* the manifest and that barrel is the in-memory one: indexDocument       *)
(* dereferences pCurBarrelInfo_ and flush seals getLastBarrel().          *)
WriterHasCurrentBarrel ==
    writerOpen =>
        /\ cur # None
        /\ Len(barrels) > 0
        /\ barrels[Len(barrels)].name = cur
        /\ barrels[Len(barrels)].inMem

(* Whenever the current barrel holds updated documents and is not empty,  *)
(* the reader has a delete filter, so the next full-barrel insert can run *)
(* mergeUpdatedBarrel's getDocFilter()->getMaxSet().                      *)
UpdateMergeHasFilter ==
    (writerOpen /\ merger /\ cur # None /\ memDocs > 0
        /\ BarrelNamed(State, cur).hasUpdate) => filter # None

SealedCount == Cardinality({i \in DOMAIN barrels : ~barrels[i].inMem})

(* optimizeIndex merges the whole index: after it, at most one barrel is  *)
(* sealed (t_BarrelsInfo checks getBarrelCount() == 1 after optimize),    *)
(* whether or not the writer had documents in memory.                     *)
OptimizeMergesAll ==
    [][OptimizeIndex => SealedCount' <= 1]_vars

=============================================================================
