---------------------------- MODULE MC_Checks -------------------------------
(***************************************************************************)
(* Every passing check of the project in one state space.  A behaviour    *)
(* first picks one of three groups (part) and then runs only that one:    *)
(* the writing side (MC_Writers: IndexWriter twice and the Indexer        *)
(* facade), the self-contained structures (MC_Structures: seven           *)
(* components) and the B-tree index (BTreeIndexer with two keys, three    *)
(* doc ids and two count() callers).  The groups share no state, so the   *)
(* reachable states are the sum of their state spaces, and each property  *)
(* below is checked on every state of its group.                          *)
(***************************************************************************)
EXTENDS Naturals, TLC

CONSTANTS
    \* MC_Writers
    Collections, Writers, Searchers, Docs, None,
    \* MC_Structures
    BlockSize, BlockPerSuperBlock, SelectBlockSize, SupportSelect, BitsMaxLen,
    Values, MaxData, CacheSizes, Null,
    AlphabetNum, SeqMaxLen, NodeCharDefault,
    Keys, SmallVal, LargeVal, DefaultMapSize, MapSizes, Threads, MaxAppends,
    Names, W, MinID, MaxID,
    TermIds, BufSizes, FieldLen,
    MaxValues, BufCap,
    \* BTreeIndexer
    CacheCap, Readers

VARIABLES
    part,
    \* MC_Writers
    wPart,
    iBarrels, iCounter, iMaxDocId, iWriterOpen, iMemDocs, iBaseMap, iCur,
    iMerger, iFilter, iIndexed,
    uBarrels, uCounter, uMaxDocId, uWriterOpen, uMemDocs, uBaseMap, uCur,
    uMerger, uFilter, uIndexed,
    writer, memDocs, sealed, dirty, readerView, indexLock, pc, doc, crashed,
    done, published, seenPub,
    \* MC_Structures
    sPart,
    len_, one_count_, super_blocks_, alloc, select_one_inds_,
    select_zero_inds_, written, bitsBuilt, bitsInput,
    objCache, charCache, inited, lastGet, stored,
    nodes, root, leaves, codeMap, occ, treeBuilt, saved, treeInput,
    isOpen_, ssh_, mms_, keyHash_, binCache_, fileHeader, fileBody,
    keyHashDisk, pending, values, valuesDisk, appends,
    store, newID, issued, lastIssued,
    itKind, vocTable, chunked, vocFile, vocIn, nTermCount_, nCurPos_,
    postingIt, pCurTerm_, pCurTermInfo_, pCurTermPosting_, nBuffSize_,
    yielded, lastOp,
    ovValues, ovData, ovBegun, ovIt, ovSeen,
    \* BTreeIndexer
    db, cache, countInCache, countHasModify, bPc, bLastOp

Wr == INSTANCE MC_Writers WITH part <- wPart
St == INSTANCE MC_Structures WITH part <- sPart

(* B-tree keys and doc ids, ordered as compare_ orders them.              *)
BKeys == {1, 2}
BDocs == {1, 2, 3}

BT == INSTANCE BTreeIndexer
        WITH Keys <- BKeys, Docs <- BDocs, pc <- bPc, lastOp <- bLastOp

wVars == <<wPart,
           iBarrels, iCounter, iMaxDocId, iWriterOpen, iMemDocs, iBaseMap,
           iCur, iMerger, iFilter, iIndexed,
           uBarrels, uCounter, uMaxDocId, uWriterOpen, uMemDocs, uBaseMap,
           uCur, uMerger, uFilter, uIndexed,
           writer, memDocs, sealed, dirty, readerView, indexLock, pc, doc,
           crashed, done, published, seenPub>>
sVars == <<sPart,
           len_, one_count_, super_blocks_, alloc, select_one_inds_,
           select_zero_inds_, written, bitsBuilt, bitsInput,
           objCache, charCache, inited, lastGet, stored,
           nodes, root, leaves, codeMap, occ, treeBuilt, saved, treeInput,
           isOpen_, ssh_, mms_, keyHash_, binCache_, fileHeader, fileBody,
           keyHashDisk, pending, values, valuesDisk, appends,
           store, newID, issued, lastIssued,
           itKind, vocTable, chunked, vocFile, vocIn, nTermCount_, nCurPos_,
           postingIt, pCurTerm_, pCurTermInfo_, pCurTermPosting_, nBuffSize_,
           yielded, lastOp,
           ovValues, ovData, ovBegun, ovIt, ovSeen>>
bVars == <<db, cache, countInCache, countHasModify, bPc, bLastOp>>
vars == <<part, wVars, sVars, bVars>>

Groups == {"writers", "structures", "btree"}

Init == part = "none" /\ Wr!Init /\ St!Init /\ BT!Init

Pick(g) == part = "none" /\ part' = g /\ UNCHANGED <<wVars, sVars, bVars>>

Next ==
    \/ \E g \in Groups : Pick(g)
    \/ part = "writers" /\ Wr!Next /\ UNCHANGED <<part, sVars, bVars>>
    \/ part = "structures" /\ St!Next /\ UNCHANGED <<part, wVars, bVars>>
    \/ part = "btree" /\ BT!Next /\ UNCHANGED <<part, wVars, sVars>>

Spec == Init /\ [][Next]_vars

(* count() callers are interchangeable.                                   *)
ReaderSymmetry == Permutations(Readers)

(***************************************************************************)
(* Properties: those of MC_Writers, MC_Structures and BTreeIndexer, whose *)
(* comments state them in full                                             *)
(***************************************************************************)

(* A group's variables keep their initial values unless it was picked, so *)
(* each state predicate below is evaluated only on its own group.         *)
In(g) == part \in {"none", g}

TypeOK ==
    /\ part \in Groups \cup {"none"}
    /\ In("writers") => Wr!TypeOK
    /\ In("structures") => St!TypeOK
    /\ In("btree") => BT!TypeOK

(* writers: every sealed barrel records the smallest doc id of each       *)
(* collection it holds.                                                    *)
BaseDocIDsExact == In("writers") => Wr!BaseDocIDsExact

(* writers: while a barrel writer exists, pCurBarrelInfo_ is the last,    *)
(* in-memory barrel.                                                       *)
WriterHasCurrentBarrel == In("writers") => Wr!WriterHasCurrentBarrel

(* writers: getIndexReader returns a reader holding every document        *)
(* flushed and published before the call began.                           *)
ReaderSeesFlushed == In("writers") => Wr!ReaderSeesFlushed

(* writers: optimizeIndex leaves at most one sealed barrel, whether or    *)
(* not the writer had documents in memory.                                 *)
OptimizeMergesAll ==
    [][part = "writers" /\ Wr!Upd!OptimizeIndex => Wr!Upd!SealedCount' <= 1]_(Wr!uVars)

(* structures: lookup, rank0 and rank1 of the bit vector agree with the  *)
(* bits built.                                                             *)
BitsRankCorrect == In("structures") => St!BitsRankCorrect

(* structures: select0 and select1 find every zero and one.               *)
BitsSelectCorrect == In("structures") => St!BitsSelectCorrect

(* structures: every char-cache slot of the sequence file deserializes to *)
(* the record last inserted.                                               *)
CharCacheDecodes == In("structures") => St!CharCacheDecodes

(* structures: the wavelet tree's access returns each character and its   *)
(* rank.                                                                   *)
TreeAccessCorrect == In("structures") => St!TreeAccessCorrect

(* structures: the wavelet tree's getOcc(c) counts the characters below c. *)
TreeOccCorrect == In("structures") => St!TreeOccCorrect

(* structures: the wavelet tree's intersect returns the characters common *)
(* to enough ranges.                                                       *)
TreeIntersectCorrect == In("structures") => St!TreeIntersectCorrect

(* structures: every key of the mapped store reads back the value last    *)
(* stored, across commits, crashes and reopenings.                         *)
ReadsLastStored == In("structures") => St!ReadsLastStored

(* structures: the term iterators step onto every term in order.          *)
VocabularyInOrder == In("structures") => St!VocabularyInOrder

(* structures: the ordered vector's iterator dereferences the values      *)
(* pushed back, in order, across buffer refills.                           *)
IteratesPushedValues == In("structures") => St!IteratesPushedValues

(* btree: the index getValue_ reads, key by key.                         *)
BIndex == [k \in BKeys |-> BT!GetValueBits(k)]

BAbs == INSTANCE BTreeAbstract
          WITH Keys <- BKeys, Docs <- BDocs, index <- BIndex, op <- bLastOp

(* btree: add, remove and flush, seen through getValue_, behave as the    *)
(* abstract key -> doc-set map, across cache folds into db_.              *)
(* (Steps of the other groups leave the B-tree alone; the guard spares    *)
(* evaluating the abstract next-state relation on them.)                   *)
AbstractSpec ==
    BAbs!Init /\ [][part = "btree" => BAbs!Next]_<<BIndex, bLastOp>>

(* btree: a count() caller about to return reads the number of keys some  *)
(* document holds, under concurrent writers and callers.                  *)
CountCorrect == In("btree") => BT!CountCorrect

=============================================================================
