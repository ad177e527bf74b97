---------------------------- MODULE MC_Writers -----------------------------
(***************************************************************************)
(* The writing side checked side by side: IndexWriter with inserts only    *)
(* (Ins), IndexWriter with inserts, updates and optimize (Upd), and the    *)
(* Indexer facade with writer and searcher threads (Fac).  The three       *)
(* instances share no state: a behaviour first picks one of them (part)    *)
(* and then runs only that one, so the reachable states are the sum of     *)
(* the three state spaces, and every property below is checked on every   *)
(* state of its instance.                                                  *)
(***************************************************************************)
EXTENDS Naturals, TLC

CONSTANTS
    Collections,    \* IndexWriter: collection ids (model values)
    Writers,        \* Indexer: threads calling insertDocument and flush
    Searchers,      \* Indexer: threads calling getIndexReader
    Docs,           \* Indexer: documents
    None

VARIABLES
    part,
    \* IndexWriter, inserts only
    iBarrels, iCounter, iMaxDocId, iWriterOpen, iMemDocs, iBaseMap, iCur,
    iMerger, iFilter, iIndexed,
    \* IndexWriter, updates and optimize
    uBarrels, uCounter, uMaxDocId, uWriterOpen, uMemDocs, uBaseMap, uCur,
    uMerger, uFilter, uIndexed,
    \* Indexer
    writer, memDocs, sealed, dirty, readerView, indexLock, pc, doc, crashed,
    done, published, seenPub

(* Inserts into one collection with the immediate merger: doc ids up to  *)
(* 6, so barrels fill (MemCap 2) and are merged several times.           *)
Ins == INSTANCE IndexWriter
        WITH MaxDocId <- 6, MemCap <- 2, MaxBarrels <- 8,
             MergeStrategy <- "imm", Updates <- FALSE, EmptyDocs <- FALSE,
             Optimize <- FALSE,
             barrels <- iBarrels, counter <- iCounter, maxDocId <- iMaxDocId,
             writerOpen <- iWriterOpen, memDocs <- iMemDocs,
             baseMap <- iBaseMap, cur <- iCur, merger <- iMerger,
             filter <- iFilter, indexed <- iIndexed

(* Inserts, updates and optimizeIndex over two doc ids.                   *)
Upd == INSTANCE IndexWriter
        WITH MaxDocId <- 2, MemCap <- 2, MaxBarrels <- 5,
             MergeStrategy <- "imm", Updates <- TRUE, EmptyDocs <- FALSE,
             Optimize <- TRUE,
             barrels <- uBarrels, counter <- uCounter, maxDocId <- uMaxDocId,
             writerOpen <- uWriterOpen, memDocs <- uMemDocs,
             baseMap <- uBaseMap, cur <- uCur, merger <- uMerger,
             filter <- uFilter, indexed <- uIndexed

Fac == INSTANCE Indexer

iVars == <<iBarrels, iCounter, iMaxDocId, iWriterOpen, iMemDocs, iBaseMap,
           iCur, iMerger, iFilter, iIndexed>>
uVars == <<uBarrels, uCounter, uMaxDocId, uWriterOpen, uMemDocs, uBaseMap,
           uCur, uMerger, uFilter, uIndexed>>
fVars == <<writer, memDocs, sealed, dirty, readerView, indexLock, pc, doc,
           crashed, done, published, seenPub>>
vars == <<part, iVars, uVars, fVars>>

Parts == {"inserts", "updates", "facade"}

Init == part = "none" /\ Ins!Init /\ Upd!Init /\ Fac!Init

Pick(p) == part = "none" /\ part' = p /\ UNCHANGED <<iVars, uVars, fVars>>

(* A step of the facade instance alone.                                   *)
FacStep(A) == part = "facade" /\ A /\ UNCHANGED <<part, iVars, uVars>>

Next ==
    \/ \E p \in Parts : Pick(p)
    \/ part = "inserts" /\ Ins!Next /\ UNCHANGED <<part, uVars, fVars>>
    \/ part = "updates" /\ Upd!Next /\ UNCHANGED <<part, iVars, fVars>>
    \/ FacStep(Fac!Next)

Spec == Init /\ [][Next]_vars

(***************************************************************************)
(* Properties, each about one instance                                     *)
(***************************************************************************)

TypeOK ==
    /\ part \in Parts \cup {"none"}
    /\ Ins!TypeOK /\ Upd!TypeOK /\ Fac!TypeOK

(* inserts: every sealed barrel records the smallest doc id of each       *)
(* collection it holds (IndexWriter!BaseDocIDsExact).                     *)
BaseDocIDsExact == Ins!BaseDocIDsExact

(* inserts: while a barrel writer exists, pCurBarrelInfo_ is the last,    *)
(* in-memory barrel (IndexWriter!WriterHasCurrentBarrel).                 *)
WriterHasCurrentBarrel == Ins!WriterHasCurrentBarrel

(* updates: optimizeIndex leaves at most one sealed barrel, whether or    *)
(* not the writer had documents in memory (IndexWriter!OptimizeMergesAll). *)
OptimizeMergesAll == [][Upd!OptimizeIndex => Upd!SealedCount' <= 1]_uVars

(* facade: getIndexReader returns a reader holding every document flushed *)
(* and published before the call began (Indexer!ReaderSeesFlushed).       *)
ReaderSeesFlushed == Fac!ReaderSeesFlushed

=============================================================================
