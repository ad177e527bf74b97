------------------------------ MODULE Indexer ------------------------------
(***************************************************************************)
(* The Indexer facade (Indexer.cpp) coordinating the IndexWriter and the  *)
(* IndexReader across threads.                                             *)
(*                                                                         *)
(* Writer threads call insertDocument, which holds indexMutex_ around      *)
(* IndexWriter::addDocument, and flush, which takes no lock: it calls      *)
(* IndexWriter::flush, then setDirty() under mutex_.  Searcher threads     *)
(* call getIndexReader(), which tests dirty_ without a lock and, if set,   *)
(* takes mutex_, tests it again and reopens the reader on the manifest.    *)
(*                                                                         *)
(* IndexWriter is seen here only through what the threads share: whether  *)
(* pIndexBarrelWriter_ exists, is closed or is NULL, the documents in the  *)
(* in-memory barrel, and the documents in barrels written to the manifest. *)
(* addDocument is split where flush can interleave: after it has tested    *)
(* (and if needed created) the barrel writer, and before indexDocument     *)
(* dereferences it.  IndexWriter::flush is split where an insert can       *)
(* interleave: after the barrel is closed and written, and before the      *)
(* writer object is deleted.  Steps under mutex_ are atomic.               *)
(***************************************************************************)
EXTENDS Naturals, FiniteSets

CONSTANTS
    Writers,    \* threads calling insertDocument and flush
    Searchers,  \* threads calling getIndexReader
    Docs,       \* documents, each inserted once
    None        \* no document / no thread

VARIABLES
    writer,     \* pIndexBarrelWriter_: "absent" (NULL), "open", "closed"
    memDocs,    \* documents in the in-memory barrel writer
    sealed,     \* documents in barrels on the manifest (BarrelsInfo)
    dirty,      \* dirty_
    readerView, \* documents the IndexReader's manifest snapshot holds
    indexLock,  \* holder of indexMutex_, or None
    pc,         \* where each thread is
    doc,        \* the document each writer thread is inserting, or None
    crashed,    \* a thread dereferenced a NULL barrel writer
    done,       \* history: documents whose insertDocument returned
    published,  \* history: documents sealed when setDirty last ran
    seenPub     \* history: published when each searcher's call began

vars == <<writer, memDocs, sealed, dirty, readerView, indexLock, pc, doc,
          crashed, done, published, seenPub>>

Threads == Writers \cup Searchers

(***************************************************************************)
(* insertDocument(doc): indexMutex_ held throughout                        *)
(***************************************************************************)

(* Mutant: the document being inserted is not recorded for the thread.  *)
InsertLockForgetsDoc(t, d) ==
    /\ pc[t] = "idle" /\ indexLock = None /\ ~crashed
    /\ d \notin done /\ \A u \in Writers : doc[u] # d
    /\ indexLock' = t
    /\ doc' = doc
    /\ pc' = [pc EXCEPT ![t] = "check"]
    /\ UNCHANGED <<writer, memDocs, sealed, dirty, readerView, crashed,
                   done, published, seenPub>>

(* Take indexMutex_ for a document not yet inserted.                      *)
InsertLock(t, d) ==
    /\ pc[t] = "idle" /\ indexLock = None /\ ~crashed
    /\ d \notin done /\ \A u \in Writers : doc[u] # d
    /\ indexLock' = t
    /\ doc' = [doc EXCEPT ![t] = d]
    /\ pc' = [pc EXCEPT ![t] = "check"]
    /\ UNCHANGED <<writer, memDocs, sealed, dirty, readerView, crashed,
                   done, published, seenPub>>

(* addDocument: if (!pIndexBarrelWriter_) createBarrelWriter(update).     *)
InsertCheck(t) ==
    /\ pc[t] = "check" /\ ~crashed
    /\ writer' = IF writer = "absent" THEN "open" ELSE writer
    /\ pc' = [pc EXCEPT ![t] = "index"]
    /\ UNCHANGED <<memDocs, sealed, dirty, readerView, indexLock, doc,
                   crashed, done, published, seenPub>>

(* The rest of addDocument: cache the document, flushDocuments and        *)
(* indexDocument, which dereferences pIndexBarrelWriter_.  A NULL writer  *)
(* crashes the process.  A writer that flush has closed but not yet       *)
(* deleted takes the document into its memory, which is never written.   *)
(* An open writer whose memory is full (cacheFull()) is first written out *)
(* as a barrel on the manifest; the document then starts a new one.       *)
InsertIndex(t) ==
    /\ pc[t] = "index" /\ ~crashed
    /\ \/ /\ writer = "absent"
          /\ crashed' = TRUE
          /\ UNCHANGED <<memDocs, sealed, done>>
       \/ /\ writer = "closed"
          /\ done' = done \cup {doc[t]}
          /\ UNCHANGED <<memDocs, sealed, crashed>>
       \/ /\ writer = "open"
          /\ \E full \in BOOLEAN :
                /\ full => memDocs # {}
                /\ sealed' = IF full THEN sealed \cup memDocs ELSE sealed
                /\ memDocs' = IF full THEN {doc[t]} ELSE memDocs \cup {doc[t]}
          /\ done' = done \cup {doc[t]}
          /\ UNCHANGED crashed
    /\ indexLock' = None
    /\ doc' = [doc EXCEPT ![t] = None]
    /\ pc' = [pc EXCEPT ![t] = "idle"]
    /\ UNCHANGED <<writer, dirty, readerView, published, seenPub>>

(***************************************************************************)
(* flush(): no lock until setDirty                                         *)
(***************************************************************************)

(* IndexWriter::flush up to the manifest write: return at once if there   *)
(* is no barrel writer; else close the writer, writing its memory to a    *)
(* barrel if it is not empty (cacheEmpty() == false), detach it from the  *)
(* last barrel and write the manifest.                                     *)
FlushSeal(t) ==
    /\ pc[t] = "idle" /\ ~crashed
    /\ writer' = IF writer = "absent" THEN writer ELSE "closed"
    /\ sealed' = IF writer = "absent" THEN sealed ELSE sealed \cup memDocs
    /\ memDocs' = IF writer = "absent" THEN memDocs ELSE {}
    /\ pc' = [pc EXCEPT ![t] = IF writer = "absent" THEN "dirty" ELSE "delete"]
    /\ UNCHANGED <<dirty, readerView, indexLock, doc, crashed, done,
                   published, seenPub>>

(* delete pIndexBarrelWriter_; pIndexBarrelWriter_ = NULL.                *)
FlushDelete(t) ==
    /\ pc[t] = "delete" /\ ~crashed
    /\ writer' = "absent"
    /\ pc' = [pc EXCEPT ![t] = "dirty"]
    /\ UNCHANGED <<memDocs, sealed, dirty, readerView, indexLock, doc,
                   crashed, done, published, seenPub>>

(* Mutant: Indexer::flush returns without calling setDirty().            *)
FlushSetDirtySkipped(t) ==
    /\ pc[t] = "dirty" /\ ~crashed
    /\ published' = sealed
    /\ pc' = [pc EXCEPT ![t] = "idle"]
    /\ UNCHANGED <<writer, memDocs, sealed, dirty, readerView, indexLock, doc,
                   crashed, done, seenPub>>

(* The BTree and reader flushes, then setDirty(): dirty_ = true under     *)
(* mutex_.                                                                 *)
FlushSetDirty(t) ==
    /\ pc[t] = "dirty" /\ ~crashed
    /\ dirty' = TRUE
    /\ published' = sealed
    /\ pc' = [pc EXCEPT ![t] = "idle"]
    /\ UNCHANGED <<writer, memDocs, sealed, readerView, indexLock, doc,
                   crashed, done, seenPub>>

(***************************************************************************)
(* getIndexReader()                                                        *)
(***************************************************************************)

(* Test dirty_ without the lock.                                           *)
GetReaderBegin(s) ==
    /\ pc[s] = "idle" /\ ~crashed
    /\ seenPub' = [seenPub EXCEPT ![s] = published]
    /\ pc' = [pc EXCEPT ![s] = IF dirty THEN "lock" ELSE "return"]
    /\ UNCHANGED <<writer, memDocs, sealed, dirty, readerView, indexLock, doc,
                   crashed, done, published>>

(* Under mutex_, test dirty_ again; if still set, reopen() on the current *)
(* manifest and clear it.                                                  *)
GetReaderReopen(s) ==
    /\ pc[s] = "lock" /\ ~crashed
    /\ readerView' = IF dirty THEN sealed ELSE readerView
    /\ dirty' = FALSE
    /\ pc' = [pc EXCEPT ![s] = "return"]
    /\ UNCHANGED <<writer, memDocs, sealed, indexLock, doc, crashed, done,
                   published, seenPub>>

(* return pIndexReader_.                                                   *)
GetReaderReturn(s) ==
    /\ pc[s] = "return" /\ ~crashed
    /\ pc' = [pc EXCEPT ![s] = "idle"]
    /\ UNCHANGED <<writer, memDocs, sealed, dirty, readerView, indexLock, doc,
                   crashed, done, published, seenPub>>

Init ==
    /\ writer = "absent"
    /\ memDocs = {}
    /\ sealed = {}
    /\ dirty = FALSE
    /\ readerView = {}
    /\ indexLock = None
    /\ pc = [t \in Threads |-> "idle"]
    /\ doc = [t \in Writers |-> None]
    /\ crashed = FALSE
    /\ done = {}
    /\ published = {}
    /\ seenPub = [s \in Searchers |-> {}]

Next ==
    \/ \E t \in Writers :
          \/ \E d \in Docs : InsertLock(t, d)
          \/ InsertCheck(t) \/ InsertIndex(t)
          \/ FlushSeal(t) \/ FlushDelete(t) \/ FlushSetDirty(t)
    \/ \E s \in Searchers :
          GetReaderBegin(s) \/ GetReaderReopen(s) \/ GetReaderReturn(s)

Spec == Init /\ [][Next]_vars

(***************************************************************************)
(* Properties                                                              *)
(***************************************************************************)

TypeOK ==
    /\ writer \in {"absent", "open", "closed"}
    /\ memDocs \subseteq Docs /\ sealed \subseteq Docs
    /\ dirty \in BOOLEAN /\ readerView \subseteq Docs
    /\ indexLock \in Writers \cup {None}
    /\ pc \in [Threads -> {"idle", "check", "index", "delete", "dirty",
                           "lock", "return"}]
    /\ doc \in [Writers -> Docs \cup {None}]
    /\ crashed \in BOOLEAN
    /\ done \subseteq Docs /\ published \subseteq Docs
    /\ seenPub \in [Searchers -> SUBSET Docs]

(* Every document whose insertDocument returned is in the in-memory      *)
(* barrel or in a barrel on the manifest, and no insert dereferences a    *)
(* NULL barrel writer: a flush between addDocument's test of the writer   *)
(* and indexDocument's use of it loses or crashes nothing.                *)
InsertedDocsKept ==
    /\ ~crashed
    /\ done \subseteq memDocs \cup sealed

(* getIndexReader returns a reader that holds every document a flush had *)
(* written and published with setDirty before the call began, whatever    *)
(* other searchers did between the unlocked test of dirty_ and the        *)
(* locked one, and whatever flushes ran meanwhile.                        *)
ReaderSeesFlushed ==
    \A s \in Searchers : pc[s] = "return" => seenPub[s] \subseteq readerView

=============================================================================
