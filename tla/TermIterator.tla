---------------------------- MODULE TermIterator ----------------------------
(***************************************************************************)
(* The term iterators of TermIterator.cpp: cursors over the terms of one  *)
(* field of one barrel.                                                    *)
(*                                                                         *)
(*   VocIterator          walks the term table a VocReader has loaded      *)
(*                        (pTermTable_, nTermCount_), nCurPos_ from -1.    *)
(*   DiskTermIterator     reads the ".voc" file: the constructor seeks to  *)
(*                        the field's vocabulary descriptor, reads its     *)
(*                        length and term count, and seeks back to the     *)
(*                        first record; next() reads one record.           *)
(*   InMemoryTermIterator walks the posting map of the in-memory barrel,   *)
(*                        skipping postings that hold no chunk.            *)
(*                                                                         *)
(* A term is its id; its TermInfo is the posting's docPointer, written     *)
(* DocPointer(t), and the posting object is seen through the docPointer    *)
(* it is positioned at.  Document frequencies play no part in any          *)
(* property and are left out.  A vocabulary is a strictly increasing       *)
(* sequence of term ids, as the writers emit it.                           *)
(***************************************************************************)
EXTENDS Naturals, Sequences, SequencesExt

CONSTANTS
    TermIds,    \* term ids a vocabulary may hold
    BufSizes,   \* sizes a caller passes to setBuffer
    FieldLen,   \* nDLen + nPLen of the field (FieldInfo::getLength)
    None

VARIABLES
    itKind,           \* "none" (no iterator yet), "voc", "disk" or "mem"
    vocTable,         \* the vocabulary / the posting map's keys, in order
    chunked,          \* terms whose posting holds a chunk (all, unless "mem")
    vocFile,          \* the ".voc" file: the records, then the descriptor
    vocIn,            \* pVocInput_'s position in vocFile
    nTermCount_,
    nCurPos_,
    postingIt,        \* postingIterator_: an index of vocTable, or its end
    pCurTerm_,
    pCurTermInfo_,    \* docPointer of the current TermInfo, or None
    pCurTermPosting_, \* docPointer the posting is positioned at, or None
    nBuffSize_,
    yielded,          \* history: the terms next() has stepped onto
    lastOp            \* history: the call the last step made

tVars == <<itKind, vocTable, chunked, vocFile, vocIn, nTermCount_, nCurPos_,
           postingIt, pCurTerm_, pCurTermInfo_, pCurTermPosting_, nBuffSize_,
           yielded, lastOp>>

DocPointer(t) == t

(* The vocabularies: strictly increasing sequences of term ids.           *)
Vocabularies == {SetToSortSeq(S, <) : S \in SUBSET TermIds}

(* The terms an iterator over this vocabulary must step onto, in order.  *)
Expected == SelectSeq(vocTable, LAMBDA t : t \in chunked)

(***************************************************************************)
(* Constructors                                                            *)
(***************************************************************************)

(* VocIterator(termReader): nCurPos_(-1), no term, info or posting yet.   *)
NewVocIterator(v) ==
    /\ itKind = "none"
    /\ itKind' = "voc" /\ vocTable' = v /\ chunked' = ToSet(v)
    /\ nTermCount_' = Len(v)
    /\ nCurPos_' = -1
    /\ lastOp' = "new"
    /\ UNCHANGED <<vocFile, vocIn, postingIt, pCurTerm_, pCurTermInfo_,
                   pCurTermPosting_, nBuffSize_, yielded>>

(* DiskTermIterator(dir, barrel, field): open "<barrel>.voc", seek to the *)
(* field's index offset (its descriptor, after the records), read         *)
(* nVocLength_ and nTermCount_, and seek back nVocLength_ to the first    *)
(* record.  Offsets are in records.                                        *)
NewDiskTermIterator(v) ==
    LET file == v \o <<[len |-> Len(v), count |-> Len(v)]>>
        voffset == Len(v) + 1
    IN /\ itKind = "none"
       /\ itKind' = "disk" /\ vocTable' = v /\ chunked' = ToSet(v)
       /\ vocFile' = file
       /\ nTermCount_' = file[voffset].count
       /\ vocIn' = voffset - file[voffset].len
       /\ nCurPos_' = -1
       /\ lastOp' = "new"
       /\ UNCHANGED <<postingIt, pCurTerm_, pCurTermInfo_, pCurTermPosting_,
                      nBuffSize_, yielded>>

(* InMemoryTermIterator(termReader): postingIterator_ at the posting      *)
(* map's begin().  Chunks: which postings hold data (hasNoChunk()).       *)
NewInMemoryTermIterator(v, c) ==
    /\ itKind = "none"
    /\ itKind' = "mem" /\ vocTable' = v /\ chunked' = c
    /\ postingIt' = 1
    /\ lastOp' = "new"
    /\ UNCHANGED <<vocFile, vocIn, nTermCount_, nCurPos_, pCurTerm_,
                   pCurTermInfo_, pCurTermPosting_, nBuffSize_, yielded>>

(***************************************************************************)
(* next()                                                                  *)
(***************************************************************************)

(* Mutant: next() stops one term early.                                   *)
VocNextStopsEarly ==
    /\ itKind = "voc" /\ nTermCount_ > nCurPos_ + 2
    /\ nCurPos_' = nCurPos_ + 1
    /\ pCurTerm_' = vocTable[nCurPos_ + 2]
    /\ pCurTermInfo_' = DocPointer(vocTable[nCurPos_ + 2])
    /\ yielded' = Append(yielded, vocTable[nCurPos_ + 2])
    /\ lastOp' = "next"
    /\ UNCHANGED <<itKind, vocTable, chunked, vocFile, vocIn, nTermCount_,
                   postingIt, pCurTermPosting_, nBuffSize_>>

(* VocIterator::next: if nTermCount_ > nCurPos_ + 1, step to              *)
(* pTermTable_[++nCurPos_]: its tid into pCurTerm_ (created or set) and   *)
(* pCurTermInfo_ pointing at its TermInfo.                                 *)
VocNext ==
    /\ itKind = "voc" /\ nTermCount_ > nCurPos_ + 1
    /\ nCurPos_' = nCurPos_ + 1
    /\ pCurTerm_' = vocTable[nCurPos_ + 2]
    /\ pCurTermInfo_' = DocPointer(vocTable[nCurPos_ + 2])
    /\ yielded' = Append(yielded, vocTable[nCurPos_ + 2])
    /\ lastOp' = "next"
    /\ UNCHANGED <<itKind, vocTable, chunked, vocFile, vocIn, nTermCount_,
                   postingIt, pCurTermPosting_, nBuffSize_>>

(* DiskTermIterator::next: if nTermCount_ > nCurPos_ + 1, ++nCurPos_ and  *)
(* read the record (tid, df, docPointer) at pVocInput_ into pCurTerm_ and *)
(* pCurTermInfo_, each created on first use and set afterwards.           *)
DiskNext ==
    /\ itKind = "disk" /\ nTermCount_ > nCurPos_ + 1
    /\ nCurPos_' = nCurPos_ + 1
    /\ vocIn' = vocIn + 1
    /\ pCurTerm_' = vocFile[vocIn]
    /\ pCurTermInfo_' = DocPointer(vocFile[vocIn])
    /\ yielded' = Append(yielded, vocFile[vocIn])
    /\ lastOp' = "next"
    /\ UNCHANGED <<itKind, vocTable, chunked, vocFile, nTermCount_,
                   postingIt, pCurTermPosting_, nBuffSize_>>

(* InMemoryTermIterator::next: postingIterator_++ first; if not at end,   *)
(* take its posting and, while it has no chunk, step on (returning false  *)
(* at end, with pCurTermPosting_ left on the last empty posting); then    *)
(* set the term and a TermInfo(docFreq, -1) from the posting reached.     *)
(* A map that is already at end() is left out: ++end() is undefined.      *)
MemNext ==
    LET from == postingIt + 1
        ahead == {j \in from..Len(vocTable) : vocTable[j] \in chunked}
        stop == IF ahead = {} THEN Len(vocTable) + 1 ELSE Min(ahead)
    IN /\ itKind = "mem" /\ postingIt <= Len(vocTable)
       /\ postingIt' = stop
       /\ IF stop <= Len(vocTable)
             THEN /\ pCurTerm_' = vocTable[stop]
                  /\ pCurTermInfo_' = -1
                  /\ pCurTermPosting_' = DocPointer(vocTable[stop])
                  /\ yielded' = Append(yielded, vocTable[stop])
             ELSE /\ pCurTermPosting_' = IF from <= Len(vocTable)
                                           THEN DocPointer(vocTable[Len(vocTable)])
                                           ELSE pCurTermPosting_
                  /\ UNCHANGED <<pCurTerm_, pCurTermInfo_, yielded>>
       /\ lastOp' = "next"
       /\ UNCHANGED <<itKind, vocTable, chunked, vocFile, vocIn, nTermCount_,
                      nCurPos_, nBuffSize_>>

(***************************************************************************)
(* termPosting() and setBuffer()                                           *)
(***************************************************************************)

(* VocIterator / DiskTermIterator::termPosting, called once next() has    *)
(* returned true: the first call clones the posting inputs and creates an  *)
(* OnDiskPosting at the TermInfo's docPointer; later calls reset() that    *)
(* same posting to the current docPointer.  InMemoryTermIterator's just    *)
(* returns pCurTermPosting_.                                               *)
TermPosting ==
    /\ itKind \in {"voc", "disk"} /\ pCurTermInfo_ # None
    /\ pCurTermPosting_' = pCurTermInfo_
    /\ lastOp' = "posting"
    /\ UNCHANGED <<itKind, vocTable, chunked, vocFile, vocIn, nTermCount_,
                   nCurPos_, postingIt, pCurTerm_, pCurTermInfo_, nBuffSize_,
                   yielded>>

(* VocIterator::setBuffer keeps min(nDLen + nPLen, bufSize) (the field's  *)
(* length when it is strictly smaller); DiskTermIterator inherits         *)
(* TermIterator::setBuffer, which keeps bufSize; the in-memory one keeps   *)
(* nothing.                                                                *)
SetBuffer(b) ==
    /\ itKind \in {"voc", "disk"}
    /\ nBuffSize_' = IF itKind = "voc" /\ FieldLen < b THEN FieldLen ELSE b
    /\ lastOp' = "buffer"
    /\ UNCHANGED <<itKind, vocTable, chunked, vocFile, vocIn, nTermCount_,
                   nCurPos_, postingIt, pCurTerm_, pCurTermInfo_,
                   pCurTermPosting_, yielded>>

(* The destructors: delete the term, the posting with its input          *)
(* descriptor and (on disk, in memory) the TermInfo; DiskTermIterator     *)
(* also deletes pVocInput_.  A caller may then build another iterator.    *)
DeleteIterator ==
    /\ itKind # "none"
    /\ itKind' = "none" /\ vocTable' = <<>> /\ chunked' = {}
    /\ vocFile' = <<>> /\ vocIn' = 0
    /\ nTermCount_' = 0 /\ nCurPos_' = -1 /\ postingIt' = 0
    /\ pCurTerm_' = None /\ pCurTermInfo_' = None /\ pCurTermPosting_' = None
    /\ nBuffSize_' = 0
    /\ yielded' = <<>>
    /\ lastOp' = "none"

Init ==
    /\ itKind = "none" /\ vocTable = <<>> /\ chunked = {}
    /\ vocFile = <<>> /\ vocIn = 0
    /\ nTermCount_ = 0 /\ nCurPos_ = -1 /\ postingIt = 0
    /\ pCurTerm_ = None /\ pCurTermInfo_ = None /\ pCurTermPosting_ = None
    /\ nBuffSize_ = 0
    /\ yielded = <<>>
    /\ lastOp = "none"

Next ==
    \/ \E v \in Vocabularies : NewVocIterator(v) \/ NewDiskTermIterator(v)
    \/ \E v \in Vocabularies \ {<<>>}, c \in SUBSET TermIds :
          c \subseteq ToSet(v) /\ NewInMemoryTermIterator(v, c)
    \/ VocNext \/ DiskNext \/ MemNext
    \/ TermPosting
    \/ \E b \in BufSizes : SetBuffer(b)
    \/ DeleteIterator

Spec == Init /\ [][Next]_tVars

(***************************************************************************)
(* Properties                                                              *)
(***************************************************************************)

TypeOK ==
    /\ itKind \in {"none", "voc", "disk", "mem"}
    /\ vocTable \in Seq(TermIds) /\ chunked \subseteq TermIds
    /\ nCurPos_ \in -1..Len(vocTable) - 1
    /\ pCurTerm_ \in TermIds \cup {None}
    /\ pCurTermInfo_ \in TermIds \cup {None, -1}
    /\ pCurTermPosting_ \in TermIds \cup {None}
    /\ nBuffSize_ \in {0, FieldLen} \cup BufSizes
    /\ yielded \in Seq(TermIds)
    /\ lastOp \in {"none", "new", "next", "posting", "buffer"}

(* The terms next() has stepped onto come in vocabulary order and skip    *)
(* none; the on-disk and table iterators, whose next() returns false only *)
(* when nTermCount_ is reached, have then stepped onto every term, and    *)
(* the current term is the last one stepped onto.  For the in-memory      *)
(* iterator see the README: only the order and the chunk test are stated. *)
VocabularyInOrder ==
    /\ itKind \in {"voc", "disk"} =>
          /\ IsPrefix(yielded, Expected)
          /\ ~ENABLED (VocNext \/ DiskNext) => yielded = Expected
    /\ itKind = "mem" =>
          /\ ToSet(yielded) \subseteq chunked
          /\ \A i \in 1..Len(yielded) - 1 : yielded[i] < yielded[i + 1]
    /\ yielded # <<>> => pCurTerm_ = Last(yielded)

(* The in-memory iterator, like the table and on-disk ones, steps onto    *)
(* every posting of the map that holds a chunk, in key order: once next() *)
(* has returned false, the terms it stepped onto are all of them.         *)
MemStepsOntoEveryPosting ==
    itKind = "mem" /\ ~ENABLED MemNext => yielded = Expected

====
