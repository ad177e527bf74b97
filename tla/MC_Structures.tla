-------------------------- MODULE MC_Structures ----------------------------
(***************************************************************************)
(* The self-contained structures checked side by side: the rank/select    *)
(* bit vector (DBitV), the sequence-file codec and caches (SeqFileDef),    *)
(* the Huffman wavelet tree (WaveletTreeHuffman), the memory-mapped        *)
(* key/value store (SdbStorageMM), the name-id table (UniqueIDGenerator)   *)
(* the term iterators (TermIterator) and the compressed ordered vector    *)
(* (OrderedVector).  They share no state, so a       *)
(* behaviour first picks one of them (part) and then runs only that one:   *)
(* the reachable states are the sum of the seven state spaces, not their     *)
(* product, and every property below is checked on every state of its     *)
(* component.                                                              *)
(***************************************************************************)
EXTENDS Naturals, TLC

CONSTANTS
    BlockSize, BlockPerSuperBlock, SelectBlockSize, SupportSelect, BitsMaxLen,
    Values, MaxData, CacheSizes, Null,
    AlphabetNum, SeqMaxLen, NodeCharDefault,
    Keys, SmallVal, LargeVal, DefaultMapSize, MapSizes, Threads, MaxAppends,
    Names, W, MinID, MaxID,
    TermIds, BufSizes, FieldLen, None,
    MaxValues, BufCap

VARIABLES
    part,
    \* DBitV
    len_, one_count_, super_blocks_, alloc, select_one_inds_,
    select_zero_inds_, written, bitsBuilt, bitsInput,
    \* SeqFileDef
    objCache, charCache, inited, lastGet, stored,
    \* WaveletTreeHuffman
    nodes, root, leaves, codeMap, occ, treeBuilt, saved, treeInput,
    \* SdbStorageMM
    isOpen_, ssh_, mms_, keyHash_, binCache_, fileHeader, fileBody,
    keyHashDisk, pending, values, valuesDisk, appends,
    \* UniqueIDGenerator
    store, newID, issued, lastIssued,
    \* TermIterator
    itKind, vocTable, chunked, vocFile, vocIn, nTermCount_, nCurPos_,
    postingIt, pCurTerm_, pCurTermInfo_, pCurTermPosting_, nBuffSize_,
    yielded, lastOp,
    \* OrderedVector
    ovValues, ovData, ovBegun, ovIt, ovSeen

D == INSTANCE DBitV WITH MaxLen <- BitsMaxLen, built <- bitsBuilt, input <- bitsInput
S == INSTANCE SeqFileDef
T == INSTANCE WaveletTreeHuffman
        WITH MaxLen <- SeqMaxLen, built <- treeBuilt, input <- treeInput
(* Two values: one whose image takes one word, one that takes three.      *)
SdbVals == {SmallVal, LargeVal}
SdbCompSize == (SmallVal :> 1) @@ (LargeVal :> 3)

M == INSTANCE SdbStorageMM WITH Vals <- SdbVals, CompSize <- SdbCompSize
I == INSTANCE UniqueIDGenerator
R == INSTANCE TermIterator
O == INSTANCE OrderedVector

dVars == <<len_, one_count_, super_blocks_, alloc, select_one_inds_,
           select_zero_inds_, written, bitsBuilt, bitsInput>>
sVars == <<objCache, charCache, inited, lastGet, stored>>
wVars == <<nodes, root, leaves, codeMap, occ, treeBuilt, saved, treeInput>>
mVars == <<isOpen_, ssh_, mms_, keyHash_, binCache_, fileHeader, fileBody,
           keyHashDisk, pending, values, valuesDisk, appends>>
iVars == <<store, newID, issued, lastIssued>>
rVars == <<itKind, vocTable, chunked, vocFile, vocIn, nTermCount_, nCurPos_,
           postingIt, pCurTerm_, pCurTermInfo_, pCurTermPosting_, nBuffSize_,
           yielded, lastOp>>
oVars == <<ovValues, ovData, ovBegun, ovIt, ovSeen>>
vars == <<part, dVars, sVars, wVars, mVars, iVars, rVars, oVars>>

Parts == {"dbitv", "seqfile", "wavelet", "sdb", "idgen", "terms", "ovec"}

Init ==
    part = "none" /\ D!Init /\ S!Init /\ T!Init /\ M!Init /\ I!Init /\ R!Init
    /\ O!Init

Pick(p) ==
    part = "none" /\ part' = p /\ UNCHANGED <<dVars, sVars, wVars, mVars, iVars, rVars, oVars>>

Next ==
    \/ \E p \in Parts : Pick(p)
    \/ part = "dbitv" /\ D!Next /\ UNCHANGED <<part, sVars, wVars, mVars, iVars, rVars, oVars>>
    \/ part = "seqfile" /\ S!Next /\ UNCHANGED <<part, dVars, wVars, mVars, iVars, rVars, oVars>>
    \/ part = "wavelet" /\ T!Next /\ UNCHANGED <<part, dVars, sVars, mVars, iVars, rVars, oVars>>
    \/ part = "sdb" /\ M!Next /\ UNCHANGED <<part, dVars, sVars, wVars, iVars, rVars, oVars>>
    \/ part = "idgen" /\ I!Next /\ UNCHANGED <<part, dVars, sVars, wVars, mVars, rVars, oVars>>
    \/ part = "terms" /\ R!Next /\ UNCHANGED <<part, dVars, sVars, wVars, mVars, iVars, oVars>>
    \/ part = "ovec" /\ O!Next /\ UNCHANGED <<part, dVars, sVars, wVars, mVars, iVars, rVars>>

Spec == Init /\ [][Next]_vars

(***************************************************************************)
(* Properties, each about one component                                    *)
(***************************************************************************)

TypeOK ==
    /\ part \in Parts \cup {"none"}
    /\ D!TypeOK /\ S!TypeOK /\ T!TypeOK /\ M!TypeOK /\ I!TypeOK /\ R!TypeOK
    /\ O!TypeOK

(* dbitv: lookup, rank0 and rank1 agree with the bits built, at every      *)
(* position (DBitV!RankCorrect).                                           *)
BitsRankCorrect == D!RankCorrect

(* dbitv: select0 and select1 find every zero and one (DBitV!SelectCorrect). *)
BitsSelectCorrect == D!SelectCorrect

(* dbitv: build writes only superblocks reset() allocated                  *)
(* (DBitV!BuildWithinAllocation).                                          *)
BuildWithinAllocation == D!BuildWithinAllocation

(* seqfile: every char-cache slot deserializes to the record last inserted *)
(* (SeqFileDef!CharCacheDecodes).                                          *)
CharCacheDecodes == S!CharCacheDecodes

(* wavelet: access(pos, rank) returns each character and its rank          *)
(* (WaveletTreeHuffman!AccessCorrect).                                     *)
TreeAccessCorrect == T!AccessCorrect

(* wavelet: getOcc(c) counts the characters below c                       *)
(* (WaveletTreeHuffman!OccCorrect).                                        *)
TreeOccCorrect == T!OccCorrect

(* wavelet: select(c, r) finds each occurrence                             *)
(* (WaveletTreeHuffman!SelectCorrect).                                     *)
TreeSelectCorrect == T!SelectCorrect

(* wavelet: intersect returns the characters common to enough ranges       *)
(* (WaveletTreeHuffman!IntersectCorrect).                                  *)
TreeIntersectCorrect == T!IntersectCorrect

(* sdb: with the store open and no insert or update half done, every key  *)
(* in the hash reads back, through binCache_ and the mapped file, the      *)
(* value last stored for it, across commits, crashes and reopenings       *)
(* (SdbStorageMM!ReadsLastStored).                                         *)
ReadsLastStored == M!ReadsLastStored

(* terms: the table and on-disk term iterators step onto every term of   *)
(* the vocabulary in order, the in-memory one onto postings with chunks   *)
(* in order (TermIterator!VocabularyInOrder).                              *)
VocabularyInOrder == R!VocabularyInOrder

(* ovec: an iterator from begin() that has not overrun buffer_           *)
(* dereferences the values pushed back, in order, across refills and      *)
(* codes split between two refills, and equals end() only after the last  *)
(* (OrderedVector!IteratesPushedValues).                                   *)
IteratesPushedValues == O!IteratesPushedValues

(* ovec: refill()'s assert(buffer_start_ < data_len_) holds at every     *)
(* refill (OrderedVector!RefillAssertHolds).                               *)
RefillAssertHolds == O!RefillAssertHolds

(* terms: the in-memory iterator steps onto every posting with a chunk,   *)
(* in order, before next() returns false                                   *)
(* (TermIterator!MemStepsOntoEveryPosting).                                *)
MemStepsOntoEveryPosting == R!MemStepsOntoEveryPosting

(* idgen: conv never hands out an id it handed out before, across updates, *)
(* OUT_OF_BOUND exceptions and restarts (UniqueIDGenerator!NeverReissued). *)
NeverReissued == [][lastIssued' # None => lastIssued' \notin issued]_iVars

=============================================================================
