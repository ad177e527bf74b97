---------------------------- MODULE SdbStorageMM ----------------------------
(***************************************************************************)
(* sdb_storage_mm of am/sdb_storage/sdb_storage_mm.h: a key/value store    *)
(* whose values are appended, lzo-compressed, to a memory-mapped file.     *)
(* A record is a size_t length followed by the compressed bytes; the key   *)
(* hash (an sdb_hash, not in the tree) maps each key to the position of    *)
(* its record, and an mm_header at the start of the file keeps the next    *)
(* free offset.  When a record would not fit, the file is grown by one     *)
(* mapSize and mapped again.  Reads go through binCache_, keyed by         *)
(* position.                                                               *)
(*                                                                         *)
(* Sizes are in words of sizeof(size_t) = 8 bytes: a length is one word,   *)
(* mm_header (int, padding, four 8-byte fields) is five.  A value is a     *)
(* model value whose compressed image has CompSize[v] words; lzo is the    *)
(* opaque codec the spec names, so decompressing the bytes of v gives v.   *)
(* maxdatasize and the work buffers only size lzo's scratch space and are  *)
(* left out.  The assert in memory_map::write is compiled out (NDEBUG).   *)
(*                                                                         *)
(* The key hash persists what it holds when commit() or flush() runs (the  *)
(* comments at l.407 and l.413); the mapped file survives a crash of the   *)
(* process.  insert and update are two steps: the key hash takes ssh_.tsz  *)
(* outside any lock, then appendValue_ runs under fileLock_.               *)
(***************************************************************************)
EXTENDS Integers, FiniteSets, SequencesExt, TLC

CONSTANTS
    Keys,           \* keys (model values)
    Vals,           \* values (model values)
    CompSize,       \* v -> words of v's compressed image
    DefaultMapSize, \* mm_header's mapSize (128 MB), in words
    MapSizes,       \* the sizes setMapSize is called with
    Threads,        \* callers of one sdb_storage_mm
    MaxAppends,     \* bound: insert/update calls over a behaviour
    None            \* absent key / no value / no file

SizeT == 1       \* sizeof(size_t)
HeaderSize == 5  \* sizeof(mm_header)

VARIABLES
    isOpen_, ssh_, mms_, keyHash_, binCache_,  \* the object, lost in a crash
    fileHeader, fileBody, keyHashDisk,          \* on disk
    pending,     \* thread -> [key, val] between the key hash and appendValue_
    values,      \* history: key -> the value its last insert/update stored
    valuesDisk,  \* history: values as of the last commit or flush
    appends      \* insert/update calls started

vars == <<isOpen_, ssh_, mms_, keyHash_, binCache_, fileHeader, fileBody,
          keyHashDisk, pending, values, valuesDisk, appends>>

MaxMap == Max(MapSizes \cup {DefaultMapSize})
Positions == 0..(MaxMap * (MaxAppends + 2))

(* A word of the file: zero, the length word of v's record, or a word of   *)
(* v's compressed image written at position at.                           *)
Zero == [kind |-> "zero", val |-> None, at |-> 0]
Cells(kind, v, n, at) == [i \in 1..n |-> [kind |-> kind, val |-> v, at |-> at]]

(* The result of reading bytes that are not one record: lzo fails or       *)
(* returns garbage.                                                        *)
Corrupt == "corrupt"

NoMap == [size |-> 0, off |-> 0]

(* mm_header(): idx 0, offset and tsz past the header, mapSize 128 MB.     *)
DefaultHeader == [idx |-> 0, mapSize |-> DefaultMapSize,
                  offset |-> HeaderSize, tsz |-> HeaderSize]

(* memory_map::write: copy the words at offSet_ and advance it, unless     *)
(* offSet_ + num_bytes reaches mapSize_; then nothing is written and      *)
(* size_t(-1), which no caller looks at, is returned.                      *)
MmWrite(mm, body, cells) ==
    IF mm.off + Len(cells) < mm.size
    THEN [mm |-> [mm EXCEPT !.off = @ + Len(cells)],
          body |-> [p \in DOMAIN body |->
                      IF p - mm.off + 1 \in 1..Len(cells) THEN cells[p - mm.off + 1]
                      ELSE body[p]]]
    ELSE [mm |-> mm, body |-> body]

(* memory_map::read(offSet, buf, num_bytes) copies only when the words    *)
(* lie within mapSize_; otherwise it returns size_t(-1), unchecked.        *)
MmReadable(off, n) == off + n <= mms_.size

(* readValue_ on a cache miss: memory_map::read of the length word at      *)
(* npos, then of that many words after it; a read past mapSize_ returns    *)
(* size_t(-1) and leaves the buffer as it was (vsize 0).  Decompressing    *)
(* gives v only when the words are the length and the image of one        *)
(* record of v.                                                            *)
ReadAt(npos) ==
    LET len == fileBody[npos]
        img == fileBody[npos + SizeT]
    IN IF ~MmReadable(npos, SizeT) \/ len.kind # "size" THEN Corrupt
       ELSE LET n == CompSize[len.val]
            IN IF ~MmReadable(npos + SizeT, n) \/ img.kind # "data" THEN Corrupt
               ELSE IF /\ CompSize[img.val] = n
                       /\ \A i \in 1..n :
                             fileBody[npos + i] = Cells("data", img.val, n, npos + SizeT)[i]
                    THEN img.val ELSE Corrupt

(* readValue_(npos): binCache_ answers if it holds npos.                   *)
ReadValue(npos) == IF npos \in DOMAIN binCache_ THEN binCache_[npos] ELSE ReadAt(npos)

(* The constructor: closed, a default header, no mapping, an empty        *)
(* binCache_; the key hash object reads its file when opened.             *)
Constructed(disk, dvalues) ==
    /\ isOpen_' = FALSE
    /\ ssh_' = DefaultHeader
    /\ mms_' = NoMap
    /\ keyHash_' = disk
    /\ binCache_' = <<>>
    /\ pending' = [t \in Threads |-> None]
    /\ values' = dvalues

(* setMapSize(mapSize): only while closed (assert(isOpen_ == false)).      *)
SetMapSize(m) ==
    /\ ~isOpen_
    /\ ssh_' = [ssh_ EXCEPT !.mapSize = m]
    /\ UNCHANGED <<isOpen_, mms_, keyHash_, binCache_, fileHeader, fileBody,
                   keyHashDisk, pending, values, valuesDisk, appends>>

(* open(): a file that exists is mapped with the caller's mapSize, its     *)
(* header read over ssh_ and, if it was grown (idx > 0), mapped again with *)
(* the header's mapSize*(idx+1); the map's offset is the header's.  A new  *)
(* file is grown to one mapSize (expandFile_(0): a zero word at mapSize),  *)
(* mapped, and the header written (syncHeader_).                           *)
Open(t) ==
    /\ ~isOpen_
    /\ pending[t] = None
    /\ IF fileHeader # None
       THEN /\ ssh_' = fileHeader
            /\ mms_' = [size |-> IF fileHeader.idx > 0
                                 THEN fileHeader.mapSize * (fileHeader.idx + 1)
                                 ELSE ssh_.mapSize,
                        off |-> fileHeader.offset]
            /\ UNCHANGED <<fileHeader, fileBody>>
       ELSE /\ fileBody' = [fileBody EXCEPT ![ssh_.mapSize] = Zero]
            /\ mms_' = [size |-> ssh_.mapSize, off |-> ssh_.offset]
            /\ fileHeader' = ssh_
            /\ UNCHANGED ssh_
    /\ isOpen_' = TRUE
    /\ UNCHANGED <<keyHash_, binCache_, keyHashDisk, pending, values, valuesDisk, appends>>

(* commit() and flush(): the key hash writes its dirty buckets.           *)
Commit(t) ==
    /\ isOpen_
    /\ pending[t] = None
    /\ keyHashDisk' = keyHash_
    /\ valuesDisk' = values
    /\ UNCHANGED <<isOpen_, ssh_, mms_, keyHash_, binCache_, fileHeader, fileBody,
                   pending, values, appends>>

(* close(): flush() and mark the store closed; the mapping, ssh_ and the  *)
(* key hash object stay as they are.                                       *)
Close(t) ==
    /\ isOpen_
    /\ pending[t] = None
    /\ keyHashDisk' = keyHash_
    /\ valuesDisk' = values
    /\ isOpen_' = FALSE
    /\ UNCHANGED <<ssh_, mms_, keyHash_, binCache_, fileHeader, fileBody,
                   pending, values, appends>>

(* The destructor calls close(); a new sdb_storage_mm is then built on the *)
(* same files.                                                             *)
Destroy ==
    /\ \A t \in Threads : pending[t] = None
    /\ keyHashDisk' = IF isOpen_ THEN keyHash_ ELSE keyHashDisk
    /\ valuesDisk' = IF isOpen_ THEN values ELSE valuesDisk
    /\ Constructed(keyHashDisk', valuesDisk')
    /\ UNCHANGED <<fileHeader, fileBody, appends>>

(* The process dies at any point: the mapped file keeps every word         *)
(* written, the key hash what it last flushed; a new object is built.      *)
Crash ==
    /\ Constructed(keyHashDisk, valuesDisk)
    /\ UNCHANGED <<fileHeader, fileBody, keyHashDisk, valuesDisk, appends>>

(* The first step of insert(key, val) and update(key, val): the key hash   *)
(* maps key to ssh_.tsz, read without fileLock_.  insert returns false     *)
(* for a key already there; update of an absent key calls insert, which    *)
(* does the same.                                                          *)
Reserve(t, k, v) ==
    /\ isOpen_
    /\ pending[t] = None
    /\ appends < MaxAppends
    /\ keyHash_' = [keyHash_ EXCEPT ![k] = ssh_.tsz]
    /\ pending' = [pending EXCEPT ![t] = [key |-> k, val |-> v]]
    /\ appends' = appends + 1
    /\ UNCHANGED <<isOpen_, ssh_, mms_, binCache_, fileHeader, fileBody,
                   keyHashDisk, values, valuesDisk>>

Insert(t, k, v) == keyHash_[k] = None /\ Reserve(t, k, v)

Update(t, k, v) == Reserve(t, k, v)

(* Mutant: the header is not copied into the file after an append.        *)
AppendValueNoSync(t) ==
    /\ pending[t] # None
    /\ LET k == pending[t].key
           v == pending[t].val
           n == CompSize[v]
           grow == ssh_.offset + 2 * SizeT + n >= ssh_.mapSize * (ssh_.idx + 1)
           idx == IF grow THEN ssh_.idx + 1 ELSE ssh_.idx
           end == (idx + 1) * ssh_.mapSize
           body0 == IF grow /\ end \in Positions THEN [fileBody EXCEPT ![end] = Zero]
                    ELSE fileBody
           mm0 == IF grow THEN [size |-> ssh_.mapSize * (idx + 1), off |-> ssh_.offset]
                  ELSE mms_
           w1 == MmWrite(mm0, body0, Cells("size", v, SizeT, mm0.off))
           w2 == MmWrite(w1.mm, w1.body, Cells("data", v, n, w1.mm.off))
       IN /\ mms_' = w2.mm
          /\ fileBody' = w2.body
          /\ ssh_' = [ssh_ EXCEPT !.idx = idx, !.tsz = @ + SizeT + n,
                                  !.offset = @ + SizeT + n]
          /\ values' = [values EXCEPT ![k] = v]
    /\ pending' = [pending EXCEPT ![t] = None]
    /\ UNCHANGED <<isOpen_, keyHash_, binCache_, fileHeader, keyHashDisk, valuesDisk,
                   appends>>

(* appendValue_(key, val), under fileLock_: when offset + 2 size_t + the   *)
(* image would reach mapSize*(idx+1), bump idx, grow the file              *)
(* (expandFile_: a zero word at (idx+1)*mapSize) and map it again at       *)
(* offset; write the length, then the image; advance tsz and offset by     *)
(* both whatever the writes did; copy ssh_ into the file (syncHeader_).    *)
AppendValue(t) ==
    /\ pending[t] # None
    /\ LET k == pending[t].key
           v == pending[t].val
           n == CompSize[v]
           grow == ssh_.offset + 2 * SizeT + n >= ssh_.mapSize * (ssh_.idx + 1)
           idx == IF grow THEN ssh_.idx + 1 ELSE ssh_.idx
           end == (idx + 1) * ssh_.mapSize
           body0 == IF grow /\ end \in Positions THEN [fileBody EXCEPT ![end] = Zero]
                    ELSE fileBody
           mm0 == IF grow THEN [size |-> ssh_.mapSize * (idx + 1), off |-> ssh_.offset]
                  ELSE mms_
           w1 == MmWrite(mm0, body0, Cells("size", v, SizeT, mm0.off))
           w2 == MmWrite(w1.mm, w1.body, Cells("data", v, n, w1.mm.off))
           ssh == [ssh_ EXCEPT !.idx = idx, !.tsz = @ + SizeT + n,
                               !.offset = @ + SizeT + n]
       IN /\ mms_' = w2.mm
          /\ fileBody' = w2.body
          /\ ssh_' = ssh
          /\ fileHeader' = ssh
          /\ values' = [values EXCEPT ![k] = v]
    /\ pending' = [pending EXCEPT ![t] = None]
    /\ UNCHANGED <<isOpen_, keyHash_, binCache_, keyHashDisk, valuesDisk, appends>>

(* get(key, val) and find(key): a key in the hash is read with             *)
(* readValue_, which on a miss puts what it read into binCache_ at npos.   *)
Get(t, k) ==
    /\ isOpen_
    /\ pending[t] = None
    /\ keyHash_[k] # None
    /\ binCache_' = IF keyHash_[k] \in DOMAIN binCache_ THEN binCache_
                    ELSE binCache_ @@ (keyHash_[k] :> ReadAt(keyHash_[k]))
    /\ UNCHANGED <<isOpen_, ssh_, mms_, keyHash_, fileHeader, fileBody,
                   keyHashDisk, pending, values, valuesDisk, appends>>

(* del(key): only the key hash forgets the key; the record stays.         *)
Del(t, k) ==
    /\ isOpen_
    /\ pending[t] = None
    /\ keyHash_' = [keyHash_ EXCEPT ![k] = None]
    /\ values' = [values EXCEPT ![k] = None]
    /\ UNCHANGED <<isOpen_, ssh_, mms_, binCache_, fileHeader, fileBody,
                   keyHashDisk, pending, valuesDisk, appends>>

(* No files yet: a constructed, closed store.                              *)
Init ==
    /\ isOpen_ = FALSE
    /\ ssh_ = DefaultHeader
    /\ mms_ = NoMap
    /\ keyHash_ = [k \in Keys |-> None]
    /\ binCache_ = <<>>
    /\ fileHeader = None
    /\ fileBody = [p \in Positions |-> Zero]
    /\ keyHashDisk = [k \in Keys |-> None]
    /\ pending = [t \in Threads |-> None]
    /\ values = [k \in Keys |-> None]
    /\ valuesDisk = [k \in Keys |-> None]
    /\ appends = 0

Next ==
    \/ \E m \in MapSizes : SetMapSize(m)
    \/ \E t \in Threads :
          \/ Open(t) \/ Commit(t) \/ Close(t) \/ AppendValue(t)
          \/ \E k \in Keys : Get(t, k) \/ Del(t, k)
          \/ \E k \in Keys, v \in Vals : Insert(t, k, v) \/ Update(t, k, v)
    \/ Destroy
    \/ Crash

Spec == Init /\ [][Next]_vars

(***************************************************************************)
(* Properties                                                              *)
(***************************************************************************)

Header == [idx : Nat, mapSize : Nat, offset : Nat, tsz : Nat]
Cell == [kind : {"zero", "size", "data"}, val : Vals \cup {None}, at : Nat]

TypeOK ==
    /\ isOpen_ \in BOOLEAN
    /\ ssh_ \in Header /\ fileHeader \in Header \cup {None}
    /\ mms_ \in [size : Nat, off : Nat]
    /\ keyHash_ \in [Keys -> Nat \cup {None}] /\ keyHashDisk \in [Keys -> Nat \cup {None}]
    /\ \A p \in DOMAIN binCache_ : binCache_[p] \in Vals \cup {Corrupt}
    /\ fileBody \in [Positions -> Cell]
    /\ pending \in [Threads -> [key : Keys, val : Vals] \cup {None}]
    /\ values \in [Keys -> Vals \cup {None}] /\ valuesDisk \in [Keys -> Vals \cup {None}]
    /\ appends \in 0..MaxAppends

(* Whenever the store is open and no insert or update is half done, every  *)
(* key the hash holds reads back, through binCache_ and the mapped file,   *)
(* the value its last insert or update stored, and the hash holds exactly *)
(* the keys stored and not deleted.  After a crash or a new object, this   *)
(* is the state of the last commit or flush: the file keeps every record   *)
(* the flushed hash points to, and the header's offset keeps later appends *)
(* from writing over them.                                                 *)
ReadsLastStored ==
    (isOpen_ /\ \A t \in Threads : pending[t] = None) =>
       \A k \in Keys :
          IF keyHash_[k] = None THEN values[k] = None
          ELSE ReadValue(keyHash_[k]) = values[k]

====
