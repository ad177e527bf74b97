----------------------------- MODULE SeqFileDef -----------------------------
(***************************************************************************)
(* The sequence-file helpers of am/sequence_file/SeqFileDef.hpp.           *)
(*                                                                         *)
(* CompressSeqFileSerializeHandler<std::vector<uint32_t> > turns a vector  *)
(* of ids into bytes: it keeps at most 65535/4 values, sorts them, replaces *)
(* each by its gap to the previous one and writes the gaps in vbyte (7 bits *)
(* per byte, high bit set on all but the last byte of a value).            *)
(* deserialize reads the gaps back and adds them up.                       *)
(*                                                                         *)
(* A SeqFile keeps recently used records in one of two cache handlers:     *)
(* SeqFileObjectCacheHandler stores the vectors themselves,                *)
(* SeqFileCharCacheHandler stores their serialized bytes.  The model feeds *)
(* both the same calls, as their owner (SeqFile, not in the tree) would:   *)
(* setCacheSize before initCache_, then inserts and lookups.               *)
(* SeqFileCharCacheHandler::getInCache calls a three-argument serialize    *)
(* that no handler defines, so it is never instantiated and not modelled.  *)
(***************************************************************************)
EXTENDS Integers, Sequences, SequencesExt, TLC

CONSTANTS
    Values,      \* the uint32 ids the vectors hold
    MaxData,     \* the longest vector inserted
    CacheSizes,  \* the sizes setCacheSize is called with
    Null         \* a NULL char*

Uint16 == 2^16
MaxCount == 65535 \div 4         \* uint16_t max = 65535; count capped at max/4

(***************************************************************************)
(* The codec                                                               *)
(***************************************************************************)

(* One value in vbyte: while bits above the low seven remain, write the    *)
(* low seven with the high bit set and shift right by seven.               *)
RECURSIVE VByte(_)
VByte(u) == IF u >= 128 THEN <<(u % 128) + 128>> \o VByte(u \div 128) ELSE <<u>>

(* The gaps of a sorted array: the first value, then each value minus the  *)
(* one before it (ar[i] = ar[i] - last; last += ar[i]).                    *)
Gaps(ar) == [i \in 1..Len(ar) |-> IF i = 1 THEN ar[1] ELSE ar[i] - ar[i-1]]

(* serialize(data, len): an empty vector gives NULL and len 0.  Otherwise  *)
(* the first count values, sorted, as vbyte gaps, in a buffer of           *)
(* (uint16_t)(count * 4) bytes.                                            *)
Serialize(data) ==
    IF Len(data) = 0
    THEN [ptr |-> Null, len |-> 0, alloc |-> 0]
    ELSE LET count == IF Len(data) >= MaxCount THEN MaxCount ELSE Len(data)
             ar == SortSeq(SubSeq(data, 1, count), LAMBDA a, b : a < b)
             bytes == FoldLeft(LAMBDA acc, g : acc \o VByte(g), <<>>, Gaps(ar))
         IN [ptr |-> bytes, len |-> Len(bytes), alloc |-> (count * 4) % Uint16]

(* deserialize's inner loop from byte offset p (a uint16_t): one value     *)
(* from its vbyte bytes, then the rest.                                    *)
RECURSIVE DecodeValue(_, _, _, _)
DecodeValue(bytes, p, i, shift) ==
    IF bytes[p] >= 128 /\ p + 1 <= Len(bytes)
    THEN DecodeValue(bytes, p + 1, i + (bytes[p + 1] % 128) * 2^shift, shift + 7)
    ELSE [value |-> i, next |-> (p % Uint16) + 1]

RECURSIVE DecodeFrom(_, _)
DecodeFrom(bytes, p) ==
    IF p - 1 >= Len(bytes) THEN <<>>
    ELSE LET d == DecodeValue(bytes, p, bytes[p] % 128, 7)
         IN <<d.value>> \o DecodeFrom(bytes, d.next)

(* deserialize(ptr, len, vdata): nothing for len 0; otherwise decode the   *)
(* gaps and append ar[0], then ar[i] + vdata[i-1] for each later gap,      *)
(* where vdata is the caller's vector with what was appended so far.       *)
Deserialize(bytes, vdata) ==
    IF Len(bytes) = 0 THEN vdata
    ELSE LET ar == DecodeFrom(bytes, 1)
             Acc[i \in 0..Len(ar)] ==
                 IF i = 0 THEN vdata
                 ELSE IF i = 1 THEN Append(Acc[0], ar[1])
                 ELSE Append(Acc[i-1], ar[i] + Acc[i-1][i-1])
         IN Acc[Len(ar)]

(***************************************************************************)
(* The cache handlers                                                      *)
(***************************************************************************)

VARIABLES
    objCache,    \* SeqFileObjectCacheHandler: [cache, size, maxId]
    charCache,   \* SeqFileCharCacheHandler: [cache of [ptr, len], size, maxId]
    inited,      \* initCache_ has run
    lastGet,     \* the object handler's last getInCache: [id, hit, data],
                 \* with the char handler's slot for id at that moment
    stored       \* history: id -> the vector last inserted for it

vars == <<objCache, charCache, inited, lastGet, stored>>

Data == BoundedSeq(Values, MaxData)
Ids == 0..(Max(CacheSizes) + 1)
EmptySlot == [ptr |-> Null, len |-> 0]

(* Mutant: only the object handler takes the new size.                    *)
SetCacheSizeObjOnly(n) ==
    /\ ~inited
    /\ objCache' = [objCache EXCEPT !.size = n]
    /\ UNCHANGED <<charCache, inited, lastGet, stored>>

(* setCacheSize(n) on both handlers, before the cache is allocated.        *)
SetCacheSize(n) ==
    /\ ~inited
    /\ objCache' = [objCache EXCEPT !.size = n]
    /\ charCache' = [charCache EXCEPT !.size = n]
    /\ UNCHANGED <<inited, lastGet, stored>>

(* initCache_(): cache_.resize(cacheSize_) with default vectors, resp.     *)
(* (NULL, 0) pairs.                                                        *)
InitCache ==
    /\ ~inited
    /\ objCache' = [objCache EXCEPT !.cache = [i \in 1..objCache.size |-> <<>>]]
    /\ charCache' = [charCache EXCEPT !.cache = [i \in 1..charCache.size |-> EmptySlot]]
    /\ inited' = TRUE
    /\ UNCHANGED <<lastGet, stored>>

(* SeqFileObjectCacheHandler::insertToCache: refuse id 0 and ids above    *)
(* cacheSize_; store the vector and raise maxCacheId_.                     *)
ObjInsert(h, id, data) ==
    IF id = 0 \/ id > h.size THEN h
    ELSE [h EXCEPT !.cache[id] = data, !.maxId = IF id > @ THEN id ELSE @]

(* Mutant: an old entry is not freed when the new vector is empty.      *)
CharInsertKeepsOld(h, id, data) ==
    IF id = 0 \/ id > h.size THEN h
    ELSE LET ser == Serialize(data)
         IN [h EXCEPT !.cache[id] = IF ser.len > 0 THEN [ptr |-> ser.ptr, len |-> ser.len]
                                    ELSE @,
                      !.maxId = IF id > @ THEN id ELSE @]

(* SeqFileCharCacheHandler::insertToCache: refuse id 0 and ids above      *)
(* cacheSize_; free an old entry and reset it to (NULL, 0); serialize the  *)
(* vector and keep the bytes if there are any; raise maxCacheId_.          *)
CharInsert(h, id, data) ==
    IF id = 0 \/ id > h.size THEN h
    ELSE LET freed == IF h.cache[id].len > 0 THEN EmptySlot ELSE h.cache[id]
             ser == Serialize(data)
         IN [h EXCEPT !.cache[id] = IF ser.len > 0 THEN [ptr |-> ser.ptr, len |-> ser.len]
                                    ELSE freed,
                      !.maxId = IF id > @ THEN id ELSE @]

(* insertToCache(id, data) on both handlers.                               *)
InsertToCache(id, data) ==
    /\ inited
    /\ objCache' = ObjInsert(objCache, id, data)
    /\ charCache' = CharInsert(charCache, id, data)
    /\ stored' = IF id = 0 \/ id > objCache.size THEN stored
                 ELSE [stored EXCEPT ![id] = data]
    /\ UNCHANGED <<inited, lastGet>>

(* SeqFileObjectCacheHandler::getInCache: miss for id 0 and ids above      *)
(* maxCacheId_, otherwise a hit with cache_[id-1].                         *)
GetInCache(id) ==
    /\ inited
    /\ lastGet' = IF id = 0 \/ id > objCache.maxId
                  THEN [id |-> id, hit |-> FALSE, data |-> <<>>, slot |-> EmptySlot]
                  ELSE [id |-> id, hit |-> TRUE, data |-> objCache.cache[id],
                        slot |-> charCache.cache[id]]
    /\ UNCHANGED <<objCache, charCache, inited, stored>>

(* The constructors: no cache, size 0, maxCacheId_ 0.                      *)
Init ==
    /\ objCache = [cache |-> <<>>, size |-> 0, maxId |-> 0]
    /\ charCache = [cache |-> <<>>, size |-> 0, maxId |-> 0]
    /\ inited = FALSE
    /\ lastGet = [id |-> 0, hit |-> FALSE, data |-> <<>>, slot |-> EmptySlot]
    /\ stored = [id \in Ids |-> <<>>]

Next ==
    \/ \E n \in CacheSizes : SetCacheSize(n)
    \/ InitCache
    \/ \E id \in Ids, data \in Data : InsertToCache(id, data)
    \/ \E id \in Ids : GetInCache(id)

Spec == Init /\ [][Next]_vars

(***************************************************************************)
(* Properties                                                              *)
(***************************************************************************)

TypeOK ==
    /\ objCache.size \in {0} \cup CacheSizes /\ charCache.size = objCache.size
    /\ objCache.cache \in Seq(Data)
    /\ charCache.cache \in Seq([ptr : Seq(0..255) \cup {Null}, len : Nat])
    /\ inited \in BOOLEAN
    /\ lastGet.hit \in BOOLEAN /\ lastGet.data \in Data
    /\ stored \in [Ids -> Data]

(* What a cached record should read back as: the ids of the vector last    *)
(* inserted, in ascending order.                                           *)
Sorted(data) == SortSeq(data, LAMBDA a, b : a < b)

(* Every slot of the char cache decodes to the record last inserted under *)
(* its id: the vbyte gaps written by serialize and summed by deserialize   *)
(* give back the sorted ids, and a record replaced by an empty one leaves  *)
(* the slot freed rather than holding the old bytes.                       *)
CharCacheDecodes ==
    inited =>
      \A id \in 1..charCache.size :
         LET slot == charCache.cache[id]
         IN IF stored[id] = <<>>
            THEN slot = EmptySlot
            ELSE /\ slot.ptr # Null /\ slot.len = Len(slot.ptr)
                 /\ Deserialize(slot.ptr, <<>>) = Sorted(stored[id])

====
