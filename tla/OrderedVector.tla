--------------------------- MODULE OrderedVector ---------------------------
(***************************************************************************)
(* compressed_vector::OrderedVector (OrderedVector.h): an ascending        *)
(* sequence of uint32 values kept as the vbyte codes of their gaps in a    *)
(* chain of memory-pool chunks, read back through a forward iterator.     *)
(*                                                                         *)
(* push_back, add_v_data and read_internal are declared here but defined  *)
(* elsewhere: a vector is modelled as the byte stream of its gap codes,   *)
(* and read_internal as copying the next bytes of that stream into the    *)
(* iterator's buffer, its chunk cursor moving on by as many.  The          *)
(* iterator itself (increment, read_vint32, read_byte, refill) is         *)
(* modelled as written, built with NDEBUG: the assert in refill is not     *)
(* evaluated.  CHUNK_ALLOC_LOWER_LIMIT, from a header not in the tree, is  *)
(* BufCap.  A byte is its low seven bits and its continuation bit.         *)
(***************************************************************************)
EXTENDS Naturals, Sequences

CONSTANTS
    Values,     \* values a vector may hold
    MaxValues,  \* longest vector
    BufCap      \* CHUNK_ALLOC_LOWER_LIMIT

VARIABLES
    ovValues,   \* history: the values pushed back, in order
    ovData,     \* the bytes in the chunks (nTotalUsed_ = Len(ovData))
    ovBegun,    \* begin() has been called on the vector
    ovIt,       \* the iterator begin() returned, advanced by ++
    ovSeen      \* history: the values the iterator has dereferenced

ovVars == <<ovValues, ovData, ovBegun, ovIt, ovSeen>>

Byte == [lo : 0..127, more : BOOLEAN]

(* The vbyte code of v: seven bits a byte, low bits first, the high bit   *)
(* set on every byte but the last.                                         *)
RECURSIVE VByte(_)
VByte(v) ==
    IF v < 128 THEN <<[lo |-> v, more |-> FALSE]>>
    ELSE <<[lo |-> v % 128, more |-> TRUE]>> \o VByte(v \div 128)

(* The chunks' bytes for an ascending sequence: the code of each gap.     *)
RECURSIVE GapCodes(_, _)
GapCodes(vs, last) ==
    IF vs = <<>> THEN <<>>
    ELSE VByte(Head(vs) - last) \o GapCodes(Tail(vs), Head(vs))

(* What buffer_ may hold before its first refill: only the high bit is    *)
(* read from it where a property can tell, so the low bits are 0.         *)
Junk == {[lo |-> 0, more |-> m] : m \in BOOLEAN}

Ascending(n) ==
    {s \in [1..n -> Values] : \A i \in 1..n - 1 : s[i] <= s[i + 1]}

(***************************************************************************)
(* The iterator: vector_ (TRUE: set, FALSE: NULL as in end()), data_len_, *)
(* curr_val_, buffer_, buffer_len_, buffer_start_, buffer_pos_, and the    *)
(* chunk cursor (p_data_chunk_, curr_pos_in_chunk_) as a stream offset.   *)
(* overrun: read_internal was asked for more than BufCap bytes.  asserted: *)
(* assert(buffer_start_ < data_len_) held at every refill so far.         *)
(***************************************************************************)

(* refill(): buffer_start_ += buffer_pos_; buffer_len_ is what is left   *)
(* of data_len_ if less than BufCap, else BufCap; read_internal copies    *)
(* that many bytes.  data_len_ - buffer_start_ is a uint32_t difference:  *)
(* once buffer_start_ has passed data_len_ it wraps to 2^32 less the      *)
(* excess, far more than buffer_ holds, and read_internal overruns it.    *)
Refill(it) ==
    LET start == it.start + it.pos
        len == IF start + BufCap > it.dataLen
               THEN it.dataLen - start ELSE BufCap
        ok == it.asserted /\ start < it.dataLen
    IN IF start > it.dataLen
       THEN [it EXCEPT !.start = start, !.overrun = TRUE, !.asserted = ok]
       ELSE [it EXCEPT !.start = start, !.pos = 0, !.len = len,
                       !.asserted = ok,
                       !.cursor = @ + len,
                       !.buf = [i \in 0..BufCap - 1 |->
                                   IF i < len THEN ovData[it.cursor + i + 1]
                                   ELSE it.buf[i]]]

(* read_byte(): refill when buffer_pos_ >= buffer_len_, then take         *)
(* buffer_[buffer_pos_++] (whatever it holds).                             *)
ReadByte(it) ==
    LET r == IF it.pos >= it.len THEN Refill(it) ELSE it
    IN IF r.overrun THEN [it |-> r, b |-> r.buf[0]]
       ELSE [it |-> [r EXCEPT !.pos = @ + 1], b |-> r.buf[r.pos]]

(* read_vint32(): the first byte's low bits, then, while the last byte    *)
(* had its high bit set, the next byte's shifted by 7 more.               *)
RECURSIVE ReadMore(_, _, _, _)
ReadMore(it, acc, shift, more) ==
    IF ~more \/ it.overrun THEN [it |-> it, v |-> acc]
    ELSE LET rb == ReadByte(it)
         IN ReadMore(rb.it, acc + rb.b.lo * 2^shift, shift + 7, rb.b.more)

ReadVint32(it) == ReadMore(it, 0, 0, TRUE)

(* Mutant: end() is reached once every byte has been read (buffer_start_ *)
(* + buffer_pos_) rather than once a refill has passed data_len_.         *)
IncrementEndsEarly(it) ==
    IF ~it.vec THEN it
    ELSE LET r == ReadVint32(it)
         IN [r.it EXCEPT !.val = @ + r.v,
                         !.vec = ~(r.it.start + r.it.pos >= r.it.dataLen)]

(* increment(): if vector_ is set, add the next gap to curr_val_ and      *)
(* clear vector_ once buffer_start_ has reached data_len_.  The sum is a  *)
(* uint32_t; it stays below 2^32 for the Values checked.                  *)
Increment(it) ==
    IF ~it.vec THEN it
    ELSE LET r == ReadVint32(it)
         IN [r.it EXCEPT !.val = @ + r.v,
                         !.vec = ~(r.it.start >= r.it.dataLen)]

(* vector_iterator(): the default iterator, end(); it stands for the     *)
(* iterator not yet taken.                                                 *)
NoIterator ==
    [vec |-> FALSE, dataLen |-> 0, val |-> 0,
     buf |-> [i \in 0..BufCap - 1 |-> [lo |-> 0, more |-> FALSE]],
     len |-> 0, start |-> 0, pos |-> 0, cursor |-> 0, overrun |-> FALSE,
     asserted |-> TRUE]

(***************************************************************************)
(* Actions                                                                 *)
(***************************************************************************)

(* A new vector filled by push_back with an ascending sequence, before    *)
(* any iterator is taken of it.                                           *)
Fill(vs) ==
    /\ ~ovBegun /\ ovValues = <<>> /\ vs # <<>>
    /\ ovValues' = vs
    /\ ovData' = GapCodes(vs, 0)
    /\ UNCHANGED <<ovBegun, ovIt, ovSeen>>

(* begin(): vector_iterator of *this takes data_len_ = nTotalUsed_ and the  *)
(* head chunk and calls increment().  buffer_ is not initialized: the     *)
(* byte it holds before the first refill is arbitrary (junk).             *)
Begin(junk) ==
    /\ ~ovBegun
    /\ ovBegun' = TRUE
    /\ LET it0 == [vec |-> TRUE, dataLen |-> Len(ovData), val |-> 0,
                   buf |-> [i \in 0..BufCap - 1 |-> junk],
                   len |-> 0, start |-> 0, pos |-> 0, cursor |-> 0,
                   overrun |-> FALSE, asserted |-> TRUE]
           it1 == Increment(it0)
       IN /\ ovIt' = it1
          /\ ovSeen' = IF it1.vec /\ ~it1.overrun THEN <<it1.val>> ELSE <<>>
    /\ UNCHANGED <<ovValues, ovData>>

(* ++it on an iterator not equal to end(), then *it.                      *)
Next_ ==
    /\ ovBegun /\ ovIt.vec /\ ~ovIt.overrun
    /\ LET it1 == Increment(ovIt)
       IN /\ ovIt' = it1
          /\ ovSeen' = IF it1.vec /\ ~it1.overrun THEN Append(ovSeen, it1.val)
                       ELSE ovSeen
    /\ UNCHANGED <<ovValues, ovData, ovBegun>>

(* The vector and its iterators are destroyed (~OrderedVector frees the   *)
(* chunks); a new one may be filled.                                       *)
Destroy ==
    /\ ovBegun
    /\ ovValues' = <<>> /\ ovData' = <<>> /\ ovBegun' = FALSE
    /\ ovIt' = NoIterator /\ ovSeen' = <<>>

Init ==
    /\ ovValues = <<>> /\ ovData = <<>> /\ ovBegun = FALSE
    /\ ovIt = NoIterator /\ ovSeen = <<>>

Next ==
    \/ \E n \in 1..MaxValues : \E vs \in Ascending(n) : Fill(vs)
    \/ \E junk \in Junk : Begin(junk)
    \/ Next_
    \/ Destroy

Spec == Init /\ [][Next]_ovVars

(***************************************************************************)
(* Properties                                                              *)
(***************************************************************************)

TypeOK ==
    /\ ovValues \in Seq(Values) /\ ovData \in Seq(Byte)
    /\ ovSeen \in Seq(Nat)
    /\ ovBegun \in BOOLEAN
    /\ ovIt.vec \in BOOLEAN /\ ovIt.start \in Nat /\ ovIt.pos \in Nat

(* refill() is entered only while data remains: its                      *)
(* assert(buffer_start_ < data_len_) holds on every call the iterator     *)
(* makes, from begin() through the ++ that reaches end().                 *)
RefillAssertHolds == ovIt.asserted

(* Iterating from begin() to end() dereferences exactly the values       *)
(* pushed back, in order: the gaps are decoded and summed right across    *)
(* refills of buffer_ and codes split between two refills, and the        *)
(* iterator equals end() only once the last value has been seen.          *)
IteratesPushedValues ==
    ovBegun /\ ~ovIt.overrun =>
        /\ Len(ovSeen) <= Len(ovValues)
        /\ ovSeen = SubSeq(ovValues, 1, Len(ovSeen))
        /\ ~ovIt.vec => ovSeen = ovValues

====
