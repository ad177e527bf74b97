------------------------------- MODULE DBitV --------------------------------
(***************************************************************************)
(* The dense rank/select bit vector DBitV (am/succinct/dbitv/dbitv.cpp).   *)
(*                                                                         *)
(* build() packs the caller's words into superblocks: each superblock      *)
(* holds kBlockPerSuperBlock words (bits_), the number of ones before it   *)
(* (rank_) and, in 9-bit fields of subrank_, the number of ones before     *)
(* each of its blocks.  With support_select_ it also records, for every    *)
(* kSelectBlockSize-th one and zero, where the binary search of select     *)
(* starts.  rank1, lookup and select0/select1 read these back.             *)
(*                                                                         *)
(* The block width, blocks per superblock and select block size come from  *)
(* dbitv.hpp, which is not in the tree; they are constants here (the code  *)
(* writes the block width as 64 in select0).  The 9-bit subrank fields and *)
(* their mask 511 are the code's.  super_blocks_ is memory: the model keeps *)
(* what build writes at every index, and records separately how many       *)
(* superblocks were allocated and which indices were written, so a write   *)
(* past the allocation is visible without deciding what else it clobbers.  *)
(* Fresh superblocks are taken to be zeroed (subrank_ is built with |=).   *)
(***************************************************************************)
EXTENDS Integers, Sequences, SequencesExt, FiniteSets, Bitwise

CONSTANTS
    BlockSize,           \* kBlockSize: bits per word (64)
    BlockPerSuperBlock,  \* kBlockPerSuperBlock
    SelectBlockSize,     \* kSelectBlockSize: ones (zeros) per select entry
    SupportSelect,       \* the constructor's support_select
    MaxLen               \* the longest bit vector built

SuperBlockSize == BlockSize * BlockPerSuperBlock

(* Every subrank_ field, including the count of a full superblock, fits    *)
(* in the 64-bit word and in 9 bits; a block crosses at most one select    *)
(* boundary, so buildBlock_ pushes at most one entry per block.            *)
ASSUME /\ 9 * (BlockPerSuperBlock + 1) <= 64
       /\ SuperBlockSize <= 511
       /\ SelectBlockSize >= BlockSize

VARIABLES
    len_,              \* len_
    one_count_,        \* one_count_
    super_blocks_,     \* the memory super_blocks_ points into
    alloc,             \* superblocks allocated by the last reset()
    select_one_inds_,  \* select_one_inds_
    select_zero_inds_, \* select_zero_inds_
    written,           \* superblock indices build wrote since the reset
    built,             \* build() ran since construction or clear()
    input              \* history: the bits handed to the last build()

vars == <<len_, one_count_, super_blocks_, alloc, select_one_inds_,
          select_zero_inds_, written, built, input>>

WordMax == 2^BlockSize - 1
MemSize == MaxLen \div SuperBlockSize + 2
EmptySuperBlock ==
    [rank |-> 0, subrank |-> 0, bits |-> [b \in 0..BlockPerSuperBlock-1 |-> 0]]
ZeroMemory == [i \in 0..MemSize-1 |-> EmptySuperBlock]

(* SuccinctUtils::popcount: the number of ones in a word.                  *)
RECURSIVE Popcount(_)
Popcount(w) == IF w = 0 THEN 0 ELSE (w % 2) + Popcount(w \div 2)

(* SuccinctUtils::selectBlock: the offset of the (r+1)-th one of a word,   *)
(* or BlockSize when the word has no such one.                             *)
RECURSIVE SelectBlockFrom(_, _, _)
SelectBlockFrom(w, r, i) ==
    IF i >= BlockSize THEN BlockSize
    ELSE IF w % 2 = 1 /\ r = 0 THEN i
    ELSE SelectBlockFrom(w \div 2, IF w % 2 = 1 THEN r - 1 ELSE r, i + 1)
SelectBlock(w, r) == SelectBlockFrom(w, r, 0)

(* (subrank_ >> 9 * k) & 511                                               *)
Field(subrank, k) == shiftR(subrank, 9 * k) & 511

(* The words the caller passes for n bits, and the bits they stand for.    *)
NumWords(n) == n \div BlockSize + (IF n % BlockSize # 0 THEN 1 ELSE 0)
Words(n) == [1..NumWords(n) -> 0..WordMax]
Bits(words, n) ==
    [i \in 1..n |-> (words[(i-1) \div BlockSize + 1] \div 2^((i-1) % BlockSize)) % 2]

(***************************************************************************)
(* build(bv, len)                                                          *)
(***************************************************************************)

(* buildBlock_(block, bits, sb_ind, sb_off, rank_sb) on the build state st *)
(* (st.sbIndex, st.sbOffset and st.sbRank are sb_index, sb_offset and     *)
(* sb_rank of build's loop).                                               *)
BuildBlock(st, block, nbits) ==
    LET rb == Popcount(block)
        rankSb == st.sbRank + rb
    IN [st EXCEPT
          !.selOne = IF SupportSelect /\ (st.ones % SelectBlockSize) + rb >= SelectBlockSize
                     THEN Append(@, st.len \div SuperBlockSize + 1) ELSE @,
          !.selZero = IF SupportSelect /\ ((st.len - st.ones) % SelectBlockSize) + nbits - rb
                                            >= SelectBlockSize
                      THEN Append(@, st.len \div SuperBlockSize + 1) ELSE @,
          !.len = @ + nbits,
          !.ones = @ + rb,
          !.sbRank = rankSb,
          !.mem[st.sbIndex].bits[st.sbOffset] = block,
          !.mem[st.sbIndex].subrank = @ | (rankSb * 2^(9 * (st.sbOffset + 1))),
          !.written = @ \cup {st.sbIndex}]

(* Mutant: the next superblock starts without rank_ = one_count_.       *)
LoopBlockNoCarry(st, block) ==
    LET s1 == BuildBlock(st, block, BlockSize)
    IN IF s1.sbOffset + 1 = BlockPerSuperBlock
       THEN [s1 EXCEPT !.sbOffset = 0, !.sbRank = 0, !.sbIndex = @ + 1,
                       !.written = @ \cup {s1.sbIndex + 1}]
       ELSE [s1 EXCEPT !.sbOffset = @ + 1]

(* One pass of build's loop over full words: buildBlock_, then, when the   *)
(* superblock is full, start the next one with rank_ = one_count_.         *)
LoopBlock(st, block) ==
    LET s1 == BuildBlock(st, block, BlockSize)
    IN IF s1.sbOffset + 1 = BlockPerSuperBlock
       THEN [s1 EXCEPT !.sbOffset = 0, !.sbRank = 0, !.sbIndex = @ + 1,
                       !.mem[s1.sbIndex + 1].rank = s1.ones,
                       !.written = @ \cup {s1.sbIndex + 1}]
       ELSE [s1 EXCEPT !.sbOffset = @ + 1]

(* build on a vector that was constructed or cleared and not yet built.   *)
(* The allocation is sized from the member len_, read before any block is  *)
(* added.                                                                  *)
Build(words, n) ==
    /\ ~built
    /\ LET size == len_ \div SuperBlockSize + 1
           index == n \div BlockSize
           offset == n % BlockSize
           st0 == [len |-> len_, ones |-> one_count_, mem |-> ZeroMemory,
                   sbIndex |-> 0, sbOffset |-> 0, sbRank |-> 0, written |-> {},
                   selOne |-> IF SupportSelect THEN Append(select_one_inds_, 0)
                              ELSE select_one_inds_,
                   selZero |-> IF SupportSelect THEN Append(select_zero_inds_, 0)
                               ELSE select_zero_inds_]
           st1 == FoldLeft(LoopBlock, st0, SubSeq(words, 1, index))
           st2 == IF offset # 0
                  THEN BuildBlock(st1, words[index + 1] & (2^offset - 1), offset)
                  ELSE st1
           last == st2.len \div SuperBlockSize + 1
       IN /\ len_' = st2.len
          /\ one_count_' = st2.ones
          /\ super_blocks_' = st2.mem
          /\ alloc' = size
          /\ written' = st2.written
          /\ select_one_inds_' = IF SupportSelect THEN Append(st2.selOne, last)
                                 ELSE st2.selOne
          /\ select_zero_inds_' = IF SupportSelect THEN Append(st2.selZero, last)
                                  ELSE st2.selZero
    /\ built' = TRUE
    /\ input' = Bits(words, n)

(* clear(): reset the counters, free the superblocks and the select       *)
(* indexes.                                                                *)
Clear ==
    /\ len_' = 0
    /\ one_count_' = 0
    /\ alloc' = 0
    /\ written' = {}
    /\ super_blocks_' = ZeroMemory
    /\ select_one_inds_' = IF SupportSelect THEN <<>> ELSE select_one_inds_
    /\ select_zero_inds_' = IF SupportSelect THEN <<>> ELSE select_zero_inds_
    /\ built' = FALSE
    /\ input' = <<>>

(***************************************************************************)
(* Queries                                                                 *)
(***************************************************************************)

(* lookup(pos): the bit at pos.                                            *)
Lookup(pos) ==
    LET offset == pos % SuperBlockSize
    IN (super_blocks_[pos \div SuperBlockSize].bits[offset \div BlockSize]
          & 2^(offset % BlockSize)) # 0

(* lookup(pos, r): the bit at pos, and in r the number of bits equal to it *)
(* before pos.                                                             *)
LookupRank(pos) ==
    LET sb == super_blocks_[pos \div SuperBlockSize]
        offset == pos % SuperBlockSize
        sbIndex == offset \div BlockSize
        sbOffset == offset % BlockSize
        bit == (sb.bits[sbIndex] & 2^sbOffset) # 0
        before == sb.rank + Field(sb.subrank, sbIndex)
                    + Popcount(sb.bits[sbIndex] & (2^sbOffset - 1))
    IN [bit |-> bit, r |-> IF bit THEN before ELSE pos - before]

(* rank1(pos): the number of ones before pos.                              *)
Rank1(pos) ==
    LET sb == super_blocks_[pos \div SuperBlockSize]
        sbIndex == (pos % SuperBlockSize) \div BlockSize
    IN sb.rank + Field(sb.subrank, sbIndex)
         + Popcount(sb.bits[sbIndex] & (2^(pos % BlockSize) - 1))

(* rank0(pos) and rank(pos, bit).                                          *)
Rank0(pos) == pos - Rank1(pos)
Rank(pos, bit) == IF bit THEN Rank1(pos) ELSE pos - Rank1(pos)

(* The binary searches of select1/select0 over superblocks [low, high):    *)
(* the first superblock with more ones (zeros) before it than rank.        *)
RECURSIVE SearchOnes(_, _, _)
SearchOnes(low, high, rank) ==
    IF low < high
    THEN LET mid == (low + high) \div 2
         IN IF super_blocks_[mid].rank <= rank THEN SearchOnes(mid + 1, high, rank)
            ELSE SearchOnes(low, mid, rank)
    ELSE low

RECURSIVE SearchZeros(_, _, _)
SearchZeros(low, high, rank) ==
    IF low < high
    THEN LET mid == (low + high) \div 2
         IN IF mid * SuperBlockSize - super_blocks_[mid].rank <= rank
            THEN SearchZeros(mid + 1, high, rank)
            ELSE SearchZeros(low, mid, rank)
    ELSE low

(* The scans over the subrank_ fields: the first block index from k on     *)
(* with more ones (zeros) before it than rank.  Past the last field the    *)
(* code would keep reading zero fields; the model stops there.             *)
(* Mutant: the scan stops on a block whose field equals rank.           *)
RECURSIVE ScanOnesStrict(_, _, _)
ScanOnesStrict(subrank, k, rank) ==
    IF k <= BlockPerSuperBlock /\ rank > Field(subrank, k)
    THEN ScanOnesStrict(subrank, k + 1, rank) ELSE k

RECURSIVE ScanOnes(_, _, _)
ScanOnes(subrank, k, rank) ==
    IF k <= BlockPerSuperBlock /\ rank >= Field(subrank, k)
    THEN ScanOnes(subrank, k + 1, rank) ELSE k

RECURSIVE ScanZeros(_, _, _)
ScanZeros(subrank, k, rank) ==
    IF k <= BlockPerSuperBlock /\ rank >= BlockSize * k - Field(subrank, k)
    THEN ScanZeros(subrank, k + 1, rank) ELSE k

(* select1(rank): the position of the one with 0-based index rank.        *)
Select1(rank) ==
    LET si == rank \div SelectBlockSize
        low == SearchOnes(select_one_inds_[si + 1], select_one_inds_[si + 2], rank) - 1
        sb == super_blocks_[low]
        r == rank - sb.rank
        sbIndex == ScanOnes(sb.subrank, 1, r) - 1
    IN low * SuperBlockSize + sbIndex * BlockSize
         + SelectBlock(sb.bits[sbIndex], r - Field(sb.subrank, sbIndex))

(* select0(rank): the position of the zero with 0-based index rank.  The  *)
(* zeros of a block are the ones of its complement.                        *)
Select0(rank) ==
    LET si == rank \div SelectBlockSize
        low == SearchZeros(select_zero_inds_[si + 1], select_zero_inds_[si + 2], rank) - 1
        sb == super_blocks_[low]
        r == rank - (low * SuperBlockSize - sb.rank)
        sbIndex == ScanZeros(sb.subrank, 1, r) - 1
    IN low * SuperBlockSize + sbIndex * BlockSize
         + SelectBlock(WordMax - sb.bits[sbIndex],
                       r + Field(sb.subrank, sbIndex) - BlockSize * sbIndex)

Init ==
    /\ len_ = 0
    /\ one_count_ = 0
    /\ super_blocks_ = ZeroMemory
    /\ alloc = 0
    /\ select_one_inds_ = <<>>
    /\ select_zero_inds_ = <<>>
    /\ written = {}
    /\ built = FALSE
    /\ input = <<>>

Next ==
    \/ \E n \in 0..MaxLen : \E words \in Words(n) : Build(words, n)
    \/ Clear

Spec == Init /\ [][Next]_vars

(***************************************************************************)
(* Properties                                                              *)
(***************************************************************************)

(* The number of ones among the first pos bits of a bit sequence, and the *)
(* position of the (r+1)-th b bit: the reference the queries are held to.  *)
Ones(bits, pos) == Cardinality({i \in 1..pos : bits[i] = 1})
NthPos(bits, b, r) ==
    CHOOSE p \in 0..Len(bits)-1 :
        bits[p + 1] = b /\ Cardinality({i \in 1..p : bits[i] = b}) = r

TypeOK ==
    /\ len_ \in 0..MaxLen /\ one_count_ \in 0..len_
    /\ alloc \in 0..MemSize /\ written \subseteq 0..MemSize-1
    /\ select_one_inds_ \in Seq(0..MemSize) /\ select_zero_inds_ \in Seq(0..MemSize)
    /\ built \in BOOLEAN /\ input \in Seq({0, 1})

(* Once built, lookup, lookup-with-rank, rank0 and rank1 agree with the    *)
(* bits handed to build at every position, across block and superblock     *)
(* boundaries: the rank_ carried into each superblock, the 9-bit subrank_  *)
(* fields and the masked popcount in the block add up.                     *)
RankCorrect ==
    built =>
      /\ len_ = Len(input) /\ one_count_ = Ones(input, len_)
      /\ \A pos \in 0..len_ : Rank1(pos) = Ones(input, pos)
                              /\ Rank0(pos) = pos - Ones(input, pos)
      /\ \A pos \in 0..len_-1 :
           LET lr == LookupRank(pos)
           IN /\ Lookup(pos) = (input[pos + 1] = 1)
              /\ lr.bit = Lookup(pos)
              /\ lr.r = IF lr.bit THEN Ones(input, pos) ELSE pos - Ones(input, pos)

(* Once built with select support, select1 and select0 return the position *)
(* of every one and every zero: the select index entries buildBlock_ pushes *)
(* bound a binary search that lands in the right superblock, and the scan  *)
(* of subrank_ in the right block.                                         *)
SelectCorrect ==
    built /\ SupportSelect =>
      /\ \A r \in 0..one_count_-1 : Select1(r) = NthPos(input, 1, r)
      /\ \A r \in 0..(len_ - one_count_)-1 : Select0(r) = NthPos(input, 0, r)

(* build writes only superblocks it allocated: every index written is     *)
(* below the number of superblocks reset() allocated.                      *)
BuildWithinAllocation ==
    \A i \in written : i < alloc

=============================================================================
