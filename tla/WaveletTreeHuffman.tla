------------------------- MODULE WaveletTreeHuffman -------------------------
(***************************************************************************)
(* The Huffman-shaped wavelet tree of                                      *)
(* am/succinct/fm-index/wavelet_tree_huffman.hpp.                          *)
(*                                                                         *)
(* build() counts the characters, makes a leaf per character that occurs,  *)
(* merges the nodes of a priority queue two at a time into a binary tree,  *)
(* gives every character the code of its path (bit k = 1 for a right turn *)
(* at depth k), folds each leaf into its parent (c0_ or c1_ names it, the  *)
(* child pointer becomes NULL), then appends for every character of the    *)
(* sequence one bit to each node on its path.  access, rank and select     *)
(* walk the tree down or up; intersect walks it down with a list of        *)
(* ranges; save and load write and read the tree in preorder.              *)
(*                                                                         *)
(* The nodes live in an arena (a sequence of records); a pointer is an     *)
(* index and NULL is Nil.  The priority queue is declared with             *)
(* std::greater<WaveletTreeNode*>, so it orders nodes by their addresses,  *)
(* not by their counts: which two nodes are merged, and which becomes the  *)
(* left child, depends on where the allocator put them, and every ordered  *)
(* pair of queued nodes can be the next merge.  Build takes all of them.   *)
(*                                                                         *)
(* WaveletTreeNode is not in the tree.  Its bit vector is modelled by what *)
(* the tree asks of it: append0/append1 add a bit, rank0/rank1(p) count    *)
(* the bits before p, access(p, r) returns bit p and sets r to its rank    *)
(* among equal bits, select(r, b) returns the position of the bit b of     *)
(* rank r or -1, and save/load keep the bits, c0_ and c1_.  The characters *)
(* a constructor leaves in c1_ of a leaf and in c0_, c1_ of an inner node  *)
(* are the constant NodeCharDefault.  The checks take 0, a character of  *)
(* the alphabet: nothing in the code keeps the default outside it.        *)
(* bits(x) is the number of binary digits of x.                           *)
(***************************************************************************)
EXTENDS Integers, Sequences, SequencesExt, FiniteSets

CONSTANTS
    AlphabetNum,      \* alphabet_num_
    MaxLen,           \* the longest sequence built
    NodeCharDefault   \* c0_/c1_ as a WaveletTreeNode constructor leaves them

ASSUME AlphabetNum > 0 /\ MaxLen > 0

Nil == 0
NotFound == -1        \* (size_t)-1
NoChar == -1          \* (char_type)-1
Chars == 0..(AlphabetNum - 1)

RECURSIVE BitsOf(_)
BitsOf(x) == IF x = 0 THEN 0 ELSE 1 + BitsOf(x \div 2)

OccSize == 2^BitsOf(AlphabetNum - 1) + 1

(* The sequences build is called with: non-empty, characters below        *)
(* alphabet_num_.                                                          *)
Inputs == BoundedSeq(Chars, MaxLen) \ {<<>>}

VARIABLES
    nodes,     \* the arena of WaveletTreeNodes
    root,      \* root_
    leaves,    \* leaves_: character -> node, or Nil
    codeMap,   \* code_map_
    occ,       \* occ_, indexed from 0
    built,     \* build has run
    saved,     \* the stream save last wrote, or <<>>
    input      \* history: the sequence built

vars == <<nodes, root, leaves, codeMap, occ, built, saved, input>>

Bit(code, level) == (code \div 2^level) % 2

Node(l, r, p, c0, c1) ==
    [left |-> l, right |-> r, parent |-> p, c0 |-> c0, c1 |-> c1, bits |-> <<>>]

(***************************************************************************)
(* build(char_seq, len)                                                    *)
(***************************************************************************)

(* Mutant: ++occ_[char_seq[i]] instead of ++occ_[char_seq[i] + 1].      *)
OccUnshifted(seq) ==
    [i \in 0..(OccSize - 1) |-> Cardinality({k \in DOMAIN seq : seq[k] <= i})]

(* occ_ after the count loop and the prefix sums from index 2: occ_[i] is  *)
(* the number of characters below i.                                       *)
Occ(seq) ==
    [i \in 0..(OccSize - 1) |->
        Cardinality({k \in DOMAIN seq : seq[k] + 1 <= i})]

(* The characters that occur, in the order the leaf loop pushes them.     *)
Present(seq) == SetToSortSeq(ToSet(seq), LAMBDA a, b : a < b)

(* The queue loop: pop two nodes, push a new parent of both, until one is *)
(* left.  The result is every tree some order of addresses gives.         *)
RECURSIVE Trees(_, _)
Trees(ns, queue) ==
    IF Cardinality(queue) = 1
    THEN {[nodes |-> ns, root |-> CHOOSE q \in queue : TRUE]}
    ELSE UNION { LET me == Len(ns) + 1
                 IN Trees(Append([ns EXCEPT ![p[1]].parent = me, ![p[2]].parent = me],
                                 Node(p[1], p[2], Nil, NodeCharDefault, NodeCharDefault)),
                          (queue \ {p[1], p[2]}) \cup {me})
               : p \in {q \in queue \X queue : q[1] # q[2]} }

(* makeCodeMap_: a left turn at depth k leaves bit k clear, a right turn  *)
(* sets it; a node without a left child is a leaf named by c0_.           *)
RECURSIVE MakeCodeMap(_, _, _, _, _)
MakeCodeMap(ns, code, level, n, cm) ==
    IF ns[n].left # Nil
    THEN MakeCodeMap(ns, code + 2^level, level + 1, ns[n].right,
                     MakeCodeMap(ns, code, level + 1, ns[n].left, cm))
    ELSE [cm EXCEPT ![ns[n].c0] = code]

(* Mutant: every collapsed leaf is named in c0_ and the left pointer is  *)
(* cleared, whichever side it was on.                                     *)
CollapseLeafAlwaysLeft(acc, i) ==
    LET l == acc.lv[i]
        p == acc.ns[l].parent
    IN IF l = Nil \/ p = Nil THEN acc
       ELSE [ns |-> [acc.ns EXCEPT ![p].c0 = i, ![p].left = Nil],
             lv |-> [acc.lv EXCEPT ![i] = p]]

(* One pass of the collapse loop: a leaf with a parent is replaced by the *)
(* parent, which names the character in c0_ or c1_ and drops the child.   *)
CollapseLeaf(acc, i) ==
    LET l == acc.lv[i]
        p == acc.ns[l].parent
    IN IF l = Nil \/ p = Nil THEN acc
       ELSE IF acc.ns[p].left = l
            THEN [ns |-> [acc.ns EXCEPT ![p].c0 = i, ![p].left = Nil],
                  lv |-> [acc.lv EXCEPT ![i] = p]]
            ELSE [ns |-> [acc.ns EXCEPT ![p].c1 = i, ![p].right = Nil],
                  lv |-> [acc.lv EXCEPT ![i] = p]]

(* The append loop for one character: from the root, append bit `level`  *)
(* of its code and follow it, until the child is NULL.                    *)
RECURSIVE AppendPath(_, _, _, _)
AppendPath(ns, n, code, level) ==
    IF n = Nil THEN ns
    ELSE LET b == Bit(code, level)
             next == IF b = 1 THEN ns[n].right ELSE ns[n].left
         IN AppendPath([ns EXCEPT ![n].bits = Append(@, b)], next, code, level + 1)

(* build: alphabet_num_ > 0 is assumed.  buildTreeNodes_ builds each      *)
(* node's rank directory over the bits, which the node operators below    *)
(* compute directly.                                                      *)
Build(seq) ==
    /\ ~built
    /\ LET pr == Present(seq)
           ns0 == [k \in 1..Len(pr) |-> Node(Nil, Nil, Nil, pr[k], NodeCharDefault)]
           lv0 == [c \in Chars |-> IF c \in ToSet(pr)
                                   THEN CHOOSE k \in 1..Len(pr) : pr[k] = c ELSE Nil]
       IN \E t \in Trees(ns0, 1..Len(pr)) :
            LET cm == MakeCodeMap(t.nodes, 0, 0, t.root, [c \in Chars |-> 0])
                col == FoldLeft(CollapseLeaf, [ns |-> t.nodes, lv |-> lv0],
                                [k \in 1..AlphabetNum |-> k - 1])
            IN /\ nodes' = FoldLeft(LAMBDA ns, ch : AppendPath(ns, t.root, cm[ch], 0),
                                    col.ns, seq)
               /\ root' = t.root
               /\ leaves' = col.lv
               /\ codeMap' = cm
    /\ occ' = Occ(seq)
    /\ built' = TRUE
    /\ input' = seq
    /\ UNCHANGED saved

(***************************************************************************)
(* The node's bit vector                                                   *)
(***************************************************************************)

NodeLen(n) == Len(nodes[n].bits)
NodeRank(n, pos, b) == Cardinality({k \in 1..pos : nodes[n].bits[k] = b})
NodeRank1(n, pos) == NodeRank(n, pos, 1)
NodeRank0(n, pos) == NodeRank(n, pos, 0)
NodeSelect(n, r, bit) ==
    LET b == IF bit THEN 1 ELSE 0
        hits == {k \in 1..NodeLen(n) : nodes[n].bits[k] = b /\ NodeRank(n, k - 1, b) = r}
    IN IF hits = {} THEN NotFound ELSE (CHOOSE k \in hits : TRUE) - 1

(***************************************************************************)
(* Queries                                                                 *)
(***************************************************************************)

(* length(): the root's bit count, 0 without a root.                       *)
Length == IF root = Nil THEN 0 ELSE NodeLen(root)

(* access(pos, rank): follow the bit at pos down, with pos replaced by    *)
(* its rank among equal bits, until the child is NULL.                    *)
RECURSIVE AccessFrom(_, _)
AccessFrom(n, pos) ==
    LET b == nodes[n].bits[pos + 1]
        r == NodeRank(n, pos, b)
    IN IF b = 1
       THEN IF nodes[n].right # Nil THEN AccessFrom(nodes[n].right, r)
            ELSE [c |-> nodes[n].c1, rank |-> r]
       ELSE IF nodes[n].left # Nil THEN AccessFrom(nodes[n].left, r)
            ELSE [c |-> nodes[n].c0, rank |-> r]

Access(pos) ==
    IF pos >= Length THEN [c |-> NoChar, rank |-> NotFound] ELSE AccessFrom(root, pos)

(* rank(c, pos): follow c's code down, counting its bits before pos.      *)
RECURSIVE RankFrom(_, _, _, _)
RankFrom(n, code, level, pos) ==
    IF pos = 0 THEN 0
    ELSE IF Bit(code, level) = 1
         THEN IF nodes[n].right # Nil
              THEN RankFrom(nodes[n].right, code, level + 1, NodeRank1(n, pos))
              ELSE NodeRank1(n, pos)
         ELSE IF nodes[n].left # Nil
              THEN RankFrom(nodes[n].left, code, level + 1, NodeRank0(n, pos))
              ELSE NodeRank0(n, pos)

Rank(c, pos) ==
    IF c >= AlphabetNum \/ leaves[c] = Nil THEN 0
    ELSE RankFrom(root, codeMap[c], 0, IF pos < Length THEN pos ELSE Length)

(* select(c, rank): from c's node up to the root, mapping the rank of a   *)
(* bit in a child to the position of the bit in the parent.               *)
RECURSIVE SelectUp(_, _, _)
SelectUp(n, r, bit) ==
    LET pos == NodeSelect(n, r, bit)
        p == nodes[n].parent
    IN IF p = Nil THEN pos
       ELSE IF pos = NotFound THEN NotFound
       ELSE SelectUp(p, pos, n = nodes[p].right)

Select(c, r) ==
    IF leaves[c] = Nil THEN NotFound
    ELSE SelectUp(leaves[c], r, nodes[leaves[c]].c1 = c)

(* getOcc(c): occ_[c], or occ_.back() past its end.                        *)
GetOcc(c) == IF c < OccSize THEN occ[c] ELSE occ[OccSize - 1]

(***************************************************************************)
(* intersect(ranges, thres, max_count, results)                            *)
(***************************************************************************)

(* Mutant: a range empty on the zero side is kept as an empty range.    *)
IntersectStepStrict(n, st, rg) ==
    IF st.stop THEN st
    ELSE LET rs == NodeRank1(n, rg[1])
             re == NodeRank1(n, rg[2])
             st1 == IF ~st.hz THEN st
                    ELSE IF rg[1] - rs > rg[2] - re
                    THEN IF st.zt = 0
                         THEN IF ~st.ho THEN [st EXCEPT !.stop = TRUE]
                              ELSE [st EXCEPT !.hz = FALSE]
                         ELSE [st EXCEPT !.zt = @ - 1]
                    ELSE [st EXCEPT !.zr = Append(@, <<rg[1] - rs, rg[2] - re>>)]
         IN IF st1.stop \/ ~st1.ho THEN st1
            ELSE IF rs >= re
            THEN IF st1.ot = 0
                 THEN IF ~st1.hz THEN [st1 EXCEPT !.stop = TRUE]
                      ELSE [st1 EXCEPT !.ho = FALSE]
                 ELSE [st1 EXCEPT !.ot = @ - 1]
            ELSE [st1 EXCEPT !.or = Append(@, <<rs, re>>)]

(* One pass of recursiveIntersect_'s range loop at node n.  A range empty *)
(* on the zero side uses up one of zero_thres, or, when none is left,     *)
(* rules the zero side out (and returns if the one side is already out);  *)
(* a non-empty one is mapped into the left child.  Likewise for ones.     *)
IntersectStep(n, st, rg) ==
    IF st.stop THEN st
    ELSE LET rs == NodeRank1(n, rg[1])
             re == NodeRank1(n, rg[2])
             st1 == IF ~st.hz THEN st
                    ELSE IF rg[1] - rs >= rg[2] - re
                    THEN IF st.zt = 0
                         THEN IF ~st.ho THEN [st EXCEPT !.stop = TRUE]
                              ELSE [st EXCEPT !.hz = FALSE]
                         ELSE [st EXCEPT !.zt = @ - 1]
                    ELSE [st EXCEPT !.zr = Append(@, <<rg[1] - rs, rg[2] - re>>)]
         IN IF st1.stop \/ ~st1.ho THEN st1
            ELSE IF rs >= re
            THEN IF st1.ot = 0
                 THEN IF ~st1.hz THEN [st1 EXCEPT !.stop = TRUE]
                      ELSE [st1 EXCEPT !.ho = FALSE]
                 ELSE [st1 EXCEPT !.ot = @ - 1]
            ELSE [st1 EXCEPT !.or = Append(@, <<rs, re>>)]

(* recursiveIntersect_: stop at max_count results; split the ranges; then *)
(* the zero side (left child, or its character c0_), and, if there is    *)
(* still room, the one side.                                              *)
RECURSIVE RecursiveIntersect(_, _, _, _, _)
RecursiveIntersect(n, ranges, thres, maxCount, results) ==
    IF Len(results) >= maxCount THEN results
    ELSE LET st == FoldLeft(LAMBDA s, rg : IntersectStep(n, s, rg),
                            [zr |-> <<>>, or |-> <<>>, zt |-> thres, ot |-> thres,
                             hz |-> TRUE, ho |-> TRUE, stop |-> FALSE],
                            ranges)
             r0 == IF ~st.hz THEN results
                   ELSE IF nodes[n].left # Nil
                   THEN RecursiveIntersect(nodes[n].left, st.zr, st.zt, maxCount, results)
                   ELSE Append(results, nodes[n].c0)
         IN IF st.stop THEN results
            ELSE IF Len(r0) >= maxCount \/ ~st.ho THEN r0
            ELSE IF nodes[n].right # Nil
            THEN RecursiveIntersect(nodes[n].right, st.or, st.ot, maxCount, r0)
            ELSE Append(r0, nodes[n].c1)

(* intersect: nothing if thres exceeds the number of ranges; a thres t > 0 *)
(* becomes the number of ranges a character may miss.                     *)
Intersect(ranges, thres, maxCount) ==
    IF thres > Len(ranges) THEN <<>>
    ELSE RecursiveIntersect(root, ranges,
                            IF thres > 0 THEN Len(ranges) - thres ELSE thres,
                            maxCount, <<>>)

(***************************************************************************)
(* save and load                                                           *)
(***************************************************************************)

(* saveTree_: the node (its bits, c0_, c1_), a flag with bit 0 for a left *)
(* child and bit 1 for a right child, then the children in that order.    *)
RECURSIVE SaveTree(_)
SaveTree(n) ==
    <<[bits |-> nodes[n].bits, c0 |-> nodes[n].c0, c1 |-> nodes[n].c1,
       flag |-> (IF nodes[n].left # Nil THEN 1 ELSE 0)
                + (IF nodes[n].right # Nil THEN 2 ELSE 0)]>>
    \o (IF nodes[n].left # Nil THEN SaveTree(nodes[n].left) ELSE <<>>)
    \o (IF nodes[n].right # Nil THEN SaveTree(nodes[n].right) ELSE <<>>)

(* save: occ_, code_map_, a root flag and the tree.                        *)
Save ==
    /\ built
    /\ saved' = [occ |-> occ, codeMap |-> codeMap, flag |-> IF root # Nil THEN 1 ELSE 0,
                 tree |-> IF root # Nil THEN SaveTree(root) ELSE <<>>]
    /\ UNCHANGED <<nodes, root, leaves, codeMap, occ, built, input>>

(* leaves_[c] = node.  A c0_ or c1_ outside leaves_ would be a write past *)
(* its end, which the model drops; with a default character inside the    *)
(* alphabet every write lands, and a leaf's unused c1_ points leaves_ of   *)
(* that character at the leaf.                                             *)
SetLeaf(lv, c, n) == IF c \in DOMAIN lv THEN [lv EXCEPT ![c] = n] ELSE lv

(* loadTree_: read the node, then for each side either a new child (its   *)
(* parent_ set) read recursively, or leaves_[c0_] resp. leaves_[c1_] set  *)
(* to this node.  acc holds the arena, leaves_ and the read position.     *)
RECURSIVE LoadTree(_, _, _)
LoadTree(tree, parent, acc) ==
    LET rec == tree[acc.pos]
        me == Len(acc.ns) + 1
        a0 == [ns |-> Append(acc.ns, [left |-> Nil, right |-> Nil, parent |-> parent,
                                      c0 |-> rec.c0, c1 |-> rec.c1, bits |-> rec.bits]),
               lv |-> acc.lv, pos |-> acc.pos + 1]
        a1 == IF rec.flag % 2 = 1
              THEN [LoadTree(tree, me, a0) EXCEPT !.ns[me].left = Len(a0.ns) + 1]
              ELSE [a0 EXCEPT !.lv = SetLeaf(@, rec.c0, me)]
    IN IF (rec.flag \div 2) % 2 = 1
       THEN [LoadTree(tree, me, a1) EXCEPT !.ns[me].right = Len(a1.ns) + 1]
       ELSE [a1 EXCEPT !.lv = SetLeaf(@, rec.c1, me)]

(* load into this object: the old tree is deleted; occ_ and code_map_ are *)
(* read back; leaves_ is resized, not cleared, and the tree read.          *)
Load ==
    /\ saved # <<>>
    /\ occ' = saved.occ
    /\ codeMap' = saved.codeMap
    /\ IF saved.flag # 0
       THEN LET t == LoadTree(saved.tree, Nil, [ns |-> <<>>, lv |-> leaves, pos |-> 1])
            IN /\ nodes' = t.ns
               /\ root' = 1
               /\ leaves' = t.lv
       ELSE UNCHANGED <<nodes, root, leaves>>
    /\ UNCHANGED <<built, saved, input>>

(***************************************************************************)
(* The specification                                                       *)
(***************************************************************************)

(* The constructor: no tree.                                               *)
Init ==
    /\ nodes = <<>>
    /\ root = Nil
    /\ leaves = [c \in Chars |-> Nil]
    /\ codeMap = [c \in Chars |-> 0]
    /\ occ = [i \in 0..(OccSize - 1) |-> 0]
    /\ built = FALSE
    /\ saved = <<>>
    /\ input = <<>>

Next ==
    \/ \E seq \in Inputs : Build(seq)
    \/ Save
    \/ Load

Spec == Init /\ [][Next]_vars

(***************************************************************************)
(* Properties                                                              *)
(***************************************************************************)

NodeIdx == 0..Len(nodes)

TypeOK ==
    /\ \A n \in DOMAIN nodes :
          /\ {nodes[n].left, nodes[n].right, nodes[n].parent} \subseteq NodeIdx
          /\ nodes[n].bits \in Seq({0, 1})
    /\ root \in NodeIdx
    /\ leaves \in [Chars -> NodeIdx]
    /\ codeMap \in [Chars -> Nat]
    /\ occ \in [0..(OccSize - 1) -> 0..MaxLen]
    /\ built \in BOOLEAN
    /\ input \in Seq(Chars)

(* What the queries should answer for the sequence built.                  *)
Count(c, pos) == Cardinality({k \in 1..pos : input[k] = c})
NthPos(c, r) ==
    LET hits == {k \in DOMAIN input : input[k] = c /\ Count(c, k - 1) = r}
    IN IF hits = {} THEN NotFound ELSE (CHOOSE k \in hits : TRUE) - 1

(* access(pos, rank) returns the character at pos and its rank among the  *)
(* equal characters before pos, and -1 past the end, in every tree the    *)
(* address-ordered merges, the leaf collapse and a save/load can give.    *)
AccessCorrect ==
    built =>
      /\ Length = Len(input)
      /\ \A pos \in 0..Length :
            Access(pos) = IF pos < Len(input)
                          THEN [c |-> input[pos + 1], rank |-> Count(input[pos + 1], pos)]
                          ELSE [c |-> NoChar, rank |-> NotFound]

(* rank(c, pos) counts c before pos, 0 for characters outside the         *)
(* alphabet or absent, pos clamped to length().                            *)
RankCorrect ==
    built =>
      \A c \in 0..AlphabetNum, pos \in 0..(Len(input) + 1) :
         Rank(c, pos) = Count(c, IF pos < Len(input) THEN pos ELSE Len(input))

(* getOcc(c) counts the characters below c, also for c past occ_'s end:  *)
(* build's counts shifted by one and summed, kept by save and load.       *)
OccCorrect ==
    built =>
      \A c \in 0..OccSize :
         GetOcc(c) = Cardinality({k \in DOMAIN input : input[k] < c})

(* select(c, r) is the position of the c of rank r, or -1 when c occurs   *)
(* at most r times: the walk up from c's node starts on the side that    *)
(* holds c and turns on the side of each child it leaves.                 *)
SelectCorrect ==
    built =>
      \A c \in Chars, r \in 0..Len(input) : Select(c, r) = NthPos(c, r)

(* intersect(ranges, thres, max_count) returns distinct characters, each  *)
(* occurring in at least thres of the ranges (all of them for thres 0),   *)
(* as many as there are up to max_count: the thresholds carried down the  *)
(* tree and the early returns lose and invent none.  (An empty list of    *)
(* ranges is left out: on a tree whose root is a lone leaf it also yields *)
(* the c1_ no constructor set.)                                            *)
Ranges == {<<s, e>> \in (0..Len(input)) \X (0..Len(input)) : s <= e}
InRange(c, rg) == \E k \in (rg[1] + 1)..rg[2] : input[k] = c
Qualifying(ranges, thres) ==
    IF thres > Len(ranges) THEN {}
    ELSE {c \in ToSet(input) :
            Cardinality({i \in DOMAIN ranges : InRange(c, ranges[i])})
              >= IF thres > 0 THEN thres ELSE Len(ranges)}

IntersectCorrect ==
    built =>
      \A ranges \in BoundedSeq(Ranges, 2) \ {<<>>}, thres \in 0..3, maxCount \in {1, AlphabetNum} :
         LET res == Intersect(ranges, thres, maxCount)
             q == Qualifying(ranges, thres)
         IN /\ ToSet(res) \subseteq q
            /\ Len(res) = IF Cardinality(q) < maxCount THEN Cardinality(q) ELSE maxCount
            /\ Cardinality(ToSet(res)) = Len(res)

====
