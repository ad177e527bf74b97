-------------------------- MODULE MC_BTreeIndexer --------------------------
(* BTreeIndexer with two keys, three doc ids, a three-entry cache and two  *)
(* concurrent count() callers.                                             *)
EXTENDS BTreeIndexer, TLC

MCKeys == {1, 2}
MCDocs == {1, 2, 3}

(* count() callers are interchangeable.                                    *)
ReaderSymmetry == Permutations(Readers)

=============================================================================
