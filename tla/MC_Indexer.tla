----------------------------- MODULE MC_Indexer -----------------------------
(* Indexer instantiated for TLC: documents and threads as model values.    *)
EXTENDS Indexer, TLC

SearcherSymmetry == Permutations(Searchers)

=============================================================================
