# TLA+ models of izenelib

This directory holds TLA+ models of parts of izenelib (the tree under `src/`),
together with TLC configurations that check them. `PROJECT.json` lists the
components, the runs, the mutants, the source lines each definition models,
the findings and the hazards.

## The system and its parts

izenelib is a C++ library of index and storage structures. The parts in this
source tree, and how they fit together:

* **Indexer** (`Indexer.cpp`) is the facade. Under `indexMutex_` it hands
  insert, update and remove calls to the **IndexWriter**. It also reopens the
  **IndexReader** lazily when a `dirty_` flag is set.
* **IndexWriter** (`IndexWriter.cpp`) buffers documents into an in-memory
  *barrel*. When the barrel is full it seals the barrel and opens a new one.
  It records each barrel in the manifest **BarrelsInfo** (`BarrelInfo.h`),
  together with each collection's base doc id. Depending on the merge
  strategy, it hands sealed barrels to an index merger, either synchronously
  or on a background merge thread. `optimizeIndex` merges everything into one
  barrel.
* **BTreeIndexer** (`rtype/BTreeIndexer.h`) is the property range index.
  It maps key to doc ids, stored as a db table behind a write cache. Queries
  merge the two. `count()` caches its answer.
* **BTreeIndex** (`BTreeIndex.cpp`) is an older dispatch front-end over
  per-type B-tree indexes.
* **UniqueIDGenerator** (`IDGenerator.h`) maps name strings to fresh numeric
  ids, persistently.
* **sdb_storage_mm** (`sdb_storage_mm.h`) is a key/value store. Values are
  appended, lzo-compressed, to a memory-mapped file that grows one `mapSize`
  at a time. A key hash (`sdb_hash`, not in the tree) maps each key to its
  record's position, an `mm_header` at the front of the file keeps the next
  free offset, and `binCache_` caches records by position.
* **Term iterators** (`TermIterator.cpp`) are the cursors a reader and
  the merger walk over one field's vocabulary: `VocIterator` over a loaded
  term table, `DiskTermIterator` over the `.voc` file, and
  `InMemoryTermIterator` over the in-memory barrel's posting map.
* **OrderedVector** (`OrderedVector.h`) keeps an ascending list of
  uint32 values as the vbyte codes of their gaps, in memory-pool chunks.
  Its forward iterator decodes them through a small `buffer_` that
  `refill()` loads from the chunks.
* Storage and utilities: the sequence-file codec (`SeqFileDef.hpp`), the
  `BufferedInput`, succinct bit vectors and
  wavelet trees, and the cluster router `ZooKeeperRouter`.

## Modules

| Module | Models | State ↔ code |
|---|---|---|
| `IndexWriter` | IndexWriter over BarrelsInfo, synchronous merging | `barrels` = `barrelInfos` (name, docs, baseDocIDMap, hasUpdateDocs, in memory?); `counter` = `nBarrelCounter`; `writerOpen` = `pIndexBarrelWriter_ != NULL`; `cur` = `pCurBarrelInfo_`; `baseMap` = `baseDocIDMap_`; `merger` = `pIndexMerger_`; `filter` = the reader's delete filter (`None` = NULL); `indexed` = history of the documents handed in |
| `BTreeAbstract` | what a property index promises | `index`: key → set of doc ids; `op`: the last call |
| `BTreeIndexer` | `BTreeIndexer<KeyType>` | `db` = `db_` (key → vector in storage order); `cache` = `cache_` (per key, the log of (doc, add?)); `countInCache`, `countHasModify`; `pc` = where each `count()` caller is |
| `MC_BTreeIndexer` | instantiation of `BTreeIndexer` for its violation run | small key and doc sets, reader symmetry |
| `UniqueIDGenerator` | `UniqueIDGenerator` | `store` = `idFinder_`; `newID` = `newID_` (W-bit, wrapping); `issued`/`lastIssued` = history: the ids handed out, and the id the last step handed out |
| `Indexer` | the `Indexer` facade across threads: `insertDocument`, the unguarded `flush`, `getIndexReader` | `writer` = `pIndexBarrelWriter_` (absent = NULL, open, closed by flush but not yet deleted); `memDocs` = documents in the in-memory barrel; `sealed` = documents in barrels on the manifest; `dirty` = `dirty_`; `readerView` = what the reader's reopened snapshot holds; `indexLock` = holder of `indexMutex_`; `pc`/`doc` = where each thread is and what it inserts; `crashed` = a NULL barrel writer was dereferenced; `done`, `published`, `seenPub` = history |
| `MC_Indexer` | instantiation of `Indexer` for its violation run | model values for threads and documents |
| `DBitV` | the rank/select bit vector `dbitv.cpp` | `len_`, `one_count_`, `select_one_inds_`, `select_zero_inds_` as in the code; `super_blocks_` = the memory behind the pointer (superblocks of `rank_`, `subrank_`, `bits_`), larger than any allocation so writes past it are kept; `alloc` = superblocks the last `reset()` allocated; `written` = indices `build` wrote; `built`/`input` = history |
| `SeqFileDef` | `CompressSeqFileSerializeHandler` and the two cache handlers of `SeqFileDef.hpp` | `objCache`/`charCache` = each handler's `cache_`, `cacheSize_`, `maxCacheId_` (a char slot is the `(char*, len)` pair, the bytes as a sequence); `inited` = `initCache_` ran; `lastGet` = the object handler's last `getInCache` with the char slot for the same id; `stored` = history |
| `WaveletTreeHuffman` | `wavelet_tree_huffman.hpp` | `nodes` = an arena of `WaveletTreeNode`s (children, parent, `c0_`, `c1_`, bits), pointers as indices; `root` = `root_`; `leaves` = `leaves_`; `codeMap` = `code_map_`; `occ` = `occ_`; `saved` = the stream `save` wrote; `built`/`input` = history |
| `SdbStorageMM` | `sdb_storage_mm` with `memory_map` and `mm_header` | `isOpen_`, `ssh_` (the in-memory `mm_header`: `idx`, `mapSize`, `offset`, `tsz`), `mms_` (the mapping's `mapSize_` and `offSet_`), `keyHash_`, `binCache_` (position → what `readValue_` read) as in the code; `fileHeader`/`fileBody` = the file (header, then words: zero, a record's length, a word of its image); `keyHashDisk` = what the key hash last flushed; `pending` = each caller between its key-hash update and `appendValue_`; `values`/`valuesDisk`/`appends` = history |
| `TermIterator` | `VocIterator`, `DiskTermIterator`, `InMemoryTermIterator` | `itKind` = which iterator exists; `vocTable` = the term table / the posting map's keys; `chunked` = postings holding a chunk; `vocFile`/`vocIn` = the `.voc` records and descriptor, and `pVocInput_`'s position; `nTermCount_`, `nCurPos_`, `nBuffSize_` as in the code; `postingIt` = `postingIterator_`; `pCurTerm_`, `pCurTermInfo_`, `pCurTermPosting_` = the term id, and the docPointer the TermInfo and the posting are at; `yielded`/`lastOp` = history |
| `OrderedVector` | `OrderedVector` and its `vector_iterator` | `ovValues` = the values pushed back (history); `ovData` = the bytes in the chunks, `nTotalUsed_` = its length; `ovBegun` = `begin()` was called; `ovIt` = the iterator's fields (`vector_` set or NULL, `data_len_`, `curr_val_`, `buffer_`, `buffer_len_`, `buffer_start_`, `buffer_pos_`, the chunk cursor as a stream offset, and whether `read_internal` overran `buffer_`); `ovSeen` = the values dereferenced (history) |
| `MC_Writers` | `IndexWriter` (inserts only; inserts, updates and optimize) and `Indexer`, side by side | `part` = which instance this behaviour runs; the two IndexWriter instances' variables renamed `i…`/`u…` |
| `MC_Structures` | `DBitV`, `SeqFileDef`, `WaveletTreeHuffman`, `SdbStorageMM`, `UniqueIDGenerator`, `TermIterator` and `OrderedVector`, side by side | `part` = which structure this behaviour runs; the instances' variables renamed where they clash |
| `MC_Checks` | `MC_Writers`, `MC_Structures` and `BTreeIndexer`, side by side, for the one pass run | `part` = which group this behaviour runs; the groups' own `part` renamed `wPart`/`sPart`, the B-tree's `pc`/`lastOp` renamed `bPc`/`bLastOp` |

Actions follow the code's calls, and each call is a single step.

* **IndexWriter.** `AddDocument` is the whole of `addDocument`, including
  `createBarrelWriter`, `createMerger`, `flushDocuments`, `indexDocument`,
  `mergeUpdatedBarrel` and `mergeAndWriteCachedIndex`. `Flush` is
  `flush()`. `OptimizeIndex` is `optimizeIndex()` with `mergeIndex()`.
  These are atomic because `Indexer` calls them under `indexMutex_`, with
  one exception: `Indexer::flush` does not take the mutex (see the hazards).
* **BTreeIndexer.** `Add`, `Remove_` and `Flush` hold `mutex_` exclusively,
  so each is one step. `count()` holds `mutex_` shared and can run in
  several readers at once, so it is split at `count_mutex_` into three
  steps: `CountBegin`, `CountRecompute` and `CountReturn`.
* **Indexer.** `insertDocument` holds `indexMutex_`, but `flush` does not,
  so both are split where they can interleave. `InsertLock` takes the mutex.
  `InsertCheck` is `addDocument`'s `if (!pIndexBarrelWriter_)
  createBarrelWriter`. `InsertIndex` is the rest of `addDocument` and
  `indexDocument`: it crashes on a NULL writer, loses the document into a
  closed writer, or caches it, sealing a full barrel first. `FlushSeal` is
  `IndexWriter::flush` up to the manifest write, `FlushDelete` deletes the
  writer, and `FlushSetDirty` is the rest of `Indexer::flush` with
  `setDirty`. `getIndexReader` is `GetReaderBegin` (the unlocked test of
  `dirty_`), `GetReaderReopen` (re-test and reopen under `mutex_`) and
  `GetReaderReturn`.
* **DBitV.** `Build` is the whole of `build`: the allocation sized from the
  member `len_`, `buildBlock_` over every full word (`BuildBlock`, with the
  superblock rollover in `LoopBlock`), the masked partial word and the closing
  select entries. `Clear` is `clear()`. The queries (`Lookup`, `LookupRank`,
  `Rank0`, `Rank1`, `Select0`, `Select1` with their binary searches and
  subrank scans) are operators over the state. The word width is scaled
  (`kBlockSize` 2, `kBlockPerSuperBlock` 2, `kSelectBlockSize` 3), and the
  9-bit `subrank_` fields are kept. The literal 64 of `select0` is
  `BlockSize`. `SuccinctUtils::popcount`/`selectBlock` and the `SuperBlock`
  header are not in the tree. They are given their plain meaning, and fresh
  superblocks are assumed zeroed.
* **SeqFileDef.** `Serialize`/`Deserialize` are the codec as operators:
  count cap, sort, gaps, vbyte bytes, the `uint16_t` read position and the
  running sum over `vdata`. The handlers' calls are actions, fed to both
  handlers alike, as their owner `SeqFile` (not in the tree) would:
  `SetCacheSize` and `InitCache` once, in that order, then `InsertToCache`
  and `GetInCache`. The char handler's `getInCache` does not compile (it
  calls a three-argument `serialize`), so its slots are checked by
  deserializing them.
* **WaveletTreeHuffman.** `Build` is the whole of `build`. It counts, makes
  the leaves and merges the queue in every order the node addresses can give
  (`Trees`). It then runs `makeCodeMap_`, the leaf collapse and the bit
  appends. `Save`/`Load` write and read the preorder stream. `access`,
  `rank`, `select`, `getOcc` and `intersect` are operators. `WaveletTreeNode`
  is not in the tree, so its bit vector (`append`, `rank0/1`, `access`,
  `select`) is given its plain meaning. The characters its constructors leave
  in `c0_`/`c1_` are the constant `NodeCharDefault`.
* **SdbStorageMM.** Sizes are words of `sizeof(size_t)`: a record is one
  length word and `CompSize[v]` image words, and the header is five. `lzo`
  is an opaque codec, so an image decodes to its value. `insert` and
  `update` are two steps, because the key hash takes `ssh_.tsz` outside
  `fileLock_`. `Insert`/`Update` (`Reserve`) put the key in the hash.
  `AppendValue` is the whole of `appendValue_`: the growth test,
  `expandFile_`, the remap, the two `memory_map::write`s (`MmWrite`, which
  does nothing past `mapSize_`), the `tsz`/`offset` advance and
  `syncHeader_`. `Get` is `find`/`get` with `readValue_`, which fills
  `binCache_` on a miss. `Del`, `SetMapSize`, `Open` (both branches),
  `Commit` (`commit`/`flush`), `Close` and `Destroy` (the destructor, then a
  new object) follow the code. `Crash` is the process dying: the mapped
  file and what the key hash last flushed survive, everything in memory is
  lost. The key hash persists on `commit`/`flush`, as the comments at
  l.407 and l.413 say.
* **TermIterator.** Each constructor is one action (`NewVocIterator`,
  `NewDiskTermIterator` with its seeks and descriptor reads,
  `NewInMemoryTermIterator`), as is each `next()` (`VocNext`, `DiskNext`,
  `MemNext` with its skip over postings without chunks), `termPosting()`
  (`TermPosting`: create the posting once, `reset()` it afterwards),
  `setBuffer` and the destructors (`DeleteIterator`). A term's TermInfo is
  its docPointer; `TermInfo`, `OnDiskPosting` and the readers are not in the
  tree. Incrementing `end()` of an empty posting map is undefined, so the
  in-memory iterator is built over non-empty maps only.
* **OrderedVector.** `Fill` is a new vector filled by `push_back`; its
  bytes are the vbyte codes of the gaps (`add_v_data` is not in the tree).
  `Begin` is `begin()`: the constructor and its `increment()`, with the
  uninitialized `buffer_[0]` a choice of its high bit. `Next_` is `++it`
  and `*it` while the iterator is not `end()`. `Destroy` is the
  destructor. `Increment`, `ReadVint32`, `ReadByte` and `Refill` are the
  private methods as written, built with NDEBUG. When `buffer_start_` has
  passed `data_len_`, the `uint32_t` length `refill()` computes wraps, and
  the iterator records the overrun of `buffer_`.
* **UniqueIDGenerator.** `conv` holds `mutex_`, so each overload is one
  step (`ConvInsert`, `ConvUpdate`). `Restart` reruns the constructor over
  the persisted table.

Some of the code these components call is not in the tree: IndexMerger,
BarrelsInfo.cpp, IndexReader's delete filter and InMemoryBTreeCache. These
are modelled from `spec.md` and marked `spec_modelled` in the map:

* a merge replaces two or more sealed barrels with one barrel appended under
  a fresh name;
* `newBarrel`/`addBarrel` append to the manifest;
* the cache is a per-key log with a capacity.

## Runs

The pass run checks safety and refinement only. No property is about
liveness, so no fairness is assumed: a thread may stop between any two
steps, as a descheduled thread can. The merged run has symmetry on the
B-tree's `count()` callers, which are interchangeable; its other model
values (writers, searchers, names) are not declared symmetric.

| Run | Expect | What it shows |
|---|---|---|
| `checks` | pass | One state space (`MC_Checks`) in which a behaviour runs one of three groups. **Writers:** with inserts into one collection, every sealed barrel's base doc id is exactly its least doc id, and the writer's current barrel is always the last one and in memory; with inserts, updates and `optimizeIndex`, each optimize leaves at most one sealed barrel; in the facade, `getIndexReader` returns a reader holding every document that a completed `flush` had published with `setDirty` before the call began, even when two searchers and a flush interleave between the unlocked and locked tests of `dirty_`. **Structures:** `DBitV`'s `lookup`, `rank0/1` and `select0/1` agree with the bits for every vector of up to 9 bits; every char-cache slot of the sequence file deserializes to the ids last inserted; the wavelet tree's `access`, `getOcc` and `intersect` answer as the sequence says, for every tree shape the merges can give and after a save/load round trip; the mapped store, with one caller, reads back the value last stored for every key across growth, commits, crashes and reopenings; the table and on-disk term iterators step onto every term in order; the `OrderedVector` iterator dereferences the values pushed back, in order, across refills. **B-tree:** `BTreeIndexer` refines `BTreeAbstract` under key ↦ `getValue_(key)` (every add/remove takes effect in its own call, and cache folds lose and invent nothing), and concurrent `count()` callers return the current number of non-empty keys. (423097 states, about 3 minutes on two workers.) |
| `idgen_wrap` | violation | `conv` increments `newID_` before its bound check and throws without restoring it (l.253-259). Callers that go on after `OUT_OF_BOUND` drive `newID_` past `maxID_` until it wraps: with 4-bit ids in [1, 13], 13 and 14 throw, 15 is stored, and then 0 and 1 are handed out again. |
| `wavelet_select_default` | violation | `select` starts on the side `c1_ == c` picks (l.341). A node whose `c1_` no leaf set keeps the constructor's default; with a default inside the alphabet, right after building `<<0>>`, `select(0, 0)` returns -1. |
| `writer_optimize_basemap` | violation | `mergeIndex` does not clear `baseDocIDMap_`, so the barrel it opens later gets the previous barrel's base. |
| `writer_double_optimize` | violation | A second `optimizeIndex` with an empty in-memory barrel sets `pCurBarrelInfo_` to NULL but keeps the barrel writer. The next insert then dereferences NULL at l.373. |
| `writer_update_filter` | violation | `mergeUpdatedBarrel` can run after the delete filter was deleted. It then calls `getMaxSet()` on NULL. |
| `btree_between_maxdoc` | violation | With an empty cache, `getValueBetween(low, high, maxDoc)` stops at the first doc id ≥ maxDoc of an unsorted vector and drops smaller ones (l.191). |
| `ovec_refill_assert` | violation | `OrderedVector::vector_iterator::refill()` asserts `buffer_start_ < data_len_` (l.129). `begin()` on an empty vector calls `increment()`, which reads a byte and refills with `data_len_` 0, so the assert fails at once; on a non-empty vector the `++` that reaches `end()` fails it the same way. |
| `mem_terms_skip_first` | violation | `InMemoryTermIterator::next()` increments `postingIterator_` before reading it (l.246), and the constructor leaves it at `begin()`. On a posting map whose one posting holds a chunk, `next()` returns false having stepped onto nothing, so the iterator does not step onto every posting with a chunk. |
| `sdb_get_during_insert` | violation | With two callers, `insert` has put the key in the hash at `tsz` (l.203) but not yet appended its record. A `get` of that key from the other caller reads the unwritten words and `readValue_` caches them at that position (l.522). Once the record is written, the key still reads the cached garbage. |
| `dbitv_build_alloc` | violation | `DBitV::build` sizes `super_blocks_` from the member `len_` (0 before the first build) rather than the `len` argument (l.23). A vector longer than one superblock is written past the single superblock allocated. |
| `indexer_flush_race` | violation | `Indexer::flush` takes no `indexMutex_`. It can close the barrel writer after `addDocument` has tested it and before `indexDocument` uses it. The inserted document then goes into a closed writer that flush deletes, so it is lost. |

Each pass-run property has a mutant in `PROJECT.json`: a plausible bug in the
modelled code that TLC catches with that property. Examples:

* a flush that stamps base 0;
* a fold that drops the last logged entry;
* an `add` that does not mark the count stale;
* a `remove` that does not wait for `count()` callers to release `mutex_`;
* a superblock rollover that does not carry `rank_`;
* a char-cache insert that does not free the old bytes;
* `++occ_[c]` in place of `++occ_[c + 1]` in build;
* an `appendValue_` that does not copy the header into the file;
* a `VocIterator::next` that stops one term early.

## Bounds

* **IndexWriter.** MemCap 2 lets a barrel be sealed as soon as it holds one
  or two documents. Both "full" outcomes are explored, because the real
  memory test depends on document size. Barrel names are bounded by
  `MaxBarrels`, and actions that would need another name are disabled.
  Together these give several seals, merges and optimizes per behaviour.
  The updates run keeps MaxDocId 2 and MaxBarrels 5: updates and optimize
  multiply the states.
* **BTreeIndexer.** Capacity 3 lets a fold happen both inside `add`/`remove`
  and in `flush`, with logs that mix add and remove of the same doc. Two
  readers are enough to interleave the double-checked count.
* **Indexer.** Two writer threads are needed: one inserts while the other
  flushes, so an insert meets the writer absent, open and closed. Two
  searchers interleave the double-checked reopen. Two documents let one be
  flushed and another be in memory. A crashed process is a terminal state,
  so `checks` and `indexer_flush_race` set `CHECK_DEADLOCK FALSE`. Every state that has not crashed
  has an enabled step.
* **UniqueIDGenerator.** W = 4 gives 16 ids, and the range [1, 13] leaves
  two values above `maxID_` before the wrap. Three names with updates use
  the range up in 13 calls, and nothing bounds the calls after an
  exception, so the wrap is reached (run `idgen_wrap`).

* **DBitV.** 9 bits at 2 bits a word and 2 words a superblock span five
  superblocks, full and partial words, and two or more select entries of
  each kind. This is 1024 bit vectors.
* **SeqFileDef.** The values {0, 130, 20000} need one, two and three vbyte
  bytes, and a gap of 0 arises from duplicates. Vectors of up to 2 values
  and cache sizes 1 and 2 reach an empty insert over a full slot and a
  lookup of an id never inserted.
* **WaveletTreeHuffman.** With 3 characters, trees have depth 2. They have
  leaves folded on both sides, an inner node beside a leaf, and the lone-leaf
  root. With sequences of up to 4, a character repeats inside a
  3-character tree.
* **SdbStorageMM.** Maps of 8 words behind a 5-word header, and images of
  1 and 3 words. Three inserts/updates (`MaxAppends`) grow the file twice,
  once right on the first append. Two keys let one key's record sit between
  another's. The pass run has one caller and one map size; the violation
  run adds a second caller, which is all the race needs.
* **TermIterator.** Vocabularies are every subset of three term ids, so
  they are empty, single and several terms long. Every subset of them may
  hold chunks in memory: a map whose first, middle or last posting is
  empty.
* **OrderedVector.** Vectors of up to three of {0, 130, 20000}: gaps of
  0, 130, 19870 and 20000 take one, two and three bytes. A 2-byte
  `buffer_` (`BufCap`, for `CHUNK_ALLOC_LOWER_LIMIT`, whose header is not
  in the tree) splits codes between refills and ends the data both on and
  off a buffer boundary.
* **MC_Writers.** The inserts instance keeps MaxDocId 6 and 8 barrel
  names; the updates instance MaxDocId 2 and 5 names. The facade has two
  writers, two searchers and two documents. The instances share no state,
  so the state space is the sum of theirs.
* **MC_Structures.** The seven structures share no state. A behaviour picks
  one and runs it alone, so the state space is the sum of theirs.
* **MC_Checks.** The same holds one level up: the writing side, the
  structures and the B-tree share no state, so the one pass run costs the
  sum of the three. Each state predicate is evaluated on its own group only,
  and the action properties are guarded by the group, which leaves their
  meaning unchanged (the other groups' steps leave those variables alone).
* **Wavelet default character.** `NodeCharDefault` is 0 in every run, a
  character of the alphabet. The constructor that sets it is not in the
  tree, and nothing in the code keeps it outside the alphabet.

## Not modelled

The number of runs is capped, so a new component needs a run slot. That
means combining its checks into an existing configuration or retiring a
violation run. Violation runs retired so far, each kept as a hazard in
`PROJECT.json`:

* the in-memory update order, because spec.md 9 calls `has_update_docs`
  informative only;
* the base doc id recorded early with two collections (IndexWriter.cpp:390).

The pass runs of the writing side, the structures and the B-tree were
folded into `MC_Checks`, which made room for the name-id wrap and the
wavelet select runs.

* **Wavelet rank after load.** `loadTree_` sets `leaves_[c1_]` for every
  node without a right child, also a lone leaf whose `c1_` only the
  constructor set (l.1177). After a save and load of a one-character text,
  `rank(d, pos)` of the absent default character `d` returns `pos`:
  `WaveletTreeHuffman!RankCorrect` states it and TLC violates it, but no run
  slot is left for it, so rank is checked by no run. `build` is taken once
  per object: a second build adds to the old `occ_` prefix sums (l.121-125),
  and no caller in the tree builds twice.
* **Name-id recovery.** `Restart` recomputes `newID_` from the stored ids.
  Since callers may go on after `OUT_OF_BOUND`, `NeverReissued` fails by the
  wrap, and no passing run can check the recovery alone.
* **BTreeIndexer `add` of a held doc id.** `Add` keeps the callers' guard
  that a key does not already hold the doc id: without it the db vectors
  grow without bound, and with them the state space. A fold pushing a
  second copy is therefore not reached.

* **sdb_storage_mm, rest.** Reopening an existing file after a smaller
  `setMapSize` makes appends fail silently (l.370). An image that does not
  fit in one more map fails the same way (l.484). Both break
  `ReadsLastStored`, and TLC shows the first in six steps when the map sizes
  differ. The pass run keeps one map size and images that fit, and no run
  slot is left for a violation run. The cursor calls (`search`,
  `get_first_locn`, `get(locn)`, `seq`) only forward to the key hash, which
  is not in the tree. `maxdatasize` and the lzo work buffers size scratch
  space only; their overflow for tiny values is a hazard.

* **Indexer, rest.** `updateDocument`/`removeDocument` take the same mutex
  as insert and add nothing to the race. `optimizeIndex` is unguarded like
  `flush` (hazard Indexer.cpp:305), but its merge is one atomic step in the
  IndexWriter module. Queries holding `pIndexReader_` across a reopen need
  the reader internals, which are not in the tree.
* **Background merge thread** (`IndexMergeManager`, standalone merger).
  `IndexMergeManager` is not in the tree, so when its thread takes and
  appends barrels is unknown. That it can append after the writer's barrel,
  so that `flush` seals the wrong `getLastBarrel()` (IndexWriter.cpp:113), is
  a hazard. The synchronous configuration is modelled.
* **BarrelsInfo.** Its method bodies (`BarrelsInfo.cpp`) are not in the tree.
  The inline `BarrelInfo` accessors are plain field reads and writes, which
  the IndexWriter actions already perform.
* **Sequence-file codec, limits.** The heap overflow for values ≥ 2^28
  (5 vbyte bytes against a 4-byte-per-value buffer, l.115) and the
  `uint16_t` wrap it leads to are hazards. `Serialize` keeps `alloc`, so a
  violation run would only need a value of 2^28 in `Values`; all twelve
  run slots are taken by findings and pass runs this project would not
  retire for it.
* **Term iterators and OrderedVector, rest.** The in-memory term
  iterator's skipped first posting (l.246) and the OrderedVector iterator's
  `refill()` assert (l.129) are violation runs. On the paths that do not
  overrun, `IteratesPushedValues` shows the OrderedVector values come back
  in order. The posting classes, the readers that call `termPosting()`,
  and `push_back`, `add_v_data`, `add_chunk` and `read_internal` are not in
  the tree, so chunk allocation is not modelled.
* **BTreeIndex** (`BTreeIndex.cpp`). Not modelled, because this file is
  not part of a build of this tree. Its header `BTreeIndex.h` is not in the
  tree. The class it defines, a non-template `BTreeIndexer` with static
  per-type indexers, conflicts with `template <class KeyType> class
  BTreeIndexer` in `rtype/BTreeIndexer.h`, which is what `Indexer` uses. The
  destructor's brace at l.62 is never closed, so the following member
  definitions would nest inside it. A model would have to invent the
  declarations the missing header makes. Its defects are recorded as a
  hazard: `getValueNotIn` erases `find()`'s result even when it is `end()`
  (l.140), and `getValueBetween` binds a visitor it never runs.
* **BTreeIndexer queries.** The BitVector range queries
  (`getValueBetween/Less/LessEqual/Great/GreatEqual`, `seek`) and
  `getValue(vector)` each scan the merged view that `getValue_` gives, so a
  model of them would only restate the abstract map. Only
  `getValueBetween(low, high, maxDoc)` is modelled, because its empty-cache
  branch reads the db vectors themselves. `getValueStart/End/SubString` are
  substring matching over key text.
* **ZooKeeperRouter** (`ZooKeeperRouter.cpp`). Not modelled. Its own
  header `ZooKeeperRouter.hpp`, and `Sf1Topology.hpp`, `Sf1Watcher.hpp` and
  the ZooKeeper client it drives, are not in the tree. What a watcher
  event does to the topology, and which callbacks run on which thread, is
  decided in those files. A model would invent it. The unlocked read in
  `getSf1Nodes` (l.159) is recorded as a hazard.
* **RSDic and the base `WaveletTree`.** RSDic is a second rank/select
  dictionary with the contract `DBitV` checks. The in-tree `wavelet_tree.hpp`
  is another version than the one `wavelet_tree_huffman.hpp` derives from:
  its constructor takes one argument, and it has no `bits()` or
  `support_select_`.
* **Wavelet `topKUnion*`.** These rank over doubles with several priority
  queues. They are out of TLC's reach at a size where they do anything.
* **BufferedInput** (`BufferedInput.cpp`). Its header, which defines
  `refill`, `readByte`, `readInternal`, `seekInternal` and
  `getFilePointer`, is not in the tree, and `spec.md` does not describe
  them. `read` and `readBytes` only call them, so a model of the buffer
  arithmetic would be invented.
* **Stateless.** `febird/config.h` (macros only) and test code.
* **Not acted on.** `Indexer.cpp` calls `IndexWriter` overloads
  (`indexDocument(doc)`, `updateDocument`) that this `IndexWriter.cpp`
  does not define. The model enters through `addDocument(pDoc, update)`.
