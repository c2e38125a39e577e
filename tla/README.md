# Verification of mini_libc

mini_libc is a small C library for AArch64 Linux with its own memory allocator,
a set of C++ containers (mini_libcxx) and a cryptographic library. This
directory holds TLA+ models of it, TLC configurations that model-check them on
small instances, and proofs checked by TLAPS. Paths below are relative to the
root of the repository; `malloc.c`, `buddy.c`, `small_class.c` and `mmap.c` are in
`src/memory/`, headers of containers in `mini_libcxx/include/`.

## 1. Inventory

### The memory allocator

Every thread owns a *malloc arena* (`struct malloc_arena_t`, reached through the
thread pointer). Only its owner works on an arena, with one exception: any
thread may add to its free-set. There are no locks.

| Part | State | Operations | What makes it correct |
|---|---|---|---|
| **Free-set**, malloc.c:362-470 | a singly linked queue per arena (`free_set_head`, private; `free_set_tail`, shared), threaded through the first 8 bytes of the freed regions; a placeholder element | `free()` by another thread inserts (store NULL, exclusive swap of the tail, link); every `malloc`/`free`/`clear_free_set` of the owner runs the clearing loop | no write to memory that left the queue; no region lost or returned twice; the placeholder is where the flag says; the loop ends; every free() is completed in the end |
| **Buddy allocator**, buddy.c | records of chunks of 128 pages: per order a bitmap, a count, split bits and links; seven availability lists, the list of unused records, `chunk_num` | `buddy_alloc_0..6`, `buddy_free_0..6`, each calling the next order; records in groups; chunks mapped and unmapped | pages partitioned; free space is found (merging is complete); lists linked soundly; split bits tell allocations; LIBC_KEEP_CHUNK_NUM |
| **Small classes**, small_class.c | blocks of 16 pages with a header in the block: bitmap, count, links of two lists; a list head per class and one for all blocks | `small_alloc`, `small_free`, allocating and returning blocks | slots partitioned; lists sound although links go stale; one idle block per class at most |
| **Regions**, mmap.c | records in groups, in one of two lists that share their link fields | `mmap_alloc`, `mmap_free`; either mmap may fail | every mapping has one owner and one record |
| **Arena**, malloc.c:96-156, 331-360 | the three together | `malloc`, `free_with_arena_internal` choose the layer | nothing lost or shared between layers; failures are clean; bounded rest |
| **Layout**, malloc.c:9-17, 136-329 | none: arithmetic | `get_class`, placing and encoding metadata, decoding it in free() | everything fits, alignment holds, decoding inverts encoding |

They interact by calls from malloc() down the layers, by memory handed up, and
across threads only through the free-set. Hard behaviours: interleavings of
single memory accesses in the free-set (with the reordering the Arm architecture
allows), partial failures (two or three mmaps in one call), and long call
sequences over intrusive lists whose fields go stale.

### mini_libcxx

Containers over the allocator, single-threaded objects without exceptions:
misuse ends in `std::terminate()`.

| Part | State and operations | Hard behaviours | What makes it correct |
|---|---|---|---|
| **Tagged pointers**, `tagged_ptr.hpp` | an allocation with a container ID and a counter, or the head of a list of references, in one word | an allocation outlives its container entry as a tombstone | it is freed exactly once, when its container and the last reference let go; no reference reaches a dead object; a container takes its own handles only |
| **List**, `list.hpp` | doubly linked nodes with the ID of their list; handles | copying reuses nodes, moving hands over the ID | both directions agree; no node lost; handles stay with elements |
| **Hive**, `hive.hpp` | chunks of growing size with bitmaps, each in a list of chunks with room, a list of chunks with elements, or both | slots are reused behind later ones; chunks live on for their handles | lists agree with bitmaps; order and handles are stable |
| **Hash map**, `hashmap.hpp` | two tables of control bytes and slots over a hive | keys migrate a few per call; tombstones in both tables; copies taken in between | one dictionary at every step; every probe ends; the second table never fills |
| **Red-black tree, map, set**, `rbtree.hpp`, `map.hpp`, `set.hpp` | nodes with parent, colour and a flag for left children | insertion, removal, rebalancing with early exits; copy assignment that takes the old tree apart while building the new one | order, colours, black height, parents and flags; a dictionary; the assignment ends and loses no node |
| **Vector, indirect, arrays**, `vector.hpp`, `indirect.hpp` | owned storage with objects in part of it | inserting one of the own elements; types that cannot be assigned; copies of other lengths | every object is constructed once and destroyed once |

### Strings and cryptography

| Part | State and operations | Hard behaviours | What makes it correct |
|---|---|---|---|
| **String functions**, `src/string` | none; words of 8 bytes, shifted when regions are not aligned alike | overlap, ends inside words | results as the byte-wise definition; no word is read that has no byte of the region |
| **Keccak and FIPS 202**, `src/crypto/hash/keccak` | a sponge with an offset; framing of cSHAKE, KMAC, TupleHash | pieces of any length, blocks just full | output depends on the string only; different inputs stay different |
| **Sorting**, `src/crypto/sort` | a network of compare-exchanges without branches | cut off at any length | every length is sorted; nothing is read beyond |
| **SPHINCS+**, `src/crypto/sign/sphincs` | one address record changed in place through WOTS, XMSS, the hypertree and FORS | fields that keep their value; a treehash driven by counter bits | what was signed is accepted, nothing else; no address is used for two inputs |
| **CROSS**, `src/crypto/sign/cross` | rounds with two challenges; vectors over two small fields | rejection sampling with bounded attempts; packing across bytes | the same, and no round shows its seed and its response |
| **UOV**, `src/crypto/sign/uov` | quadratic forms over a binary field; signing tries vinegar values until a linear system can be solved | elimination with late pivots; bounded attempts | what was signed is accepted, nothing else |
| **AES-GCM**, `src/crypto/sk/aes/gcm.c` | a counter block per block of data, GHASH over data and lengths | last blocks cut short; the counter wraps | decryption inverts encryption; a changed text, tag or added data is refused; no counter block serves twice |
| **NTRU LPRime**, `src/crypto/pk/ntru_lprime` | polynomials of 653 coefficients; encapsulation | rounding noise; mixed-radix encoding | the secret is recovered; a changed ciphertext gives nothing of it |

### Other parts

* **Thread-local data** (`tls.h`): thread ID, arena pointer, ID counter; the containers'
  models take its values as fresh IDs.
* **Language support** (`mini_libsupcxx`, traits headers): forwarding and
  compile-time code.
* **vDSO lookup and random numbers** (`vdso.c`, `random.c`): one pass over an ELF
  image at start-up and calls into the kernel.
* **System-call wrappers**: one system call per function, no state.
* **The AES block cipher, Farfalle, SANSE, WBC**: arithmetic on data, generated or
  instructions of the processor.
* **Start-up, linker scripts, generators, tests, compatibility headers.**

None of these is modelled (the block cipher is a symbolic function to `AesGcm`); tests and comments are the documentation the models are
compared with.

## 2. How the project is laid out

One module per component, parameterised by constants; one MC module per layer,
which instantiates the components of the layer side by side. In `MCMemory`,
`MCHandles`, `MCContainers`, `MCSignatures` and `MCPrimitives` a variable
`part`, chosen at the start and never changed, says which component a behaviour is
about; the variables of the others stay `Off`. The parts share nothing but that one
run checks them all. `FreeSet` and `Arena` hold what TLC needs themselves, at the end of the module. `Arena` composes three components that do
interact, and the refinements relate components to what they promise:

| Abstract specification | implemented by |
|---|---|
| `DeferredFree`: a freed region stays its user's until a thread inside the allocator takes it back, once | `FreeSet` |
| `HandleSeq`: sequences with handles that stay with their elements | `TaggedList` |
| `Dictionary`: one change at one key per call | `OrderedMap` over `RbTree`; `HashMap` |
| `HashStream`: a stream that is a function of the string fed | `SpongeStream` over `KeccakSponge` |

Operators whose comment starts "Mutant of" are plausible errors in the operator
below them; putting one in its place makes TLC report the property that guards
against that error. They take no part in the specifications.

## 3. Modules

| Module | Models | An action is |
|---|---|---|
| `FreeSet` | the free-set of malloc.c | an access to shared memory |
| `DeferredFree` | what free() promises | abstract |
| `FreeSetProofs` | theorems about `FreeSet`, whose inductive invariant is in `FreeSet` | |
| `Lists` | intrusive doubly linked lists | operators of the allocators |
| `Buddy`, `SmallClass`, `MmapAlloc` | buddy.c, small_class.c, mmap.c | an outcome of a call |
| `Arena` | malloc.c over the three | a call through all layers |
| `MallocLayout` | size classes and metadata | a calculation |
| `MemoryLemmas` | lemmas about linked lists and walks along them, groups of records, least elements and powers of two | |
| `BuddyProofs`, `LayerProofs` | theorems about `Buddy`; about `SmallClass` and `MmapAlloc` | |
| `MemoryProofs` | theorems about `MallocLayout` and the properties of `MCMemory` | |
| `ArenaProofs` | theorems about `Arena` | |
| `TaggedPtr` | tagged_ptr.hpp, with the lists of `Lists` | a member function |
| `TaggedList`, `HandleSeq` | list.hpp; what it promises | a call |
| `Hive` | hive.hpp, with the lists of `Lists` | a call |
| `HandleProofs` | theorems about `TaggedPtr`, `TaggedList` and `Hive` | |
| `HashMap`, `Dictionary` | hashmap.hpp; what it, map and set promise | a call |
| `RbTree`, `OrderedMap` | the tree's links and rebalancing; map.hpp and set.hpp | a call |
| `TreeCopy` | copying, copy assignment and clearing of trees | a round of a loop |
| `Objects`, `Vector`, `Indirect` | lifetimes of objects; vector.hpp; indirect.hpp | a call |
| `Strings` | the string functions, on memory in words | a call |
| `KeccakSponge`, `SpongeStream`, `HashStream` | keccak_p.h; its caller; what it promises | a piece fed or read |
| `Fips202` | fips202.c over the sponge | a call |
| `SortNetwork` | crypto/sort | an inner loop of the network |
| `Sphincs` | SPHINCS+ with symbolic hashes | keys, a signature, its verification |
| `Cross` | CROSS with symbolic hashes | keys, a signature, its change, its verification |
| `CrossField` | the two fields; `MCPrimitives` has their tables | a row of a table |
| `CrossCoding` | csprng.c; pack_unpack.c | a call |
| `Uov` | UOV with drawn hashes | keys, an attempt to sign, a verification |
| `AesGcm` | gcm.c with a symbolic block cipher | sealing, opening, opening what was changed |
| `NtruPoly`, `NtruKem` | polynomials and encodings; encapsulation | a call |
| `MC...` | instances for TLC, and the properties of a layer | |

### FreeSet

`head`, `tail` and `next` are `free_set_head`, `free_set_tail` and the first 8 bytes
of a region; a placeholder is named by its thread. `curr`, `piq`, `elem`, `target` and
`prev` are the locals `curr_head`, `placeholder_in_queue`, `elem`, `arena` and
`curr_tail` of the two functions, `pc` and `goal` where the thread is and whether
malloc() goes on to allocate. `StoreNull`, `SwapTail` and `Link` are the three shared
accesses of `insert_into_free_set_of_arena`; `FreeHead`, `PopPlaceholder`,
`ReinsertPlaceholder` and `LeaveClear` are the branches after the load in
`clear_free_set_of_arena`. The ldxr/stxr loop is one step (it fails and retries
until it is one); the private write of `free_set_head` is part of the step that
leaves the loop. `order` is a history variable: which elements were swapped in and
not yet taken out. The underlying allocators are a set of regions that may
refuse at any time.

`WeakOrder` is a parameter because of one pair of accesses: the store of NULL
compiles to a store-release (malloc.c:366) and the swap to a plain exclusive pair
(malloc.c:370-371). The Arm architecture does not order the second after the
first; the `dmb ish` behind the pair orders both before the link. `WeakOrder = TRUE`
lets the swap overtake the store (`pc = "late"`); all other accesses are ordered by
acquire, release or the barrier.

### Buddy

Bitmaps are sets, `avail_num[]` is a count of its own because the code decides by
it. `buddy_alloc_k` recurses to the next order until a list has a chunk; the model
takes the lowest such order at once and applies on the way down what each order
does: keep the right half, set the split bit, list the chunk if its count was 0.
`buddy_free_k` likewise: all merges, then the block is set free at the order where
the buddy is not free, or the chunk is unmapped. The order of these private steps
cannot be observed, as one thread owns the arena. Links follow the code exactly,
including that the list of order 6 is left without clearing the record's own links
(the record is zeroed next). `bitmap0[2]` is one set.

### SmallClass

The header of a block is modelled field by field and outlives the block: a block
that went back keeps its links and counts until it is taken again, and a full block
keeps its `next_avail_block` (small_class.c:94-98).

### MmapAlloc and Arena

An mmap arena is a record; `Outcomes` is the set of results a call of `mmap_alloc`
can have, as either mmap in it may fail. `Arena` extends `Buddy`, instantiates
`SmallClass` over the order-4 blocks of its chunks and `MmapAlloc` over regions, and
each of its actions is the joint step of the layers a call passes. `MoreMemory` is
the interesting one: up to two calls of `mmap_alloc` (for a group of chunk records and
for a chunk), each of which may need a group of region records.

### MallocLayout

`malloc` is `aligned_alloc` with alignment at most 16, as in the code. The sizes of
the source are used unscaled; only TASK_SIZE (2^47 - 1) is replaced by a number TLC
can hold.

### Tagged pointers, lists and the hive

`TaggedPtr` has the word of an allocation (container ID and a counter or the head of
the references) and every reference object; constructors act like assignments to an
object that holds null. `TaggedList` keeps of an allocation what list.hpp uses of
it; a removed node with handles stays as a tombstone and its address may come back
later. `Hive` has the chunks, their bitmaps in words and the two lists, for which it
uses `Lists`. A handle of a hive is a chunk and a slot: the code takes a handle whose
slot was emptied and filled again for a handle of the new element, and so does the
model. Moving a hive leaves the hive it came from as it was.

### HashMap

The hive is reduced to its filled places, the random key of a table to the hash
function it selects. Insertion, removal and assignment each begin with the step of
the rehashing the code begins with, and `insert_or_assign` of a new key takes two.
hashmap.hpp has no test, and it cannot be compiled as it is (`raw_dyn_array.hpp` lacks
a closing semicolon and its `operator=` returns nothing); it is modelled as meant.
`clear()` leaves tombstones uncounted, see the findings, so `MCContainers` keeps the behaviours
that call it to three keys, where a table of four slots cannot fill up.

### RbTree, OrderedMap and TreeCopy

A tree is a record of links and the rebalancing functions are operators on it; the
functions for the left and the right side are one operator with a side. The flag that
a node is a left child is skipped where the code skips it (`SetChildOnly`).
`TreeCopy` has one action per round of a loop: copying walks down and up the source
and takes a leaf of the old tree for each node it needs.

### Objects, Vector and Indirect

A cell is raw, holds a value, or holds an object whose value was moved out; `bad` records
a construction over a living object, a destruction or read of a dead one, and memory
freed under an object. Three kinds of element types are told apart, as the code does;
types that can be copied or moved trivially are taken to be destroyed trivially.
Paths for constant evaluation and the `inform_*` functions are left out.

### Strings

A call is a record that runs through the loops of the code, with its shifts of whole
words; memory is a handful of words with numbered bytes, and all alignments, lengths
and distances are enumerated. What was read is kept with the answer.

### Keccak

The permutation is a symbolic function of everything that went into it, so that two
outputs are equal only when the inputs are. `Fips202` has one rate, and bytes of 64
values: lengths beyond one byte then stay short.

### Sorting, packing, fields, sampling

`SortNetwork` compares with all sequences of two values for every length up to the
bound: a network that sorts those sorts everything (the 0-1 principle). `CrossField` has
the numbers of the source, and every product and power is computed. `CrossCoding` moves
single bits where the code moves parts of words, and its stream is arbitrary and short.

### Sphincs, Cross, Uov, AES-GCM and NTRU LPRime

Hashes are terms. `Sphincs` assumes that a tree index is narrower than a word
(verify.j2:41 shifts without the test that sign_from_rand.j2:40 has). In `Cross` vectors
drawn from SHAKE come from an oracle that is free at a new input; a first challenge of
zero is possible, as in the code. `Uov` draws what the hash would give, the target and
the vinegar values of an attempt; its field elements are sets of exponents, so the same
operators serve the fields of four elements, of two, and the source's of 256. In `AesGcm` a
byte is the set of what was XORed into it, with terms for the bytes of an encrypted block,
and GHASH is a polynomial in its key, so two tags are equal only if they are for every key.
`NtruPoly` leaves out the Barrett reduction of
`expand_seed`, whose products exceed TLC's integers, and key generation; in `NtruKem` the
secret is one bit that stands for 256, and the two products differ by noise within the
bound that the scheme's parameters give.

## 4. Runs

Every run explores all states; bounds are in the .cfg and in the MC module. TLC
evaluates the named assumptions on constants in each.

| Run | Shows |
|---|---|
| `FreeSet_order` | with every access in program order: no broken queue; a residue only while somebody inserts; a clear nobody disturbs completes every pending free(), and every cross-thread free() is completed in the end if threads keep calling; clearing ends |
| `FreeSet_weak` | with the late store: no write to memory that left a queue, the placeholder where the flag says, the inductive invariant of the proofs and the refinement of `DeferredFree` (safety) |
| `FreeSet_residue` | *violation*: with the late store an owner leaves regions behind alone |
| `Arena` | the allocators composed: everything handed out is held by one party; failures are clean; what an idle arena keeps |
| `Memory` | each allocator alone, with larger bounds, and the layout of every size class |
| `Handles` | tagged allocations and references; the list against sequences with handles; the hive |
| `Containers` | every tree of nine keys, up to a removal that faults; copy assignment between all pairs of trees of six nodes; the hash map through growing, shrinking and copies in the middle of it; all of these maps are dictionaries; vectors, and owners up to an assignment between arrays of one length whose type cannot be assigned |
| `Tree_removal` | *violation*: a removal goes on past the root |
| `Array_assignment` | *violation*: an assignment destroys what is behind its array and constructs over what is in it |
| `Signatures` | SPHINCS+, CROSS, UOV, NTRU LPRime, AES-GCM: what was made is accepted, what was changed is not, no secret and no counter block serves twice |
| `Ntru_keys` | *violation*: the two sides never compute the same session key |
| `Primitives` | sponges, hash inputs, strings, sorting, prime and binary fields, packing, sampling, polynomials |

**Bounds and why they are enough.** Three threads let two others race at one free-set;
three regions (two with fairness, and the placeholder) give a queue that is emptied while it grows. Four chunks in two groups of
records, with three orders, make every list have a middle, lose its head and its tail,
and run out of records; one chunk is kept (`Keep`), so chunks go and stay. Two classes
share three blocks, so that a block is recut for the other class with its old links.
Two record groups of two make both lists of records pass from one group to the other.
Four list nodes allow an assignment that reuses a node and appends another; a hive of
six elements has chunks of two sizes and full, empty and mixed ones. Tables of 4 to 16
slots in groups of two with five keys go through growth, a rehash in several steps, and
shrinking. Nine keys reach all cases of the rebalancing on both sides. Strings span more
than two words in every alignment, so first, middle and last words differ. Every size
near a class boundary and every alignment up to four pages is laid out. `Signatures` has
the parts "tower" and "fors" (SPHINCS+), "cross", "uov" and "pivots" (UOV over the field of
four elements with two vinegar and two oil variables, and over that of two with one and three, for which
all 512 systems are solved; counters of one and two bits, so that attempts run out), "kem"
and "gcm" (blocks of four bytes, a counter of two bits and up to nine bytes of data: the
third block makes it wrap). `Primitives` has "stream", "hash", "strings", "sort", "tables"
(the fields of CROSS), "binary" (all 256 elements of the field of UOV with all powers of x,
and all pairs of powers in that of GHASH: products are linear in both), "coding" and "poly".

**Symmetry** is used on threads and regions (`FreeSet_weak`), on regions
(`Arena`) and on addresses (`Handles`); not in runs with liveness.

**Deadlock** is checked but in `Memory` (the layout of a request is a calculation that
ends), `Primitives`, `Signatures` and `Ntru_keys` (every part runs once).

**Fairness.** `FreeSet_order`: a thread inside a call keeps running (`RunsOn`: the loops
have no waiting) and comes back to the allocator (`ComesBack`: without it a pending
region waits for good, as malloc.c says). `KeepsPromiseForever` is about program order: with the
late store a lost link keeps regions in the queue for good (`FreeSet_residue`), whatever is fair. `Containers`: the loops of a copy are one
thread's, which goes on. No other run states liveness: its calls are single steps.

## 5. Proofs

The proof modules cover the memory allocator, the references, the list and the hive. Every
safety and action property (not the liveness) that the runs `FreeSet_order`, `FreeSet_weak`, `Arena` and `Memory`
check is also a theorem, and so is every invariant of the run `Handles`, for
every value of the constants that the assumptions named below admit. No fact is used
unproved; each proof follows the same plan: initial states satisfy an inductive
invariant, each action keeps it, and it implies the property.

### The free-set

`FreeSetProofs` holds, for every set of threads, every set of regions and both values
of `WeakOrder`, from the assumption `FreeSetAssumption` (names are distinct) alone:

* `Invariance`: `Spec => []IInv`;
* `TypeCorrect`, `LinkSafe`, `PlaceholderSafe`: types, `LinkTargetQueued`, `PlaceholderTracked`;
* `PromiseKept`: `Spec => KeepsPromise`, i.e. FreeSet implements the safety part of
  `DeferredFree`, with `owner` and `status` as they are and a thread `inside` a call when its
  `pc` is not "idle";

and for `WeakOrder = FALSE`:

* `ProgramOrderIntact`: `[]QueueIntact`;
* `ProgramOrderResidue`: `[]ResidueMeansConcurrentFree`;
* `ProgramOrderDrains`: `QuietClearDrains`.

The argument. `LinkTargetQueued` alone is not inductive: that the target of a link is
still queued depends on where the owner's front is, what each thread carries, and what
the `next` fields say. `IInv` adds: what the pc of a thread says of its locals
(`PhaseInv`); no two threads insert the same element (`ElemInv`); the history `order`
runs from the front to the tail without repetition and holds the placeholder and
waiting regions only (`ShapeInv`, `MemberInv`); the placeholder is where the flag says
(`PlaceInv`); every waiting region is in the queue or on its way (`PendingInv`); a `next`
field in a queue is NULL or leads to the next element, unless its NULL is late
(`NextInv`); and a linking thread stands between two neighbours of the queue (`LinkInv`).
The key step is `FreeHead`: the front has a non-NULL `next`, so nobody is about to link
behind it, so taking it out leaves every link target queued. `StrictInv` (a missing link
always has a thread about to write it) holds in program order only; the late store
breaks exactly it. There is one lemma per action; lemmas on `Append` and `Tail` carry
the queue.

### The buddy allocator

`BuddyProofs`, from `BuddyAssumption` (at least two orders, one record per group and
one group; any number of chunks kept and of blocks held; NULL is no number):

* `BuddySafe`: types, `PagesPartitioned`, `FindsSpace`, `ChunkListsSound`,
  `SplitTellsAllocations` and `NoIdleChunk`, always;
* `BuddyUnmaps`: `UnmapsOnlyIdleChunks`, of every step.

That pages are partitioned is not inductive: what a merge may do depends on the split
bits of all the orders above. `BuddyInv` says of each chunk that its bitmaps, its split
bits and the blocks handed out form a `Tree`: a block exists if it is one of the two a
chunk starts with or its parent is split, a block that exists is free, split or handed out,
only one of them, and below the top no two buddies are both free. It adds that a count
is the cardinality of its bitmap, that the list of
an order holds exactly the records with a free block of that order and the list of unused
records the provided ones without a chunk, with links that nothing outside the list
disturbs. An allocation changes the tree at all orders from the one found down to the
one asked for (`TakenDown`); a free merges upwards from its own order to the first whose buddy
is not free (`MergedUp`), or to the top (`GoesEmpty`). Both are described by what they do to
each order, so that the lemmas need no induction. That a failing request had no room (`NothingFits`)
follows because free buddies are always merged.

### Small classes and regions

`LayerProofs`, from `SmallClassAssumption` (finitely many classes, at least two slots in a
block of each, any set of blocks) and `MmapAssumption` (records in groups of at least
one):

* `SmallClassSafe`: types, `BlockListsSound`, `SlotsPartitioned`, `OneIdleBlock`;
* `SmallClassReturns`: `ReturnsOnlyIdleBlocks`;
* `MmapAllocSafe`: types, `RecordListsSound`, `RegionsOwned`.

Two slots are needed: a class of one slot per block would keep every block it ever
freed, as a block leaves only when a further slot becomes free in it
(small_class.c:130). The source cuts 31 slots or more.

`SmallInv` adds to the properties what makes stale links harmless: the bitmap and the counter of every
block, in use or not, agree, and a full block, whose `next` may be stale, has no `prev`,
so that pushing it back needs to reset only one of them. `MmapInv` says that each of the
two lists holds exactly its records, though both use the same fields. `Owns` is the same
of any arena, so that it can be said of the arena between the two calls of `mmap_alloc`
in one `buddy_alloc`.

### Layout

`LayoutAlwaysRight`, from `LayoutAssumption` (sizes are numbers, alignments powers of two
below 2^30, the header of a block a multiple of 16): header, metadata, bytes, tag and link fit
into the piece the layer returned, aligned as asked, and free() reads back what malloc()
wrote. The class boundaries and the metadata's shifts are the source's.

### The layers as one

`MemoryProofs` restates the above of the specification the run `Memory` checks:
`PagesAlwaysAccountedFor`, `ListsAlwaysSound`, `NothingIdleEverKept`, `OnlyIdleReturned`,
`OneOwnerAlways`, `LayoutAlwaysRight`. `MemoryInv` is the invariant of the part a behaviour
is about.

`ArenaProofs` is about the layers composed, from `BuddyAssumption` and `ArenaAssumption` (blocks are of
some order of the buddy allocator, and the layers' assumptions):

* `AllocationsHeldOnce`: `Spec => []EveryAllocationHeldOnce`;
* `ArenaRests`: `Spec => []RestFootprint`;
* `FailuresAreClean`: `Spec => FailureIsClean`.

`ArenaInv` joins the invariants of the layers with `HoldersSound`: slots are what callers
hold of small classes; blocks are either a class's or a caller's; and regions are the memory of
chunks, one each, of the groups of records, or a caller's (`Shared`). Each step of `Arena` is
a chain of calls, so its proof is a chain of lemmas: what one `mmap_alloc` does to `Owns`, what a group
and a chunk do to `Shared`, what a block does to the small classes. That the number of
regions adds up needs that no two chunks share one. At rest, a class holds idle blocks only, so
at most one, and above LIBC_KEEP_CHUNK_NUM every chunk has one of these blocks in it.

### References

`HandleProofs`, from `TaggedPtrAssumption` (counted and linked references are told apart, the
counted ones are finitely many; at least as many IDs as containers; any set of allocations):

* `RefsSafe`: `RefsSpec => []RefsInv`;
* `RefsAlwaysSound`: `Spec => []RefsSound`, that is types, `NeverDangles`, `NoLeak` and
  `WordExact`, of the specification that the run `Handles` checks;
* `RefsAlwaysAccepted`: containers accept just the references to what they hold now (the
  other half of `AcceptsItsOwn` is about lists, see below).

`RefsInv` has three parts. `MemSound`: a word in counter mode counts the references to its
allocation, a word that heads a list chains them, without a loop (`Chained`), a tombstone has
references, and a linked reference to nothing has no neighbours, because `PointLinked` does not clear
them before it writes (this conjunct is what makes the properties inductive). `HeldSound`: what
containers hold is disjoint, in use, no tombstone, and bears their ID. `IdsSound`: IDs are
distinct and below the counter. The member functions are proved on memories, as operators:
to drop, point, copy and move a reference of either class each keep `MemSound`. `Deallocate`,
which walks the list of an allocation to clear its references, finds the least set closed
under 'next'; that it is the whole list follows from `Chained`.

### The list

From `TaggedListAssumption` (finitely many nodes and lists; at least as many IDs as lists;
the marks for "no element" and "removed element" are no places):

* `ChainsAlwaysSound`: `Spec => []ChainsSound`, types, the walks in both directions, `len` and
  the IDs of every list;
* `AlwaysAcceptsItsOwn`: `Spec => []AcceptsItsOwn`, with `RefsAlwaysAccepted` for the references;
* `ListAlwaysHandleSeq`: `Spec => IsHandleSeq`, the list implements `HandleSeq`.

`ChainsSound` speaks of walks, and a step that moves half a list changes many of them at
once. `ListInv` speaks of sets instead: the members of a list are the live nodes that bear its ID
(`Members`), its chain holds just these (`Chained`), its tail is the last of them and `len` is
their number. It adds that IDs tell lists apart, that every live node bears the ID of some
list, and that these IDs are below the counter. The last is what makes `Move` inductive: the
ID the source takes afterwards is no node's. A node put between two others
(`ChainedInsert`), taken out (`ChainedRemove`), or added at an end keeps each part. `clear`,
copying and assignment repeat these steps; `Removed` and `Pushed` are recursive functions, and
that they are defined round by round and keep the invariant is shown by the least
round where they would not. From sets back to walks leads `WalkMeetsEach`: a walk along a
chain meets each of its nodes exactly once.

The refinement also needs the order. The links of a chain leave no choice (`EnumeratedOnce`,
backward from the tail), so a list has just one sequence of nodes (`Ordered`), and there is a
lemma for each operation on chains that says what becomes of it: `CreateOrder` and `RemoveOrder`
for a node that comes or goes at a place, `RemovedOrder` and `PushedOrder` for their repetition (the
sequence after k rounds, and the least round where it would be another), and from them
`ClearOrder`, `MoveOrder` and `CopyOrder`. `Shown` says what `HandleSeq` sees of such sequences
and of the handles; as every live node has one list and one place (`OnePlace`), the CHOOSE in `View` has
no choice either (`ViewShown`). A lemma per operation (`InsertShown`, ..., `PointShown`) relates what is
shown before and after, a lemma per action (`InsertIsStep`, ...) finds the step of `HandleSeq`:
copy assignment, which writes into the nodes it has before it removes or pushes, is one
`Copy`, and a removed node's handles become `Gone` while those behind it move up by one.
`Misuse` and the assignment of a list to itself are stutters.

### The hive

`HiveAlwaysSound`, `Spec => []HiveSound`, from `HiveAssumption` (finitely many chunks, words of
at least one bit, any growth of the chunks): types, `ListsSound`, `CountsExact` and
`TombstonesHeld`.

That lists and bitmaps agree is not inductive alone. `HiveInv` adds that chunks outside a list
have no neighbours in it (`Tidy`: `Push` does not clear 'prev', and a chunk is added again
after it left), that the tail is the last one (`IsTail`), and that bitmaps stay within the capacity of
their chunk. A search through the words of a bitmap ends at a slot that is free, as a chunk
with room has one and its word is among those searched (`WordOfSlot`); so a new element
never takes the place of another. `RemoveSlot` goes through up to four list operations, with
`Roomy` and `Used` saying after each which chunks belong where. `clear()` is a walk of as many
rounds as there could be chunks; that the walk is defined and reaches the end is shown by
the least round where it would not. As no chunk in the lists is empty, front(), back(),
next() and prev() end at an element of the chunk where they start, or of its neighbour. That
the whole iteration meets every element once, in a stable order, is left to TLC.

### Only model-checked

* Liveness (`KeepsPromiseForever`, `ClearEnds`, `AssignmentEnds`): needs fairness and
  ENABLED, which the prover does not have.
* The walks through a hive (`OrderStable`), and the trees (`Containers`): what walks and
  recursive operators over links compute needs induction over data.
* The hash map: its rehashing is a fold over slots, and what that computes needs induction over data.
* Strings, sorting, fields, packing, sponges, signatures (`Primitives`, `Signatures`): calculations with
  recursive functions over words and sequences; what they compute needs induction over data.
* The four findings with a run: a violation is a behaviour, not a theorem.

## 6. Findings

Places where the code disagrees with its comments or tests, found while modelling. Four
are shown by a run, and the passing runs say of each where it begins: the properties there
hold up to such a call or, as those of `FreeSet_order`, in program order. The others were kept out of
the runs, so that the properties around them could be checked, and are told with the steps that lead there.

* malloc.c:366 (`FreeSet_residue`): the store of NULL can be overtaken by the swap of the
  tail, and a lost link leaves regions in the queue for good.
* `src/crypto/pk/ntru_lprime/decrypt.c:56` (`Ntru_keys`): the receiver hashes 0 where the
  sender hashes 1.
* `rbtree.hpp:1044` (`Tree_removal`): the loop of `remove_node` does not test for the root, and reads
  through its null parent (insert 1 to 6, remove 1, 2, 3, then another). In `OrderedMap`
  the call ends in the state "fault", the last of its behaviour, with the map as it was: to
  `Dictionary` a stutter. `MapSound` says where alone this can be: the root and its children are black.
* `hashmap.hpp:125`: `clear_table()` resets the count of tombstones and keeps them.
* `vector.hpp:365`: the result of an allocation is used untested.
* `indirect.hpp:303` (`Array_assignment`): elements `len .. 1` are destroyed instead of
  `len - 1 .. 0`. In `Indirect` that sets `bad`, after which nothing follows; `ObjectsSound` says
  that no other call does.
* `indirect.hpp:171`: `operator==` reads through the null pointer of the other object.

## 7. What is not modelled

Thread-local data and IDs but as a source of fresh values; language support; vDSO and random
numbers; system calls but as allocations that may fail; the AES block cipher, Farfalle,
SANSE and WBC; start-up and generators. `Components` in PROJECT.json gives the reason for each. Within
modelled components: exceptions do not exist in this library; iterators appear as the
positions they stand for; sizes near TASK_SIZE are scaled; the random choice of hash keys is
a choice; the arithmetic of hash permutations is symbolic.
