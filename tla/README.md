# BUDAlloc in TLA+

BUDAlloc is a one-time allocator: every object gets virtual pages (an *alias*)
that are never used again after `free`, while the physical memory behind them
(a *canonical* block of a patched mimalloc) is reused at once. A user-level
library keeps a trie from alias pages to canonical pages; an eBPF program in the
page fault handler reads that trie and fills the page table when an alias is
first touched; frees are unmapped in batches. This directory holds TLA+ models
of that program, TLC configurations that check them on small instances, and
proofs of theorems about them for every value of the constants.

All paths below are relative to `src/libkernel`.

- [1. The system](#1-the-system)
- [2. The modules](#2-the-modules)
- [3. BatchedFree and FreeBuffer](#3-batchedfree-and-freebuffer)
- [4. AliasSpace](#4-aliasspace)
- [5. Trie](#5-trie)
- [6. Vma, List and Regions](#6-vma-list-and-regions)
- [7. Kmalloc](#7-kmalloc)
- [8. Api, ForkLock and SizeClasses](#8-api-forklock-and-sizeclasses)
- [9. The runs](#9-the-runs)
- [10. Where code and documentation disagree](#10-where-code-and-documentation-disagree)
- [11. The proofs](#11-the-proofs)
- [12. What is not modelled](#12-what-is-not-modelled)
- [13. Plan](#13-plan)

## 1. The system

| component | files | state | operations |
|---|---|---|---|
| One-time allocation, batched free | `src/alloc/alloc_alias.c`, `include/vmem.h` | thread-local reservations and `prev_version`; `mm->perthread[64]`: range buffer, version, `buf_empty`, adaptive window, two deferral lists, `buf_lock` | `ota_malloc`, `ota_calloc`, `ota_realloc`, `ota_memalign`, `ota_free`, `thread_init`, flush request |
| Canonical side | `src/alloc/alloc_canonical.c` | thread-local hash of up to 512 delayed blocks | `canonical_malloc`, `canonical_free`, `canonical_delayed_free` |
| Page fault handler | `src/memory/page_fault.bpf.c` | page table of the alias space, node cache, per-fault iterator and prefetch context | `page_fault`, `flush_alias_free_buf`, `prefetch_fn`, `init_iter`, `next`, `finish_iter` |
| Page operations | `src/memory/page_ops.bpf.c` | – | `flush`, `map`, `unmap` |
| Alias space | `src/alloc/alloc_alias.c` | `alias_addr_high`, thread-local `alias_cache[8]` | `alloc_alias`, `get_new_huge_aliases` |
| Trie | `src/lib/trie.c`, `include/lib/trie.h` | three levels of 512 entries; in each entry state bits, a lock bit and a count; `trie_cache`; page reclaim list | `trie_alloc_iter_*`, `trie_iter_*`, `trie_remove_range`, `lock_trie_node`, `unlock_trie_node` |
| Size classes | `include/ota.h` | – | size to reservation index and length |
| Virtual memory areas | `src/memory/vmem.c`, `src/memory/vma_anon.c`, `src/mmap/mmap.c`, `include/lib/list.h` | sorted list of areas, a mutex | find, map, unmap, split, merge, `set_prot`; `mmap`, `munmap`, `mprotect`, `madvise` |
| Kernel allocator | `src/memory/kmalloc.c` | list of blocks, a list of allocations in each, the best bet, a spin lock | `kmalloc`, `kcalloc`, `krealloc`, `kfree` |
| Entry points | `src/alloc/alloc_entry.c`, `src/boot/boot.c` | `init_libc_done`, `init_kernel_done`, `init_thread_done` | `malloc`, `free`, `calloc`, `realloc`, `reallocarray`, … in each phase of the start |
| Fork lock | `include/rwlock.h`, `include/vmem.h` | one counter, `fork_lock` | shared by entry points and the page fault handler, exclusive around `fork` |
| Spin locks | `include/spin_lock.h`, `src/sync/spin_lock.c` | – | an atomic exchange in a loop |
| BPF loader, console, shims, benchmarks | `src/bpf`, `src/console`, `src/context`, `src/lib`, `../unit_test`, … | – | I/O |

**How they interact.** `malloc` takes an object from a reservation. An empty
reservation is refilled: canonical blocks come from the blocks waiting for reuse
in the reservation and then from mimalloc, alias pages come from `alloc_alias`,
and the trie entries are written under the lock bit of the L1 table. The first
access faults. The handler walks the trie, takes the same lock bit (with a
trylock), reads the entry, has a buffer flushed if the entry is marked with one,
maps the page and a window of following pages, and unlocks. `free` clears the
trie entry under the lock bit, then takes `buf_lock` of its slot and queues the
alias; the canonical block goes to the reservation of its class, marked with slot
and version of the buffer, or to a deferral list. A flush (by a free whose window
is full, by a full list, or by a fault on a marked entry) unmaps what is queued
and moves the version on; deferred blocks go back to mimalloc at the next free
that sees it.

**What is hard.**

- User threads and page fault handlers share trie entries, the page table and the
  buffers with four kinds of synchronisation: the lock bit of a table, `buf_lock`
  taken by spinning (user) or trying (handler), flags read without a lock
  (`buf_version`, `buf_empty`), and an atomic add (`alias_addr_high`).
- Memory is reused *before* the stale mapping is removed, on the promise that the
  next access flushes it. The promise is kept by a three-bit version that wraps.
- Fixed limits: 256 ranges, 1024 deferred blocks per list, 512 hashed blocks,
  8 cached ranges, 8 versions, a prefetch of 256.
- Tables are freed by a count that allocation, free, consumed remainders and
  discarded ranges all change.

**What makes it correct.**

- *Batched free*: no two aliases of one block are mapped while one of them is
  freed and another in use; mimalloc and the hash sort never write into a block
  that is still mapped; a dead alias stays dead; a stale mapping is always in
  some buffer; a block has one owner.
- *Handler*: the locks exclude, an entry it has read is still there when it is
  used again, locks are given up.
- *Alias space*: no page is handed out twice; a consumed remainder lies in the
  table it is charged to.
- *Trie*: the count of a table is exact, a table somebody works in stays, a
  destroyed table is unused, an unused one is destroyed; the handler reads no page
  that is no longer a table.
- *Virtual memory areas*: the list is sorted and disjoint, no area is leaked,
  and every call changes the pages it was asked for as a whole or not at all.
- *Kernel allocator*: allocations are disjoint, usage is exact, the best bet is
  never a block that is gone.
- *Entry points*: a size derived from the trie covers what was allocated; a
  `realloc` brings the contents along. *Fork lock*: it is a reader-writer lock, its
  counter is exact, and a fork that waits gets it.

The configuration modelled is the shipped one (`include/kconfig.h`):
`CONFIG_BATCHED_FREE`, `CONFIG_ADOPTIVE_BATCHED_FREE`,
`CONFIG_CANONICAL_HASH_SORT`, `CONFIG_TRIE_CACHE`, `CONFIG_ALIAS_CACHE 2` and
`CONFIG_NDEBUG` on; `CONFIG_SUPPORT_FORK_SAFETY` is off in it (`kconfig.h:29`), and
on in the modules `ForkLock` and `Api`, which are about what it adds.

## 2. The modules

| module | role |
|---|---|
| `FreeBuffer` | pure operators on `struct mm_per_thread`: what a free and a flush do with a buffer |
| `BatchedFree` | allocation, free, page fault and prefetch over shared entries, page table and buffers; extends `FreeBuffer` |
| `AliasSpace` | alias pages, thread caches, L1 tables and their counts |
| `Trie` | L3 and L2 tables: counts, iterators of user threads, walks and node cache of the handler |
| `List` | pure operators on the links of `list.h` |
| `Vma` | the list of areas and the calls of `mmap.c` on it; extends `List` |
| `Regions` | abstract: what memory management promises about the pages; `Vma` implements it |
| `Kmalloc` | blocks, allocations in them, the best bet |
| `SizeClasses` | the conversions between sizes and indices |
| `ForkLock` | every access to the counter of `fork_lock` |
| `Api` | the entry points in the phases of the start, with page faults and fork; extends `ForkLock` and `SizeClasses` |
| `RwLock` | abstract: a reader-writer lock; `Api` implements it |
| `MCBatchedFree`, `MCAliasSpace`, `MCTrie`, `MCVma`, `MCKmalloc`, `MCApi` | values of the constants for TLC |
| `BatchedFreeProofs` (with what is about `FreeBuffer` alone), `StaleProofs` (extends it), `AliasSpaceProofs`, `TrieProofs`, `ForkLockProofs`, `ApiProofs` (extends it), `KmallocProofs`, `VmaProofs` (with what is about `List` alone) | theorems |

`BatchedFree` and `AliasSpace` meet at `alloc_alias`: `BatchedFree` takes consecutive pages
from a thread's current table or from a new one (`AllocAlias`), which is all that
the batching protocol depends on; what `alloc_alias` does with remainders,
caches, counts and destroyed tables is `AliasSpace`, where an entry is only
present or absent. `Trie` is the same tables one level up: there the L1 table is
the unit, locked, written and destroyed as a whole. What it promises to the other
two is that a table they work in is there. `Api` composes the layers from above:
an object is one step of allocation and one of release there, with the sizes that
`BatchedFree` and `AliasSpace` abstract from, and with the lock that surrounds them
all.

Operators called `Wrong…` are the definition that follows them with a plausible
programming mistake. They are used nowhere; each property of a passing run fails
when the definition is replaced by one of them (`mutants` in `PROJECT.json`).

## 3. BatchedFree and FreeBuffer

An object is one alias page. A thread is a user thread that, while it handles a
fault, executes the eBPF program: a faulting thread does nothing else, so `pc`
and `pf` (the locals of the handler) are kept per thread.

| variable | code |
|---|---|
| `entry` | leaf trie entries: canonical block, flush mark (slot and version, `WITH_FLUSH`), `MAPPED` bit |
| `pte` | the page table: the canonical page an alias is mapped to |
| `l1lock` | lock bit in the entry of an L1 table |
| `mpt`, `bufLock` | `mm->perthread[slot]` and its `buf_lock` |
| `prevVersion`, `resv`, `region`, `hash` | thread-local `prev_version`, `malloc_reservations`, the unused rest of the thread's table, `free_hash` |
| `nextL1`, `heap` | `alias_addr_high`; the blocks mimalloc owns |
| `pc`, `victim`, `pf` | what a thread executes and its locals |
| `held`, `home` | history: the aliases the program owns, the block each alias was created for |

| action | code | atomic because |
|---|---|---|
| `MallocReserved`, `MallocRefill` | `do_reservations`, `ota_malloc` | thread-local, or under the lock bit of a table whose new pages nobody else can name |
| `FreeClear` | `__ota_free` up to the unlock of the table | under the lock bit |
| `FreeLock`, `FreeBody`, `FreeUnlock` | `__ota_free` from `lock_perthread` to its unlock | under `buf_lock`; what the handler may read meanwhile is the version and `buf_empty`, see below |
| `PageFault` | `page_fault` up to the flush | reads under the lock bit it takes |
| `FlushCheck`, `FlushBuffer`, `FlushFails`, `FlushRetry`, `FlushSkip` | `flush_alias_free_buf`: the unlocked test, the trylock and its section, its two failures, the two outcomes of a failed trylock | one step between two synchronisation points |
| `MarkMapped` | `*iter \|= MAPPED` on the faulting entry | |
| `PrefetchNext`, `PrefetchCross`, `PrefetchEntry`, `PrefetchPage`, `MapRun` | one iteration of `prefetch_fn` and `next`: the following entry, the step over a table boundary with its unlock and trylock, the tests, the comparison of canonical pages, `bpf_set_page_table` | |
| `Quiescent` | the program owns nothing and stops | |

`FreeBody` is the whole section under `buf_lock`, in the code's order: deferred
blocks are released if the version moved (`TryDeferredFree`), `buf_cnt` is
incremented, the window is resized if 100 ms have passed (an arbitrary `tick`),
the page joins the buffer (`AddRange`, with the flush of a full buffer), a full
window is flushed (`BatchFlush`), and the block is reused, deferred, or drained
with a full list; `FreeWrites` is what that leaves in the variables, with the help of
the field `gone`, which is no field of the code: it collects what the section has
unmapped until `Commit` takes it out of the page table. The section is one step: a handler that reads the version or
`buf_empty` in its middle finds `buf_lock` taken if it wants to flush, and then
retries or skips as it does when it comes between `FreeLock` and `FreeBody`.

Both flushes can fail, and `HelpersFail` says whether they do. `bpf_uaddr_to_kaddr`
may return NULL: in `page_ops.bpf.c:139` nothing happens then, in
`page_fault.bpf.c:389` nothing but that `buf_lock` is never given back.
`bpf_unset_page_table` may fail on a range (`FlushBreaks`): the ranges before it are
unmapped, all up to it are zeroed, and index, count, flag and version stay as they
were (that the pages of the failing range stay mapped is an assumption about the
kernel). Nobody looks at the result in the shipped build: a free goes on as after a
flush (`FlushOutcomes`; the assertions behind the three calls are compiled out), which after a failed flush of
a full buffer stores its range behind the last slot; a handler marks and maps the
faulting page, a prefetch maps what it has and stops (`Unflushed`).

A size is abstracted to its class: `"reused"` (freed blocks go back to the
reservation), `"small"` (deferred, then sorted through the hash) and `"large"`
(deferred, then freed; a reused block without room in the reservation goes the
same way, so that the instances need no large block). `Windows` gives the prefetch
windows a fault of a class may see. Two assumptions about the *program* are constants:

- `TouchFirst`: an object is accessed before it is freed. A reused block whose
  object is freed untouched keeps the mark of the old buffer unflushed while its
  block is queued behind another one (see section 10).
- `RaceFree`: no object is freed while another thread accesses it. The run
  `BatchedFreeRaces` drops this assumption.

Faults on canonical addresses, which the handler resolves without the trie, change
none of this state. Faults on a locked table, a cleared or a mapped entry change
nothing and are not steps.

## 4. AliasSpace

The alias space is cut into units of `HugeLen` pages, one L1 table each. `cache`
is the thread-local array of ranges, `node` the state and count in the L2 entry of
a table, `entry` the pages with a trie entry, `gone` (history) the pages freed or
consumed.

| action | code |
|---|---|
| `AllocCached` | the first cached range with room; a remainder below `MinRemain` is consumed with the request |
| `GetHuge` | `get_new_huge_aliases`, the atomic add |
| `PlaceMerge`, `PlaceWhole`, `PlaceSlot`, `PlaceDiscard` | what `alloc_alias` does with the new units: append to slot 0, use them up, cache the rest, or discard every cached range (`trie_remove_range`) and cache the rest |
| `WriteTable` | the stores of one table, from taking its lock to the release, creating the table if needed; the last one takes the consumed pages off the count |
| `FreeBegin`, `FreeTable` | a free, table by table: entries cleared, count decremented, the table destroyed at zero (`unlock_trie_node`) |

`RemovedCount` is C's pointer arithmetic: `TRIE_META_ONE * diff_cnt` is subtracted
from a `struct trie_node *`, so it is scaled by the 2^15 bytes of the struct, and
the ten bits of the count see a multiple of 2^15. The count of a destroyed or
never-written table that a discard reaches reads as zero.

## 5. Trie

The trie has a root, L3 tables, L2 tables and L1 tables. Every entry that points
to an L3 or L2 table holds a count: the children that are not gone plus the
iterators inside. An object of the model occupies whole L1 tables.

| variable | code |
|---|---|
| `link`, `cnt` | the pointer and the count in the entry of the parent |
| `mem` | the page of a table: never used, in use, on the reclaim list, unmapped |
| `leaf` | the entry of an L1 table: missing, unlocked, locked, destroyed |
| `cache` | `mm->trie_cached_nodes[2]` and `[3]`, the trie cache that both sides use |
| `high`, `objs`, `dead` | `alias_addr_high`; the objects the program owns; history: objects whose free has begun |
| `it` | `struct trie_iter` of a user thread and where it is |
| `pf` | the iterator of a handler and where it is |

| action | code |
|---|---|
| `Alloc`, `Touch`, `TouchLeaf`, `Write` | `trie_alloc_iter_init`, `touch_trie_node` for one level, `touch_lock_trie_node`, and the stores with `trie_alloc_iter_next` or `_finish` |
| `Free`, `Probe` | the start of `__ota_free` and of `malloc_usable_size`, which share `trie_iter_init` |
| `Acquire`, `AcquireFails` | `acquire_trie_node`, a compare-and-swap on the entry, and the paths that give up |
| `Lock`, `LockFails`, `Body` | `lock_trie_node`, and the section up to `unlock_trie_node` with the decision of `trie_iter_next` where to go |
| `Release`, `Unlink`, `Invalidate`, `Reclaim` | `release_trie_node`: the decrement, and for the thread that reaches zero the three steps that take the table away |
| `Unmap` | `reclaim`, at any later time |
| `Fault`, `ReadCache`, `Map`, `Check` | `page_fault` and `adjust_iter`: the cache is read, the address translated, the cache read again |
| `Load`, `Map`, `Store`, `Verify` | `init_l3` and `init_l2`: the entry is read, the address translated, the cache written, the entry read again |
| `TryLock`, `Finish`, `NextTable` | `init_l1`, `finish_iter`, `next` |

The count of a table that an iterator leaves after it destroyed the last child is
decremented by two, and when `trie_iter_next` moves on, the parent is released
only after the child of the next table has been acquired (`sub`, `last` and `by`
carry this from step to step, as the `last` results of the functions do).

A translation gives the page that is mapped now; of a table that was unmapped it
gives nothing, or the page of somebody else (`Foreign`) if the address is mapped
again. `Dangling` says whether the program also faults on and asks about objects
it has freed, and `LastChoices` is what the uninitialised `is_last` of
`trie_iter_init` may contain.

## 6. Vma, List and Regions

`List` has the links of `list.h` as two functions over nodes and one operator for
each function of `list.h` that `vmem.c` uses. `Vma` keeps `mm` (links and areas),
`pte` (pages with an entry in the page table) and whether the process ended in a
`PANIC` or `TODO`. Addresses count in units, a page has several, so unaligned
addresses exist.

| action | code |
|---|---|
| `Mmap`, `MmapFails` | `do_mmap` with its checks in their order, `vma_map` with its placement (first fit, hint, alignment below `VADDR_BASE`), insertion and merges |
| `Munmap` | `vmem_vma_unmap`: find the range, split both ends, unlink, unmap, free |
| `Mprotect` | split, set the permissions, merge each area backwards and the last one forwards |
| `Madvise` | every advice is carried out as `MADV_DONTNEED` |
| `Destroy` | `mm_destory` (nobody calls it) |
| `Touch` | the fault handler enters a page; external |

`mem` is the number of `kmalloc`s that succeed inside a call, so that the second
split of a range can fail after the first; `Kmallocs` limits it to the structures that
are free, and `Mmap` needs one. All calls hold the mutex of `mmap.c`: a
call is one step, and what is hard is not the interleaving but the arithmetic over
holes, ends and neighbours. `Place` searches again behind an area that is in the
way. A hint is any address. `vmem.c:543` means to refuse one that is not page aligned,
but its test `!PAGE_ALIGN(va)` asks whether the hint is zero after rounding up, and
the assertions that an alignment below `VADDR_BASE` is a power of two (`vmem.c:548`) and that the
address found is page aligned are compiled out: with such a hint an area begins
inside a page. `onPages` (history) says that no `mmap` has done that so far. What is
assumed is that the page size is a power of two (`PageAssumption`). Addresses do not
overflow. The permissions and contents of pages that only part of an area lies on are
not modelled.

`Regions` is the specification that the callers of `mmap` have in mind: each page
has attributes or none, a call applies to a set of pages, and it happens as a whole
or not at all. `ImplementsRegions` is the refinement, step by step while `onPages` holds: `attr` of a page is read off
the areas (`Contents`). `ImplementsRegionsAlways` is the same without the condition; it holds when the hints
lead to pages (`HintsArePages`). The variable `call` of `Vma` records what the last call was asked for; it
decides nothing and is hidden by a `VIEW`, which leaves every step to be checked
against `Regions` but merges states that differ in it alone.

## 7. Kmalloc

A block (major) of pages contains allocations (minors) in the order of their
addresses; `usage` is kept beside them. `MallocFits` and `MallocGrows` are the five
cases of `kmalloc`: it starts at the best bet if that has the space, looks at every
block from there to the last one and then at all of them, takes the first gap of
the first block that has one, and otherwise asks for a new block. `FreeLeaves` and
`FreeEmpties` are `kfree`. `krealloc` is three steps (`ReallocUnlock`,
`ReallocMalloc`, `ReallocFree`) because it gives its lock up in between. A failing
`plat_mmap` returns a negative error number, which is no null pointer and is written
through (`MallocCrashes`). `calloc` is `kmalloc` and a `memset`; the test of the magic
number never fails for a pointer that `kmalloc` returned; the error path of
`kthread_create`, which frees a pointer it advanced, has no caller.

## 8. Api, ForkLock and SizeClasses

`ForkLock` has one action for each atomic access to the counter of `fork_lock`: the
reader's spin, add and, if a writer was first, subtraction; the same for the
handler's `trylock`, which gives up and lets the access fault again; the writer's
load, compare-and-swap, WAIT bit and spin. `ForkInChild` is the child of a fork: the
other threads are gone and the lock is initialised anew.

`Api` adds what the lock surrounds.

| variable | code |
|---|---|
| `phase` | `init_libc_done`, `init_kernel_done`: `kmalloc`, then libc, then BUDAlloc answers |
| `heap` | what a pointer points to: who allocated it, the size asked for, and for BUDAlloc's objects the offset in the page, the usable size, the index the trie keeps and the pages written |
| `call`, `pc` | the call a thread is in, and where |
| `initDone` | `init_thread_done` |
| `leaks` | history: holds of the lock that nobody will release |

`CallMalloc` to `CallFork` begin a call, `ThreadInit`, `Malloc`, `AlignedAlloc`,
`Free`, `MallocUsableSize`, `ReallocInPlace`, `ReallocMalloc` do its work, `Leave`
unlocks, `Access` is an access of the program that faults. A `realloc` that has to
move unlocks, copies (which may fault, so the handler must be able to get the lock)
and locks again to free. `aligned_alloc` takes neither the lock nor `thread_init`.
Early memory is not known to the trie: `free` of it does nothing (`"abandoned"`) and
`realloc` of it copies nothing, which `ReallocKeeps` exempts. Not in the model: calls
that assertions exclude (`realloc` before libc is found), `reallocarray`, whose test
of `init_libc_done` (`alloc_entry.c:144`) differs from its siblings' at a time when
nobody calls it, a `realloc` that fails (it would copy to a null pointer), and the
unchecked product of `calloc`.

`SizeClasses` is the three conversions of `ota.h` by bands. The index function adds
`0x3ff` in the last band, whose unit is `0x2000` (`ota.h:116`), and so disagrees with
the table in the comment above it (`ota.h:52`: 0x8001 is 41, the code gives 40). It is
harmless because what is looked up is always the size of a block: `FreesItsPages`
checks it, the theorems `IndexGivesClassBack` and `FreesItsPagesHolds` prove it.

## 9. The runs

| run | states | question |
|---|---|---|
| `BatchedFree` | 622 k | two threads, one reused and two hash-sorted blocks, windows of 1: is a stale mapping gone before a block is used again or reaches mimalloc or the hash, is it still in a buffer until then, does a dead alias stay dead, is every block owned once, do the locks exclude? |
| `BatchedFreePrefetch` | 574 k | two threads, a buffer smaller than the window as in the shipped constants, reservations of two, prefetch windows of 2, frees of what is being accessed, runs over table borders: is a freed alias unmapped when it waits for no flush any more, how may a dead one come back, are table locks given up? |
| `BatchedFreeRaces` | 6.0 M | a program that frees what another thread is faulting on, failing flushes, one-page tables so that the prefetch crosses into tables that are locked or destroyed: is the entry still there that a handler reads again? |
| `AliasSpace` | 339 k | two threads, three tables of three pages, one cache slot each: one-time use, counts, destruction |
| `Trie` | 2.3 M | two user threads, one handler, two L3 tables of two L2 tables of two L1 tables, five of which may be used, objects of two or three tables, dangling pointers: counts, life of tables, node cache |
| `Vma` | 23 k | three pages of two units, three areas, every call with every address, aligned and unaligned hints and lengths from 0 to the whole space, failing `kmalloc`s: order, no leak, merging, and the refinement of `Regions` |
| `Kmalloc` | 1.3 M | two threads, three blocks, three allocations of three sizes: placement, usage, best bet, `krealloc` between its steps |
| `Api` | 481 k | two threads, two pointers, two sizes of which one is in the last band, an alignment, faults, forks by both: counter, sizes, contents, the refinement of `RwLock`, and that a waiting fork gets the lock |
| `FindingPrefetchUnlock`, `FindingFullBuffer`, `FindingUninitLast`, `FindingForkReturns` | – | the disagreements of section 10 |

**Bounds.** Aliases are never reused, so the number of alias pages (`NL1`,
`L1Len`; `NHuge`, `HugeLen`) bounds a behaviour: a run explores every way to spend
four to six aliases. With two or three blocks that is two to three generations of
aliases per block: one stale generation, the one in use, and the one that a free
and a refill prepare. `WindowMax = 2` lets the adaptive window grow, shrink and
overflow; `NVersions = 2` makes the version wrap after two flushes, so that a
mark meets a wrapped version, the worst case of the eight in the code;
`DeferMax = 2` and `HashMax = 2` fill and drain the lists; `MatchMax = 2` allows
ranges that are too old to be extended. The code has 256 slots for ranges and a window of
up to 1024 pages, so that a buffer may overflow: `BatchedFreePrefetch` (1 slot, window
up to 2) and `FindingFullBuffer` (2 and 4) have the same order. `BatchedFree` and
`BatchedFreeRaces` have 4 slots and a window of 2, so that no buffer overflows in them: what
their properties say about an overflow is nothing, and what an overflow does
is the subject of the other two. In
`AliasSpace`, `HugeLen = 3` with requests of up to 4 pages gives remainders that
are kept, consumed and merged, and objects over two tables; one cache slot makes
the second remainder discard the first. In `Trie`, objects of two and three
tables out of five start at every position: they cross into the next L2 table and
into the next L3 table, one L2 table is shared by two objects, and the tables up to
the fourth L1 table can all die while the others are never used. `Trie` has one
handler because its last property needs that (section 10); `LastChoices` is
`{FALSE}` in it for the same reason. In `Vma`, three pages hold an area with both
neighbours, a hole between two areas, and a range that begins and ends inside one;
a mapping at `Top` or beyond is not made, so the search behind the last area always
ends in a place; the hints are 0, a page, an alignment below and one above the page size, one
that is no power of two, and an address inside a page. In `Kmalloc`, a page holds one allocation with a gap behind it, and
the largest request needs a block of two pages. In `Api`, `Room` leaves a pointer for
each call that may need one and `MaxLeaks` bounds the holds that `realloc` leaves
behind; one leak shows all there is, since the counter does not tell holds apart.

Deadlock is checked in every run but those of `Api` and `BatchedFreeRaces`: elsewhere the only stop is
`Quiescent`, where the program owns nothing, or an exhausted alias space, in which
frees remain possible; in `Vma` and `Kmalloc` a process that ended. In `Api` a hold
that was left behind stops the forks, and the program may run out of calls; in
`BatchedFreeRaces` a handler that returns with `buf_lock` held stops every later free
that needs it.

**Fairness.** In `BatchedFree`, `FairSpec` adds weak fairness of `Handler(t)` and of
`Finish(t)` (`FreeLock`, `FreeBody`, `FreeUnlock`) for each thread: a thread inside
the kernel's fault handler or inside `free` is scheduled again. Nothing is assumed
about allocations, new frees or new faults, and nothing strong: no handler ever waits,
because a busy `buf_lock` makes it give up or go on, so `TableIsUnlocked` says that
every such path comes to the unlock of the table. A retried fault (`FlushRetry`) returns to the program; that
the retry is repeated for ever by a program that keeps faulting against a thread
that keeps freeing is not excluded, and not claimed; nor is it claimed that a free returns,
which waits for `buf_lock` by spinning and does not get it back from a handler that found no buffer. In `Api` the fairness is weak
and of `Proceed(t)`: a thread in a call is scheduled again; whether it calls is the
program's choice. `WaitIsHonoured` is about the WAIT bit and not about one forking
thread: the compare-and-swap of one fork clears the bit that another one set, and
the other may then wait behind new readers.

**Properties.** Each states what would go wrong in several steps:

- `NoStaleReuse`: a freed alias and a live object of the same block are never both
  mapped. `FreeBlockUnmapped`: no alias of a block in mimalloc's hands or in the
  hash is mapped. `StaysDead`: a freed alias that was unmapped is not mapped
  again. `StaleIsPending`: a freed, mapped alias is in a buffer or its free is
  still running.
- `UnmappedWhenFlushed`: from its free on an alias waits in a buffer or for its free
  to reach one, and the step that ends the waiting leaves it unmapped; a new version of a buffer
  means that all that was queued is unmapped. It holds with prefetch, shared slots, racing frees and
  overflowing buffers. `DeadComesBackAcross`: a dead alias is mapped again only by
  a handler that has left its table with a run: what is left of `StaysDead` in general.
- `OneOwner`: a block is in exactly one of mimalloc, the hash, a deferral list, an
  entry, a reservation's reuse list, or a free between two steps.
- `HandlerSeesEntry`: when the handler dereferences `*iter` again after a flush,
  the entry is still there, even when the program races.
- `LocksExclude`, `TableIsUnlocked`: mutual exclusion and progress.
- `OneTime`, `CountIsExact`, `DestroyedIsUnused`, `ConsumeEndsTable`: a page has
  one user ever; the count is the number of pages not freed or consumed and never
  zero on a live table; a reclaimed table has no page in use, cached or claimed;
  the consumed pages end the table they are charged to.
- `TablesStayValid`: a table an iterator or an allocation works in is linked and not
  reclaimed. `CountsAreExact`: a count is children plus iterators, at every step.
  `ReclaimedIffDead`: a table goes if and only if everything
  below it is gone, at the latest when nobody is on the way.
- `CacheIsFresh`: an unlinked table is in the node cache only while the thread that
  unlinked it, or a handler that stored it, is about to look. `ReadsOnlyTables`:
  what the handler reads as a table was one when it was translated.
- `ListIsSorted`, `StructsAreListed`, `NoMergeableNeighbours`: the list of areas is
  what every walk over it assumes, an area is allocated exactly while it is listed,
  and a split whose second half failed leaves nothing behind. `ImplementsRegions`: a
  call changes the pages it names as a whole or fails and changes nothing, as long as
  every area began at a page.
- `MinorsAreDisjoint`, `UsageIsExact`, `BestBetIsListed`, `EveryMinorIsHeld`,
  `NewBlockOnlyWhenNeeded`: two allocations never overlap, the count of used bytes
  follows them through resizes, the best bet is a block that exists, and pages are
  asked for only when no gap is large enough.
- `CounterIsExact`: the counter tells who reads, writes and waits, also between the
  add and the subtraction of a failed attempt. `ImplementsRwLock`: with all its
  transient counts it is a reader-writer lock. `WaitIsHonoured`: readers cannot keep
  a fork out. `FreesItsPages`: the size a free derives from the trie covers exactly
  the pages the allocation wrote. `ReallocKeeps`: the contents come along.

## 10. Where code and documentation disagree

Runs that TLC must find violated:

- `FindingPrefetchUnlock` — `next()` unlocks a table at its last entry and
  `prefetch_fn` maps the run collected in it afterwards. A free of an object of
  the run can complete in between, and the dead alias is mapped again.
- `FindingFullBuffer` — a free that finds all slots of the range buffer used flushes it
  (`alloc_alias.c:655`), which sets `buf_empty`, and then stores its own range without
  clearing the flag; `page_fault.bpf.c:375` relies on "if buf empty, all unmapped". The
  shipped constants have 256 slots and a window of up to 1024 pages, so a program that
  frees scattered objects gets there. A handler that meets the flag takes the pending page for unmapped.
- `FindingUninitLast` — `trie_iter_init` releases the L3 table with an `is_last`
  it never set when the L2 table is missing. If it happens to be true, a look at a
  dangling pointer takes a child off the count, and the table is reclaimed under a
  thread that works in it: `trie.c:387` says "now iter->nodes[3] is valid until
  release".
- `FindingForkReturns` — `ota_realloc` of an object that is large enough returns
  with the read side of `fork_lock` held (`alloc_alias.c:938`). The next fork waits
  for ever, where `kconfig.h:29` calls the lock a mitigation of deadlocks. The run
  has one forking thread, so that no other fork is in the way.

More disagreements can be seen by adding a definition to the cfg of a passing run, or
by changing constants there:

- `UnmappedWhenFlushed` in `BatchedFreePrefetch` with `HelpersFail = TRUE` (and
  `CHECK_DEADLOCK FALSE`): a flush that fails has zeroed ranges of pages that stay
  mapped (`page_fault.bpf.c:402-416`, `page_ops.bpf.c:156-170`), and nothing in the
  shipped build looks at its result.
- `ImplementsRegionsAlways` in `Vma`: `mmap` with a hint inside a page above
  `VADDR_BASE` maps an area that begins there, `munmap` of its first page
  succeeds, and part of the area stays.
- In `Api` the lock around `fork` has an exception: `aligned_alloc` takes none
  (`alloc_alias.c:1075`), so a thread may fork while another is inside it
  (`ForkMeetsAlignedAllocOnly`).
- `TablesAreReclaimed` in `AliasSpace`: a discarded range is subtracted from a pointer
  of the wrong type, so its table is never destroyed.
- `DiscardSeesTables` in `AliasSpace`: a discarded range may lie in a table no entry
  was written to; `trie.c:626` asserts the opposite.
- `MprotectReturns` in `Vma` with `FlagSets <- MCSupported`: `set_protection` expects
  its loop to run once for each page, but its body returns 1, which stops the loop at
  the first one. `mprotect` over an area of several pages trips the assertion of
  `page_ops.bpf.c:85` and the caller panics. Nothing in the repository calls it so.
- `BlocksGoBack` in `Kmalloc` (without its `VIEW`): `kmalloc.h:39` says that
  `liballoc_free` is given pages, `kmalloc.c:472` and `581` do give pages, and `munmap`
  counts bytes: of a block only the first page goes back.
- With prefetch windows above 1 (`Windows <- MCPrefetch` in `BatchedFree`)
  `NoStaleReuse` fails: the prefetch maps marked entries without a flush when the
  faulting entry was not marked (`page_fault.bpf.c:628-631`).
- With two threads on one slot (`SlotOf <- MCOneSlotOf`), as threads beyond 64
  are, `FreeBlockUnmapped` fails: `prev_version` is thread-local and says nothing
  about blocks that the other thread deferred (`alloc_alias.c:98-107`, `152`).
- With `TouchFirst = FALSE` and two threads `FreeBlockUnmapped` fails: a reused
  block whose object is freed untouched is released after a flush of the freeing
  thread's buffer while its older alias waits in another one.
- With two handlers (`Handler = {h1, h2}`, one user thread, in `Trie`)
  `ReadsOnlyTables` fails, although `CacheIsFresh` holds: one handler stores a
  table that was just unlinked (`page_fault.bpf.c:145-156`), the user thread has
  already invalidated the cache, and the other handler finds its second look at
  the cache confirmed (`page_fault.bpf.c:241`) before the first looks again. That this is
  the only way is `OnlyAnotherMisleads`, which holds there.

The passing run `BatchedFree` states the conditions under which `NoStaleReuse`,
`FreeBlockUnmapped`, `StaleIsPending` and `StaysDead` do hold: windows of 1, own slots,
objects that are touched and not freed while they are accessed, buffers that do
not overflow, flushes that succeed. `Trie` has one fault at a time.

## 11. The proofs

Each proof module extends its model and is checked by the proof system to the last
leaf. The only assumptions are the named ones on the constants in the models, plus
those a theorem states.

| theorem | says |
|---|---|
| `BatchedFreeProofs!AddRangeForgetsNothing` | a page that joins a buffer is pending with everything that was pending before, or, in a full buffer, everything else has just been unmapped by a flush, unless that flush failed |
| `BatchedFreeProofs!Invariant` | `Spec => []IInv` |
| `BatchedFreeProofs!TypeCorrect`, `LocksExcludeHolds`, `HandlerSeesEntryHolds` | `TypeOK`, `LocksExclude`, `HandlerSeesEntry` for any number of threads, slots, tables, windows and blocks; with racing programs and failing flushes too |
| `BatchedFreeProofs!OneOwnerHolds` | `OneOwner`, likewise: a canonical block is never lost and never handed to two objects |
| `StaleProofs!UnmappedWhenFlushedHolds` | `~HelpersFail` implies `UnmappedWhenFlushed`, for any number of threads, blocks, tables, shared slots, buffer sizes and windows, with prefetch and racing programs: nothing is assumed that the shipped configuration contradicts |
| `StaleProofs!DeadComesBackAcrossHolds` | `DeadComesBackAcross` in every configuration, with failing flushes too |
| `TrieProofs!Invariant`, `CacheIsFreshHolds` | the node cache, for any number of user threads, handlers and tables |
| `TrieProofs!CountsInvariant`, `TablesStayValidHolds`, `CountsAreExactHolds`, `ReclaimedIffDeadHolds` | `TablesStayValid`, `CountsAreExact`, `ReclaimedIffDead` for any finite number of user threads, and any handlers, fan-outs and object sizes, assuming `LastChoices \subseteq {FALSE}`: `FindingUninitLast` shows that the assumption is needed |
| `TrieProofs!TypeOKHolds` | `TypeOK`, likewise: a count is never negative and at most the fan-out plus one for each thread |
| `TrieProofs!OnlyAnotherMisleadsHolds` | `OnlyAnotherMisleads` for any number of handlers and user threads, likewise: a handler that has translated a page which is no table any more is turned down by its second look at the entry, and by that at the cache unless another handler is between storing the same table and looking at its entry |
| `AliasSpaceProofs!Invariant`, `OneTimeHolds` | no page is handed out twice, for any number of threads, tables, cache slots and request sizes |
| `AliasSpaceProofs!AliasTypes`, `CountsAreHeld`, `DestroyedStaysUnused`, `ConsumesEndTables` | `TypeOK`, `CountIsExact`, `DestroyedIsUnused`, `ConsumeEndsTable`, likewise |
| `ForkLockProofs!Invariant`, `CounterIsExactHolds` | the counter tells who reads, writes and waits, for any number of threads, objects and sizes |
| `ForkLockProofs!ForkMeetsAlignedAllocOnlyHolds` | a fork meets nobody in the allocator or in the handler but threads in `aligned_alloc`, which takes no lock, likewise |
| `ForkLockProofs!LockIsImplemented` | `Spec => ImplementsRwLock`: `Api` refines `RwLock` |
| `ApiProofs!TypeOKHolds`, `FreesItsPagesHolds`, `ReallocKeepsHolds` | `TypeOK`, `FreesItsPages`, `ReallocKeeps` for any number of threads and pointers, any sizes, and any page size and alignments that are powers of two (`AlignAssumption`) |
| `ApiProofs!ClassIsLargeEnough`, `IndexGivesClassBack` | for every size, the class is large enough and is found again from its index |
| `KmallocProofs!KmallocInvariant` | `Spec => []KInv` |
| `KmallocProofs!TypeOKHolds`, `MinorsAreDisjointHolds`, `UsageIsExactHolds`, `BestBetIsListedHolds`, `EveryMinorIsHeldHolds` | `TypeOK`, `MinorsAreDisjoint`, `UsageIsExact`, `BestBetIsListed`, `EveryMinorIsHeld` for any number of threads and blocks, and any page, header, alignment and request sizes |
| `KmallocProofs!NewBlockOnlyWhenNeededHolds` | the action property `NewBlockOnlyWhenNeeded`, likewise |
| `VmaProofs!AddKeepsLinks`, `DelKeepsLinks` | for a list of any length, adding and removing keep `next` and `prev` inverse to each other |
| `VmaProofs!VInvHolds` | `Spec => []VInv` |
| `VmaProofs!TypeOKHolds`, `ListIsSortedHolds`, `StructsAreListedHolds`, `NoMergeableNeighboursHolds` | `TypeOK`, `ListIsSorted`, `StructsAreListed`, `NoMergeableNeighbours` for any number of areas, any page size and address space, any hints and lengths of calls |
| `VmaProofs!RegionsImplemented` | `Spec => ImplementsRegions`: `Vma` refines `Regions` for any hints, as long as every area began at a page |
| `VmaProofs!RegionsAlwaysImplemented` | `HintsArePages` implies `Spec => ImplementsRegionsAlways`: no other hints spoil it |

*BatchedFree.* `IInv` has four parts. `Types` gives the shape of every variable.
`Buffers` says that what is pending are aliases, and that at most `BufSize` ranges are stored unless flushes fail. `Given` ties the aliases together:
`HasEntry` (what the program owns or a reservation holds ready has an entry),
`Once` (an alias is in one place only), `Regions` (a thread's unused pages are
private and fresh). `Threads` says for each thread, by its `pc`, what it `Knows`:
which locks it holds, that the entry it is going to use again is there, that its
victim is a proper alias and block. `HandlerSeesEntry` alone is not inductive: a free clears an
entry under the table's lock, so one must know that the handler holds the lock of
the table its `cur` lies in, that only it does, and that a refill writes to fresh
pages only. `OneOwner` needs two facts about room (`Stock`): an unused
alias has no entry (`Blank`), so that a refill overwrites none, and a reservation
never holds more waiting blocks than a refill uses (`Places`), so that a refill
forgets none. Then each action either keeps the owner of a block (`OwnerKept`) or
names the old one, which was the only one, and the new one (`OnlyOwner`).

*Stale mappings.* `UnmappedWhenFlushed` follows from what one section under `buf_lock` does to
its buffer: `Remembers(m, x)` says that what was pending in `m` is pending in `x` or has
been unmapped on the way, and has been unmapped if the version moved. Each stage of a
free keeps it (`AddRangeForgetsNothing`, where an overflow is the case of interest, and the
lemmas beside it), so does the handler's flush, and `CommitUnmaps` carries it over to the page table; no
other step touches a buffer or takes an alias from a free (`AwaitsKept`).

`DeadComesBackAcross` needs to know where a handler stands (`Runs`): on the last alias of
its run or right behind it (`Stands`, by its `pc`), and the aliases of the run that lie in the
table it has locked still have their entries (`RunHasEntries`), because a free of one
would have needed the lock. So when `MapRun` maps a freed alias, the handler has left the table of
that alias, or all tables. Both are per handler; `RunKept` says when
the steps of others leave them alone.

*AliasSpace.* `OneTime` compares what threads hold with what was used; `IInv` adds
where things come from: ranges are well formed and a placed request covers exactly
its n pages (`Ranges`); what is cached or claimed lies below `high` and belongs to
one thread and one slot (`Held`); what has an entry, is gone, belongs to an object
or is being freed or written lies below `high` and in no thread's hands
(`UsedIsOut`). The counts need more (`CInv`): every border that a step cuts at is the
border of a table, except where the cut is a request's own end (`Shape`); an entry
belongs to one object, one free or one unfinished request, so that a free meets
pages that are not gone yet (`Owners`); and a table that was never written lies in
one thread's hands as a whole (`CountOf`), which is what makes it harmless that
`trie_remove_range` marks such a table destroyed. The subtraction there drops out of
the proof, since for every number of pages it is zero in the ten bits of the count.
A count is compared with `gone` by the cardinality of the interval that the step
adds (`GoneGrows`), and it can be zero only when every page of the table is gone.

*Trie.* The cache may hold an unlinked table in two windows only, and `CacheIsFresh`
names who is in them: `Unlink` opens the first for the thread that will invalidate,
`Store` the second for the handler that will verify. Both are closed by the one who
opened them (`InvalidateStep`, `VerifyStep`), and no other step opens one
(`QuietUser`, `QuietHandler`). `IInv` adds that an iterator that is about to work on
a table has a level of one (`IterLevel`, `WalkLevel`), and that the cache of a level
holds tables of that level, so that the thread that invalidates level 2 is the one
that unlinked an L2 table.

*Counts of the trie.* `TInv` joins `IInv` in three layers. `Pages` is about the L1
tables: every one belongs to one object, one free that has not come to it, or one
allocation (`Claims`), and one thread or handler holds the lock of a locked one
(`Locks`). `Flags` (`Remembers`) says what an iterator's fields mean at each of its
steps, above all that `last` is not left over from an earlier table when the code
comes to subtract two. On these rest the upper tables. `Counted` is `CountsAreExact`;
each step is reduced to the change of the acting thread's `Weight` in a table, 0, 1
for an access, or 2 with a child to subtract (`UsesChange`), against the change of
the count and of the children that are gone. `Life` says that a table is unused,
linked, or being left by exactly one thread, and that what was reclaimed had lost
everything below it. The argument is a circle that only the whole invariant closes:
the count of a table is zero only when nobody is inside (`CountSays`), so the thread
that unlinks it is alone (`LeaverIsAlone`) and no iterator loses a table under its
feet (`Valid`), so every count that is decremented is the count of a linked table.
An allocation takes no access: it is safe because the entry it is going to write
is not destroyed, and everything below a table that goes is (`LostDown`). A
table that an allocation finds missing was never linked before (`FreshTable`), for
the same reason.

The bound on a count (`TypeOK`) does not follow from `CountsAreExact`: a thread that has
removed a child keeps `is_last` until it has the next lock (`trie.c:433-459`), and such
a thread counts twice. `Debts` says for which child it owes (`Debt`), that this child is
gone, and that no other thread owes for the same; so there are at most as many debts
as children that are gone (`OwersAreFew`, by the pigeonhole principle). A debt is only ever made by the step
that takes the child away (`BodyDebt`, `ReclaimDebt`) or carried on (`CarriedDebt`); an iterator that
finds the next table missing is no exception, because a free never does
(`TakenIsBelow`, which needs that the table above a written entry was linked, `Placed`).

*The handler's pages.* `Translates` says what a handler carries: at the steps between
its translation and its second look a page that belongs to somebody else means that the table was
unmapped (`Translated`). An unmapped table is never a table again (`UnmappedStays`, by `FreshTable` and
`LeaverIsAlone`) and not linked (`Life`), so the entry turns the handler down. In the cache it can be
only in one of the two windows of `CacheIsFresh`; the thread that took it out of the trie has passed the first, since
what it has yet to invalidate is still in use, and what is left is another handler.

*Fork lock.* The counter alone decides who gets the lock, so the invariant must say
what it is made of: `CounterIs` writes it as four times the counted threads and
leaked holds, twice the writers, and a WAIT bit that is set only while somebody
waits. With `WriterIsAlone` this is inductive: a reader that finds no bit set knows
that nobody writes, a compare-and-swap that finds less than WRITE knows that nobody
is counted. That a fork meets nobody who holds the lock follows: the exchange that took it found the count zero and
`WriterIsAlone` keeps it so; `aligned_alloc` (`pc = "bare"`) is outside of all this. The lemmas are one for each kind of step (`Adding`, `Removing`, `Taking`,
`Flagging`, `Unlocking`, `Forking`, `Leaking`, and `Quiet` for the rest), and the
refinement goes through the same kinds (`SharedTaken`, `SharedReleased`,
`ExclusiveTaken`, `ExclusiveReleased`; a `realloc` that leaks its hold is a stutter,
the child of a fork a release). The value that a writer loaded is 0 or 1, which is
why a successful exchange means a free lock.

*Sizes and calls.* The size theorems split on the ten bands, in each of which the
arithmetic is linear. `FreesItsPages` needs more: the block that a `memalign` is cut
from is a class, what is left of it need not be the class of any size asked for.
But a block lies at a multiple of its class's unit, and what is cut off its front to align it
is a multiple of the unit too (`SkipIsMultiple`: of two powers of two one divides the other, `Fits`), so that
what is left is one to eight units, which is a class again and found from its index
(`MultipleIsClass`). Hence every object is `Sized` when it is made (`ObjectsAre`).
`AInv` keeps it so: what a call is about is live and no other call holds it (`Held`), which
makes true of a `realloc` what it read before it gave the lock up: when it copies, the
size that it read is still at least that of the old object (`Copies`), also after
faults and the calls of others in between. One lemma (`Step`) says what a step of one
thread must respect of the calls of the others; the actions are instances of it.
`LeaksFit` reserves for every running `realloc` the hold it may leave behind.

*Kernel allocator.* `KInv` says of a listed block (`Sound`) that its minors lie apart
(each starts behind the end of the one before it, the last one ends inside the pages) and
that `usage` is the sum of what they take; of the threads (`Owned`) that the minors'
addresses are exactly the pointers held, each by one thread; and of a `krealloc` that has
given its lock up (`Growing`) that its thread still holds the old pointer, so that the
`kfree` behind it finds it. `Owned` and `Sound` need each other: a
free takes away the one minor of an address because minors lie apart, and no pointer is
given twice because a gap has no minor. That the code may compare a request with the
free space of a block before it looks for a gap is the lemma `GapFits`: no gap is
larger than the free space, by a sum over the minors; `NewBlockOnlyWhenNeeded` rests on
it. `PagesAreEnough` says that a new block holds its header and the request that it was made for
(`pages` is a rounded quotient). The sum of a sequence that a minor is put into, taken out of
or resized in is treated once (`Splice`, `Inserted`, `Removed`, `Resized`), the
recursive function `Taken` by induction over its prefixes. `BestOf` and `Taken`
are stated so that they can be proved about: a block with the most space chosen from a
set, a sum as a recursive function.

*Lists and areas.* The list theorems are about any set `S` of nodes that is closed
under `next` and `prev` and in which they are inverse (`Linked`). The invariant of `Vma`
is local, so that a change of the list has to be looked at only where it happens:
`Chain(m, L)` says that the areas of `L` are linked with each other and the head only, that
no area is empty, that the area behind one starts at its end or later, and that
nothing of `L` lies between them; the head comes before the lowest. `Tidy(m, A, B)` adds that all allocated areas
are in the list and that two neighbours could be one area only when the first is in
`A` or the second in `B`; `VInv` has `Tidy(mm, {}, {})`. Inside a call it is weaker: after a
split the two ends of the range may be mergeable, and `A` and `B` say so.

The order of the whole list (`ListIsSorted`) then needs the walk from the head. It ends because
addresses grow along it: `Recursion` gives the recursive function along a
well-founded order, and `EntriesVisit` shows that `Entries` has every area once and in
order. From there, `RangeIs` shows that what `vmem_find_vma` and the search for the last area find is a
section of the list, although the two look for their areas by different conditions.
Each change of a list is one lemma: `Added` for an area that fits in a gap, `CutOut` for
a section of any length that is taken out (one merged area included),
`MergeNext`, `MergePrev` and `MergeBoth`, `SplitIs`. The calls are put together from
them: `SplitVmaIs` (a second split that fails is merged back to exactly the neighbours there were),
`UnlinkIs`, `SetProtIs` (the merges of `mprotect` walk over the range and
leave one place less that may be mergeable behind them), `PlaceIs` (what first fit and the
search behind a hint find lies in a gap; `x & ~m` is at least `Base` there, `AndNotLow`) and
`MappedIs`.

The refinement of `Regions` follows what the areas say of an address: `View(m, x)` is the
set of attributes of the areas that `x` lies in, one of them at most. Every merge and every split is
`Same` to it, whatever it does to the list (`MergeBothSame`, `SplitSame`), so that `SplitVmaSame`
has a call that failed half way change nothing, and `UnlinkView`, `ProtectedView` and `MappedIs` say
what the one change of a call does. `RInv` adds to `VInv` that areas begin and end at pages and that a
page in the page table lies in an area. What was asked for in pages and what was done in addresses is
the same because of it: a page that the call has a part of lies in the cut range whole
(`PageInRange`). `mprotect` does not split an area that has the permissions already, and
works on areas that reach beyond the range: `Trimmed` says that what lies beyond has the
permissions. All of it is stated under `onPages`, which a step can only take away (`OnPagesMoves`, `OnPagesFalls`). That a
new area begins at a page for every hint of `HintsArePages` (`HintsLeadToPages`) is a fact about
masks: `x & ~(h - 1)` is a multiple of every power of two that divides `h`, and leaves a multiple of `h`
where it is (`MaskLeavesMultiples`, `RoundsExactly`, both by halving both sides). Each
action is then one of the actions of `Regions` (`MapStep` to `AdviseStep`) or, when the process ends, a stutter.

Not proved, only model-checked: `NoStaleReuse`, `FreeBlockUnmapped`, `StaleIsPending` and `StaysDead`, which hold in
restricted configurations only (section 10), `ReadsOnlyTables` for one handler, and the
liveness properties, which are beyond the provers used (no ENABLED, no fairness).

## 12. What is not modelled

- An object of several pages in `BatchedFree` (`AliasSpace` has them): a free of n
  pages extends a range by n instead of one.
- The lists behind the pages of tables (`get_new_page` with its rollback, the
  threshold of `reclaim`): `Trie` has pages that appear when they are needed and
  are unmapped at some time after they were reclaimed. Planned as `NodePages`.
- `trie_remove_range` above the L1 tables; in `AliasSpace` it is modelled on them.
- Which error the program sees from a fault on a missing path (`trylock_failed` is
  not initialised there); the fault changes nothing either way.
- In `Trie`, what an L1 table contains: it is `AliasSpace` and `BatchedFree`.
- The pages of mimalloc: external, a set of free blocks.
- `map` and `unmap` of `page_ops.bpf.c`, used only without batching.
- What lies inside `mimalloc`, third-party code with a patch: a set of free blocks in
  `BatchedFree`, blocks of classes at multiples of their size in `Api`.
- Names of areas, file mappings (`do_mmap` refuses them) and address overflow.
- The interleaving of `Api` with the insides of `BatchedFree`: an entry point's work
  is one step in `Api` under the shared lock, and many in `BatchedFree` without it.
- Spin locks: one atomic exchange; in the models a lock is held or free.
- BPF loader, console, debug output, C library shims, benchmarks: input and output.
- Memory ordering: the code uses `__sync`/`__atomic` operations and a compiler
  for a strongly ordered machine; steps are sequentially consistent here.

## 13. Plan

In this order, most important first.

| module | next |
|---|---|
| `NodePages` | a new module: lists of new and reclaimed table pages, `get_new_page` with its rollback, `reclaim`: a page is on one list, none is unmapped while it is a table, none is lost |
| `OneTimeAlloc` | abstract specification: an alias is fresh, live, dead; a block is owned once; `BatchedFree` without prefetch implements it |
