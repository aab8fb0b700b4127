# TLA+ models of the Pintos buddy allocator and signals

This directory holds TLA+ models of two parts of `src/pintos/src/threads/`:

- `malloc.c` is a power-of-two buddy allocator layered on the page allocator.
- `signal.c` / `signal.h` provide per-thread signal masks, `kill`, and default handlers.

Each model is checked with TLC. `PROJECT.json` lists the components, the runs and their expected outcomes, the mutants, the map from every definition to the source lines it models, the findings, and the hazards.

## The system

| Part | Code | What it does |
|---|---|---|
| C1 palloc | `threads/palloc.c` (not under `src/`) | Hands out runs of 4 kB pages. Frees them, with 0xcc poisoning in a debug build. |
| C2 arena | `struct arena`, `block_to_arena`, `arena_to_block` | A page with a 24-byte header. Blocks sit at `header + idx * block_size`. |
| C3 descriptors | `descs[]`, `malloc_init` | One free list and one lock per block size: 16, 32, …, 1024. |
| C4 allocator core | `malloc`, `free`, `calloc`, `realloc`, `printMemory` | Split on demand, coalesce on free. Big requests take whole pages. |
| C5 registry | `arena_list` | The small arenas in use. Updated with no lock. |
| C6 signal state | `sigmask`, `pending_signals`, `unblock_list` (in `struct thread`) | Per-thread mask and pending records, plus a global unblock queue. |
| C7 signal API | `signal_`, `kill`, `sig*set`, `sigprocmask`, handlers | Mask manipulation, sending, and the default actions at delivery. |

How the parts interact:

- `malloc` finds the target class and scans for a non-empty free list with **no lock**.
  - If there is none, it takes a fresh page from palloc and carves it. Each push happens under that descriptor's lock.
  - Otherwise it peeks the head of the list under that list's lock, then splits the block. The pops in the split path run without a lock.
- `free` takes no lock at all.
  - It reads the word 4 bytes below `p` as the arena header's `num_pages`. If that word is nonzero, it frees that many pages.
  - Otherwise it coalesces upward by buddy index. When the block reaches the top class, it unregisters the arena and returns the page.
- `kill` uses `malloc` for its pending records. That call can block, so it splits kill's scan from its append.

## Modules

| Module | Models | State | Actions |
|---|---|---|---|
| `Heap` | The contract of C4 (abstract) | `held`: the regions callers hold | `Alloc`, `Free` |
| `Malloc` | C1 (from the spec), C2, C3, C4 (malloc, free, calloc, realloc), C5 | `freeFrames`, `numPages`, `mem` (size words), `freeList`, `arenaList`, per-thread `pc` / `loc`, `live` blocks, `fault` | One action per locked region or unlocked list operation of `malloc` and `free`; `Calloc`, `Zero`, `Realloc`, `Copy`, `PrintMemory` |
| `MCMalloc` | Model values and small sets for TLC | – | – |
| `Signal` | C6, C7; the thread.c side from the spec | `sigmask`, `set`, `pending`, `status`, `uNext`, `uPrev`, `pc`, `arg`, `ret`, `fault` | `Signal_`, `KillRejected`, `KillUblock` (with `PushBack`), `KillSend`, `KillDenied`, `KillNoMemory`, `KillAppend`, `SigEmptyFill`, `SigDelSet`, `SigAddSet`, `SigProcMask`, `Block`, `Unblock`, `Deliver` |
| `MCSignal` | The parent chain and signal numbers for TLC | – | – |

### How `Malloc` corresponds to `malloc.c`

**Memory abstraction.** Memory is abstracted to the words the code reads back:

- A page is a frame number.
- An arena's buddy region is cut into 16-byte slots. A block of class `c` and index `j` starts at slot `j * 2^c`; this is `arena_to_block`.
- `mem[f][m]` is the 4-byte word at page offset `24 + 16m + 12`.
  - It is the `size` field of a `struct block` at slot `m`.
  - It is also the word that `free` reads as `num_pages` for a block at slot `m + 1`. This is what `NumPagesRead` returns.

**Scaling.** The descriptors are scaled to `DescCnt` classes, with `PGSIZE = 16 * 2^(DescCnt+1)`. This preserves the code's rule that block sizes stop below `PGSIZE / 2`. `size_t` is `SizeBits` wide and all size arithmetic is taken modulo `2^SizeBits`.

**Atomicity.** Every region between `lock_acquire` and `lock_release` is one step. Every list operation done without a lock is its own step. The `pc` values name where a thread stands:

| `pc` | Point in the code |
|---|---|
| `fresh` | line 150 |
| `carve` | the loop at line 160 |
| `register` | line 183 |
| `peek` | line 191 |
| `pop` | line 203 |
| `split` | line 211 |
| `halve` | line 230 |
| `last` | line 240 |
| `coalesce` | line 321 |
| `merge` | line 347 |
| `push` | line 362 |

**Build.** `DebugBuild` only decides whether `palloc_free_multiple` poisons freed pages with 0xcc. The faults are the ASSERTs of a debug build in both cases. So the runs with `DebugBuild = FALSE` are not a real Pintos build: in an NDEBUG build the ASSERTs are compiled out as well. They show the heap of a build that does not poison. A fault there is the state where a debug build would panic, and where an NDEBUG build goes on with a corrupted heap.

**Faults.** A kernel ASSERT, or a list operation on an element that is not on the list, is recorded in `fault`, and the thread stops. This covers `list_pop_front` on an empty list, the magic and alignment checks in `block_to_arena`, the alignment, range and in-use checks of `palloc_free_multiple` (`PallocFreeOk`), `list_remove`, and division by a zero stored size.

**calloc and realloc.** Both call `malloc` and `free` as nested calls. The caller's `loc` records `mode` (`"calloc"` or `"realloc"`), the requested size, and for realloc the old block:

- `Calloc` computes `a * b` modulo `2^SizeBits` and applies the code's check `size < a || size < b`. A rejected call returns NULL; otherwise the thread enters `malloc` (`pc = "malloc"`).
- The malloc actions accept a call from `pc = "malloc"` as well as from idle (`Entered`, `CallLoc`). On return, `ReturnFrom` sends a non-NULL calloc result to `pc = "zero"` and a non-NULL realloc result with a non-NULL old block to `pc = "copy"`.
- `Zero` is the `memset (p, 0, size)`. `Copy` reads `old_block->size` (`WordAt`), takes the minimum with the new size, does the `memcpy`, and goes to `pc = "free"`, where `FreeBig`/`FreeSmall` free the old block (`Freeing`). `Realloc` with size 0 goes straight to `pc = "free"`.
- `memset` and `memcpy` are modelled byte-wise on the words the model keeps. `Fill` writes every modelled word whose offset from `p` lies below `n`. A word only partly covered keeps its high bytes (`Splice`, little-endian). `MemOff` and `NpOff` give a word's offset from `p`. A source word the model does not keep reads as 0, or as 0 or the 0xcc poison in a debug build (`Junk`): that is the outcome of reading an uninitialised word.

**printMemory.** `PrintMemory` is the diagnostic walk. With `arena_list` empty it only prints. Otherwise it walks every free list in class order and calls `block_to_arena (b, b->size)` on each block. The first block whose stored size is 0 or does not divide its offset fires the ASSERT (`BadFree`, `FaultOf`). The walk only reads, so it is one step. The printing is left out. The constant `Printing` enables it; only `malloc_api` sets it.

### How `Signal` corresponds to `signal.c`

A thread is its tid, and `Parent` gives each thread's `parent_thread`. The pieces map to the code as follows:

- `KillSend` is the scan of `pending_signals`. For `SIG_KILL` it comes after the parent-chain walk `ParentFound`, which is a `RECURSIVE` operator.
- `KillAppend` is the append that follows `malloc`. `KillNoMemory` is the same point when `malloc` returns NULL (enabled by `MallocMayFail`): the code writes through the NULL record, which is recorded as the fault `"null"`.
- `Deliver` runs the default handler of the first pending record. `SIG_KILL` ends the thread.
- `Block`, `Unblock` and `Valid` model thread.c from the spec:
  - `Block` is `thread_block`.
  - `Unblock` is the scheduler consuming `unblock_list` and calling `thread_unblock`, which ASSERTs that the thread is blocked. The spec (its section on `kill`) puts the scheduler out of scope, so no fairness is assumed for it.
- `unblock_list` is the intrusive list of `lib/kernel/list.c`. `uNext` and `uPrev` are the links of each thread's `unblock_elem` and of the list's head and tail (`ListHead`, `ListTail`). `PushBack` is `list_insert` before the tail, with its four writes in their order. `Unblock` pops the front with `list_remove`'s two writes. So a second `kill(tid, SIG_UBLOCK)` on a thread still on the list relinks its element before the tail. The threads queued after it drop off the list. If the thread was last, its element links to itself, and the scheduler pops it again.
  - `Valid` is `validated_tid`.

`Up` and `Ancestors` form a separate reference definition of a thread's ancestors, against which the walk is checked.

## Runs

| Run | Expect | Bounds | What it shows |
|---|---|---|---|
| `malloc_seq` | pass | 1 thread, 3 pages, 4 classes (16..128 B, 512 B page), sizes {0, 32, 64, 100, 600}, 7 calls, no poisoning | Between calls, the free lists and held blocks tile every registered arena exactly (`HeapPartition`). No two free buddies are left uncoalesced (`Coalesced`). An empty heap has returned every page (`ReclaimWhenEmpty`). No ASSERT fires (`NoFault`). Every behaviour implements `Heap` (`HeapRefined`). No step returns to palloc a page that a held block lies on (`NoLivePageFreed`). |
| `malloc_api` | pass | 1 thread, 3 pages, 4 classes, malloc sizes {0, 100, 600}, calloc (0,7), (2,300), (2,40000), (256,256), realloc sizes {0, 600}, 7 calls, no poisoning | The memset and memcpy of big blocks leave `free` working (`NoFault`). The heap stays a partition (`HeapPartition`) and implements `Heap` (`HeapRefined`). No page under a held block goes back to palloc (`NoLivePageFreed`). `printMemory` finds every free block well formed (`NoFault`). Under `FairSpec`, every call returns, including when the pages run out (`CallsReturn`). |
| `malloc_calloc_wrap` | violation | 1 thread, calloc (257, 257), 16-bit `size_t` | The product wraps to 513 and passes the overflow check (`CallocExact`). |
| `malloc_class16` | violation | 1 thread, sizes {16, 32} | Spec scenario S4. The second 16-byte block's `num_pages` read hits the first block's size field (16). `free` hands palloc a pointer 16 bytes into the page, and its alignment ASSERT fires; an NDEBUG build would free 16 pages from there. |
| `malloc_poison` | violation | 1 page, debug build | A recycled page leaves 0xcc below a block, and `free` takes it for `num_pages`. |
| `malloc_race_split` | violation | 2 threads, 2 pages, 3 classes, sizes {32, 64} | The stale `arena_obj` makes `malloc` hand out a block another caller holds. `HeapRefined` fails. |
| `malloc_race_peek` | violation | same | A list emptied between the unlocked scan and the peek fires the magic ASSERT. |
| `malloc_race_free` | violation | same | Two unlocked frees of buddies both push, so the arena is never reclaimed. |
| `signal_one` | pass | tids 1..4 in a chain 4→3→2→1, sender tid 2, mask user tid 3, signal numbers {-1, 2, 3, 4, 5}, 5 calls, `malloc` may fail | Masks stay within the five signal bits (`TypeOK`). A pending `SIG_KILL` always comes from an ancestor (`KillFromAncestor`). This holds over every interleaving of kills, the mask API, blocking, the `unblock_list` links and delivery. With one sender, `kill`'s coalescing is not in question here; `signal_race` checks it with two. |
| `signal_ublock` | violation | sender 2, 4 calls | A second `kill(tid, SIG_UBLOCK)` on a blocked thread links its `unblock_elem` to itself. The scheduler pops it again, and `thread_unblock`'s ASSERT fires. |
| `signal_race` | violation | senders 1 and 2, 3 calls | Both senders find no record and both append one. |
| `signal_self` | violation | sender 2, 2 calls | Spec scenario S6. `kill(self, SIG_KILL)` is refused. |

**Why the bounds are enough.**

- In `malloc_seq`, 7 calls over 3 pages are enough to:
  - fill a page down to its smallest class,
  - split blocks of every class,
  - take a second arena,
  - allocate a 2-page big block (600 + 24 > 512),
  - run out of pages,
  - and free everything in every order, so that every coalescing path and the reclaim run.

  Request 100 lands in the top class (128). Request 0 takes the null-pointer path.
- Class 16 is left out of `malloc_seq` on purpose: with it, `free` always breaks (`malloc_class16`). The pass run shows that everything else holds once this is excluded.
- `malloc_api` has calloc arguments of each kind: a zero product (0, 7), a product past `PGSIZE` that takes a big block (2, 300), and two whose 16-bit products wrap below a factor and are rejected (2, 40000) and (256, 256). Realloc to 600 takes the copy path from a big block. Three inputs are left out because they break the heap at once. TLC finds each one when its input is added to this cfg:
  - `calloc (1, 32)`: the memset zeroes the block's own size word, and `free` divides by 0 (`NoFault`).
  - realloc of a big block to 100: a stale word of the reused page is read as `old_block->size` and copied over the new size word (`NoFault`).
  - realloc of a 32-byte block to 64: the copied size word 32 makes `free` return half the block (`HeapPartition`).
  
  These cases, and `malloc (65530)` with a 16-bit `size_t` (the page count, computed in `size_t` by `DivRoundUp`, wraps to one page), are recorded as hazards in `PROJECT.json` rather than as runs of their own.
- In `signal_one`, the chain is four deep, so the walk recurses twice for `kill(4, SIG_KILL)` from tid 2. It is refused for tids 1 and 2. Signal numbers -1 and 5 exercise the range checks.

**Mutants.** Each property of a passing run has a mutant in its module: a plausible slip in the code it checks. TLC finds the property violated when that mutant replaces the original definition. The pairs are listed in `PROJECT.json` under `mutants`.

**Action property.** `NoLivePageFreed` (runs `malloc_seq` and `malloc_api`) is stated over pairs of states. No step adds to palloc's free pages a page that `PagesOf(a)` gives for a block `a` held before and after the step. That is the page of a small block's arena, or the `num_pages` run of a big block. It is a consequence of `free` reading the right `num_pages` (malloc.c 305-311) and of the reclaim of an empty arena. `palloc_free_multiple` only ASSERTs that the pages are in use, so this corruption is silent there. The mutant `FreeBigOneMore` frees one page too many, and TLC finds a live block's page freed.

## Fairness and deadlock

The callers are bounded by `MaxOps`, so every run may end with all threads idle. Every cfg therefore sets `CHECK_DEADLOCK FALSE`, and says so in a comment.

One liveness property is checked.

`CallsReturn` (module `Malloc`, run `malloc_api`) says every call eventually returns. It is checked under `FairSpec == Spec /\ \A t \in Threads : WF_vars(Busy(t) /\ ThreadNext(t))`. This is weak fairness of each thread's next step inside a call. The Pintos scheduler is preemptive round robin, so a ready thread keeps being scheduled. The allocator's locks are held only for single steps of the model, so no step waits on another thread. Idle callers get no fairness, so nothing forces a new call. The mutant `FreshArenaSpin` waits for a page instead of returning NULL, and TLC finds the thread stuck in `fresh`.

The `Signal` module assumes no fairness. Its scheduler is out of the spec's scope. Even under a fair scheduler, a thread queued on `unblock_list` need not run again: a second `kill(tid, SIG_UBLOCK)` on an earlier thread cuts it off the list (for example Block 3, Block 4, then SIG_UBLOCK to 3, 4 and 3). `signal_ublock` shows the ASSERT that the same double push leads to.

## Not modelled, and why

- **`printMemory`'s output** is left out, and its walk is one step. A walk interleaved with other threads' unlocked list operations, which can follow a link out of a removed element, is therefore not represented.
- **The contents of user data** are not modelled, except the words the allocator reads back. Callers are assumed not to write into their blocks. Because `malloc` returns the `struct block` pointer itself, a caller that does write would overwrite the stored `size`.
- **`kill`'s `malloc`** failing is modelled as a fault at the write, not as what happens after it.
- **User data** written by callers into their blocks is not modelled; `memcpy`'s source words outside the model's words read as 0 (or poison).
- **Thread creation and exit for the parent walk.** `Parent` is a constant, so the `SIG_KILL` walk (signal.c 113-125) never meets an ancestor whose `struct thread` has been freed. It is listed as a hazard without a property.
- **A block handed out twice.** `live` is a set of `[t, ptr, len]`, so a second hand-out of a block the same thread already holds, with the same size, is a stutter of `Heap`. It is invisible to `HeapRefined` and `HeapPartition`. Handing a block to another thread is seen (`malloc_race_split`).
- **`kill`'s record in the heap.** `struct signal` is 16 bytes, and its `sender` field, written at signal.c line 100, lies on the allocator's size word. `Signal` does not model the record's memory, so this is a hazard without a property.
- **`CHLD_handler` and `CPU_handler`** are left out. `kill` never queues `SIG_CHLD` or `SIG_CPU`.

## Plan

The modules are built in this order: `Heap` → `Malloc` (which refines `Heap`) → `Signal`. `Signal` treats `malloc` as a blocking call. A composition of the two is not needed for the properties above.

Done in the second sitting: calloc and realloc, the `page_cnt` wrap property, kill's failing `malloc`, and liveness of `unblock_list`.

Done in the third sitting: `printMemory`'s ASSERTs, and liveness of every allocator call.

Done in the fourth sitting: the action property `NoLivePageFreed`, and the dangling parent walk as a hazard.

Done in the fifth sitting: `unblock_list` as the intrusive list it is; `palloc_free_multiple`'s alignment ASSERT; `DIV_ROUND_UP` wrapping in `size_t`; `free`'s rounding of a stored size up to a class. Removed: the properties that only restated a guard on chosen inputs (`BigBlockCovers`, `CallocExact` in `malloc_api`, and `AtMostOnePending` with one sender), and `UnblockServed`, which the list model refutes.

Found while modelling, and not yet a run: `kill` validates its target, then blocks in `malloc`. If the target exits meanwhile (a pending `SIG_KILL` is delivered), the append writes into the freed `struct thread`. TLC reaches this in `signal_one`'s bounds with the invariant "a thread at `append` targets a thread that has not exited". It is listed as a hazard in `PROJECT.json`.

Still to do:

1. A run for the `kill` target-exit hazard above.
2. A two-thread run of calloc/realloc against concurrent frees.
3. A run for the `size_t` wrap of the big-block page count.
