------------------------------- MODULE Malloc -------------------------------
(***************************************************************************)
(* The buddy allocator of src/pintos/src/threads/malloc.c: malloc, free    *)
(* and the arena registry, run by several kernel threads.                 *)
(*                                                                         *)
(* Memory is abstracted to what the code reads back:                      *)
(*  - a page frame is an integer of 1..NumFrames (palloc's pool);          *)
(*  - the buddy region of a small arena is cut into 16-byte slots; a block *)
(*    of class c and index j starts at slot j * 2^c, i.e. at page offset   *)
(*    Header + 16 * j * 2^c (arena_to_block);                              *)
(*  - mem[f][m] is the 4-byte word at page offset Header + 16*m + 12: the  *)
(*    `size` field of a struct block starting at slot m, and also the word *)
(*    that free() reads as `num_pages` for a block starting at slot m + 1  *)
(*    (the num_pages field of the arena header "below" p lies 4 bytes   *)
(*    below p);                                                           *)
(*  - numPages[f] is the num_pages field of the arena header of frame f.   *)
(*                                                                         *)
(* Every region of the code between lock_acquire and lock_release is one   *)
(* step; every list operation done without a lock is a step of its own,   *)
(* so other threads interleave exactly where the code lets them.           *)
(***************************************************************************)
EXTENDS Integers, Sequences, SequencesExt, FiniteSets

CONSTANTS
  Threads,     \* kernel threads calling the allocator
  NumFrames,   \* pages in palloc's pool
  DescCnt,     \* number of descriptors: block sizes 16 .. 16 * 2^(DescCnt-1)
  Sizes,       \* request sizes the callers pass to malloc
  CallocArgs,  \* <<a, b>> argument pairs the callers pass to calloc
  ReallocSizes, \* new sizes the callers pass to realloc
  MaxOps,      \* bound on the number of calls the callers make
  SizeBits,    \* width of size_t
  DebugBuild,  \* TRUE when palloc_free_multiple poisons freed pages (0xcc)
  Printing,    \* TRUE when the callers also call printMemory
  NULL         \* the null pointer

ASSUME DescCnt \in 1..7 /\ NumFrames \in Nat \ {0} /\ MaxOps \in Nat
ASSUME Sizes \cup ReallocSizes \subseteq 0..(2^SizeBits - 1) /\ DebugBuild \in BOOLEAN /\ Printing \in BOOLEAN
ASSUME CallocArgs \subseteq (0..(2^SizeBits - 1)) \X (0..(2^SizeBits - 1))

Header  == 24                               \* sizeof (struct arena)
PGSIZE  == 16 * 2^(DescCnt + 1)             \* block sizes stop below PGSIZE / 2
SizeMax == 2^SizeBits                       \* size_t arithmetic is mod SizeMax
\* The word palloc_free_multiple writes when it memsets a page with 0xcc.
Poison  == ((SizeMax - 1) * 4) \div 5
Classes == 0..(DescCnt - 1)
Frames  == 1..NumFrames
Slots   == 0..(2^DescCnt - 1)
Ptrs    == Frames \X Slots                  \* <<frame, slot>> of a block

BlockSize(c) == 16 * 2^c
SlotOf(c, j) == j * 2^c
\* DIV_ROUND_UP (x, y), evaluated in size_t: x + y - 1 wraps too.
DivRoundUp(x, y) == ((x + y - 1) % SizeMax) \div y

VARIABLES
  freeFrames,  \* frames palloc has not handed out
  numPages,    \* numPages[f]: the arena header's num_pages field
  mem,         \* mem[f][m]: the size word of slot m (see above)
  freeList,    \* freeList[c]: descs[c].free_list, a sequence of Ptrs
  arenaList,   \* arena_list, the registry of small arenas
  pc,          \* where each thread is in its current call
  loc,         \* each thread's local variables
  live,        \* blocks the callers hold: [t, ptr, len] (len = request)
  ops,         \* calls made so far
  fault        \* kernel ASSERTs that fired and lists that were corrupted

vars == <<freeFrames, numPages, mem, freeList, arenaList, pc, loc, live, ops, fault>>

\* mode: which call entered malloc; want: calloc's a * b before wrapping;
\* old: the block realloc resizes (a record of live) or NULL.
LocInit == [size |-> 0, k |-> 0, s |-> 0, cur |-> 0, ar |-> 0, blk |-> NULL,
            bi |-> 0, odd |-> FALSE, bud |-> NULL,
            mode |-> "malloc", want |-> 0, old |-> NULL]

Init ==
  /\ freeFrames = Frames
  /\ numPages = [f \in Frames |-> 0]
  /\ mem = [f \in Frames |-> [m \in Slots |-> 0]]
  /\ freeList = [c \in Classes |-> <<>>]
  /\ arenaList = <<>>
  /\ pc = [t \in Threads |-> "idle"]
  /\ loc = [t \in Threads |-> LocInit]
  /\ live = {}
  /\ ops = 0
  /\ fault = {}

-----------------------------------------------------------------------------
(* Helpers                                                                 *)

\* The smallest descriptor whose block size is at least size, or DescCnt.
Target(size) ==
  IF \E c \in Classes : BlockSize(c) >= size
  THEN CHOOSE c \in Classes : BlockSize(c) >= size /\ \A d \in 0..(c-1) : BlockSize(d) < size
  ELSE DescCnt

\* malloc lines 115-124: from class k up, the first non-empty free list.
FirstNonEmpty(k) ==
  IF \E c \in k..(DescCnt - 1) : freeList[c] # <<>>
  THEN CHOOSE c \in k..(DescCnt - 1) : freeList[c] # <<>> /\ \A d \in k..(c-1) : freeList[d] = <<>>
  ELSE DescCnt

\* palloc_get_multiple(0, n): the first frames of the free runs of n pages.
PallocRuns(n) ==
  IF n = 0 THEN {} ELSE {f \in Frames : f + n - 1 <= NumFrames /\ (f..(f + n - 1)) \subseteq freeFrames}

\* palloc_free_multiple(f, n): frees the pages, poisoning them in a debug build.
PallocFree(f, n) ==
  /\ freeFrames' = freeFrames \cup (f..(f + n - 1))
  /\ mem' = [g \in Frames |-> IF g \in f..(f + n - 1) /\ DebugBuild THEN [m \in Slots |-> Poison] ELSE mem[g]]
  /\ numPages' = [g \in Frames |-> IF g \in f..(f + n - 1) /\ DebugBuild THEN Poison ELSE numPages[g]]

Held(t) == {a \in live : a.t = t}

\* The word free() reads as num_pages for a block pointer <<f, m>>.
\* palloc_free_multiple (f's page + 16 * p[2] - 24, np) ASSERTs that the
\* pointer is page aligned, and that the np pages lie in the pool and are
\* all in use.
PallocFreeOk(p, np) ==
  /\ p[2] = 0
  /\ p[1] + np - 1 <= NumFrames
  /\ (p[1]..(p[1] + np - 1)) \cap freeFrames = {}

NumPagesRead(p) == IF p[2] = 0 THEN numPages[p[1]] ELSE mem[p[1]][p[2] - 1]

\* Byte offsets, from block pointer p, of the words the model keeps: the
\* size word of slot m of frame g, and the num_pages word of frame g.
MemOff(p, g, m) == (g - p[1]) * PGSIZE + 12 + 16 * (m - p[2])
NpOff(p, g) == (g - p[1]) * PGSIZE - 4 - 16 * p[2]

\* A little-endian 4-byte word v whose k lowest bytes are replaced by w's.
Splice(v, w, k) ==
  IF k <= 0 THEN v ELSE IF k >= 4 THEN w ELSE (v \div 256^k) * 256^k + (w % 256^k)

\* memset / memcpy of n bytes at p: every kept word in [p, p + n) takes the
\* bytes W(o) gives for its offset o.
Fill(p, n, W(_)) ==
  /\ mem' = [g \in Frames |-> [m \in Slots |->
                LET o == MemOff(p, g, m) IN
                IF o < 0 THEN mem[g][m] ELSE Splice(mem[g][m], W(o), n - o)]]
  /\ numPages' = [g \in Frames |->
                LET o == NpOff(p, g) IN
                IF o < 0 THEN numPages[g] ELSE Splice(numPages[g], W(o), n - o)]

\* The word at offset o from block pointer p, as memcpy reads it: a kept
\* word, or junk (a word of a page header or page tail nothing writes).
WordAt(p, o, junk) ==
  LET po == Header + 16 * p[2] + o
      g  == p[1] + po \div PGSIZE
      r  == po % PGSIZE IN
  IF g \notin Frames THEN junk
  ELSE IF r = Header - 4 THEN numPages[g]
  ELSE IF r >= Header + 12 /\ (r - Header - 12) \div 16 \in Slots THEN mem[g][(r - Header - 12) \div 16]
  ELSE junk

\* What a word no step writes may hold: the page's first contents (zero),
\* or palloc's 0xcc poison in a debug build.
Junk == IF DebugBuild THEN {0, Poison} ELSE {0}

\* malloc returns p: the caller holds it, and calloc goes on to zero it
\* (line 259), realloc to copy into it (line 283); else the call ends.
ReturnFrom(t, l, p) ==
  LET next == IF p # NULL /\ l.mode = "calloc" THEN "zero"
              ELSE IF p # NULL /\ l.mode = "realloc" /\ l.old # NULL THEN "copy"
              ELSE "idle" IN
  /\ live' = IF p = NULL THEN live ELSE live \cup {[t |-> t, ptr |-> p, len |-> l.size]}
  /\ pc' = [pc EXCEPT ![t] = next]
  /\ loc' = [loc EXCEPT ![t] = IF next = "idle" THEN LocInit ELSE [l EXCEPT !.blk = p]]
Return(t, p) == ReturnFrom(t, loc[t], p)

\* The sizes malloc is entered with: a new call from an idle thread, or the
\* size calloc or realloc passes on. CallLoc is the caller's frame.
Entered(t) ==
  IF pc[t] = "malloc" THEN {loc[t].size}
  ELSE IF pc[t] = "idle" /\ ops < MaxOps THEN Sizes ELSE {}
CallLoc(t, size) == IF pc[t] = "malloc" THEN loc[t] ELSE [LocInit EXCEPT !.size = size]
Counted(t) == ops' = IF pc[t] = "idle" THEN ops + 1 ELSE ops

\* The blocks free is entered with: one the idle caller holds, or realloc's
\* old block (line 288).
Freeing(t) ==
  IF pc[t] = "free" THEN {loc[t].old}
  ELSE IF pc[t] = "idle" /\ ops < MaxOps THEN Held(t) ELSE {}

Goto(t, l) == pc' = [pc EXCEPT ![t] = l]

\* A kernel ASSERT fails (or a list is corrupted): the thread stops there.
Fail(t, why) ==
  /\ fault' = fault \cup {why}
  /\ pc' = [pc EXCEPT ![t] = "fault"]
  /\ UNCHANGED <<freeFrames, numPages, mem, freeList, arenaList, loc, live, ops>>

Push(c, p) == freeList' = [freeList EXCEPT ![c] = Append(@, p)]

Done(t) ==
  /\ pc' = [pc EXCEPT ![t] = "idle"]
  /\ loc' = [loc EXCEPT ![t] = LocInit]


\* Pops the head of list c without a lock; list_pop_front ASSERTs the list
\* is non-empty.
PopThen(t, c, Then(_)) ==
  IF freeList[c] = <<>>
  THEN Fail(t, "pop_empty")
  ELSE /\ freeList' = [freeList EXCEPT ![c] = Tail(@)]
       /\ Then(Head(freeList[c]))


-----------------------------------------------------------------------------
(* Mutants: each is a plausible slip in the code of one action below; the  *)
(* check substitutes it for that action and expects a property to fail.   *)

\* calloc that clears size bytes from (struct arena *) p - 1, not from p.
ZeroBelow(t) ==
  LET p == loc[t].blk
      n == loc[t].size IN
  /\ pc[t] = "zero"
  /\ mem' = [g \in Frames |-> [m \in Slots |->
                LET o == MemOff(p, g, m) + Header IN
                IF o < 0 THEN mem[g][m] ELSE Splice(mem[g][m], 0, n - o)]]
  /\ numPages' = [g \in Frames |->
                LET o == NpOff(p, g) + Header IN
                IF o < 0 THEN numPages[g] ELSE Splice(numPages[g], 0, n - o)]
  /\ Done(t)
  /\ UNCHANGED <<freeFrames, freeList, arenaList, live, ops, fault>>

\* FreshArena that, when palloc has no page, waits for one instead of
\* returning a null pointer.
FreshArenaSpin(t) ==
  /\ pc[t] = "fresh"
  /\ IF PallocRuns(1) = {}
     THEN UNCHANGED vars
     ELSE \E f \in PallocRuns(1) :
            /\ freeFrames' = freeFrames \ {f}
            /\ numPages' = [numPages EXCEPT ![f] = 0]
            /\ loc' = [loc EXCEPT ![t].ar = f, ![t].cur = DescCnt - 1]
            /\ Goto(t, "carve")
            /\ UNCHANGED <<mem, freeList, arenaList, live, ops, fault>>

\* FreeBig that hands palloc_free_multiple one page more than num_pages.
FreeBigOneMore(t) ==
  \E a \in Freeing(t) :
       LET f  == a.ptr[1]
           np == NumPagesRead(a.ptr) + 1 IN
       /\ np > 1
       /\ Counted(t)
       /\ live' = live \ {a}
       /\ IF PallocFreeOk(a.ptr, np)
          THEN PallocFree(f, np) /\ Done(t) /\ UNCHANGED fault
          ELSE /\ fault' = fault \cup {"palloc_free"}
               /\ pc' = [pc EXCEPT ![t] = "fault"]
               /\ UNCHANGED <<freeFrames, numPages, mem, loc>>
       /\ UNCHANGED <<freeList, arenaList>>

\* Carve with an off-by-one block index (block 2 instead of block 1).
CarveOffByOne(t) ==
  LET f == loc[t].ar
      c == loc[t].cur IN
  /\ pc[t] = "carve" /\ c > loc[t].k
  /\ mem' = [mem EXCEPT ![f][SlotOf(c, 2)] = BlockSize(c)]
  /\ Push(c, <<f, SlotOf(c, 2)>>)
  /\ loc' = [loc EXCEPT ![t].cur = c - 1]
  /\ UNCHANGED <<freeFrames, numPages, arenaList, pc, live, ops, fault>>

\* SplitPush that forgets to store the halves' sizes.
SplitPushNoSize(t) ==
  LET f   == loc[t].ar
      c   == loc[t].cur - 1
      one == SlotOf(c, 2 * loc[t].bi)
      two == SlotOf(c, 2 * loc[t].bi + 1) IN
  /\ pc[t] = "halve"
  /\ freeList' = [freeList EXCEPT ![c] = @ \o <<<<f, one>>, <<f, two>>>>]
  /\ loc' = [loc EXCEPT ![t].cur = c]
  /\ Goto(t, IF c <= loc[t].k THEN "last" ELSE "split")
  /\ UNCHANGED <<freeFrames, numPages, mem, arenaList, live, ops, fault>>

\* PopReturn that returns the head of the list without popping it.
PeekReturn(t) ==
  /\ pc[t] = "pop"
  /\ freeList[loc[t].s] # <<>>
  /\ Return(t, Head(freeList[loc[t].s]))
  /\ UNCHANGED <<freeFrames, numPages, mem, freeList, arenaList, ops, fault>>

\* CoalesceScan that always looks for index + 1 as the buddy.
ScanNextOnly(t) ==
  LET p    == loc[t].blk
      i    == loc[t].cur
      ai   == (16 * p[2]) \div mem[p[1]][p[2]]
      bud  == <<p[1], SlotOf(i, ai + 1)>> IN
  /\ pc[t] = "coalesce" /\ i < DescCnt
  /\ loc' = [loc EXCEPT ![t].bud = bud, ![t].odd = FALSE]
  /\ Goto(t, IF Contains(freeList[i], bud) THEN "merge" ELSE "push")
  /\ UNCHANGED <<freeFrames, numPages, mem, freeList, arenaList, live, ops, fault>>

\* CoalesceMerge that leaves the buddy on its free list.
MergeKeepBuddy(t) ==
  LET p   == loc[t].blk
      b   == loc[t].bud
      low == IF loc[t].odd THEN b ELSE p IN
  /\ pc[t] = "merge"
  /\ mem' = [mem EXCEPT ![low[1]][low[2]] = (@ * 2) % SizeMax]
  /\ loc' = [loc EXCEPT ![t].cur = @ + 1, ![t].blk = low]
  /\ Goto(t, "coalesce")
  /\ UNCHANGED <<freeFrames, numPages, freeList, arenaList, live, ops, fault>>

\* Reclaim that unregisters the arena but keeps its page.
ReclaimKeepPage(t) ==
  /\ pc[t] = "coalesce" /\ loc[t].cur = DescCnt
  /\ arenaList' = RemoveFirst(arenaList, loc[t].blk[1])
  /\ Done(t)
  /\ UNCHANGED <<freeFrames, numPages, mem, freeList, live, ops, fault>>

-----------------------------------------------------------------------------
(* malloc (size), lines 96-242                                             *)

\* Lines 105-107: a request for 0 bytes returns a null pointer.
MallocZero(t) ==
  /\ 0 \in Entered(t)
  /\ Counted(t)
  /\ Return(t, NULL)
  /\ UNCHANGED <<freeFrames, numPages, mem, freeList, arenaList, fault>>

\* Lines 126-142: no descriptor is large enough; take a run of pages whose
\* count is DIV_ROUND_UP (size + sizeof (struct arena), PGSIZE), computed in
\* size_t, and write num_pages into the header.
MallocBig(t) ==
  \E size \in Entered(t) :
    LET n == DivRoundUp((size + Header) % SizeMax, PGSIZE)
        l == CallLoc(t, size) IN
    /\ size # 0 /\ Target(size) = DescCnt
    /\ Counted(t)
    /\ IF PallocRuns(n) = {}
       THEN /\ ReturnFrom(t, l, NULL) /\ UNCHANGED <<freeFrames, numPages>>
       ELSE \E f \in PallocRuns(n) :
              /\ freeFrames' = freeFrames \ (f..(f + n - 1))
              /\ numPages' = [numPages EXCEPT ![f] = n]
              /\ ReturnFrom(t, l, <<f, 0>>)
    /\ UNCHANGED <<mem, freeList, arenaList, fault>>

\* Lines 109-124, unlocked: find the target class k and the first class
\* s >= k whose free list is non-empty (DescCnt if none).
MallocSmall(t) ==
  \E size \in Entered(t) :
       LET k == Target(size)
           s == FirstNonEmpty(k) IN
       /\ size # 0 /\ k < DescCnt
       /\ Counted(t)
       /\ loc' = [loc EXCEPT ![t] = [CallLoc(t, size) EXCEPT !.k = k, !.s = s]]
       /\ Goto(t, IF s = DescCnt THEN "fresh" ELSE "peek")
       /\ UNCHANGED <<freeFrames, numPages, mem, freeList, arenaList, live, fault>>

\* Lines 144-158: no free block fits; take one page for a new small arena.
FreshArena(t) ==
  /\ pc[t] = "fresh"
  /\ IF PallocRuns(1) = {}
     THEN /\ Return(t, NULL)
          /\ UNCHANGED <<freeFrames, numPages>>
     ELSE \E f \in PallocRuns(1) :
            /\ freeFrames' = freeFrames \ {f}
            /\ numPages' = [numPages EXCEPT ![f] = 0]
            /\ loc' = [loc EXCEPT ![t].ar = f, ![t].cur = DescCnt - 1]
            /\ Goto(t, "carve")
            /\ UNCHANGED live
  /\ UNCHANGED <<mem, freeList, arenaList, ops, fault>>

\* Lines 160-172: one turn of the loop; block 1 of class cur goes on its
\* descriptor's free list (under that descriptor's lock).
Carve(t) ==
  LET f == loc[t].ar
      c == loc[t].cur IN
  /\ pc[t] = "carve" /\ c > loc[t].k
  /\ mem' = [mem EXCEPT ![f][SlotOf(c, 1)] = BlockSize(c)]
  /\ Push(c, <<f, SlotOf(c, 1)>>)
  /\ loc' = [loc EXCEPT ![t].cur = c - 1]
  /\ UNCHANGED <<freeFrames, numPages, arenaList, pc, live, ops, fault>>

\* Lines 174-181: under the target's lock, block 1 of the target class goes
\* on desc_obj's free list and block 0 becomes the result.
CarveLast(t) ==
  LET f == loc[t].ar
      k == loc[t].k IN
  /\ pc[t] = "carve" /\ loc[t].cur = k
  /\ mem' = [mem EXCEPT ![f][SlotOf(k, 1)] = BlockSize(k), ![f][0] = BlockSize(k)]
  /\ Push(k, <<f, SlotOf(k, 1)>>)
  /\ loc' = [loc EXCEPT ![t].blk = <<f, 0>>]
  /\ Goto(t, "register")
  /\ UNCHANGED <<freeFrames, numPages, arenaList, live, ops, fault>>

\* Lines 183-184, unlocked: enter the arena in arena_list and return.
Register(t) ==
  /\ pc[t] = "register"
  /\ arenaList' = Append(arenaList, loc[t].ar)
  /\ Return(t, loc[t].blk)
  /\ UNCHANGED <<freeFrames, numPages, mem, freeList, ops, fault>>

\* Lines 187-197: under descs[s]'s lock, read (not pop) the head of list s,
\* then block_to_arena checks the block against its stored size. On an
\* empty list list_begin yields the list's tail sentinel, which is no block
\* of any arena: the magic ASSERT fires.
Peek(t) ==
  LET s == loc[t].s
      h == Head(freeList[s]) IN
  /\ pc[t] = "peek"
  /\ IF freeList[s] = <<>>
     THEN Fail(t, "magic")
     ELSE IF mem[h[1]][h[2]] = 0 \/ (16 * h[2]) % mem[h[1]][h[2]] # 0
     THEN Fail(t, "align")
     ELSE /\ loc' = [loc EXCEPT ![t].ar = h[1], ![t].cur = s]
          /\ Goto(t, IF s = loc[t].k THEN "pop" ELSE "split")
          /\ UNCHANGED <<freeFrames, numPages, mem, freeList, arenaList, live, ops, fault>>

\* Lines 199-205: the source class is the target class: pop and return.
PopReturn(t) ==
  /\ pc[t] = "pop"
  /\ PopThen(t, loc[t].s, LAMBDA h :
        /\ Return(t, h)
        /\ UNCHANGED <<freeFrames, numPages, mem, arenaList, ops, fault>>)

\* Lines 207-220: pop the head of list cur (unlocked) and compute its index
\* at class cur from its page offset.
SplitPop(t) ==
  /\ pc[t] = "split"
  /\ PopThen(t, loc[t].cur, LAMBDA h :
        /\ loc' = [loc EXCEPT ![t].bi = (16 * h[2]) \div BlockSize(loc[t].cur)]
        /\ Goto(t, "halve")
        /\ UNCHANGED <<freeFrames, numPages, mem, arenaList, live, ops, fault>>)

\* Lines 222-236: the two halves, indices 2*bi and 2*bi+1 of class cur-1 in
\* arena_obj (the arena of the block Peek read), get their sizes and are
\* pushed on list cur-1 under its lock; stop when cur-1 is the target.
SplitPush(t) ==
  LET f   == loc[t].ar
      c   == loc[t].cur - 1
      one == SlotOf(c, 2 * loc[t].bi)
      two == SlotOf(c, 2 * loc[t].bi + 1) IN
  /\ pc[t] = "halve"
  /\ mem' = [mem EXCEPT ![f][two] = BlockSize(c), ![f][one] = BlockSize(c)]
  /\ freeList' = [freeList EXCEPT ![c] = @ \o <<<<f, one>>, <<f, two>>>>]
  /\ loc' = [loc EXCEPT ![t].cur = c]
  /\ Goto(t, IF c <= loc[t].k THEN "last" ELSE "split")
  /\ UNCHANGED <<freeFrames, numPages, arenaList, live, ops, fault>>

\* Lines 239-241: pop the head of the target's list (unlocked) and return it.
FinalPop(t) ==
  /\ pc[t] = "last"
  /\ PopThen(t, loc[t].cur, LAMBDA h :
        /\ Return(t, h)
        /\ UNCHANGED <<freeFrames, numPages, mem, arenaList, ops, fault>>)

-----------------------------------------------------------------------------
(* free (p), lines 294-373; p is a block the calling thread holds          *)

\* Lines 305-312: the word below p, read as the header's num_pages, is not
\* zero: p is taken for a big block and that many pages are given back.
\* palloc_free_multiple ASSERTs that the pointer below p is page aligned,
\* and that the pages lie in the pool and are in use.
FreeBig(t) ==
  \E a \in Freeing(t) :
       LET f  == a.ptr[1]
           np == NumPagesRead(a.ptr) IN
       /\ np > 0
       /\ Counted(t)
       /\ live' = live \ {a}
       /\ IF PallocFreeOk(a.ptr, np)
          THEN PallocFree(f, np) /\ Done(t) /\ UNCHANGED fault
          ELSE /\ fault' = fault \cup {"palloc_free"}
               /\ pc' = [pc EXCEPT ![t] = "fault"]
               /\ UNCHANGED <<freeFrames, numPages, mem, loc>>
       /\ UNCHANGED <<freeList, arenaList>>

\* Lines 314-319: a small block; block_to_arena ASSERTs that the block is
\* aligned to its stored size (a stored size of 0 divides by zero), and i
\* becomes the first class at least that size. A size above every class
\* walks i off the end of descs: undefined, taken as a fault.
FreeSmall(t) ==
  \E a \in Freeing(t) :
       LET p    == a.ptr
           size == mem[p[1]][p[2]] IN
       /\ NumPagesRead(p) = 0
       /\ Counted(t)
       /\ live' = live \ {a}
       /\ IF size = 0 \/ (16 * p[2]) % size # 0 \/ Target(size) = DescCnt
          THEN /\ fault' = fault \cup {CASE size = 0 -> "div0"
                                          [] (16 * p[2]) % size # 0 -> "align"
                                          [] OTHER -> "desc_range"}
               /\ pc' = [pc EXCEPT ![t] = "fault"]
               /\ UNCHANGED loc
          ELSE /\ loc' = [loc EXCEPT ![t] = [LocInit EXCEPT !.blk = p,
                                                 !.cur = Target(size)]]
               /\ Goto(t, "coalesce")
               /\ UNCHANGED fault
       /\ UNCHANGED <<freeFrames, numPages, mem, freeList, arenaList>>

\* Lines 321-341, unlocked: at class i = cur, compute the block's index from
\* its stored size, its buddy (index - 1 if odd, + 1 if even), and search
\* list i for the buddy.
CoalesceScan(t) ==
  LET p    == loc[t].blk
      i    == loc[t].cur
      ai   == (16 * p[2]) \div mem[p[1]][p[2]]
      bidx == IF ai % 2 = 0 THEN ai + 1 ELSE ai - 1
      bud  == <<p[1], SlotOf(i, bidx)>> IN
  /\ pc[t] = "coalesce" /\ i < DescCnt
  /\ IF mem[p[1]][p[2]] = 0
     THEN Fail(t, "div0")
     ELSE /\ loc' = [loc EXCEPT ![t].bud = bud, ![t].odd = (ai % 2 = 1)]
          /\ Goto(t, IF Contains(freeList[i], bud) THEN "merge" ELSE "push")
          /\ UNCHANGED <<freeFrames, numPages, mem, freeList, arenaList, live, ops, fault>>

\* Lines 343-357, unlocked: take the buddy off list i and double the stored
\* size of the lower of the two, which becomes the block; i goes up.
\* list_remove of an element that is no longer on the list corrupts it.
CoalesceMerge(t) ==
  LET p   == loc[t].blk
      b   == loc[t].bud
      i   == loc[t].cur
      low == IF loc[t].odd THEN b ELSE p IN
  /\ pc[t] = "merge"
  /\ IF ~Contains(freeList[i], b)
     THEN Fail(t, "list_remove")
     ELSE /\ freeList' = [freeList EXCEPT ![i] = RemoveFirst(@, b)]
          /\ mem' = [mem EXCEPT ![low[1]][low[2]] = (@ * 2) % SizeMax]
          /\ loc' = [loc EXCEPT ![t].cur = i + 1, ![t].blk = low]
          /\ Goto(t, "coalesce")
          /\ UNCHANGED <<freeFrames, numPages, arenaList, live, ops, fault>>

\* Lines 359-364, unlocked: no buddy on list i; the block goes on it.
CoalescePush(t) ==
  /\ pc[t] = "push"
  /\ Push(loc[t].cur, loc[t].blk)
  /\ Done(t)
  /\ UNCHANGED <<freeFrames, numPages, mem, arenaList, live, ops, fault>>

\* Lines 367-372, unlocked: the block grew past the largest class, i.e. the
\* whole arena is free; it leaves arena_list and its page goes back.
Reclaim(t) ==
  LET f == loc[t].blk[1] IN
  /\ pc[t] = "coalesce" /\ loc[t].cur = DescCnt
  /\ IF ~Contains(arenaList, f) \/ f \in freeFrames
     THEN Fail(t, "reclaim")
     ELSE /\ arenaList' = RemoveFirst(arenaList, f)
          /\ PallocFree(f, 1)
          /\ Done(t)
          /\ UNCHANGED <<freeList, live, ops, fault>>

-----------------------------------------------------------------------------
(* calloc (a, b), lines 246-263, and realloc (old, n), lines 271-292       *)

\* Lines 252-258: a * b in size_t; reject it if it is below a or below b,
\* else call malloc.
Calloc(t) ==
  /\ pc[t] = "idle" /\ ops < MaxOps
  /\ \E ab \in CallocArgs :
       LET size == (ab[1] * ab[2]) % SizeMax IN
       /\ ops' = ops + 1
       /\ IF size < ab[1] \/ size < ab[2]
          THEN UNCHANGED <<pc, loc>>
          ELSE /\ loc' = [loc EXCEPT ![t] = [LocInit EXCEPT !.size = size, !.mode = "calloc",
                                                           !.want = ab[1] * ab[2]]]
               /\ Goto(t, "malloc")
  /\ UNCHANGED <<freeFrames, numPages, mem, freeList, arenaList, live, fault>>

\* Lines 259-262: malloc returned p; memset (p, 0, size).
Zero(t) ==
  /\ pc[t] = "zero"
  /\ Fill(loc[t].blk, loc[t].size, LAMBDA o : 0)
  /\ Done(t)
  /\ UNCHANGED <<freeFrames, freeList, arenaList, live, ops, fault>>

\* Lines 274-281: a new size of 0 frees old (free (NULL) returns at once);
\* any other size calls malloc first.
Realloc(t) ==
  /\ pc[t] = "idle" /\ ops < MaxOps
  /\ \E n \in ReallocSizes, old \in Held(t) \cup {NULL} :
       /\ ops' = ops + 1
       /\ IF n = 0 /\ old = NULL THEN UNCHANGED <<pc, loc>>
          ELSE IF n = 0
          THEN /\ loc' = [loc EXCEPT ![t] = [LocInit EXCEPT !.old = old]]
               /\ Goto(t, "free")
          ELSE /\ loc' = [loc EXCEPT ![t] = [LocInit EXCEPT !.size = n, !.mode = "realloc",
                                                           !.old = old]]
               /\ Goto(t, "malloc")
  /\ UNCHANGED <<freeFrames, numPages, mem, freeList, arenaList, live, fault>>

\* Lines 282-288: old and new are both non-null: read old's size field,
\* copy the smaller of it and n bytes, then free old.
Copy(t) ==
  LET src  == loc[t].old.ptr
      n    == loc[t].size IN
  /\ pc[t] = "copy"
  /\ \E junk \in Junk :
       LET oldSize == WordAt(src, 12, junk)
           min     == IF n < oldSize THEN n ELSE oldSize IN
       Fill(loc[t].blk, min, LAMBDA o : WordAt(src, o, junk))
  /\ loc' = [loc EXCEPT ![t] = [LocInit EXCEPT !.old = loc[t].old]]
  /\ Goto(t, "free")
  /\ UNCHANGED <<freeFrames, freeList, arenaList, live, ops, fault>>

-----------------------------------------------------------------------------
(* printMemory (), lines 400-444                                           *)

\* block_to_arena (b, b->size) fails for a free block whose stored size is
\* 0 (division) or does not divide its offset in the arena (alignment).
BadFree(p) == mem[p[1]][p[2]] = 0 \/ (16 * p[2]) % mem[p[1]][p[2]] # 0
FaultOf(p) == IF mem[p[1]][p[2]] = 0 THEN "div0" ELSE "align"

\* With arena_list empty it only prints (lines 408-414). Otherwise, for
\* each arena, it walks every free list in class order and calls
\* block_to_arena on each block (lines 416-440), with no lock held: the
\* first block that fails its ASSERT stops the thread. The walk reads only,
\* so it is one step.
PrintMemory(t) ==
  LET bad   == UNION {{<<c, n>> : n \in {i \in 1..Len(freeList[c]) : BadFree(freeList[c][i])}} : c \in Classes}
      first == CHOOSE x \in bad : \A y \in bad : x[1] < y[1] \/ (x[1] = y[1] /\ x[2] <= y[2]) IN
  /\ Printing /\ pc[t] = "idle" /\ ops < MaxOps
  /\ ops' = ops + 1
  /\ IF arenaList # <<>> /\ bad # {}
     THEN /\ fault' = fault \cup {FaultOf(freeList[first[1]][first[2]])}
          /\ Goto(t, "fault")
     ELSE UNCHANGED <<fault, pc>>
  /\ UNCHANGED <<freeFrames, numPages, mem, freeList, arenaList, loc, live>>

-----------------------------------------------------------------------------

ThreadNext(t) ==
    \/ MallocZero(t) \/ MallocBig(t) \/ MallocSmall(t)
    \/ FreshArena(t) \/ Carve(t) \/ CarveLast(t) \/ Register(t)
    \/ Peek(t) \/ PopReturn(t) \/ SplitPop(t) \/ SplitPush(t) \/ FinalPop(t)
    \/ FreeBig(t) \/ FreeSmall(t)
    \/ CoalesceScan(t) \/ CoalesceMerge(t) \/ CoalescePush(t) \/ Reclaim(t)
    \/ Calloc(t) \/ Zero(t) \/ Realloc(t) \/ Copy(t)
    \/ PrintMemory(t)

Next == \E t \in Threads : ThreadNext(t)

Spec == Init /\ [][Next]_vars

\* A thread inside a call: it has been entered and has not returned or
\* stopped on an ASSERT.
Busy(t) == pc[t] \notin {"idle", "fault"}

\* The Pintos scheduler is preemptive round robin: a thread that can take
\* its next step inside a call keeps being scheduled until it takes it.
\* Nothing forces an idle caller to make another call.
FairSpec == Spec /\ \A t \in Threads : WF_vars(Busy(t) /\ ThreadNext(t))

-----------------------------------------------------------------------------
(* Properties                                                              *)

\* Every size malloc can be asked for, by malloc, realloc or calloc.
ReqSizes == Sizes \cup ReallocSizes \cup {(ab[1] * ab[2]) % SizeMax : ab \in CallocArgs}

PCs == {"idle", "fault", "fresh", "carve", "register", "peek", "pop", "split",
        "halve", "last", "coalesce", "merge", "push", "malloc", "zero", "copy", "free"}

TypeOK ==
  /\ freeFrames \subseteq Frames
  /\ numPages \in [Frames -> Nat]
  /\ mem \in [Frames -> [Slots -> 0..(SizeMax - 1)]]
  /\ freeList \in [Classes -> Seq(Ptrs)]
  /\ arenaList \in Seq(Frames)
  /\ pc \in [Threads -> PCs]
  /\ live \subseteq [t : Threads, ptr : Ptrs, len : ReqSizes]
  /\ ops \in 0..MaxOps

\* No thread is ever stopped by a kernel ASSERT (list_pop_front on an empty
\* list, block_to_arena's magic or alignment check, palloc_free_multiple's
\* range check) or corrupts a free list or arena_list with list_remove.
NoFault == fault = {}

\* Absolute address of a block pointer.
Addr(p) == (p[1] - 1) * PGSIZE + Header + 16 * p[2]
IsBig(a) == Target(a.len) = DescCnt

\* What malloc promises its callers (module Heap): every call hands out a
\* region [p, p + len) that overlaps no region a caller still holds, and
\* free gives back only the caller's own region. The held blocks are the
\* Heap's held regions; every other step of the allocator is a stutter.
HeldRegions == {[t |-> a.t, lo |-> Addr(a.ptr), len |-> a.len] : a \in live}
H == INSTANCE Heap WITH held <- HeldRegions, MemSize <- NumFrames * PGSIZE,
                        Starts <- {Addr(p) : p \in Ptrs},
                        Lens <- ReqSizes \ {0}
HeapRefined == H!Spec

Quiescent == \A t \in Threads : pc[t] = "idle"

\* Pieces of small arenas: free-list entries and held small blocks, each
\* with the class that gives its extent in slots.
FreePieces == UNION {{<<freeList[c][n], c, "free", n>> : n \in 1..Len(freeList[c])} : c \in Classes}
HeldPieces == {<<a.ptr, Target(a.len), a.t, a.len>> : a \in {b \in live : ~IsBig(b)}}
Pieces == FreePieces \cup HeldPieces
Disjoint(x, y) ==
  x[1][1] # y[1][1] \/ x[1][2] + 2^x[2] <= y[1][2] \/ y[1][2] + 2^y[2] <= x[1][2]

\* Between calls, the buddy regions of the arenas in arena_list are tiled
\* exactly by free-list blocks and held blocks (no overlap, no hole), every
\* such block lies in a registered arena whose page is in use, each arena is
\* registered once, and every free-list block carries its class's size and
\* alignment.
HeapPartition ==
  Quiescent =>
    /\ \A i, j \in 1..Len(arenaList) : i # j => arenaList[i] # arenaList[j]
    /\ \A x \in Pieces : x[1][1] \in ToSet(arenaList)
    /\ \A f \in ToSet(arenaList) :
         /\ f \notin freeFrames
         /\ \A x, y \in Pieces : x # y => Disjoint(x, y)
         /\ MapThenSumSet(LAMBDA x : 2^x[2], {x \in Pieces : x[1][1] = f}) = 2^DescCnt
    /\ \A x \in FreePieces : mem[x[1][1]][x[1][2]] = BlockSize(x[2]) /\ x[1][2] % 2^x[2] = 0

\* Between calls, free has coalesced every pair of free buddies: no list c
\* holds both blocks 2j and 2j+1 of class c of one arena.
Coalesced ==
  Quiescent =>
    \A c \in Classes : \A f \in Frames, j \in 0..(2^(DescCnt - c - 1) - 1) :
      ~(Contains(freeList[c], <<f, SlotOf(c, 2 * j)>>) /\ Contains(freeList[c], <<f, SlotOf(c, 2 * j + 1)>>))

\* Once every block has been freed and no call is running, every page is
\* back with palloc and arena_list is empty.
ReclaimWhenEmpty ==
  (Quiescent /\ live = {}) => (freeFrames = Frames /\ arenaList = <<>>)

\* The pages a held block lies on: its arena's page, or the run of pages
\* of a big block.
PagesOf(a) == IF IsBig(a) THEN a.ptr[1]..(a.ptr[1] + numPages[a.ptr[1]] - 1) ELSE {a.ptr[1]}

\* No step gives palloc back a page that a block still held by a caller
\* lies on: free's num_pages read (lines 305-311) and its reclaim of an
\* empty arena (lines 367-372) only return pages nobody uses. palloc's own
\* ASSERT only catches pages that are already free.
NoLivePageFreed ==
  [][\A a \in live \cap live' : PagesOf(a) \cap (freeFrames' \ freeFrames) = {}]_vars

\* The spec's invariant 9: calloc passes malloc the true product a * b, or
\* returns NULL. The code's check at line 254 (size < a || size < b) misses
\* products that wrap to a value above both factors.
CallocExact ==
  \A t \in Threads : loc[t].mode = "calloc" => loc[t].size = loc[t].want

\* Every call returns: a thread inside malloc, free, calloc or realloc is
\* eventually idle again. No loop of the code (the carve loop, the split
\* loop, free's coalescing) runs forever and no path waits for memory:
\* when palloc has no page, malloc returns a null pointer (lines 133-134,
\* 150-151).
CallsReturn == \A t \in Threads : Busy(t) ~> pc[t] = "idle"

=============================================================================
