-------------------------------- MODULE Heap --------------------------------
(***************************************************************************)
(* What a kernel heap promises its callers, with no allocator inside: a    *)
(* call to malloc hands the caller a region of at least the requested      *)
(* length that overlaps no region any caller still holds, or nothing (a    *)
(* null pointer); free gives a held region back.                           *)
(***************************************************************************)
EXTENDS Integers

CONSTANTS
  Threads,  \* the callers
  MemSize,  \* the heap lies in addresses 0 .. MemSize - 1
  Starts,   \* the addresses at which it may start a region
  Lens      \* the lengths callers ask for

VARIABLE held  \* regions the callers hold: [t, lo, len]

Apart(r, h) == r.lo + r.len <= h.lo \/ h.lo + h.len <= r.lo

Init == held = {}

\* A caller obtains a fresh region that overlaps no held region.
Alloc(t) ==
  \E len \in Lens, lo \in Starts :
    LET r == [t |-> t, lo |-> lo, len |-> len] IN
    /\ lo + len <= MemSize
    /\ \A h \in held : Apart(r, h)
    /\ held' = held \cup {r}

\* A caller gives back one of its regions.
Free(t) ==
  \E r \in held : r.t = t /\ held' = held \ {r}

Next == \E t \in Threads : Alloc(t) \/ Free(t)

Spec == Init /\ [][Next]_held

=============================================================================
