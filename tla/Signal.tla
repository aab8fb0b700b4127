------------------------------- MODULE Signal -------------------------------
(***************************************************************************)
(* The per-thread signal state and API of src/pintos/src/threads/signal.c: *)
(* signal_, kill, the sigset_t operations, sigprocmask, and the default    *)
(* handlers run when a pending signal is delivered.                        *)
(*                                                                         *)
(* A thread is its tid. Each thread calls the API as the current thread;   *)
(* sigset_t values are 16-bit and the bit of signal k is 2^k. kill looks   *)
(* for an existing record, then (if none) mallocs one and appends it: the  *)
(* malloc may block on a lock, so the append is a step of its own.         *)
(* unblock_list is the intrusive list of lib/kernel/list.c: each thread's *)
(* unblock_elem has prev and next links, and the list has a head and a    *)
(* tail element. What thread.c does (validated_tid, blocking, the         *)
(* scheduler consuming unblock_list and delivering pending signals) is    *)
(* taken from the spec, which leaves the scheduler out of scope.          *)
(***************************************************************************)
EXTENDS Integers, Sequences, SequencesExt, FiniteSets, Bitwise

CONSTANTS
  Tids,       \* live threads' tids; tid 1 is the root
  Parent,     \* Parent[t]: tid of t's parent_thread (Parent[1] = 1)
  Senders,    \* threads that call kill
  MaskUsers,  \* threads that call signal_, the sigset_t API and sigprocmask
  BadTid,     \* a tid no thread has
  Signums,    \* signal numbers callers pass (may include invalid ones)
  MallocMayFail, \* TRUE when kill's malloc may return a null pointer
  MaxOps      \* bound on the number of calls

\* enum sig_value, enum how, enum sig_handler (signal.h)
SIG_CHLD == 0
SIG_CPU == 1
SIG_UBLOCK == 2
SIG_USR == 3
SIG_KILL == 4
SIG_BLOCK == 0
SIG_UNBLOCK == 1
SIG_SETMASK == 2
SIG_IGN == 0
SIG_DFL == 1

\* The elements unblock_list links: each thread's unblock_elem, and the
\* list's head and tail. NULL is a link never set.
ListHead == 0
ListTail == -1
NULL == -2
Elems == Tids \cup {ListHead, ListTail}

ASSUME 1 \in Tids /\ Parent \in [Tids -> Tids] /\ Parent[1] = 1
ASSUME Senders \cup MaskUsers \subseteq Tids /\ BadTid \notin Tids

VARIABLES
  sigmask,      \* sigmask[t]: t->sigmask
  set,          \* set[t]: the sigset_t the caller t builds and passes
  pending,      \* pending[t]: t->pending_signals, records [signum, sender]
  status,       \* status[t]: "ready", "blocked" or "exited"
  uNext,        \* uNext[e]: e->next, for the elements of unblock_list
  uPrev,        \* uPrev[e]: e->prev
  pc,           \* "idle", or where a kill waits to append its record
  arg,          \* arg[t]: the target tid of t's pending kill
  ret,          \* ret[t]: what t's last kill returned, <<tid, sig, value>>
  ops,          \* calls made so far
  fault         \* kernel ASSERTs that fired

vars == <<sigmask, set, pending, status, uNext, uPrev, pc, arg, ret, ops, fault>>

Init ==
  /\ sigmask = [t \in Tids |-> 0]
  /\ set = [t \in Tids |-> 0]
  /\ pending = [t \in Tids |-> <<>>]
  /\ status = [t \in Tids |-> "ready"]
  \* list_init: head <-> tail; a new thread's unblock_elem is zeroed.
  /\ uNext = [e \in Elems |-> IF e = ListHead THEN ListTail ELSE NULL]
  /\ uPrev = [e \in Elems |-> IF e = ListTail THEN ListHead ELSE NULL]
  /\ pc = [t \in Tids |-> "idle"]
  /\ arg = [t \in Tids |-> 1]
  /\ ret = [t \in Tids |-> <<0, 0, 0>>]
  /\ ops = 0
  /\ fault = {}

\* t runs a new call: it is running (neither blocked nor gone) and idle.
Call(t) ==
  /\ status[t] = "ready" /\ pc[t] = "idle" /\ ops < MaxOps
  /\ ops' = ops + 1

-----------------------------------------------------------------------------
(* Mutants: plausible slips in the code below, each a variant of the       *)
(* definition it is named after.                                           *)

\* The walk also stops with success when it reaches the root.
RECURSIVE ParentFoundAtRoot(_, _)
ParentFoundAtRoot(caller, x) ==
  IF caller = Parent[x] \/ Parent[x] = 1 THEN TRUE
  ELSE ParentFoundAtRoot(caller, Parent[x])

\* sigaddset whose range check lets signum 5 through.
SigAddSetOffByOne(t, k) ==
  /\ Call(t)
  /\ set' = IF k \in 0..5 THEN [set EXCEPT ![t] = @ | 2^k] ELSE set
  /\ UNCHANGED <<sigmask, pending, status, uNext, uPrev, pc, arg, ret, fault>>

-----------------------------------------------------------------------------
(* Helpers                                                                 *)

Bit(k) == 2^k
Masks(m, k) == (m & Bit(k)) # 0

\* validated_tid (thread.c): the thread with that tid, if it still lives.
Valid(tid) == tid \in Tids /\ status[tid] # "exited"

\* kill lines 113-125: walk up from the target's parent; found when the
\* caller's tid is a parent on the way, given up at a parent with tid 1.
RECURSIVE ParentFound(_, _)
ParentFound(caller, x) ==
  IF caller = Parent[x] THEN TRUE
  ELSE IF Parent[x] = 1 THEN FALSE
  ELSE ParentFound(caller, Parent[x])

\* The index of t's first pending record of signal sig, 0 if none.
FirstOf(t, sig) ==
  IF \E i \in 1..Len(pending[t]) : pending[t][i].signum = sig
  THEN SelectInSeq(pending[t], LAMBDA r : r.signum = sig)
  ELSE 0

\* list_push_back (&unblock_list, e), i.e. list_insert (list_end, e): the
\* four writes in their order. An e already on the list is relinked before
\* the tail: whatever followed it drops off the list, and an e that was
\* already last ends up linked to itself.
PushBack(e) ==
  LET last == uPrev[ListTail]
      n1   == [uNext EXCEPT ![e] = ListTail] IN
  /\ uPrev' = [uPrev EXCEPT ![e] = last, ![ListTail] = e]
  /\ uNext' = [n1 EXCEPT ![last] = e]

Returns(t, tid, sig, v) ==
  /\ ret' = [ret EXCEPT ![t] = <<tid, sig, v>>]
  /\ pc' = [pc EXCEPT ![t] = "idle"]

-----------------------------------------------------------------------------
(* signal_ (signum, handler), lines 24-55                                  *)

\* SIG_IGN sets the signal's bit; SIG_DFL ands the mask with 14, 13, 11 or 7
\* (every bit of 0..3 but the signal's); SIG_KILL and others: no change.
Signal_(t, signum, handler) ==
  /\ Call(t)
  /\ sigmask' = [sigmask EXCEPT ![t] =
        IF signum \notin 0..3 THEN @
        ELSE IF handler = SIG_IGN THEN @ | Bit(signum)
        ELSE @ & (15 - Bit(signum))]
  /\ UNCHANGED <<set, pending, status, uNext, uPrev, pc, arg, ret, fault>>

-----------------------------------------------------------------------------
(* kill (tid, signum), lines 60-154; the caller is thread t                *)

\* Lines 62-64 and 151-152: unknown tid, or a signal kill does not send.
KillRejected(t, tid, sig) ==
  /\ Call(t)
  /\ ~Valid(tid) \/ sig \notin {SIG_UBLOCK, SIG_USR, SIG_KILL}
  /\ Returns(t, tid, sig, -1)
  /\ UNCHANGED <<sigmask, set, pending, status, uNext, uPrev, arg, fault>>

\* Lines 66-75: fail if the target masks SIG_UBLOCK; succeed doing nothing
\* if it is not blocked; else put it on unblock_list.
KillUblock(t, tid) ==
  /\ Call(t)
  /\ Valid(tid)
  /\ IF Masks(sigmask[tid], SIG_UBLOCK)
     THEN Returns(t, tid, SIG_UBLOCK, -1) /\ UNCHANGED <<uNext, uPrev>>
     ELSE /\ IF status[tid] = "blocked" THEN PushBack(tid) ELSE UNCHANGED <<uNext, uPrev>>
          /\ Returns(t, tid, SIG_UBLOCK, 0)
  /\ UNCHANGED <<sigmask, set, pending, status, arg, fault>>

\* Lines 77-104 (SIG_USR, no permission check) and 106-149 (SIG_KILL, after
\* the parent-chain walk): a pending record of the signal gets the caller
\* as its sender; with none, the caller goes on to malloc and append one.
KillSend(t, tid, sig) ==
  LET i == FirstOf(tid, sig) IN
  /\ Call(t)
  /\ Valid(tid)
  /\ \/ sig = SIG_USR /\ ~Masks(sigmask[tid], SIG_USR)
     \/ sig = SIG_KILL /\ ParentFound(t, tid)
  /\ IF i # 0
     THEN /\ pending' = [pending EXCEPT ![tid][i].sender = t]
          /\ Returns(t, tid, sig, 0)
          /\ UNCHANGED arg
     ELSE /\ pc' = [pc EXCEPT ![t] = "append"]
          /\ arg' = [arg EXCEPT ![t] = <<tid, sig>>]
          /\ UNCHANGED <<pending, ret>>
  /\ UNCHANGED <<sigmask, set, status, uNext, uPrev, fault>>

\* Lines 82-83 and 127-128: the target masks SIG_USR, or the caller is not
\* found on the target's parent chain.
KillDenied(t, tid, sig) ==
  /\ Call(t)
  /\ Valid(tid)
  /\ \/ sig = SIG_USR /\ Masks(sigmask[tid], SIG_USR)
     \/ sig = SIG_KILL /\ ~ParentFound(t, tid)
  /\ Returns(t, tid, sig, -1)
  /\ UNCHANGED <<sigmask, set, pending, status, uNext, uPrev, arg, fault>>

\* Lines 99-100 and 144-145: malloc returned a null pointer, and kill writes
\* the sender through it: the kernel page-faults.
KillNoMemory(t) ==
  /\ MallocMayFail /\ pc[t] = "append"
  /\ fault' = fault \cup {"null"}
  /\ pc' = [pc EXCEPT ![t] = "fault"]
  /\ UNCHANGED <<sigmask, set, pending, status, uNext, uPrev, arg, ret, ops>>

\* Lines 97-103 and 142-148: after malloc, append (sig, caller).
KillAppend(t) ==
  LET tid == arg[t][1]
      sig == arg[t][2] IN
  /\ pc[t] = "append"
  /\ pending' = [pending EXCEPT ![tid] = Append(@, [signum |-> sig, sender |-> t])]
  /\ Returns(t, tid, sig, 0)
  /\ UNCHANGED <<sigmask, set, status, uNext, uPrev, arg, ops, fault>>

-----------------------------------------------------------------------------
(* sigset_t operations, lines 156-217                                      *)

\* sigemptyset (lines 160-164) and sigfillset (lines 170-174).
SigEmptyFill(t, v) ==
  /\ Call(t) /\ v \in {0, 31}
  /\ set' = [set EXCEPT ![t] = v]
  /\ UNCHANGED <<sigmask, pending, status, uNext, uPrev, pc, arg, ret, fault>>

\* sigdelset (lines 179-186): reject signum outside 0..4, else and the set
\* with 30, 29, 27, 23 or 15.
SigDelSet(t, k) ==
  /\ Call(t)
  /\ set' = IF k \in 0..4 THEN [set EXCEPT ![t] = @ & (31 - Bit(k))] ELSE set
  /\ UNCHANGED <<sigmask, pending, status, uNext, uPrev, pc, arg, ret, fault>>

\* sigaddset (lines 191-198): reject signum outside 0..4, else set its bit.
SigAddSet(t, k) ==
  /\ Call(t)
  /\ set' = IF k \in 0..4 THEN [set EXCEPT ![t] = @ | Bit(k)] ELSE set
  /\ UNCHANGED <<sigmask, pending, status, uNext, uPrev, pc, arg, ret, fault>>

\* sigprocmask (lines 203-217) with the caller's set; an unknown how
\* leaves the mask alone.
SigProcMask(t, how) ==
  /\ Call(t)
  /\ sigmask' = [sigmask EXCEPT ![t] =
        CASE how = SIG_BLOCK   -> @ | set[t]
          [] how = SIG_UNBLOCK -> @ & (65535 - set[t])
          [] how = SIG_SETMASK -> set[t]
          [] OTHER             -> @]
  /\ UNCHANGED <<set, pending, status, uNext, uPrev, pc, arg, ret, fault>>

-----------------------------------------------------------------------------
(* The scheduler side (thread.c), from the spec                            *)

\* A running thread blocks (thread_block).
Block(t) ==
  /\ Call(t)
  /\ status' = [status EXCEPT ![t] = "blocked"]
  /\ UNCHANGED <<sigmask, set, pending, uNext, uPrev, pc, arg, ret, fault>>

\* The scheduler takes the front of unblock_list while it is not empty
\* (list_pop_front: list_remove's two writes, in order) and unblocks it;
\* thread_unblock ASSERTs that the thread is blocked.
Unblock ==
  LET f  == uNext[ListHead]
      n1 == [uNext EXCEPT ![uPrev[f]] = uNext[f]] IN
  /\ f # ListTail
  /\ uNext' = n1
  /\ uPrev' = [uPrev EXCEPT ![n1[f]] = uPrev[f]]
  /\ IF status[f] = "blocked"
     THEN status' = [status EXCEPT ![f] = "ready"] /\ UNCHANGED fault
     ELSE fault' = fault \cup {"thread_unblock"} /\ UNCHANGED status
  /\ UNCHANGED <<sigmask, set, pending, pc, arg, ret, ops>>

\* A running thread is delivered its first pending signal and runs the
\* default handler (lines 219-244): SIG_KILL ends the thread (thread_exit),
\* SIG_USR only prints.
Deliver(t) ==
  /\ status[t] = "ready" /\ pc[t] = "idle" /\ pending[t] # <<>>
  /\ pending' = [pending EXCEPT ![t] = Tail(@)]
  /\ status' = IF Head(pending[t]).signum = SIG_KILL
               THEN [status EXCEPT ![t] = "exited"] ELSE status
  /\ UNCHANGED <<sigmask, set, uNext, uPrev, pc, arg, ret, ops, fault>>

-----------------------------------------------------------------------------

AllTids == Tids \cup {BadTid}

Next ==
  \/ \E t \in MaskUsers :
       \/ \E k \in Signums, h \in {SIG_IGN, SIG_DFL} : Signal_(t, k, h)
       \/ \E v \in {0, 31} : SigEmptyFill(t, v)
       \/ \E k \in Signums : SigDelSet(t, k) \/ SigAddSet(t, k)
       \/ \E how \in 0..3 : SigProcMask(t, how)
  \/ \E t \in Tids : Block(t) \/ Deliver(t) \/ KillAppend(t) \/ KillNoMemory(t)
  \/ \E t \in Senders, tid \in AllTids, sig \in Signums :
       \/ KillRejected(t, tid, sig) \/ KillUblock(t, tid)
       \/ KillSend(t, tid, sig) \/ KillDenied(t, tid, sig)
  \/ Unblock

Spec == Init /\ [][Next]_vars

-----------------------------------------------------------------------------
(* Properties                                                              *)

Records == [signum : 0..4, sender : Tids]

\* Signal masks hold only the five signal bits: no API call sets another.
TypeOK ==
  /\ sigmask \in [Tids -> 0..31]
  /\ set \in [Tids -> 0..31]
  /\ \A t \in Tids : pending[t] \in Seq(Records)
  /\ status \in [Tids -> {"ready", "blocked", "exited"}]
  /\ uNext \in [Elems -> Elems \cup {NULL}]
  /\ uPrev \in [Elems -> Elems \cup {NULL}]
  /\ ops \in 0..MaxOps

\* kill coalesces: a thread never has two pending SIG_USR records, nor two
\* pending SIG_KILL records.
AtMostOnePending ==
  \A t \in Tids : \A sig \in {SIG_USR, SIG_KILL} :
    Cardinality({i \in 1..Len(pending[t]) : pending[t][i].signum = sig}) <= 1

\* The reference for the parent-chain walk: the ancestors of t are its
\* parent, its parent's parent, ..., up to the root.
RECURSIVE Up(_, _)
Up(t, n) == IF n = 0 THEN t ELSE Up(Parent[t], n - 1)
Ancestors(t) == {Up(t, n) : n \in 1..Cardinality(Tids)}

\* Every pending SIG_KILL record names as its sender an ancestor of the
\* thread it will terminate (kill's permission check, lines 113-128).
KillFromAncestor ==
  \A t \in Tids : \A r \in ToSet(pending[t]) :
    r.signum = SIG_KILL => r.sender \in Ancestors(t)

\* The scheduler never finds a thread on unblock_list that is not blocked
\* (thread_unblock's ASSERT), however kill(tid, SIG_UBLOCK) calls come.
NoUnblockFault == "thread_unblock" \notin fault


\* The spec's scenario S6: a thread that kills itself with SIG_KILL
\* succeeds (the thread is taken as its own ancestor).
SelfKillSucceeds ==
  \A t \in Tids : (ret[t][1] = t /\ ret[t][2] = SIG_KILL) => ret[t][3] = 0

=============================================================================
