-------------------------------- MODULE Api ---------------------------------
(* The entry points of the allocator: which of three allocators answers a  *)
(* call (alloc_entry.c), and how the calls of many threads, their page     *)
(* faults and fork share the heap (alloc_alias.c, vmem.c).                 *)
EXTENDS ForkLock, SizeClasses

CONSTANTS
  Main,     \* the thread that runs __libc_start_main
  Forker,   \* the threads that may call fork
  Ptr,      \* pointers the program may hold
  Sizes,    \* sizes it asks for; Huge is one that is refused
  Huge,
  Aligns,   \* alignments it asks for
  MaxLeaks, \* bound on the reallocs that keep their hold of the lock
  PageSize

ASSUME ApiAssumption ==
  /\ IsFiniteSet(Thread) /\ Main \in Thread /\ Forker \subseteq Thread
  /\ Huge \in Sizes /\ Sizes \subseteq Nat
  /\ MaxLeaks \in Nat
  /\ PageSize \in Nat \ {0} /\ Aligns \subseteq Nat \ {0}

(* The page size is a power of two, and so is an alignment: __ota_memalign *)
(* rounds it up to one (alloc_alias.c:990).                                *)
Fits(a, u) == a % u = 0 \/ u % a = 0
ASSUME AlignAssumption ==
  \A a \in Aligns \cup {PageSize} : Fits(a, 8) /\ \A k \in Band : Fits(a, UnitOf(k))

VARIABLES
  phase,     \* "early", "libc" (init_libc_done), "kernel" (init_kernel_done)
  heap,      \* what each pointer points to
  call,      \* the call each thread is in
  initDone,  \* init_thread_done
  leaks      \* history: holds of fork_lock that nobody will release

apiVars == <<phase, heap, call, initDone, leaks>>
vars == <<cnt, pc, seen, phase, heap, call, initDone, leaks>>

Nothing == [by |-> "none"]
Idle == [op |-> "none"]

(***************************************************************************)
(* Objects.  off is the offset in the page of the canonical block, alloc   *)
(* its usable size, index what the trie keeps of it, n the pages written   *)
(* to the trie.  lost says whose contents a realloc did not bring along.   *)
(***************************************************************************)
Live(p) == heap[p].by \notin {"none", "abandoned"}
IsOta(p) == heap[p].by \in {"malloc", "memalign"}
Pages(off, size) == (off + size + PageSize - 1) \div PageSize

TRIE_INDEX_LARGE == 63

Object(by, size, off, alloc) ==
  [by |-> by, size |-> size, off |-> off, alloc |-> alloc,
   index |-> IF size_to_reservation_index(alloc) = TooLarge THEN TRIE_INDEX_LARGE
             ELSE size_to_reservation_index(alloc),
   n |-> Pages(off, alloc),
   lost |-> "nothing"]

(* mimalloc: a block of a class lies at a multiple of its size; a block    *)
(* beyond the classes fills pages.  An aligned block is cut from a larger  *)
(* one, from the first multiple of the alignment on.                       *)
Blocks(size) ==
  LET class == size_to_usable_size(size)
  IN IF class = TooLarge
     THEN {[off |-> 0, alloc |-> PageSize * Pages(0, size)]}
     ELSE {[off |-> (i * class) % PageSize, alloc |-> class] : i \in {0, 1}}

AlignedBlocks(size, align) ==
  {LET skip == (align - (b.off % align)) % align
   IN [off |-> (b.off + skip) % PageSize, alloc |-> b.alloc - skip]
     : b \in Blocks(size + align - 1)}

MallocObjects(size) == {Object("malloc", size, b.off, b.alloc) : b \in Blocks(size)}

AlignedObjects(size, align) ==
  {Object("memalign", size, b.off, b.alloc) : b \in AlignedBlocks(size, align)}

(* A plausible slip: the offset in the page is taken off the size.         *)
WrongUsableSize(p) == IF IsOta(p) THEN heap[p].alloc - heap[p].off ELSE 0

(* What get_canonical and __ota_free take an object's size to be; 0 for a  *)
(* pointer the trie does not know.                                         *)
UsableSize(p) ==
  IF ~IsOta(p) THEN 0
  ELSE IF index_to_max_usable_size(heap[p].index) = TooLarge THEN heap[p].alloc
  ELSE index_to_max_usable_size(heap[p].index)

Lesser(a, b) == IF a < b THEN a ELSE b

Init ==
  /\ cnt = 0 /\ pc = [t \in Thread |-> "idle"] /\ seen = [t \in Thread |-> 0]
  /\ phase = "early" /\ leaks = 0
  /\ heap = [p \in Ptr |-> Nothing]
  /\ call = [t \in Thread |-> Idle]
  /\ initDone = [t \in Thread |-> FALSE]

(***************************************************************************)
(* Before main: until dlsym has found libc the blocks of kmalloc answer,   *)
(* then libc, while kernel_entry sets up the rest.  Nobody reallocates     *)
(* before libc is found (an assertion of alloc_entry.c), and kernel_entry  *)
(* frees only what it allocated itself.                                    *)
(***************************************************************************)
Put(p, o) == heap' = [heap EXCEPT ![p] = o]

BootMalloc(by) ==
  /\ \E p \in Ptr : /\ heap[p] = Nothing
                    /\ \E s \in Sizes \ {Huge} : Put(p, [by |-> by, size |-> s, lost |-> "nothing"])
  /\ UNCHANGED <<forkLockVars, phase, call, initDone, leaks>>

BootFree(by) ==
  /\ \E p \in Ptr : heap[p].by = by /\ Put(p, Nothing)
  /\ UNCHANGED <<forkLockVars, phase, call, initDone, leaks>>

EarlyCalls == phase = "early" /\ (BootMalloc("kmalloc") \/ BootFree("kmalloc"))
LibcCalls == phase = "libc" /\ (BootMalloc("libc") \/ BootFree("libc"))

FindLibc ==
  /\ phase = "early"
  /\ phase' = "libc"
  /\ UNCHANGED <<forkLockVars, heap, call, initDone, leaks>>

EnterKernel ==
  /\ phase = "libc"
  /\ phase' = "kernel"
  /\ initDone' = [initDone EXCEPT ![Main] = TRUE]
  /\ UNCHANGED <<forkLockVars, heap, call, leaks>>

(***************************************************************************)
(* Calls.  A program passes a pointer to one call at a time, and passes    *)
(* none that it has freed.                                                 *)
(***************************************************************************)
Uses(t, p) ==
  \/ "ptr" \in DOMAIN call[t] /\ call[t].ptr = p
  \/ "ret" \in DOMAIN call[t] /\ call[t].ret = p
Available(p) == Live(p) /\ \A t \in Thread : ~Uses(t, p)

(* Bounds: a pointer is left for every call that may need one, and MaxLeaks *)
(* for every realloc that may leave its hold behind.                       *)
InCall(ops) == Cardinality({t \in Thread : call[t].op \in ops})
Room ==
  Cardinality({p \in Ptr : heap[p] = Nothing}) > InCall({"malloc", "memalign", "realloc"})
LeakRoom == leaks + InCall({"realloc"}) < MaxLeaks

Begin(t, c, l) ==
  /\ phase = "kernel" /\ pc[t] = "idle"
  /\ call' = [call EXCEPT ![t] = c]
  /\ Goto(t, l)
  /\ UNCHANGED <<cnt, seen, phase, heap, initDone, leaks>>

CallMalloc(t) ==
  \E s \in Sizes : Room /\ Begin(t, [op |-> "malloc", size |-> s], "spin")
CallMemalign(t) ==
  \E s \in Sizes, a \in Aligns :
    Room /\ Begin(t, [op |-> "memalign", size |-> s, align |-> a], "spin")
CallAlignedAlloc(t) ==
  \E s \in Sizes, a \in Aligns :
    Room /\ Begin(t, [op |-> "memalign", size |-> s, align |-> a], "bare")
CallFree(t) == \E p \in Ptr : Available(p) /\ Begin(t, [op |-> "free", ptr |-> p], "spin")
CallUsableSize(t) == \E p \in Ptr : Available(p) /\ Begin(t, [op |-> "size", ptr |-> p], "spin")
CallRealloc(t) ==
  \E p \in Ptr, s \in Sizes \ {Huge} :
    Available(p) /\ Room /\ LeakRoom /\ Begin(t, [op |-> "realloc", ptr |-> p, size |-> s], "spin")
CallFork(t) == t \in Forker /\ Begin(t, Idle, "load")

(* The program touches an object, and the page fault is handled.           *)
Access(t) == Begin(t, [op |-> "touch"], "touch")

(***************************************************************************)
(* Inside: the first call of a thread sets its reservations up.            *)
(***************************************************************************)
ThreadInit(t) ==
  /\ pc[t] = "body" /\ ~initDone[t]
  /\ initDone' = [initDone EXCEPT ![t] = TRUE]
  /\ UNCHANGED <<forkLockVars, phase, heap, call, leaks>>

Inside(t, op) == pc[t] = "body" /\ initDone[t] /\ call[t].op = op

(* __ota_malloc and __ota_memalign refuse sizes near SIZE_MAX.             *)
Objects(c) ==
  IF c.size = Huge THEN {}
  ELSE IF c.op = "memalign" THEN AlignedObjects(c.size, c.align)
  ELSE MallocObjects(c.size)

AllocateInto(p, t) == heap[p] = Nothing /\ \E o \in Objects(call[t]) : Put(p, o)

Allocate(t, l) ==
  /\ \/ \E p \in Ptr : AllocateInto(p, t)
     \/ Objects(call[t]) = {} /\ UNCHANGED heap
  /\ Goto(t, l)
  /\ UNCHANGED <<cnt, seen, phase, initDone, leaks>>

Malloc(t) ==
  /\ Inside(t, "malloc") \/ Inside(t, "memalign")
  /\ Allocate(t, "leave")
  /\ UNCHANGED call

(* ota_aligned_alloc neither takes the lock nor sets the thread up.        *)
AlignedAlloc(t) ==
  /\ pc[t] = "bare"
  /\ Allocate(t, "idle")
  /\ call' = [call EXCEPT ![t] = Idle]

(* What the trie does not know is not released.                            *)
Freed(p) == IF IsOta(p) THEN Nothing ELSE [by |-> "abandoned"]

Free(t) ==
  /\ Inside(t, "free")
  /\ Put(call[t].ptr, Freed(call[t].ptr))
  /\ Goto(t, "leave")
  /\ UNCHANGED <<cnt, seen, phase, call, initDone, leaks>>

MallocUsableSize(t) ==
  /\ Inside(t, "size")
  /\ Goto(t, "leave")
  /\ UNCHANGED <<cnt, seen, phase, heap, call, initDone, leaks>>

(* Realloc of an object that is large enough returns with the lock held.   *)
ReallocInPlace(t) ==
  LET p == call[t].ptr
  IN /\ Inside(t, "realloc")
     /\ UsableSize(p) >= call[t].size
     /\ heap' = [heap EXCEPT ![p].size = call[t].size]
     /\ leaks' = leaks + 1
     /\ Goto(t, "idle")
     /\ call' = [call EXCEPT ![t] = Idle]
     /\ UNCHANGED <<cnt, seen, phase, initDone>>

(* Otherwise it allocates, unlocks, copies, and locks again to free: the   *)
(* copy may fault, and the handler needs the lock.                         *)
ReallocMalloc(t) ==
  LET p == call[t].ptr
  IN /\ Inside(t, "realloc")
     /\ UsableSize(p) < call[t].size
     /\ \E r \in Ptr :
          /\ AllocateInto(r, t)
          /\ call' = [call EXCEPT ![t] = [op |-> "copy", ptr |-> p, ret |-> r,
                                          size |-> call[t].size, n |-> UsableSize(p)]]
     /\ Goto(t, "leave")
     /\ UNCHANGED <<cnt, seen, phase, initDone, leaks>>

(* The copy faults, unless the pages it touches are mapped.                *)
Leave(t) ==
  /\ \/ /\ call[t].op = "copy"
        /\ \E l \in {"touch", "touched"} : ReadUnlock(t, l)
        /\ UNCHANGED call
     \/ /\ call[t].op # "copy"
        /\ ReadUnlock(t, "idle")
        /\ call' = [call EXCEPT ![t] = Idle]
  /\ UNCHANGED <<phase, heap, initDone, leaks>>

(* The contents that matter are those of the smaller of the two sizes.     *)
Copied(p, r, n) ==
  [heap EXCEPT ![r].lost =
     IF n < Lesser(heap[p].size, heap[r].size) THEN heap[p].by ELSE "nothing"]

Touched(t) ==
  /\ pc[t] = "touched"
  /\ \/ /\ call[t].op = "touch"
        /\ Goto(t, "idle")
        /\ call' = [call EXCEPT ![t] = Idle]
        /\ UNCHANGED heap
     \/ /\ call[t].op = "copy"
        /\ heap' = Copied(call[t].ptr, call[t].ret, call[t].n)
        /\ Goto(t, "spin")
        /\ call' = [call EXCEPT ![t] = [op |-> "free", ptr |-> call[t].ptr, ret |-> call[t].ret]]
  /\ UNCHANGED <<cnt, seen, phase, initDone, leaks>>

(***************************************************************************)
(* The lock and fork.                                                      *)
(***************************************************************************)
LockStep(t) ==
  /\ \/ ReadSpin(t) \/ ReadAdd(t) \/ ReadBack(t)
     \/ TryCheck(t) \/ TryAdd(t) \/ TryBack(t) \/ HandlerUnlock(t)
     \/ WriteLoad(t) \/ WriteCas(t) \/ WriteFlag(t) \/ WriteSpin(t) \/ WriteUnlock(t)
     \/ ForkInParent(t)
  /\ UNCHANGED <<phase, heap, call, initDone, leaks>>

Child(t) ==
  /\ ForkInChild(t)
  /\ call' = [u \in Thread |-> Idle]
  /\ leaks' = 0
  /\ UNCHANGED <<phase, heap, initDone>>

Calls(t) ==
  \/ CallMalloc(t) \/ CallMemalign(t) \/ CallAlignedAlloc(t) \/ CallFree(t)
  \/ CallUsableSize(t) \/ CallRealloc(t) \/ CallFork(t) \/ Access(t)

Proceed(t) ==
  \/ ThreadInit(t) \/ Malloc(t) \/ AlignedAlloc(t) \/ Free(t) \/ MallocUsableSize(t)
  \/ ReallocInPlace(t) \/ ReallocMalloc(t) \/ Leave(t) \/ Touched(t)
  \/ LockStep(t) \/ Child(t)

Next ==
  \/ EarlyCalls \/ FindLibc \/ LibcCalls \/ EnterKernel
  \/ \E t \in Thread : Calls(t) \/ Proceed(t)

Spec == Init /\ [][Next]_vars

(* A thread that is in a call is scheduled again and again.  Whether it    *)
(* calls at all is the program's choice.                                   *)
FairSpec == Spec /\ \A t \in Thread : WF_vars(Proceed(t))

(***************************************************************************)
(* Properties.                                                             *)
(***************************************************************************)
Spots == {"idle", "spin", "add", "back", "body", "leave", "bare", "touch", "tryadd", "tryback",
          "handler", "touched", "load", "cas", "flag", "wait", "forking", "release", "gone"}

(* The type of the state: phases, places, and a counter of a sane size.    *)
TypeOK ==
  /\ cnt \in Nat /\ pc \in [Thread -> Spots] /\ seen \in [Thread -> Nat]
  /\ phase \in {"early", "libc", "kernel"}
  /\ initDone \in [Thread -> BOOLEAN] /\ leaks \in 0 .. MaxLeaks
  /\ DOMAIN heap = Ptr /\ DOMAIN call = Thread
  /\ phase # "kernel" => \A t \in Thread : pc[t] = "idle" /\ ~initDone[t]

(* rwlock.h:5-8: the counter is READ for each reader, WRITE while a writer *)
(* has the lock, WAIT only while a writer waits for it.  A WAIT that       *)
(* outlived its writer would keep every allocation out for good.           *)
Counted == {t \in Thread : pc[t] \in {"back", "tryback"}} \cup Reading
CounterIsExact ==
  /\ cnt \div READ = Cardinality(Counted) + leaks
  /\ (cnt \div WRITE) % 2 = Cardinality(Writing)
  /\ Waited(cnt) => WantsWrite # {}

(* vmem.c:55: while a thread forks, no other thread forks, holds the lock  *)
(* for a call or a page fault, or has left a hold of it behind.  The child *)
(* may inherit a half-done operation or a taken spin lock all the same:    *)
(* that of an aligned_alloc, the one entry point that takes no lock        *)
(* (alloc_alias.c:1075).                                                   *)
AtWork == Reading \cup Writing \cup {t \in Thread : pc[t] = "bare"}
ForkMeetsAlignedAllocOnly ==
  \A t \in Writing : leaks = 0 /\ \A u \in AtWork \ {t} : pc[u] = "bare"

(* The trie keeps a class, not a size: the size a free or a lookup derives *)
(* from it covers exactly the alias pages the allocation wrote, and at     *)
(* least the bytes the program asked for (assertion at alloc_alias.c:599). *)
FreesItsPages ==
  \A p \in Ptr : Live(p) /\ IsOta(p) =>
    /\ UsableSize(p) >= heap[p].size
    /\ Pages(heap[p].off, UsableSize(p)) = heap[p].n

(* realloc (alloc_alias.c:914) brings the contents along, unless the object *)
(* is older than the allocator: of those it knows no size and copies none. *)
ReallocKeeps == \A p \in Ptr : Live(p) => heap[p].lost \notin {"malloc", "memalign"}

(* fork_lock, with its transient counts, failed attempts and WAIT bit, is  *)
(* a reader-writer lock.                                                   *)
Lock == INSTANCE RwLock WITH
  holds <- Cardinality(Reading) + leaks, writer <- (Writing # {})
ImplementsRwLock == Lock!Spec

(* rwlock.h:5, "Writer is waiting": while the bit is set a fork gets the   *)
(* lock, whatever the other threads call, unless a realloc kept its hold.  *)
WaitIsHonoured == Waited(cnt) ~> Writing # {} \/ leaks > 0

(* kconfig.h:29, "mitgation of deadlock during fork": a fork that waits    *)
(* for the lock gets it.                                                   *)
ForkReturns == WantsWrite # {} ~> Writing # {}
=============================================================================
