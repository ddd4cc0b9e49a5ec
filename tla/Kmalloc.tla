-------------------------------- MODULE Kmalloc --------------------------------
(***************************************************************************)
(* The allocator of the library's own data, src/memory/kmalloc.c.  It      *)
(* takes blocks of pages (majors) from the kernel and carves allocations   *)
(* (minors) out of them.  Every function holds a spin lock from its first  *)
(* to its last access to the lists and is one step here; krealloc gives    *)
(* the lock up before it allocates and again before it frees.              *)
(*                                                                         *)
(* The doubly linked list of the minors of a block is the sequence of      *)
(* their addresses, the list of the majors that of their blocks.           *)
(***************************************************************************)
EXTENDS Integers, Sequences, FiniteSets, SequencesExt, FiniteSetsExt, Functions

CONSTANTS
  Thread,
  NBlock,      \* bound: blocks that exist at a time
  PageSize,    \* l_pageSize
  PageCount,   \* l_pageCount, the least number of pages of a block
  MajHdr,      \* sizeof(struct liballoc_major)
  MinHdr,      \* sizeof(struct liballoc_minor)
  AlignRoom,   \* ALIGNMENT + ALIGN_INFO, added to each request
  Requests,    \* the sizes asked for
  MaxHeld,     \* bound: allocations that are held before kmalloc
  Nil

Block == 1 .. NBlock

ASSUME KmallocAssumption ==
  /\ {NBlock, PageSize, PageCount, MajHdr, MinHdr, MaxHeld} \subseteq Nat \ {0}
  /\ AlignRoom \in Nat \ {0} /\ Requests \subseteq Nat
  /\ Nil \notin Block

VARIABLES
  majors,   \* the blocks from l_memRoot on
  block,    \* struct liballoc_major: pages, usage and the minors in order
  best,     \* l_bestBet
  held,     \* the pointers each thread got and did not free, <<block, address>>
  grow,     \* what krealloc of a thread is about to do outside of the lock
  lost,     \* pages of a block that was given back are still mapped
  crashed   \* a pointer that is an error number was used

vars == <<majors, block, best, held, grow, lost, crashed>>
heap == <<majors, block, best>>

-----------------------------------------------------------------------------
Bytes(b) == block[b].pages * PageSize
Free(b) == Bytes(b) - block[b].usage
Minors(b) == block[b].minors
End(min) == min.at + MinHdr + min.size
Size(req) == req + AlignRoom
Need(req) == Size(req) + MinHdr

WrongGaps(b, need) ==
  {i \in 0 .. Len(Minors(b)) :
     (IF i = Len(Minors(b)) THEN Bytes(b) ELSE Minors(b)[i + 1].at) -
     (IF i = 0 THEN MajHdr ELSE End(Minors(b)[i])) >= need - MinHdr}

(* The space behind the i-th minor of a block, or in front of all of them. *)
GapStart(b, i) == IF i = 0 THEN MajHdr ELSE End(Minors(b)[i])
GapEnd(b, i) == IF i = Len(Minors(b)) THEN Bytes(b) ELSE Minors(b)[i + 1].at
Gaps(b, need) == {i \in 0 .. Len(Minors(b)) : GapEnd(b, i) - GapStart(b, i) >= need}

(* Cases 1 to 4 of kmalloc: the block has the space, and in one piece.     *)
Fits(b, need) == Free(b) >= need /\ Gaps(b, need) # {}

StartsAtBest(need) == best # Nil /\ Free(best) > need

WrongOrder(need) ==
  IF StartsAtBest(need)
  THEN SubSeq(majors, CHOOSE i \in DOMAIN majors : majors[i] = best, Len(majors))
  ELSE majors

(* The blocks that kmalloc looks at: from the best bet to the last one and *)
(* then all of them, or all of them at once.                               *)
Order(need) ==
  IF StartsAtBest(need)
  THEN SubSeq(majors, CHOOSE i \in DOMAIN majors : majors[i] = best, Len(majors)) \o majors
  ELSE majors

(* The first of them that fits, 0 if none does.                            *)
FirstFit(need) ==
  LET order == Order(need)
      fit == {i \in DOMAIN order : Fits(order[i], need)}
  IN IF fit = {} THEN 0 ELSE Min(fit)

(* l_bestBet after a look at some blocks: the first with the most space,   *)
(* if that is more than the best bet has.                                  *)
BestOf(seen) ==
  LET size == IF best = Nil THEN 0 ELSE Free(best)
      better == {i \in DOMAIN seen :
                   /\ size < Free(seen[i])
                   /\ \A j \in DOMAIN seen : Free(seen[j]) <= Free(seen[i])
                   /\ \A j \in 1 .. i - 1 : Free(seen[j]) < Free(seen[i])}
  IN IF better = {} THEN best ELSE seen[CHOOSE i \in better : TRUE]

WrongPagesFor(req) == Max({PageCount, (Size(req) + PageSize - 1) \div PageSize})

(* allocate_new_page: at least PageCount pages, enough for the request.    *)
PagesFor(req) ==
  Max({PageCount, (Size(req) + MajHdr + MinHdr + PageSize - 1) \div PageSize})

Minor(at, req) == [at |-> at, size |-> Size(req), req |-> req]

(* Cases 3 and 4: the minor goes into the first gap of block b.            *)
PlacedIn(b, req) ==
  LET i == Min(Gaps(b, Need(req)))
  IN [block[b] EXCEPT !.usage = @ + Need(req),
                      !.minors = InsertAt(@, i + 1, Minor(GapStart(b, i), req))]

(* Case 2: the block is new.                                               *)
NewBlock(req) ==
  [pages |-> PagesFor(req), usage |-> MajHdr + Need(req), minors |-> <<Minor(MajHdr, req)>>]

(* The result of kmalloc is held by t.  A block that was appended in case  *)
(* 1 is used at once; the first block of all, and one that was appended in *)
(* case 5, because the last one has the space only in pieces, is looked at *)
(* like the others and may become the best bet.                            *)
MallocFits(t, req) ==
  LET i == FirstFit(Need(req))
      seen == SubSeq(Order(Need(req)), 1, i)
      b == Last(seen)
      at == GapStart(b, Min(Gaps(b, Need(req))))
  IN /\ i # 0
     /\ block' = [block EXCEPT ![b] = PlacedIn(b, req)]
     /\ best' = BestOf(seen)
     /\ held' = [held EXCEPT ![t] = @ \cup {<<b, at>>}]
     /\ UNCHANGED <<majors, lost, crashed>>

MallocGrows(t, req) ==
  LET before == BestOf(Order(Need(req)))
      looksAtNew == majors = <<>> \/ Free(Last(majors)) >= Need(req)
      space == PagesFor(req) * PageSize - MajHdr
      b == Min(Block \ ToSet(majors))
  IN /\ FirstFit(Need(req)) = 0 /\ Len(majors) < NBlock
     /\ majors' = Append(majors, b)
     /\ block' = [block EXCEPT ![b] = NewBlock(req)]
     /\ best' = IF looksAtNew /\ (IF before = Nil THEN TRUE ELSE Free(before) < space)
                THEN b ELSE before
     /\ held' = [held EXCEPT ![t] = @ \cup {<<b, MajHdr>>}]
     /\ UNCHANGED <<lost, crashed>>

(* plat_mmap fails: liballoc_alloc passes its error number on, which is no *)
(* null pointer, and allocate_new_page writes through it.                  *)
MallocCrashes(req) ==
  /\ FirstFit(Need(req)) = 0
  /\ crashed' = TRUE
  /\ UNCHANGED <<heap, held, lost>>

Malloc(t, req) == MallocFits(t, req) \/ MallocGrows(t, req) \/ MallocCrashes(req)

(* kfree: the minor leaves its block.  An empty block leaves the list and  *)
(* goes back to the kernel: liballoc_free hands the number of its pages to *)
(* munmap, which counts bytes.                                             *)
At(p) == CHOOSE i \in DOMAIN Minors(p[1]) : Minors(p[1])[i].at = p[2]

WrongEmpties(p) == At(p) = 1

Empties(p) == Len(Minors(p[1])) = 1

WrongForget(b) == best

Forget(b) == IF best = b THEN Nil ELSE best

Unmapped(pages) == (pages + PageSize - 1) \div PageSize

FreeEmpties(t, p) ==
  LET b == p[1]
  IN /\ Empties(p)
     /\ majors' = RemoveAt(majors, CHOOSE i \in DOMAIN majors : majors[i] = b)
     /\ block' = [block EXCEPT ![b] = Nil]
     /\ best' = Forget(b)
     /\ lost' = (lost \/ Unmapped(block[b].pages) < block[b].pages)

WrongUsage(b, min) == block[b].usage - min.req - MinHdr

UsageWithout(b, min) == block[b].usage - min.size - MinHdr

FreeLeaves(t, p) ==
  LET b == p[1]
      usage == UsageWithout(b, Minors(b)[At(p)])
  IN /\ ~Empties(p)
     /\ block' = [block EXCEPT ![b].usage = usage, ![b].minors = RemoveAt(@, At(p))]
     /\ best' = IF best = Nil THEN Nil ELSE IF Bytes(b) - usage > Free(best) THEN b ELSE best
     /\ UNCHANGED <<majors, lost>>

Release(t, p) ==
  /\ FreeEmpties(t, p) \/ FreeLeaves(t, p)
  /\ held' = [held EXCEPT ![t] = @ \ {p}]
  /\ UNCHANGED crashed

Kmalloc(t, req) ==
  /\ grow[t] = Nil /\ Cardinality(UNION {held[u] : u \in Thread}) < MaxHeld
  /\ Malloc(t, req)
  /\ UNCHANGED grow

Kfree(t, p) ==
  /\ grow[t] = Nil /\ p \in held[t]
  /\ Release(t, p)
  /\ UNCHANGED grow

(* krealloc of a pointer; without one it is kmalloc, and with size 0 it is *)
(* kfree.  What fits stays where it is and keeps its size.                 *)
ReallocInPlace(t, p, req) ==
  /\ grow[t] = Nil /\ p \in held[t]
  /\ Minors(p[1])[At(p)].req >= req
  /\ block' = [block EXCEPT ![p[1]].minors[At(p)].req = req]
  /\ UNCHANGED <<majors, best, held, grow, lost, crashed>>

ReallocUnlock(t, p, req) ==
  /\ grow[t] = Nil /\ p \in held[t]
  /\ Minors(p[1])[At(p)].req < req
  /\ grow' = [grow EXCEPT ![t] = [old |-> p, req |-> req, moved |-> FALSE]]
  /\ UNCHANGED <<heap, held, lost, crashed>>

ReallocMalloc(t) ==
  /\ grow[t] # Nil /\ ~grow[t].moved
  /\ Malloc(t, grow[t].req)
  /\ grow' = [grow EXCEPT ![t].moved = TRUE]

(* The contents are copied and the old minor is freed.                     *)
ReallocFree(t) ==
  /\ grow[t] # Nil /\ grow[t].moved
  /\ Release(t, grow[t].old)
  /\ grow' = [grow EXCEPT ![t] = Nil]

Init ==
  /\ majors = <<>>
  /\ block = [b \in Block |-> Nil]
  /\ best = Nil
  /\ held = [t \in Thread |-> {}]
  /\ grow = [t \in Thread |-> Nil]
  /\ lost = FALSE
  /\ crashed = FALSE

Next ==
  \/ /\ ~crashed
     /\ \E t \in Thread :
          \/ \E req \in Requests : Kmalloc(t, req)
          \/ \E p \in held[t] :
               \/ Kfree(t, p)
               \/ \E req \in Requests \ {0} : ReallocInPlace(t, p, req) \/ ReallocUnlock(t, p, req)
          \/ ReallocMalloc(t)
          \/ ReallocFree(t)
  \/ crashed /\ UNCHANGED vars

Spec == Init /\ [][Next]_vars

-----------------------------------------------------------------------------
Pointers == UNION {{<<b, Minors(b)[i].at>> : i \in DOMAIN Minors(b)} : b \in ToSet(majors)}

(* What the header of a block and its first minors take.                   *)
Taken(mins) ==
  LET taken[i \in 0 .. Len(mins)] ==
        IF i = 0 THEN MajHdr ELSE taken[i - 1] + mins[i].size + MinHdr
  IN taken
Used(b) == Taken(Minors(b))[Len(Minors(b))]

TypeOK ==
  /\ majors \in SeqOf(Block, NBlock) /\ IsInjective(majors)
  /\ \A b \in Block :
       IF b \in ToSet(majors)
       THEN /\ block[b].pages \in Nat /\ block[b].usage \in 0 .. Bytes(b)
            /\ \A i \in DOMAIN Minors(b) : Minors(b)[i] \in [at : Nat, size : Nat, req : Nat]
       ELSE block[b] = Nil
  /\ held \in [Thread -> SUBSET (Block \X Nat)]
  /\ lost \in BOOLEAN /\ crashed \in BOOLEAN

(* The minors of a block lie inside of it one behind the other, each with  *)
(* its header and the room for its alignment, however they were placed,    *)
(* freed and resized.                                                      *)
MinorsAreDisjoint ==
  \A b \in ToSet(majors) : \A i \in 0 .. Len(Minors(b)) : GapStart(b, i) <= GapEnd(b, i)

(* The usage of a block is what its minors take: krealloc changes req_size *)
(* and never size, and kfree gives back what kmalloc took.                 *)
UsageIsExact == \A b \in ToSet(majors) : block[b].usage = Used(b)

(* l_bestBet never points to a block that went back to the kernel, and no  *)
(* block without a minor stays in the list.                                *)
BestBetIsListed ==
  /\ best # Nil => best \in ToSet(majors)
  /\ \A b \in ToSet(majors) : Minors(b) # <<>>

(* What threads hold are the minors, and no two threads hold the same one, *)
(* although krealloc lets others in between its steps.                     *)
EveryMinorIsHeld ==
  /\ Pointers = UNION {held[t] : t \in Thread}
  /\ \A t, u \in Thread : t # u => held[t] \cap held[u] = {}

(* kmalloc asks the kernel for pages only when no block has the space in   *)
(* one piece, whichever block it starts to look at.                        *)
NewBlockOnlyWhenNeeded ==
  [][\A b \in Block : b \notin ToSet(majors) /\ b \in ToSet(majors') =>
       \A c \in ToSet(majors) : \A i \in 0 .. Len(Minors(c)) :
         GapEnd(c, i) - GapStart(c, i) < block[b]'.usage - MajHdr]_vars

(* kmalloc.h:39 says that the second argument of liballoc_free is the      *)
(* number of pages to free.  Then nothing of a block stays behind.         *)
BlocksGoBack == ~lost
=============================================================================
