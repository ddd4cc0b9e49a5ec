---------------------------------- MODULE Vma ----------------------------------
(***************************************************************************)
(* The virtual memory areas of src/memory/vmem.c and the calls of          *)
(* src/mmap/mmap.c that work on them.  struct mm_struct keeps its areas in *)
(* a linked list in the order of their addresses; the page table is        *)
(* changed through the eBPF program page_ops (vma_anon.c, page_ops.bpf.c). *)
(* Every call holds the mutex of mmap.c, so a call is one step.            *)
(*                                                                         *)
(* Addresses count in units; a page has PageSize units, so that addresses  *)
(* that are not page aligned exist.                                        *)
(***************************************************************************)
EXTENDS List, SequencesExt, FiniteSetsExt

CONSTANTS
  VmaList,    \* mm->vma_list
  NVma,       \* bound: areas that kmalloc can hand out
  PageSize,   \* PAGE_SIZE, a power of two
  Base,       \* VADDR_BASE
  Top,        \* bound: no area beyond it is mapped
  Prot,       \* access permissions
  FlagSets,   \* the combinations of flags mmap is called with
  Hints,      \* the addresses mmap is called with; below Base they ask for an alignment
  Lens        \* the lengths the calls are made with

Id == 1 .. NVma

Area == [start : Base .. Top, end : Base .. Top, prot : Prot, flags : FlagSets]

(* What Regions sees of an area.                                           *)
Attr == [prot : Prot, flags : FlagSets]

ASSUME VmaAssumption ==
  /\ Node = Id \cup {VmaList} /\ VmaList \notin Id /\ Nil \notin Node \cup Prot \cup Area \cup Attr
  /\ {PageSize, Base, Top, NVma} \subseteq Nat \ {0} /\ Hints \cup Lens \subseteq Nat
  /\ Base % PageSize = 0 /\ Top % PageSize = 0

(* A power of two has no odd divisor but 1.                                *)
PowerOfTwo(n) == \A d \in 1 .. n : n % d = 0 => d = 1 \/ d % 2 = 0

ASSUME PageAssumption == PowerOfTwo(PageSize)

(* Hints that lead to a page whatever areas there are: page aligned, or an *)
(* alignment below PageSize.  vma_map does not ask for them: its test      *)
(* !PAGE_ALIGN(va) is never true of a hint other than 0.                   *)
HintsArePages == \A h \in Hints \ {0} : h % PageSize = 0 \/ PageSize % h = 0

VARIABLES
  mm,         \* struct mm_struct: the links of the list and the areas
  active,     \* vmem_active_mm is set
  pte,        \* pages with an entry in the page table
  call,       \* auxiliary: the last call that returned, in the terms of Regions
  onPages,    \* history: every area was mapped at the begin of a page
  panicked    \* PANIC or TODO was executed: the process exits

vars == <<mm, active, pte, call, onPages, panicked>>

-----------------------------------------------------------------------------
Larger(a, b) == IF a > b THEN a ELSE b
Smaller(a, b) == IF a < b THEN a ELSE b

Aligned(a) == a % PageSize = 0
AlignUp(a) == ((a + PageSize - 1) \div PageSize) * PageSize

(* x & ~m, bit by bit.                                                     *)
AndNot(x, m) ==
  LET bits[p \in Nat \X Nat] ==
        IF p[1] = 0 THEN 0
        ELSE (IF p[1] % 2 = 1 /\ p[2] % 2 = 0 THEN 1 ELSE 0) + 2 * bits[<<p[1] \div 2, p[2] \div 2>>]
  IN bits[<<x, m>>]

(* The pages of a range; how the helpers of the kernel treat the rest of an*)
(* area that does not begin at a page is not modelled.                     *)
Page == (Base \div PageSize) .. (Top \div PageSize - 1)
Pages(s, e) == {p \in Page : s <= p * PageSize /\ (p + 1) * PageSize <= e}

(* The pages that a range has a part of.                                   *)
Covered(a, len) == {p \in Page : len > 0 /\ a < (p + 1) * PageSize /\ p * PageSize < a + len}

Init ==
  /\ mm = [links |-> InitHead(Unlinked, VmaList), area |-> [v \in Id |-> Nil]]
  /\ active = TRUE
  /\ pte = {}
  /\ call = [op |-> "failed"]
  /\ onPages = TRUE
  /\ panicked = FALSE

-----------------------------------------------------------------------------
(* Operators on m = mm, one for each helper of vmem.c.                     *)
Listed(m) == Entries(m.links, VmaList)
NextOf(m, v) == m.links.next[v]
PrevOf(m, v) == m.links.prev[v]

Allocated(m) == {v \in Id : m.area[v] # Nil}

(* The structure that the next kmalloc returns; kfree gives it back.       *)
New(m) == CHOOSE v \in Id : m.area[v] = Nil /\ \A w \in 1 .. v - 1 : m.area[w] # Nil

(* How many of the two kmallocs of a call succeed.                         *)
Kmallocs(m) == 0 .. Smaller(2, Cardinality(Id \ Allocated(m)))

(* The first entry of es that is in S, Nil when there is none.            *)
FirstOf(es, S) ==
  LET hit == {i \in DOMAIN es : es[i] \in S}
  IN IF hit = {} THEN Nil ELSE es[CHOOSE i \in hit : \A j \in hit : i <= j]

First(m, S) == FirstOf(Listed(m), S)

(* vmem_find_vma: the first area that the range overlaps.                  *)
FindVma(m, a, len) ==
  First(m, {v \in Allocated(m) : a + Larger(len, 1) > m.area[v].start /\ a < m.area[v].end})

WrongLastOfRange(m, from, end) == from

(* The last area of a range that ends at end and overlaps from first: the  *)
(* end lies in it, in the gap behind it, or it is the last one of all.     *)
LastOfRange(m, from, end) ==
  First(m, {v \in Allocated(m) :
              /\ m.area[v].start >= m.area[from].start
              /\ \/ end > m.area[v].start /\ end <= m.area[v].end
                 \/ NextOf(m, v) = VmaList
                 \/ NextOf(m, v) # VmaList /\ end <= m.area[NextOf(m, v)].start})

(* A range cut down to what the areas from .. to cover.  A bound inside an *)
(* area must be aligned.                                                   *)
CutRange(m, from, to, a, end) ==
  IF (a > m.area[from].start /\ ~Aligned(a)) \/ (end < m.area[to].end /\ ~Aligned(end))
  THEN [err |-> "EINVAL"]
  ELSE [err |-> "ok", from |-> from, to |-> to,
        addr |-> Larger(a, m.area[from].start), end |-> Smaller(end, m.area[to].end)]

RangeFrom(m, from, a, end) ==
  IF from = Nil THEN [err |-> "ENOENT"]
  ELSE CutRange(m, from, LastOfRange(m, from, end), a, end)

(* vmem_vma_find_range: the areas that the range overlaps.                 *)
FindRange(m, a, len) == RangeFrom(m, FindVma(m, a, len), a, a + len)

WrongInsert(m, v) == [m EXCEPT !.links = Add(@, v, VmaList)]

(* vmem_insert_vma: in front of the first area that ends behind its start. *)
Insert(m, v) ==
  LET w == First(m, {u \in Allocated(m) : m.area[v].start < m.area[u].end})
  IN [m EXCEPT !.links = IF w = Nil THEN AddTail(@, v, VmaList) ELSE Add(@, v, PrevOf(m, w))]

(* vmem_vma_can_merge; all areas are anonymous, their name is NULL.        *)
CanMerge(m, v, w) ==
  /\ m.area[v].end = m.area[w].start
  /\ m.area[v].flags = m.area[w].flags
  /\ m.area[v].prot = m.area[w].prot

(* vmem_vma_do_try_merge_with_next: v takes over the area behind it.       *)
TryMergeNext(m, v) ==
  LET w == NextOf(m, v)
  IN IF w = VmaList \/ (w # VmaList /\ ~CanMerge(m, v, w)) THEN m
     ELSE [links |-> Del(m.links, w),
           area |-> [m.area EXCEPT ![v].end = m.area[w].end, ![w] = Nil]]

TryMergePrev(m, v) == IF PrevOf(m, v) = VmaList THEN m ELSE TryMergeNext(m, PrevOf(m, v))

TryMerge(m, v) == TryMergePrev(TryMergeNext(m, v), v)

(* vmem_vma_split: the part from a on becomes an area of its own.          *)
SplitAt(m, v, a, w) ==
  [links |-> Add(m.links, w, v),
   area |-> [m.area EXCEPT ![w] = [m.area[v] EXCEPT !.start = a], ![v].end = a]]

NeedSplit(m, v, len, prot) == len > 0 /\ (prot = Nil \/ m.area[v].prot # prot)

WrongUndoSplit(m, v) == m

(* What a split that succeeded is followed by when the second one fails.   *)
UndoSplit(m, v) == TryMerge(m, v)

(* The split at the begin of range r, which takes the area new, ...        *)
SplitLeft(m, r, prot, new) ==
  IF NeedSplit(m, r.from, r.addr - m.area[r.from].start, prot)
  THEN [mm |-> SplitAt(m, r.from, r.addr, new), from |-> new,
        to |-> IF r.from = r.to THEN new ELSE r.to, used |-> 1]
  ELSE [mm |-> m, from |-> r.from, to |-> r.to, used |-> 0]

(* ... and the one at its end.  When that fails the first one is undone by *)
(* a merge.                                                                *)
SplitRight(l, r, prot, mem) ==
  LET right == NeedSplit(l.mm, l.to, l.mm.area[l.to].end - r.end, prot)
  IN IF right /\ mem = l.used THEN [err |-> "ENOMEM", mm |-> UndoSplit(l.mm, l.from)]
     ELSE [err |-> "ok", from |-> l.from, to |-> l.to, addr |-> r.addr, end |-> r.end,
           mm |-> IF right THEN SplitAt(l.mm, l.to, r.end, New(l.mm)) ELSE l.mm]

SplitBoth(m, l, r, prot, mem) ==
  IF mem < l.used THEN [err |-> "ENOMEM", mm |-> m] ELSE SplitRight(l, r, prot, mem)

SplitRange(m, r, prot, mem) ==
  IF r.err # "ok" THEN [err |-> r.err, mm |-> m]
  ELSE SplitBoth(m, SplitLeft(m, r, prot, New(m)), r, prot, mem)

(* vmem_split_vma: the range begins and ends with areas of its own.  mem   *)
(* is the number of kmallocs that succeed.                                 *)
SplitVma(m, a, len, prot, mem) == SplitRange(m, FindRange(m, a, len), prot, mem)

(* The areas from one to another, in the order of list_next_entry.         *)
Section(es, from, to) ==
  SubSeq(es, CHOOSE i \in DOMAIN es : es[i] = from, CHOOSE i \in DOMAIN es : es[i] = to)

AreasOf(m, from, to) == Section(Listed(m), from, to)

(* kfree of the areas of a range that was cut out of the list.             *)
Freed(m, S) ==
  [links |-> [next |-> [n \in Node |-> IF n \in S THEN Nil ELSE m.links.next[n]],
              prev |-> [n \in Node |-> IF n \in S THEN Nil ELSE m.links.prev[n]]],
   area |-> [v \in Id |-> IF v \in S THEN Nil ELSE m.area[v]]]

WrongUnlink(m, from, to) ==
  Freed([m EXCEPT !.links = Bypass(@, PrevOf(m, from), NextOf(m, to))], {from, to})

Unlink(m, from, to) ==
  Freed([m EXCEPT !.links = Bypass(@, PrevOf(m, from), NextOf(m, to))], ToSet(AreasOf(m, from, to)))

(* vma_op_unmap for each area: page_ops clears its page table entries.     *)
PagesOf(m, S) == UNION {Pages(m.area[v].start, m.area[v].end) : v \in S}

(* vmem_first_fit: the first gap between areas that holds len.             *)
GapStart(m, es, i) == IF i = 0 THEN Base ELSE AlignUp(m.area[es[i]].end)

FitIn(m, es, len) ==
  GapStart(m, es, CHOOSE i \in 0 .. Len(es) :
                    /\ i = Len(es) \/ GapStart(m, es, i) + len <= m.area[es[i + 1]].start
                    /\ \A j \in 0 .. i - 1 : GapStart(m, es, j) + len > m.area[es[j + 1]].start)

FirstFit(m, len) == FitIn(m, Listed(m), len)

WrongPlace(m, hint, len) == IF hint = 0 THEN FirstFit(m, len) ELSE hint

(* The address that vma_map picks.  A hint below Base asks for an          *)
(* alignment; a place that is taken is followed by the next one behind the *)
(* area that takes it, and no area lies at Top or beyond it.               *)
Place(m, hint, len) ==
  LET try[va \in Nat] ==
        LET v == FindVma(m, va, len)
        IN IF v = Nil THEN va ELSE try[AndNot(hint + m.area[v].end - 1, hint - 1)]
  IN IF hint = 0 THEN FirstFit(m, len)
     ELSE try[IF hint < Base THEN AndNot(hint + Base - 1, hint - 1) ELSE hint]

-----------------------------------------------------------------------------
(* The system calls of mmap.c.                                             *)
Returns(c) ==
  /\ call' = c
  /\ UNCHANGED <<mm, active, pte, onPages, panicked>>

Fails == Returns([op |-> "failed"])

Panics ==
  /\ panicked' = TRUE
  /\ UNCHANGED <<mm, active, pte, call, onPages>>

(* The checks of do_mmap, in their order; "TODO" ends the process.         *)
MmapCheck(hint, len, flags, offset) ==
  IF len = 0 \/ ~Aligned(offset) THEN "EINVAL"
  ELSE IF hint # 0 /\ "FIXED" \in flags THEN "TODO"
  ELSE IF hint = 0 /\ flags \cap {"FIXED", "FIXED_NOREPLACE"} # {} THEN "EPERM"
  ELSE IF "ANONYMOUS" \notin flags THEN "ENOTSUP"
  ELSE IF flags \cap {"SHARED", "PRIVATE"} = {} THEN "EINVAL"
  ELSE IF "GROWSDOWN" \in flags THEN "ENOTSUP"
  ELSE IF "UNINITIALIZED" \in flags THEN "TODO"
  ELSE IF "HUGETLB" \in flags THEN "EINVAL"
  ELSE IF "POPULATE" \in flags THEN "TODO"
  ELSE "ok"

(* vma_map with the structure that kmalloc returned; flags gets MAP_FIXED, *)
(* which tells no two areas apart and is left out.                         *)
Mapped(m, v, area) == TryMerge(Insert([m EXCEPT !.area[v] = area], v), v)

Mmap(hint, len, prot, flags) ==
  /\ MmapCheck(hint, len, flags, 0) = "ok"
  /\ Allocated(mm) # Id
  /\ \E size \in {AlignUp(len)} : \E va \in {Place(mm, hint, size)} :
       /\ va + size <= Top
       /\ mm' = Mapped(mm, New(mm), [start |-> va, end |-> va + size, prot |-> prot, flags |-> flags])
       /\ call' = [op |-> "mmap", size |-> size \div PageSize, attr |-> [prot |-> prot, flags |-> flags]]
       /\ onPages' = (onPages /\ Aligned(va))
  /\ UNCHANGED <<active, pte, panicked>>

(* A check fails, or kmalloc does.                                         *)
MmapFails(hint, len, flags, offset) ==
  IF MmapCheck(hint, len, flags, offset) = "TODO" THEN Panics ELSE Fails

(* What a call does that found no area, or failed.                         *)
SplitFailed(r, asked) ==
  \/ r.err = "ENOENT" /\ Returns(asked)
  \/ /\ r.err \in {"EINVAL", "ENOMEM"}
     /\ mm' = r.mm
     /\ call' = [op |-> "failed"]
     /\ UNCHANGED <<active, pte, onPages, panicked>>

Munmap(addr, len, mem) ==
  LET asked == [op |-> "munmap", pages |-> Covered(addr, AlignUp(len))]
  IN \/ len = 0 /\ Fails
     \/ /\ len # 0
        /\ \E r \in {SplitVma(mm, addr, AlignUp(len), Nil, mem)} :
             \/ SplitFailed(r, asked)
             \/ /\ r.err = "ok"
                /\ mm' = Unlink(r.mm, r.from, r.to)
                /\ pte' = pte \ PagesOf(r.mm, ToSet(AreasOf(r.mm, r.from, r.to)))
                /\ call' = asked
                /\ UNCHANGED <<active, onPages, panicked>>

(* vma_op_set_prot: set_protection of page_ops.bpf.c expects its loop to   *)
(* run once for each page, but the body stops the loop at the first one.   *)
SetProtFails(m, v, prot) ==
  /\ m.area[v].prot # prot
  /\ m.area[v].end - m.area[v].start > PageSize

(* vmem_set_prot_vma: sets the permissions and merges what can be merged.  *)
SetProtRange(m, range, prot) ==
  LET m1 == [m EXCEPT !.area = [v \in Id |-> IF v \in ToSet(range)
                                              THEN [@[v] EXCEPT !.prot = prot] ELSE @[v]]]
      merged[i \in 0 .. Len(range)] ==
        IF i = 0 THEN TryMergeNext(m1, Last(range)) ELSE TryMergePrev(merged[i - 1], range[i])
  IN merged[Len(range)]

Mprotect(addr, len, prot, mem) ==
  LET asked == [op |-> "mprotect", pages |-> Covered(addr, AlignUp(len)), prot |-> prot]
  IN \/ len = 0 /\ Returns(asked)
     \/ /\ len # 0
        /\ \E r \in {SplitVma(mm, addr, AlignUp(len), prot, mem)} :
             \/ SplitFailed(r, asked)
             \/ /\ r.err = "ok"
                /\ \E range \in {AreasOf(r.mm, r.from, r.to)} :
                     \/ (\E v \in ToSet(range) : SetProtFails(r.mm, v, prot)) /\ Panics
                     \/ /\ \A v \in ToSet(range) : ~SetProtFails(r.mm, v, prot)
                        /\ mm' = SetProtRange(r.mm, range, prot)
                        /\ call' = asked
                        /\ UNCHANGED <<active, pte, onPages, panicked>>

(* Every advice is carried out as MADV_DONTNEED.  The parts of the areas   *)
(* that lie in the range leave the page table.                             *)
Madvise(addr, len) ==
  LET asked == [op |-> "madvise", pages |-> Covered(addr, len)]
  IN \/ len = 0 /\ Returns(asked)
     \/ /\ len # 0
        /\ \E r \in {FindRange(mm, addr, len)} :
             \/ r.err = "ENOENT" /\ Returns(asked)
             \/ r.err = "EINVAL" /\ Fails
             \/ /\ r.err = "ok"
                /\ pte' = pte \ (Pages(r.addr, r.end) \cap PagesOf(mm, ToSet(AreasOf(mm, r.from, r.to))))
                /\ call' = asked
                /\ UNCHANGED <<mm, active, onPages, panicked>>

(* mm_destory                                                              *)
Destroy ==
  /\ mm' = [links |-> InitHead(Unlinked, VmaList), area |-> [v \in Id |-> Nil]]
  /\ pte' = pte \ PagesOf(mm, ToSet(Listed(mm)))
  /\ call' = [op |-> "munmap", pages |-> Page]
  /\ active' = FALSE
  /\ UNCHANGED <<onPages, panicked>>

(* External: the page fault handler enters a page of an area.              *)
Touch(p) ==
  /\ \E v \in ToSet(Listed(mm)) : p \in Pages(mm.area[v].start, mm.area[v].end)
  /\ pte' = pte \cup {p}
  /\ UNCHANGED <<mm, active, call, onPages, panicked>>

Syscall ==
  \/ \E hint \in Hints, len \in Lens, flags \in FlagSets :
       \/ \E prot \in Prot : Mmap(hint, len, prot, flags)
       \/ \E offset \in {0, 1} : MmapFails(hint, len, flags, offset)
  \/ \E addr \in Base .. Top - 1, len \in Lens :
       \/ \E mem \in Kmallocs(mm) : Munmap(addr, len, mem)
       \/ \E mem \in Kmallocs(mm), prot \in Prot : Mprotect(addr, len, prot, mem)
       \/ Madvise(addr, len)
  \/ \E p \in Page : Touch(p)
  \/ Destroy

Next ==
  \/ active /\ ~panicked /\ Syscall
  \/ (~active \/ panicked) /\ UNCHANGED vars

Spec == Init /\ [][Next]_vars

-----------------------------------------------------------------------------
TypeOK ==
  /\ mm.links \in Links
  /\ mm.area \in [Id -> Area \cup {Nil}]
  /\ active \in BOOLEAN /\ panicked \in BOOLEAN /\ onPages \in BOOLEAN
  /\ pte \subseteq Page

(* The areas are not empty and lie in the list in the order of their       *)
(* addresses without an overlap, which vmem_find_vma, the first fit and    *)
(* the walks over a range rely on.                                         *)
ListIsSorted ==
  LET es == Listed(mm)
  IN \A i \in DOMAIN es :
       /\ mm.area[es[i]].start < mm.area[es[i]].end
       /\ i > 1 => mm.area[es[i - 1]].end <= mm.area[es[i]].start

(* kmalloc and kfree keep pace with the list: an area is allocated exactly *)
(* while it is in the list, and prev undoes next, so that no path of       *)
(* split, merge and unlink leaks an area or leaves a link to a freed one.  *)
StructsAreListed ==
  /\ ToSet(Listed(mm)) = {v \in Id : mm.area[v] # Nil}
  /\ \A n \in ToSet(Listed(mm)) \cup {VmaList} :
       mm.links.prev[mm.links.next[n]] = n /\ mm.links.next[mm.links.prev[n]] = n

(* Neighbours that could be one area are one: what a failed split or a     *)
(* change of permissions leaves behind is merged again.                    *)
NoMergeableNeighbours ==
  \A v \in ToSet(Listed(mm)) :
    mm.links.next[v] # VmaList => ~CanMerge(mm, v, mm.links.next[v])

(* page_ops.bpf.c:85 asserts that the loop over the pages of an area ran   *)
(* once for each of them.  Where no call asks for what do_mmap leaves to   *)
(* do, no mprotect ends the process.                                       *)
MprotectReturns == ~panicked

AttrOf(p) ==
  LET S == {a \in ToSet(mm.area) \ {Nil} : a.start <= p * PageSize /\ p * PageSize < a.end}
  IN IF S = {} THEN Nil
     ELSE LET a == CHOOSE a \in S : TRUE IN [prot |-> a.prot, flags |-> a.flags]

Contents == [p \in Page |-> AttrOf(p)]

Promise == INSTANCE Regions WITH attr <- Contents, Flags <- FlagSets

(* Every call does to the pages what Regions promises: a range is changed  *)
(* as a whole or, when a call fails half way, not at all, whatever areas   *)
(* are split and merged for it; as long as every area was mapped at a page.*)
ImplementsRegions ==
  Promise!Init /\ [][onPages' => Promise!Next \/ UNCHANGED Promise!vars]_vars

(* The same for a program whose hints cannot lead anywhere else.           *)
ImplementsRegionsAlways == Promise!Spec
=============================================================================
