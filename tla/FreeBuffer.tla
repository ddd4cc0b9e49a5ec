------------------------------ MODULE FreeBuffer ------------------------------
(***************************************************************************)
(* The per-thread record `struct mm_per_thread` of the batched free path   *)
(* (vmem.h) and the operations that __ota_free (alloc_alias.c) and the two *)
(* eBPF programs (page_ops.bpf.c, page_fault.bpf.c) perform on it while    *)
(* they hold buf_lock.  The operators are pure: each maps a record to a    *)
(* record.  An alias is a page number; a freed object is one page.         *)
(***************************************************************************)
EXTENDS Naturals, Sequences, FiniteSets

CONSTANTS
  BufSize,     \* FREE_ALIAS_BUF_SIZE: ranges that fit in free_alias_buf
  MatchMax,    \* CONFIG_BATCHED_FREE_MAX_MATCH: ranges a free tries to extend
  WindowMax,   \* CONFIG_BATCHED_FREE_MAX_PAGES: largest adaptive window
  DeferMax,    \* DEFER_CANON_MAX: canonical blocks one deferral list holds
  NVersions,   \* N_VERSIONS: buffer versions before the counter wraps
  HelpersFail  \* TRUE: bpf_uaddr_to_kaddr and bpf_unset_page_table may fail

ASSUME FreeBufferAssumption ==
  /\ BufSize \in Nat \ {0}
  /\ MatchMax \in Nat \ {0}
  /\ WindowMax \in Nat \ {0}
  /\ DeferMax \in Nat \ {0}
  /\ NVersions \in Nat \ {0}
  /\ HelpersFail \in BOOLEAN

Range1(a) == [start |-> a, len |-> 1]

(* A slot of free_alias_buf that a flush has zeroed.                       *)
NoRange == [start |-> 0, len |-> 0]

AliasesOf(r) == r.start .. (r.start + r.len - 1)

(* The aliases waiting in the buffer to be unmapped.                       *)
Pending(m) == UNION {AliasesOf(m.ranges[i]) : i \in DOMAIN m.ranges}

(* The canonical blocks waiting for the buffer to be flushed.              *)
Deferred(m) == m.small \cup m.large

(* thread_init: buf_empty = true, buf_index = buf_version = buf_cnt = 0,   *)
(* window_size = 1.  `ranges` is free_alias_buf up to the slot buf_index,  *)
(* <<>> if that is slot 0 and nothing is in it.  `gone` is no field of the *)
(* code: it collects what a section under buf_lock unmaps.                 *)
InitialBuffer ==
  [version |-> 0, empty |-> TRUE, cnt |-> 0, window |-> 1,
   ranges |-> <<>>, small |-> {}, large |-> {}, gone |-> {}]

-----------------------------------------------------------------------------
(* Mutants of this module and of the others: an operator whose name starts *)
(* with Wrong is the next definition with a plausible mistake in it.       *)
WrongFlush(m) ==
  [m EXCEPT !.gone = @ \cup UNION {AliasesOf(m.ranges[i]) : i \in DOMAIN m.ranges \cap 1 .. BufSize},
            !.ranges = <<>>, !.cnt = 0, !.empty = TRUE, !.version = @ + 1]

(* The eBPF flush: every range up to buf_index, and not behind the end of  *)
(* free_alias_buf, is unmapped and zeroed, the buffer is empty and the     *)
(* version moves on.                                                       *)
Flush(m) ==
  [m EXCEPT !.gone = @ \cup UNION {AliasesOf(m.ranges[i]) : i \in DOMAIN m.ranges \cap 1 .. BufSize},
            !.ranges = <<>>, !.cnt = 0, !.empty = TRUE,
            !.version = (@ + 1) % NVersions]

(* bpf_unset_page_table fails on range k (and leaves its pages mapped): the*)
(* ranges before it are unmapped, all up to it are zeroed, and flush       *)
(* returns 1 without a change of index, count, flag and version.           *)
FlushBreaks(m, k) ==
  [m EXCEPT !.gone = @ \cup UNION {AliasesOf(m.ranges[i]) : i \in 1 .. k - 1},
            !.ranges = [i \in DOMAIN @ |-> IF i <= k THEN NoRange ELSE @[i]]]

BrokenFlushes(m) == {FlushBreaks(m, k) : k \in DOMAIN m.ranges \cap 1 .. BufSize}

(* What a free, which ignores the result of its flush, may find behind it; *)
(* m itself if bpf_uaddr_to_kaddr returned NULL.                           *)
FlushOutcomes(m) == {Flush(m)} \cup (IF HelpersFail THEN {m} \cup BrokenFlushes(m) ELSE {})

ReleaseDeferred(m) == [m EXCEPT !.small = {}, !.large = {}]

WrongTryDeferredFree(m, prevVersion) == ReleaseDeferred(m)

(* Deferred blocks are released once a flush happened since the caller's   *)
(* last free, or when nothing is pending.                                  *)
TryDeferredFree(m, prevVersion) ==
  IF prevVersion = m.version /\ ~m.empty THEN m ELSE ReleaseDeferred(m)

(* adaptive_window_resize, on a free that comes at least 100 ms after the  *)
(* last resize: grow fourfold, halve, or keep the window.                  *)
Resize(m) ==
  IF m.cnt > m.window \div 4 + 1
  THEN [m EXCEPT !.window = IF 4 * @ > WindowMax THEN WindowMax ELSE 4 * @]
  ELSE IF m.window # m.cnt
       THEN [m EXCEPT !.window = IF @ \div 2 < 1 THEN 1 ELSE @ \div 2]
       ELSE m

(* The freed page lies right behind the range or right before it.          *)
Touches(r, a) == r.start + r.len = a \/ a + 1 = r.start

WrongExtend(r, a) == [start |-> r.start, len |-> r.len + 1]

(* A range grows at its end, or at its start if the page precedes it.      *)
Extend(r, a) ==
  [start |-> IF r.start + r.len = a THEN r.start ELSE a, len |-> r.len + 1]

(* The last MatchMax ranges that the freed page extends on either side.    *)
Mergeable(m, a) ==
  {i \in DOMAIN m.ranges : i + MatchMax > Len(m.ranges) /\ Touches(m.ranges[i], a)}

Latest(S) == CHOOSE i \in S : \A j \in S : j <= i

(* The free needs a new range but every slot is used: the buffer is flushed*)
(* and the deferred blocks are released before the range is stored.        *)
Overflows(m, a) == Mergeable(m, a) = {} /\ Len(m.ranges) = BufSize

(* The slot that buf_index names holds no range.                           *)
SlotIsFree(m) == m.ranges = <<>> \/ m.ranges[Len(m.ranges)] = NoRange

WrongAddRange(m, a) ==
  IF SlotIsFree(m)
  THEN {[m EXCEPT !.ranges = Append(SubSeq(@, 1, Len(@) - 1), Range1(a)), !.empty = FALSE]}
  ELSE IF Mergeable(m, a) # {}
  THEN {[m EXCEPT !.ranges[Latest(Mergeable(m, a))] = Extend(@, a)]}
  ELSE IF Overflows(m, a)
  THEN {[ReleaseDeferred(m) EXCEPT !.ranges = <<Range1(a)>>]}
  ELSE {[m EXCEPT !.ranges = Append(@, Range1(a))]}

(* A freed page joins the buffer: in the free slot, in one of the last     *)
(* ranges, as a new range, or as the new range behind a flush.  buf_empty  *)
(* is cleared in the first case only.  When the flush failed the new slot  *)
(* lies behind the end of free_alias_buf, in memory that is not its own.   *)
AddRange(m, a) ==
  IF SlotIsFree(m)
  THEN {[m EXCEPT !.ranges = Append(SubSeq(@, 1, Len(@) - 1), Range1(a)), !.empty = FALSE]}
  ELSE IF Mergeable(m, a) # {}
  THEN {[m EXCEPT !.ranges[Latest(Mergeable(m, a))] = Extend(@, a)]}
  ELSE IF Overflows(m, a)
  THEN {[ReleaseDeferred(f) EXCEPT !.ranges = Append(@, Range1(a))] : f \in FlushOutcomes(m)}
  ELSE {[m EXCEPT !.ranges = Append(@, Range1(a))]}

(* After the page has joined the buffer: flush once more than window_size  *)
(* pages are pending.                                                      *)
BatchFlush(m) == IF m.cnt > m.window THEN FlushOutcomes(m) ELSE {m}

DeferIsFull(m) == Cardinality(m.small) = DeferMax \/ Cardinality(m.large) = DeferMax

(* A full deferral list forces a flush and is released.                    *)
DrainDeferred(m) == {ReleaseDeferred(f) : f \in IF m.empty THEN {m} ELSE FlushOutcomes(m)}

Defer(m, c, isSmall) ==
  IF isSmall THEN [m EXCEPT !.small = @ \cup {c}] ELSE [m EXCEPT !.large = @ \cup {c}]
=============================================================================
