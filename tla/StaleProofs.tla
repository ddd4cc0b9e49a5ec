------------------------------ MODULE StaleProofs ------------------------------
(***************************************************************************)
(* What becomes of the page table entry of a freed alias, for any number   *)
(* of threads, slots, tables and blocks, any window and any buffer size.   *)
(* As long as flushes do not fail, an alias that was freed waits for one   *)
(* until it is unmapped, also across the flush of a full buffer.  Once     *)
(* unmapped it comes back in one way only, whatever fails: a page fault    *)
(* handler has left its table behind with a run that is not mapped yet.    *)
(* The second fact rests on where a handler stands in its run (Runs).      *)
(***************************************************************************)
EXTENDS BatchedFreeProofs

-----------------------------------------------------------------------------
(* The step of UnmappedWhenFlushed for one alias and for one buffer.       *)
Unmapped(a) == (Awaits(a) \/ ~Freed(a)) /\ Freed(a)' /\ ~Awaits(a)' => pte'[a] = None

Moved(s) == mpt'[s].version # mpt[s].version => \A a \in Pending(mpt[s]) : pte'[a] = None

(* A step that touches no buffer and takes no alias from a free forgets    *)
(* nothing.                                                                *)
LEMMA AwaitsKept ==
  ASSUME UNCHANGED mpt,
         \A u \in Thread : pc[u] \in {"lock", "body"} =>
            pc'[u] \in {"lock", "body"} /\ victim'[u].alias = victim[u].alias,
         \A a \in Alias : Freed(a)' => Freed(a) \/ Awaits(a)'
  PROVE  (\A a \in Alias : Unmapped(a)) /\ (\A s \in Slot : Moved(s))
<1>1. ASSUME NEW a \in Alias, Awaits(a) PROVE Awaits(a)'
  <2>1. CASE \E s \in Slot : a \in Pending(mpt[s])
    BY <2>1 DEF Awaits
  <2>2. CASE \E u \in Thread : pc[u] \in {"lock", "body"} /\ victim[u].alias = a
    BY <2>2 DEF Awaits
  <2> QED BY <1>1, <2>1, <2>2 DEF Awaits
<1>2. \A a \in Alias : Unmapped(a)
  BY <1>1 DEF Unmapped
<1>3. \A s \in Slot : Moved(s)
  BY DEF Moved
<1> QED BY <1>2, <1>3

(* A section under buf_lock that forgets nothing leaves each alias of its  *)
(* buffer pending or unmapped.                                             *)
LEMMA CommitUnmaps ==
  ASSUME IInv, NEW s \in Slot, NEW m \in BufferType(Canon), Remembers(mpt[s], m), Commit(s, m),
         UNCHANGED <<entry, home>>,
         \A u \in Thread : pc[u] \in {"lock", "body"} /\ ~(victim[u].alias \in Pending(m) \cup m.gone)
            => pc'[u] \in {"lock", "body"} /\ victim'[u].alias = victim[u].alias
  PROVE  (\A a \in Alias : Unmapped(a)) /\ (\A r \in Slot : Moved(r))
<1> DEFINE x == [m EXCEPT !.gone = {}]
<1>1. mpt \in [Slot -> BufferType(Canon)] /\ pte \in [Alias -> Page \cup {None}]
  BY DEF IInv, Types
<1>2. x.ranges = m.ranges /\ x.version = m.version
  BY DEF BufferType
<1>3. Pending(x) = Pending(m)
  BY <1>2 DEF Pending
<1>4. /\ mpt' = [mpt EXCEPT ![s] = x]
      /\ pte' = [y \in Alias |-> IF y \in m.gone THEN None ELSE pte[y]]
  BY DEF Commit
<1> HIDE DEF x
<1>5. mpt'[s] = x /\ \A r \in Slot \ {s} : mpt'[r] = mpt[r]
  BY <1>1, <1>4
<1>6. \A a \in Alias : a \in m.gone => pte'[a] = None
  BY <1>4
<1>7. \A a \in Alias : a \in Pending(m) => Awaits(a)'
  <2>1. Pending(mpt'[s]) = Pending(m)
    BY <1>3, <1>5
  <2> QED BY <2>1 DEF Awaits, Pending
<1>8. ASSUME NEW a \in Alias PROVE Unmapped(a)
  <2> SUFFICES ASSUME Awaits(a), ~Awaits(a)' PROVE pte'[a] = None
    BY DEF Unmapped, Freed
  <2>1. CASE a \in Pending(mpt[s])
    <3>1. a \in Pending(m) \cup m.gone
      BY <2>1 DEF Remembers
    <3> QED BY <1>6, <1>7, <3>1
  <2>2. ASSUME NEW r \in Slot \ {s}, a \in Pending(mpt[r]) PROVE FALSE
    <3>1. a \in Pending(mpt'[r])
      BY <1>5, <2>2
    <3> QED BY <3>1 DEF Awaits, Pending
  <2>3. ASSUME NEW u \in Thread, pc[u] \in {"lock", "body"}, victim[u].alias = a
        PROVE  pte'[a] = None
    <3>1. a \in Pending(m) \cup m.gone
      BY <2>3 DEF Awaits
    <3> QED BY <1>6, <1>7, <3>1
  <2> QED BY <2>1, <2>2, <2>3 DEF Awaits
<1>9. ASSUME NEW r \in Slot PROVE Moved(r)
  <2>1. CASE r = s
    <3> SUFFICES ASSUME m.version # mpt[s].version, NEW a \in Pending(mpt[s])
                 PROVE  pte'[a] = None
      BY <1>2, <1>5, <2>1 DEF Moved
    <3>1. a \in m.gone /\ a \in Alias
      BY DEF Remembers, IInv, Buffers
    <3> QED BY <1>6, <3>1
  <2>2. CASE r # s
    BY <1>5, <2>2 DEF Moved
  <2> QED BY <2>1, <2>2
<1> QED BY <1>8, <1>9

LEMMA FreeBodyUnmaps ==
  ASSUME ~HelpersFail, IInv, NEW t \in Thread, NEW tick \in BOOLEAN, FreeBody(t, tick)
  PROVE  (\A a \in Alias : Unmapped(a)) /\ (\A r \in Slot : Moved(r))
<1> DEFINE s == SlotOf[t]
           a == victim[t].alias
           c == victim[t].canon
           k == ClassOf[c]
           small == k = "small"
           room == HasRoom(t, k)
<1>1. PICK j, m :
        /\ pc[t] = "body"
        /\ Joins(mpt[s], prevVersion[t], a, j)
        /\ Results(j, room, c, small, m)
        /\ FreeWrites(t, j.version, m)
  BY FreeBodyIs
<1>2. a \in Nat /\ c \in Canon
  BY <1>1, FaultTypes, TableOf DEF Knows
<1>3. s \in Slot /\ small \in BOOLEAN
  BY BatchedFreeAssumption
<1>4. mpt[s] \in BufferType(Canon) /\ Fits(mpt[s])
  BY <1>3 DEF IInv, Types, Buffers
<1>5. Commit(s, m) /\ UNCHANGED <<entry, home, victim>> /\ pc' = [pc EXCEPT ![t] = "unlock"]
  BY <1>1 DEF FreeWrites
<1>6. victim[t].alias = a
  OBVIOUS
<1> HIDE DEF small, s, a, c, k, room
<1>7. /\ j \in BufferType(Canon) /\ Fits(j) /\ a \in Pending(j)
      /\ Remembers(mpt[s], j)
  BY <1>1, <1>2, <1>4, JoinsIs
<1>8. m \in BufferType(Canon) /\ Remembers(j, m)
  BY <1>1, <1>2, <1>3, <1>7, ResultsIs
<1>9. Remembers(mpt[s], m) /\ a \in Pending(m) \cup m.gone
  <2>1. a \in Pending(m) \cup m.gone
    BY <1>7, <1>8 DEF Remembers
  <2> QED BY <1>7, <1>8, <2>1, RemembersOn
<1>10. \A u \in Thread : u # t => pc'[u] = pc[u]
  BY <1>5 DEF IInv, Types
<1> QED BY <1>3, <1>5, <1>6, <1>8, <1>9, <1>10, CommitUnmaps

LEMMA FlushBufferUnmaps ==
  ASSUME ~HelpersFail, IInv, NEW t \in Thread, FlushBuffer(t)
  PROVE  (\A a \in Alias : Unmapped(a)) /\ (\A r \in Slot : Moved(r))
<1> DEFINE s == pf[t].slot
           m == Flush(mpt[s])
<1>1. /\ pc[t] = "try" /\ FlushDone(t) /\ UNCHANGED <<entry, home, victim>>
      /\ UNCHANGED <<mpt, pte>> \/ Commit(s, m)
  BY DEF FlushBuffer, notHandler, notLock
<1>2. \A u \in Thread : pc[u] \in {"lock", "body"} => pc'[u] = pc[u]
  BY <1>1 DEF FlushDone, IInv, Types
<1>3. s \in Slot
  BY <1>1, FaultTypes DEF Knows
<1>4. mpt[s] \in BufferType(Canon) /\ Fits(mpt[s])
  BY <1>3 DEF IInv, Types, Buffers
<1>5. m \in BufferType(Canon) /\ Remembers(mpt[s], m)
  BY <1>4, FlushEmpties
<1> HIDE DEF s, m
<1>6. CASE UNCHANGED <<mpt, pte>>
  BY <1>1, <1>2, <1>6, AwaitsKept DEF Freed
<1>7. CASE Commit(s, m)
  BY <1>1, <1>2, <1>3, <1>5, <1>7, CommitUnmaps
<1> QED BY <1>1, <1>6, <1>7

(* No other step of a page fault handler touches a buffer or clears an     *)
(* entry.                                                                  *)
LEMMA HandlerLeaves ==
  ASSUME IInv, NEW t \in Thread, Handler(t)
  PROVE  /\ UNCHANGED <<victim, home>>
         /\ \A a \in Alias : entry[a] # None <=> entry'[a] # None
         /\ \A u \in Thread : pc[u] \in {"lock", "body"} => pc'[u] = pc[u]
         /\ ~FlushBuffer(t) /\ ~FlushFails(t) => UNCHANGED mpt
         /\ ~FlushBuffer(t) /\ ~FlushFails(t) /\ ~MapRun(t) => UNCHANGED pte
<1>1. UNCHANGED <<victim, home>>
  <2>1. UNCHANGED notLock
    BY DEF Handler, FlushCheck, FlushBuffer, FlushFails, FlushRetry, FlushSkip, MarkMapped,
           PrefetchNext, PrefetchCross, PrefetchEntry, PrefetchPage, MapRun, notHandler
  <2> QED BY <2>1 DEF notLock
<1>2. pc[t] \in PC \ {"lock", "body"} /\ \E v : pc' = [pc EXCEPT ![t] = v]
  <2>1. CASE FlushCheck(t) \/ FlushBuffer(t)
    BY <2>1 DEF FlushCheck, FlushBuffer, FlushDone, PC
  <2>2. CASE FlushFails(t) \/ FlushRetry(t) \/ FlushSkip(t) \/ MarkMapped(t)
    BY <2>2 DEF FlushFails, FlushRetry, FlushSkip, Unflushed, MarkMapped, PC
  <2>3. CASE PrefetchNext(t) \/ PrefetchCross(t) \/ PrefetchPage(t)
    BY <2>3 DEF PrefetchNext, PrefetchCross, PrefetchPage, PC
  <2>4. CASE PrefetchEntry(t) \/ MapRun(t)
    BY <2>4 DEF PrefetchEntry, MapRun, PC
  <2> QED BY <2>1, <2>2, <2>3, <2>4 DEF Handler
<1>3. \A u \in Thread : pc[u] \in {"lock", "body"} => pc'[u] = pc[u]
  BY <1>2 DEF IInv, Types
<1>4. /\ ~FlushBuffer(t) /\ ~FlushFails(t) => UNCHANGED mpt
      /\ ~FlushBuffer(t) /\ ~FlushFails(t) /\ ~MapRun(t) => UNCHANGED pte
  <2>1. ASSUME FlushCheck(t) \/ FlushRetry(t) \/ FlushSkip(t) PROVE UNCHANGED <<mpt, pte>>
    BY <2>1 DEF FlushCheck, FlushRetry, FlushSkip
  <2>2. ASSUME MarkMapped(t) \/ PrefetchNext(t) \/ PrefetchCross(t) PROVE UNCHANGED <<mpt, pte>>
    BY <2>2 DEF MarkMapped, PrefetchNext, PrefetchCross
  <2>3. ASSUME PrefetchEntry(t) \/ PrefetchPage(t) PROVE UNCHANGED <<mpt, pte>>
    BY <2>3 DEF PrefetchEntry, PrefetchPage
  <2>4. ASSUME MapRun(t) PROVE UNCHANGED mpt
    BY <2>4 DEF MapRun
  <2> QED BY <2>1, <2>2, <2>3, <2>4 DEF Handler
<1>5. \A a \in Alias : entry[a] # None <=> entry'[a] # None
  <2>1. \/ UNCHANGED entry
        \/ /\ MarkMapped(t) \/ PrefetchPage(t)
           /\ entry' = [entry EXCEPT ![pf[t].cur].mapped = TRUE]
    <3>1. ASSUME FlushCheck(t) \/ FlushBuffer(t) \/ FlushFails(t) \/ FlushRetry(t) \/ FlushSkip(t)
          PROVE  UNCHANGED entry
      BY <3>1 DEF FlushCheck, FlushBuffer, FlushFails, FlushRetry, FlushSkip
    <3>2. ASSUME PrefetchNext(t) \/ PrefetchCross(t) \/ PrefetchEntry(t) \/ MapRun(t)
          PROVE  UNCHANGED entry
      BY <3>2 DEF PrefetchNext, PrefetchCross, PrefetchEntry, MapRun
    <3>3. ASSUME MarkMapped(t) PROVE entry' = [entry EXCEPT ![pf[t].cur].mapped = TRUE]
      BY <3>3 DEF MarkMapped
    <3>4. ASSUME PrefetchPage(t)
          PROVE  UNCHANGED entry \/ entry' = [entry EXCEPT ![pf[t].cur].mapped = TRUE]
      BY <3>4 DEF PrefetchPage
    <3> QED BY <3>1, <3>2, <3>3, <3>4 DEF Handler
  <2>2. CASE UNCHANGED entry
    BY <2>2
  <2>3. CASE /\ MarkMapped(t) \/ PrefetchPage(t)
             /\ entry' = [entry EXCEPT ![pf[t].cur].mapped = TRUE]
    <3>1. entry[pf[t].cur] # None /\ entry \in [Alias -> Entry \cup {None}]
      BY <2>3, FaultTypes DEF MarkMapped, PrefetchPage, Knows, IInv, Types
    <3>2. \A a \in Alias : entry[a] # None => entry'[a] # None
      BY <2>3, <3>1, MarkKeeps
    <3>3. \A a \in Alias : a # pf[t].cur => entry'[a] = entry[a]
      BY <2>3, <3>1
    <3> QED BY <3>1, <3>2, <3>3
  <2> QED BY <2>1, <2>2, <2>3
<1> QED BY <1>1, <1>3, <1>4, <1>5

(* An allocation overwrites no entry with nothing.                         *)
LEMMA RefillFrees ==
  ASSUME IInv, NEW t \in Thread, NEW k \in Class, MallocRefill(t, k), NEW a \in Alias
  PROVE  /\ Freed(a)' => Freed(a)
         /\ entry[a] # None => entry'[a] # None
<1> DEFINE reuse == resv[t][k].reuse
           n == ResvLen[k]
<1>1. PICK start \in Alias, fresh \in [(Len(reuse) + 1) .. n -> {c \in heap : ClassOf[c] = k}] :
        /\ entry' = [b \in Alias |->
             IF b \notin start .. start + n - 1 THEN entry[b]
             ELSE IF b - start < Len(reuse) THEN reuse[b - start + 1]
             ELSE FreshEntry(fresh[b - start + 1])]
        /\ home' = [b \in Alias |->
             IF b \in start .. start + n - 1 THEN entry'[b].canon ELSE home[b]]
  BY DEF MallocRefill
<1>2. reuse \in Seq(Entry) /\ n \in Nat /\ heap \subseteq Canon /\ start \in Nat /\ a \in Nat
  BY TableOf, BatchedFreeAssumption DEF IInv, Types
<1> HIDE DEF reuse, n
<1>3. CASE a \notin start .. start + n - 1
  BY <1>1, <1>3 DEF Freed
<1>4. CASE a \in start .. start + n - 1
  <2>1. CASE a - start < Len(reuse)
    <3>1. a - start + 1 \in DOMAIN reuse /\ entry'[a] = reuse[a - start + 1]
      BY <1>1, <1>2, <1>4, <2>1
    <3>2. entry'[a] \in Entry
      BY <1>2, <3>1
    <3> QED BY <3>2, NoneIsNoEntry DEF Freed
  <2>2. CASE ~ (a - start < Len(reuse))
    <3>1. a - start + 1 \in (Len(reuse) + 1) .. n /\ entry'[a] = FreshEntry(fresh[a - start + 1])
      BY <1>1, <1>2, <1>4, <2>2
    <3>2. fresh[a - start + 1] \in Canon
      BY <1>2, <3>1
    <3>3. 0 \in 0 .. NVersions - 1
      BY FreeBufferAssumption
    <3>4. entry'[a] \in Entry
      BY <3>1, <3>2, <3>3 DEF FreshEntry, Entry
    <3> QED BY <3>4, NoneIsNoEntry DEF Freed
  <2> QED BY <2>1, <2>2
<1> QED BY <1>3, <1>4

-----------------------------------------------------------------------------
LEMMA NextUnmaps ==
  ASSUME ~HelpersFail, IInv, [Next]_vars
  PROVE  (\A a \in Alias : Unmapped(a)) /\ (\A s \in Slot : Moved(s))
<1>1. CASE UNCHANGED vars
  BY <1>1, AwaitsKept DEF vars, Freed
<1>2. ASSUME NEW t \in Thread, NEW k \in Class, MallocReserved(t, k)
      PROVE  (\A a \in Alias : Unmapped(a)) /\ (\A s \in Slot : Moved(s))
  BY <1>2, AwaitsKept DEF MallocReserved, Freed
<1>3. ASSUME NEW t \in Thread, NEW k \in Class, MallocRefill(t, k)
      PROVE  (\A a \in Alias : Unmapped(a)) /\ (\A s \in Slot : Moved(s))
  <2>1. UNCHANGED <<mpt, pc, victim>>
    BY <1>3 DEF MallocRefill
  <2>2. \A a \in Alias : Freed(a)' => Freed(a)
    BY <1>3, RefillFrees
  <2> QED BY <2>1, <2>2, AwaitsKept
<1>4. ASSUME NEW t \in Thread, NEW b \in Alias, FreeClear(t, b)
      PROVE  (\A a \in Alias : Unmapped(a)) /\ (\A s \in Slot : Moved(s))
  <2>1. /\ UNCHANGED <<mpt, home>> /\ pc[t] = "idle" /\ pc' = [pc EXCEPT ![t] = "lock"]
        /\ entry' = [entry EXCEPT ![b] = None]
        /\ victim' = [victim EXCEPT ![t] = [alias |-> b, canon |-> entry[b].canon]]
    BY <1>4 DEF FreeClear
  <2>2. entry \in [Alias -> Entry \cup {None}] /\ DOMAIN victim = Thread /\ DOMAIN pc = Thread
    BY DEF IInv, Types
  <2>3. Awaits(b)'
    <3>1. pc'[t] = "lock" /\ victim'[t].alias = b
      BY <2>1, <2>2
    <3> QED BY <3>1 DEF Awaits
  <2>4. \A a \in Alias : a # b => entry'[a] = entry[a]
    BY <2>1, <2>2
  <2>5. \A a \in Alias : Freed(a)' => Freed(a) \/ Awaits(a)'
    BY <2>1, <2>3, <2>4 DEF Freed
  <2>6. \A u \in Thread : u # t => pc'[u] = pc[u] /\ victim'[u] = victim[u]
    BY <2>1, <2>2
  <2>7. \A u \in Thread : pc[u] \in {"lock", "body"} =>
            pc'[u] \in {"lock", "body"} /\ victim'[u].alias = victim[u].alias
    BY <2>1, <2>6
  <2> QED BY <2>1, <2>5, <2>7, AwaitsKept
<1>5. ASSUME NEW t \in Thread, NEW b \in Alias, PageFault(t, b)
      PROVE  (\A a \in Alias : Unmapped(a)) /\ (\A s \in Slot : Moved(s))
  <2>1. /\ UNCHANGED <<entry, home, mpt, victim>> /\ pc[t] = "idle"
        /\ pc' = [pc EXCEPT ![t] = "check"]
    BY <1>5 DEF PageFault
  <2> QED BY <2>1, AwaitsKept DEF Freed, IInv, Types
<1>6. ASSUME NEW t \in Thread, FreeLock(t) \/ FreeUnlock(t)
      PROVE  (\A a \in Alias : Unmapped(a)) /\ (\A s \in Slot : Moved(s))
  <2>1. /\ UNCHANGED <<entry, home, mpt>>
        /\ \A u \in Thread \ {t} : pc'[u] = pc[u] /\ victim'[u] = victim[u]
        /\ \/ pc[t] = "lock" /\ pc'[t] = "body" /\ UNCHANGED victim
           \/ pc[t] = "unlock"
    BY <1>6 DEF FreeLock, FreeUnlock, IInv, Types
  <2>2. \A u \in Thread : pc[u] \in {"lock", "body"} =>
            pc'[u] \in {"lock", "body"} /\ victim'[u].alias = victim[u].alias
    BY <2>1
  <2> QED BY <2>1, <2>2, AwaitsKept DEF Freed
<1>7. ASSUME NEW t \in Thread, Handler(t)
      PROVE  (\A a \in Alias : Unmapped(a)) /\ (\A s \in Slot : Moved(s))
  <2>1. CASE FlushBuffer(t)
    BY <2>1, FlushBufferUnmaps
  <2>2. ~FlushFails(t)
    BY DEF FlushFails
  <2>3. CASE ~FlushBuffer(t)
    BY <1>7, <2>2, <2>3, HandlerLeaves, AwaitsKept DEF Freed
  <2> QED BY <2>1, <2>3
<1>8. CASE Quiescent
  BY <1>1, <1>8 DEF Quiescent
<1> QED BY <1>1, <1>2, <1>3, <1>4, <1>5, <1>6, <1>7, <1>8, FreeBodyUnmaps DEF Next, Finish

(* A freed alias waits for a flush until it is unmapped, and a buffer that *)
(* shows a new version has nothing left of what it held before             *)
(* (page_fault.bpf.c:374), for windows of any size and also when a free    *)
(* finds free_alias_buf full: provided that the two helpers of the eBPF    *)
(* flush never fail.                                                       *)
THEOREM UnmappedWhenFlushedHolds ==
  ASSUME ~HelpersFail
  PROVE  Spec => UnmappedWhenFlushed
<1>1. IInv /\ [Next]_vars =>
        [/\ \A a \in Alias :
              (Awaits(a) \/ ~Freed(a)) /\ Freed(a)' /\ ~Awaits(a)' => pte'[a] = None
         /\ \A s \in Slot : mpt'[s].version # mpt[s].version =>
              \A a \in Pending(mpt[s]) : pte'[a] = None]_vars
  BY NextUnmaps DEF Unmapped, Moved
<1> QED BY <1>1, Invariant, PTL DEF Spec, UnmappedWhenFlushed
-----------------------------------------------------------------------------
(* Where a handler stands: on the last alias of its run, or on the alias   *)
(* behind it that may join the run or start the next one.  The aliases of  *)
(* the run that lie in the table it has locked still have their entries.   *)
OnRun(q) == q.cur + 1 = q.run + q.len
BehindRun(q) == q.cur = q.run + q.len

Stands(q, c) ==
  /\ c \in {"check", "try"} => IF q.first THEN OnRun(q) ELSE BehindRun(q)
  /\ c \in {"mark", "next", "cross"} => OnRun(q)
  /\ c \in {"entry", "page"} => BehindRun(q)
  /\ c = "map" /\ q.win > 1 => BehindRun(q)
  /\ c = "cross" => q.cur % L1Len = 0

RunHasEntries(q) ==
  q.locked => \A x \in Alias : x \in RunAliases(q) /\ L1Of(x) = L1Of(q.cur) => entry[x] # None

Runs(u) == Stands(pf[u], pc[u]) /\ RunHasEntries(pf[u])

AllRuns == \A u \in Thread : Runs(u)

(* A step leaves the run of a thread alone that it does not move along and *)
(* whose locked table loses no entry.                                      *)
LEMMA RunKept ==
  ASSUME IInv, NEW u \in Thread, Runs(u), pf'[u] = pf[u],
         pc'[u] = pc[u] \/ pc'[u] \in {"idle", "lock", "body", "unlock"},
         \A a \in Alias : l1lock[L1Of(a)] = u => (entry[a] # None => entry'[a] # None)
  PROVE  Runs(u)'
<1>1. Stands(pf'[u], pc'[u])
  BY DEF Runs, Stands
<1>2. pf[u].locked => l1lock[L1Of(pf[u].cur)] = u
  BY DEF IInv, Threads, Knows
<1>3. RunHasEntries(pf[u])'
  BY <1>2 DEF Runs, RunHasEntries, RunAliases, L1Of
<1> QED BY <1>1, <1>3 DEF Runs, Stands, OnRun, BehindRun

(* The first alias of a table lies in another table than those before it.  *)
LEMMA Boundary ==
  ASSUME NEW c \in Alias, c % L1Len = 0, c + 1 \in Alias, NEW x \in Alias, x <= c
  PROVE  L1Of(x) # L1Of(c + 1)
<1> DEFINE q == c \div L1Len
<1>1. L1Len \in Nat \ {0} /\ c \in Nat \ {0} /\ x \in Nat \ {0}
  BY BatchedFreeAssumption DEF Alias
<1>2. c = q * L1Len /\ q \in Nat
  <2>1. c = q * L1Len + (c % L1Len) /\ q \in Nat
    BY <1>1
  <2> QED BY <1>1, <2>1
<1>3. L1Of(c + 1) = q
  BY <1>1 DEF L1Of
<1> HIDE DEF q
<1>4. PICK p \in Nat : p * L1Len + 1 <= x /\ (x - 1) \div L1Len = p
  BY <1>1, Row
<1>5. p # q
  <2>1. p * L1Len \in Nat
    BY <1>1, Times
  <2> QED BY <1>1, <1>2, <1>4, <2>1
<1> QED BY <1>3, <1>4, <1>5 DEF L1Of

LEMMA NoFaultRuns ==
  ASSUME NEW u \in Thread, pf'[u] = NoFault, pc'[u] = "idle" PROVE Runs(u)'
<1>1. ~ NoFault.locked
  BY DEF NoFault
<1> QED BY <1>1 DEF Runs, Stands, RunHasEntries

(* A step of the handler of t that keeps the run and the place.            *)
LEMMA SameRun ==
  ASSUME IInv, NEW t \in Thread, Runs(t), NEW q, pf'[t] = q,
         q.run = pf[t].run, q.len = pf[t].len, q.cur = pf[t].cur, q.locked = pf[t].locked,
         \A a \in Alias : entry[a] # None => entry'[a] # None,
         Stands(q, pc'[t])
  PROVE  Runs(t)'
<1>1. RunAliases(q) = RunAliases(pf[t])
  BY DEF RunAliases
<1>2. RunHasEntries(pf[t])'
  BY <1>1 DEF Runs, RunHasEntries, L1Of
<1> QED BY <1>2 DEF Runs, Stands, OnRun, BehindRun

LEMMA FlushRuns ==
  ASSUME IInv, NEW t \in Thread, Runs(t), pc[t] \in {"check", "try"},
         FlushDone(t) \/ Unflushed(t) \/ (pc' = [pc EXCEPT ![t] = "try"] /\ UNCHANGED pf),
         UNCHANGED entry
  PROVE  Runs(t)'
<1>1. pc \in [Thread -> PC] /\ pf \in [Thread -> FaultType] /\ pf[t] \in FaultType
  BY FaultTypes DEF IInv, Types
<1>2. CASE FlushDone(t)
  <2> DEFINE q == IF pf[t].first THEN pf[t] ELSE [pf[t] EXCEPT !.rtid = pf[t].slot, !.need = FALSE]
  <2>1. pf'[t] = q /\ pc'[t] = (IF pf[t].first THEN "mark" ELSE "page")
    BY <1>1, <1>2 DEF FlushDone, AfterFlush, FaultType
  <2>2. q.run = pf[t].run /\ q.len = pf[t].len /\ q.cur = pf[t].cur /\ q.locked = pf[t].locked
    BY <1>1 DEF FaultType
  <2> HIDE DEF q
  <2>3. Stands(q, pc'[t])
    BY <2>1, <2>2 DEF Runs, Stands, OnRun, BehindRun
  <2> QED BY <2>1, <2>2, <2>3, SameRun
<1>3. CASE Unflushed(t)
  <2> DEFINE q == IF pf[t].first THEN pf[t] ELSE [pf[t] EXCEPT !.win = 0]
  <2>1. pf'[t] = q /\ pc'[t] = (IF pf[t].first THEN "mark" ELSE "map")
    BY <1>1, <1>3 DEF Unflushed, FaultType
  <2>2. /\ q.run = pf[t].run /\ q.len = pf[t].len /\ q.cur = pf[t].cur /\ q.locked = pf[t].locked
        /\ ~pf[t].first => q.win = 0
    BY <1>1 DEF FaultType
  <2> HIDE DEF q
  <2>3. Stands(q, pc'[t])
    BY <2>1, <2>2 DEF Runs, Stands, OnRun, BehindRun
  <2> QED BY <2>1, <2>2, <2>3, SameRun
<1>4. CASE pc' = [pc EXCEPT ![t] = "try"] /\ UNCHANGED pf
  <2>1. pc'[t] = "try" /\ pf'[t] = pf[t]
    BY <1>1, <1>4
  <2>2. Stands(pf[t], pc'[t])
    BY <2>1 DEF Runs, Stands
  <2> QED BY <2>1, <2>2, SameRun
<1> QED BY <1>2, <1>3, <1>4

LEMMA MarkRuns ==
  ASSUME IInv, NEW t \in Thread, Runs(t), MarkMapped(t) PROVE Runs(t)'
<1>1. pc[t] = "mark" /\ pc'[t] = "next" /\ pf'[t] = pf[t]
  BY DEF MarkMapped, IInv, Types
<1>2. \A a \in Alias : entry[a] # None => entry'[a] # None
  BY HandlerLeaves DEF Handler
<1>3. Stands(pf[t], pc'[t])
  BY <1>1 DEF Runs, Stands
<1> QED BY <1>1, <1>2, <1>3, SameRun

LEMMA NextRuns ==
  ASSUME IInv, NEW t \in Thread, Runs(t), PrefetchNext(t) PROVE Runs(t)'
<1> DEFINE a == pf[t].cur
<1>1. pc[t] = "next" /\ UNCHANGED entry
  BY DEF PrefetchNext
<1>2. /\ pc \in [Thread -> PC] /\ pf \in [Thread -> FaultType] /\ pf[t] \in FaultType
      /\ a \in Alias /\ a \in Nat /\ Knows(t)
  BY FaultTypes, TableOf DEF IInv, Types
<1>3. CASE a % L1Len # 0
  <2> DEFINE q == [pf[t] EXCEPT !.cur = a + 1]
  <2>1. pf'[t] = q /\ pc'[t] = "entry"
    BY <1>2, <1>3 DEF PrefetchNext
  <2>2. /\ q.run = pf[t].run /\ q.len = pf[t].len /\ q.cur = a + 1 /\ q.locked = pf[t].locked
    BY <1>2 DEF FaultType
  <2>3. L1Of(a + 1) = L1Of(a)
    BY <1>2, <1>3, TableOf
  <2> HIDE DEF q
  <2>4. BehindRun(q)
    BY <1>1, <2>2 DEF Runs, Stands, OnRun, BehindRun
  <2>5. RunAliases(q) = RunAliases(pf[t])
    BY <2>2 DEF RunAliases
  <2>6. RunHasEntries(pf[t])'
    BY <1>1, <2>1, <2>2, <2>3, <2>5 DEF Runs, RunHasEntries, L1Of
  <2> QED BY <2>1, <2>4, <2>6 DEF Runs, Stands, BehindRun
<1>4. CASE a % L1Len = 0
  <2> DEFINE q == [pf[t] EXCEPT !.need = TRUE, !.locked = FALSE]
  <2>1. pf'[t] = q /\ pc'[t] = "cross"
    BY <1>2, <1>4 DEF PrefetchNext, FaultType
  <2>2. q.run = pf[t].run /\ q.len = pf[t].len /\ q.cur = a /\ ~q.locked
    BY <1>2 DEF FaultType
  <2> HIDE DEF q
  <2>3. OnRun(q)
    BY <1>1, <2>2 DEF Runs, Stands, OnRun
  <2> QED BY <1>4, <2>1, <2>2, <2>3 DEF Runs, Stands, OnRun, RunHasEntries
<1> QED BY <1>3, <1>4

LEMMA CrossRuns ==
  ASSUME IInv, NEW t \in Thread, Runs(t), PrefetchCross(t) PROVE Runs(t)'
<1> DEFINE c == pf[t].cur
<1>1. pc[t] = "cross" /\ UNCHANGED entry
  BY DEF PrefetchCross
<1>2. /\ pc \in [Thread -> PC] /\ pf \in [Thread -> FaultType] /\ pf[t] \in FaultType
      /\ c \in Alias /\ c \in Nat /\ pf[t].run \in Nat /\ pf[t].len \in Nat
  BY FaultTypes, TableOf DEF IInv, Types, FaultType
<1>3. c + 1 = pf[t].run + pf[t].len /\ c % L1Len = 0
  BY <1>1 DEF Runs, Stands, OnRun
<1>4. CASE c + 1 \in Alias /\ L1Live(L1Of(c + 1)) /\ TableIsFree(L1Of(c + 1))
  <2> DEFINE q == [pf[t] EXCEPT !.cur = c + 1, !.locked = TRUE]
  <2>1. pf'[t] = q /\ pc'[t] = "entry"
    BY <1>2, <1>4 DEF PrefetchCross, FaultType
  <2>2. q.run = pf[t].run /\ q.len = pf[t].len /\ q.cur = c + 1
    BY <1>2 DEF FaultType
  <2> HIDE DEF q
  <2>3. ASSUME NEW x \in Alias, x \in RunAliases(q) PROVE L1Of(x) # L1Of(c + 1)
    <3>1. x <= c
      BY <1>2, <1>3, <2>2, <2>3 DEF RunAliases
    <3> QED BY <1>2, <1>3, <1>4, <3>1, Boundary
  <2>4. RunHasEntries(pf[t])'
    BY <2>1, <2>2, <2>3 DEF RunHasEntries, L1Of
  <2>5. BehindRun(q)
    BY <1>3, <2>2 DEF BehindRun
  <2> QED BY <2>1, <2>4, <2>5 DEF Runs, Stands, BehindRun
<1>5. CASE ~ (c + 1 \in Alias /\ L1Live(L1Of(c + 1)) /\ TableIsFree(L1Of(c + 1)))
  <2> DEFINE q == [pf[t] EXCEPT !.win = 0]
  <2>1. pf'[t] = q /\ pc'[t] = "map"
    BY <1>2, <1>5 DEF PrefetchCross
  <2>2. /\ q.run = pf[t].run /\ q.len = pf[t].len /\ q.cur = c /\ q.locked = pf[t].locked
        /\ q.win = 0
    BY <1>2 DEF FaultType
  <2> HIDE DEF q
  <2>3. Stands(q, pc'[t])
    BY <2>1, <2>2 DEF Stands
  <2> QED BY <1>1, <2>1, <2>2, <2>3, SameRun
<1> QED BY <1>4, <1>5

LEMMA EntryRuns ==
  ASSUME IInv, NEW t \in Thread, Runs(t), PrefetchEntry(t) PROVE Runs(t)'
<1> DEFINE e == entry[pf[t].cur]
           ended == [pf[t] EXCEPT !.win = 0]
           asked == [pf[t] EXCEPT !.slot = e.tid, !.ver = e.ver, !.first = FALSE]
<1>1. pc[t] = "entry" /\ UNCHANGED entry
  BY DEF PrefetchEntry
<1>2. pc \in [Thread -> PC] /\ pf \in [Thread -> FaultType] /\ pf[t] \in FaultType
  BY FaultTypes DEF IInv, Types
<1>3. \/ pf'[t] = ended /\ pc'[t] = "map"
      \/ pf'[t] = asked /\ pc'[t] = "check"
      \/ pf'[t] = pf[t] /\ pc'[t] = "page"
  BY <1>2 DEF PrefetchEntry
<1>4. \A q \in {ended, asked, pf[t]} : /\ q.run = pf[t].run /\ q.len = pf[t].len
                                       /\ q.cur = pf[t].cur /\ q.locked = pf[t].locked
  BY <1>2 DEF FaultType
<1>5. ended.win = 0 /\ ~asked.first
  BY <1>2 DEF FaultType
<1>6. BehindRun(pf[t])
  BY <1>1 DEF Runs, Stands
<1> HIDE DEF e, ended, asked
<1>7. Stands(pf'[t], pc'[t])
  BY <1>3, <1>4, <1>5, <1>6 DEF Stands, BehindRun
<1> QED BY <1>1, <1>3, <1>4, <1>7, SameRun

LEMMA PageRuns ==
  ASSUME IInv, NEW t \in Thread, Runs(t), PrefetchPage(t) PROVE Runs(t)'
<1> DEFINE ended == [pf[t] EXCEPT !.len = @ + 1, !.win = 0]
           grown == [pf[t] EXCEPT !.len = @ + 1, !.i = @ + 1]
<1>1. pc[t] = "page"
  BY DEF PrefetchPage
<1>2. /\ pc \in [Thread -> PC] /\ pf \in [Thread -> FaultType] /\ pf[t] \in FaultType
      /\ Knows(t) /\ entry[pf[t].cur] # None
      /\ pf[t].run \in Nat /\ pf[t].len \in Nat /\ pf[t].cur \in Nat /\ pf[t].cur \in Alias
  BY <1>1, FaultTypes, TableOf DEF IInv, Types, Knows, FaultType
<1>3. \/ pf'[t] = pf[t] /\ pc'[t] = "map"
      \/ pf'[t] = ended /\ pc'[t] = "map"
      \/ pf'[t] = grown /\ pc'[t] = "next"
  BY <1>2 DEF PrefetchPage
<1>4. \A q \in {ended, grown} : /\ q.run = pf[t].run /\ q.len = pf[t].len + 1
                                /\ q.cur = pf[t].cur /\ q.locked = pf[t].locked
  BY <1>2 DEF FaultType
<1>5. ended.win = 0
  BY <1>2 DEF FaultType
<1>6. pf[t].cur = pf[t].run + pf[t].len
  BY <1>1 DEF Runs, Stands, BehindRun
<1>7. \A a \in Alias : entry[a] # None => entry'[a] # None
  BY HandlerLeaves DEF Handler
<1> HIDE DEF ended, grown
<1>8. ASSUME NEW q \in {ended, grown}, NEW x \in Alias, x \in RunAliases(q)
      PROVE  x \in RunAliases(pf[t]) \/ x = pf[t].cur
  <2>1. x \in Nat
    BY TableOf
  <2>2. q.run = pf[t].run /\ q.len = pf[t].len + 1
    BY <1>4, <1>8
  <2>3. x >= pf[t].run /\ x <= pf[t].run + pf[t].len
    BY <1>2, <1>8, <2>1, <2>2 DEF RunAliases
  <2>4. CASE x = pf[t].run + pf[t].len
    BY <1>6, <2>4
  <2>5. CASE x < pf[t].run + pf[t].len
    BY <1>2, <2>1, <2>3, <2>5 DEF RunAliases
  <2> QED BY <1>2, <2>1, <2>3, <2>4, <2>5
<1>9. ASSUME pf'[t] \in {ended, grown} PROVE RunHasEntries(pf[t])'
  BY <1>2, <1>4, <1>7, <1>8, <1>9 DEF Runs, RunHasEntries, L1Of
<1>10. CASE pf'[t] = pf[t] /\ pc'[t] = "map"
  <2>1. Stands(pf[t], pc'[t])
    BY <1>1, <1>10 DEF Runs, Stands
  <2> QED BY <1>7, <1>10, <2>1, SameRun
<1>11. CASE pf'[t] = ended /\ pc'[t] = "map"
  BY <1>5, <1>9, <1>11 DEF Runs, Stands
<1>12. CASE pf'[t] = grown /\ pc'[t] = "next"
  <2>1. OnRun(grown)
    BY <1>2, <1>4, <1>6 DEF OnRun
  <2> QED BY <1>9, <1>12, <2>1 DEF Runs, Stands, OnRun
<1> QED BY <1>3, <1>10, <1>11, <1>12

LEMMA MapRuns ==
  ASSUME IInv, NEW t \in Thread, Runs(t), MapRun(t) PROVE Runs(t)'
<1> DEFINE p == pf[t]
<1>1. pc[t] = "map" /\ UNCHANGED entry
  BY DEF MapRun
<1>2. /\ pc \in [Thread -> PC] /\ pf \in [Thread -> FaultType] /\ p \in FaultType /\ Knows(t)
      /\ p.run \in Nat /\ p.len \in Nat /\ p.cur \in Nat
  BY FaultTypes, TableOf DEF IInv, Types, FaultType
<1>3. CASE p.win > 1 /\ p.i # PrefetchMax - 1
  <2> DEFINE q == [p EXCEPT !.run = p.run + p.len, !.len = 1, !.win = @ - 1,
                            !.page = PageOf[entry[p.cur].canon], !.i = @ + 1]
  <2>1. pf'[t] = q /\ pc'[t] = "next"
    BY <1>2, <1>3 DEF MapRun
  <2>2. q.run = p.run + p.len /\ q.len = 1 /\ q.cur = p.cur /\ q.locked = p.locked
    BY <1>2 DEF FaultType
  <2>3. p.cur = p.run + p.len /\ entry[p.cur] # None
    BY <1>1, <1>2, <1>3 DEF Runs, Stands, BehindRun, Knows
  <2> HIDE DEF q, p
  <2>4. RunAliases(q) = {p.cur}
    BY <1>2, <2>2, <2>3 DEF RunAliases
  <2>5. RunHasEntries(pf[t])'
    BY <1>1, <2>1, <2>3, <2>4 DEF RunHasEntries
  <2>6. OnRun(q)
    BY <1>2, <2>2, <2>3 DEF OnRun
  <2> QED BY <2>1, <2>5, <2>6 DEF Runs, Stands, OnRun
<1>4. CASE ~ (p.win > 1 /\ p.i # PrefetchMax - 1)
  <2>1. pf'[t] = NoFault /\ pc'[t] = "idle"
    BY <1>2, <1>4 DEF MapRun
  <2> QED BY <2>1, NoFaultRuns
<1> QED BY <1>3, <1>4

LEMMA HandlerRuns ==
  ASSUME IInv, AllRuns, NEW t \in Thread, Handler(t) PROVE AllRuns'
<1>1. Runs(t) /\ pc \in [Thread -> PC] /\ pf \in [Thread -> FaultType]
  BY DEF AllRuns, IInv, Types
<1>2. Runs(t)'
  <2>1. CASE FlushCheck(t)
    BY <1>1, <2>1, FlushRuns DEF FlushCheck
  <2>2. CASE FlushBuffer(t) \/ FlushFails(t) \/ FlushSkip(t)
    <3>1. pc[t] = "try" /\ (FlushDone(t) \/ Unflushed(t)) /\ UNCHANGED entry
      BY <2>2 DEF FlushBuffer, FlushFails, FlushSkip
    <3> QED BY <1>1, <3>1, FlushRuns
  <2>3. CASE FlushRetry(t)
    <3>1. pf'[t] = NoFault /\ pc'[t] = "idle"
      BY <1>1, <2>3 DEF FlushRetry
    <3> QED BY <3>1, NoFaultRuns
  <2> QED BY <1>1, <2>1, <2>2, <2>3, MarkRuns, NextRuns, CrossRuns, EntryRuns, PageRuns, MapRuns
         DEF Handler
<1>3. ASSUME NEW u \in Thread, u # t PROVE Runs(u)'
  <2>1. /\ \A a \in Alias : entry[a] # None => entry'[a] # None
        /\ \E v : pc' = [pc EXCEPT ![t] = v]
        /\ pf' = pf \/ \E v : pf' = [pf EXCEPT ![t] = v]
    <3>1. CASE FlushCheck(t) \/ FlushBuffer(t)
      BY <3>1, HandlerLeaves DEF FlushCheck, FlushBuffer, FlushDone, Handler
    <3>2. CASE FlushFails(t) \/ FlushRetry(t) \/ FlushSkip(t) \/ MarkMapped(t)
      BY <3>2, HandlerLeaves DEF FlushFails, FlushRetry, FlushSkip, Unflushed, MarkMapped, Handler
    <3>3. ASSUME PrefetchNext(t) \/ PrefetchCross(t) \/ PrefetchPage(t) \/ PrefetchEntry(t)
                 \/ MapRun(t)
          PROVE  /\ \E v : pc' = [pc EXCEPT ![t] = v]
                 /\ pf' = pf \/ \E v : pf' = [pf EXCEPT ![t] = v]
      <4>1. CASE PrefetchNext(t)
        BY <1>1, <4>1 DEF PrefetchNext
      <4>2. CASE PrefetchCross(t)
        BY <1>1, <4>2 DEF PrefetchCross
      <4>3. CASE PrefetchEntry(t)
        BY <1>1, <4>3 DEF PrefetchEntry
      <4>4. CASE PrefetchPage(t)
        BY <1>1, <4>4 DEF PrefetchPage
      <4>5. CASE MapRun(t)
        BY <1>1, <4>5 DEF MapRun
      <4> QED BY <3>3, <4>1, <4>2, <4>3, <4>4, <4>5
    <3>4. \A a \in Alias : entry[a] # None => entry'[a] # None
      BY HandlerLeaves
    <3> QED BY <3>1, <3>2, <3>3, <3>4 DEF Handler
  <2>2. pf'[u] = pf[u] /\ pc'[u] = pc[u]
    BY <1>1, <1>3, <2>1
  <2> QED BY <2>1, <2>2, RunKept DEF AllRuns
<1> QED BY <1>2, <1>3 DEF AllRuns

LEMMA FaultRuns ==
  ASSUME IInv, AllRuns, NEW t \in Thread, NEW a \in Alias, PageFault(t, a) PROVE AllRuns'
<1>1. /\ pc \in [Thread -> PC] /\ pf \in [Thread -> FaultType] /\ a \in Nat
      /\ a \in held => entry[a] # None
  BY TableOf DEF IInv, Types, Given, HasEntry, Out
<1>2. /\ UNCHANGED entry /\ a \in held /\ pc' = [pc EXCEPT ![t] = "check"]
      /\ \E v : pf' = [pf EXCEPT ![t] = v] /\ v.run = a /\ v.len = 1 /\ v.cur = a /\ v.first
  <2>1. PICK w, s :
          pf' = [pf EXCEPT ![t] =
            [fault |-> a, run |-> a, len |-> 1, page |-> PageOf[entry[a].canon], cur |-> a,
             win |-> w, rtid |-> entry[a].tid, need |-> FALSE, slot |-> s,
             ver |-> IF entry[a].tid # None THEN entry[a].ver ELSE NVersions,
             first |-> TRUE, must |-> entry[a].tid # None, i |-> 0, locked |-> TRUE]]
    BY DEF PageFault
  <2> DEFINE v ==
        [fault |-> a, run |-> a, len |-> 1, page |-> PageOf[entry[a].canon], cur |-> a,
         win |-> w, rtid |-> entry[a].tid, need |-> FALSE, slot |-> s,
         ver |-> IF entry[a].tid # None THEN entry[a].ver ELSE NVersions,
         first |-> TRUE, must |-> entry[a].tid # None, i |-> 0, locked |-> TRUE]
  <2>2. v.run = a /\ v.len = 1 /\ v.cur = a /\ v.first
    OBVIOUS
  <2>3. pf' = [pf EXCEPT ![t] = v]
    BY <2>1
  <2> HIDE DEF v
  <2>4. UNCHANGED entry /\ a \in held /\ pc' = [pc EXCEPT ![t] = "check"]
    BY DEF PageFault
  <2> QED BY <2>2, <2>3, <2>4
<1>3. PICK v : pf' = [pf EXCEPT ![t] = v] /\ v.run = a /\ v.len = 1 /\ v.cur = a /\ v.first
  BY <1>2
<1>4. pf'[t] = v /\ pc'[t] = "check"
  BY <1>1, <1>2, <1>3
<1>5. RunAliases(v) = {a} /\ OnRun(v)
  BY <1>1, <1>3 DEF RunAliases, OnRun
<1>6. Runs(t)'
  BY <1>1, <1>2, <1>3, <1>4, <1>5 DEF Runs, Stands, OnRun, RunHasEntries
<1>7. ASSUME NEW u \in Thread, u # t PROVE Runs(u)'
  <2>1. pf'[u] = pf[u] /\ pc'[u] = pc[u]
    BY <1>1, <1>2, <1>3, <1>7
  <2> QED BY <1>2, <2>1, RunKept DEF AllRuns
<1> QED BY <1>6, <1>7 DEF AllRuns

LEMMA NextRunsKept == IInv /\ AllRuns /\ [Next]_vars => AllRuns'
<1> SUFFICES ASSUME IInv, AllRuns, [Next]_vars PROVE AllRuns'
  OBVIOUS
<1>1. ASSUME UNCHANGED pf,
             \A u \in Thread : pc'[u] = pc[u] \/ pc'[u] \in {"idle", "lock", "body", "unlock"},
             \A a \in Alias : l1lock[L1Of(a)] # None => (entry[a] # None => entry'[a] # None)
      PROVE  AllRuns'
  <2>1. ASSUME NEW u \in Thread PROVE Runs(u)'
    BY <1>1, RunKept, NoneIsNoThread DEF AllRuns
  <2> QED BY <2>1 DEF AllRuns
<1>2. CASE UNCHANGED vars
  BY <1>1, <1>2 DEF vars
<1>3. ASSUME NEW t \in Thread, NEW k \in Class, MallocReserved(t, k) PROVE AllRuns'
  BY <1>1, <1>3 DEF MallocReserved
<1>4. ASSUME NEW t \in Thread, NEW k \in Class, MallocRefill(t, k) PROVE AllRuns'
  <2>1. UNCHANGED <<pf, pc>>
    BY <1>4 DEF MallocRefill
  <2>2. \A a \in Alias : entry[a] # None => entry'[a] # None
    BY <1>4, RefillFrees
  <2> QED BY <1>1, <2>1, <2>2
<1>5. ASSUME NEW t \in Thread, NEW a \in Alias, FreeClear(t, a) PROVE AllRuns'
  <2>1. /\ UNCHANGED pf /\ pc' = [pc EXCEPT ![t] = "lock"] /\ entry' = [entry EXCEPT ![a] = None]
        /\ l1lock[L1Of(a)] = None
    BY <1>5 DEF FreeClear, TableIsFree
  <2>2. /\ pc \in [Thread -> PC] /\ entry \in [Alias -> Entry \cup {None}]
    BY DEF IInv, Types
  <2>3. \A b \in Alias : l1lock[L1Of(b)] # None => entry'[b] = entry[b]
    BY <2>1, <2>2
  <2> QED BY <1>1, <2>1, <2>2, <2>3
<1>6. ASSUME NEW t \in Thread, Finish(t) PROVE AllRuns'
  <2>1. UNCHANGED <<pf, entry>> /\ \E v \in {"idle", "body", "unlock"} : pc' = [pc EXCEPT ![t] = v]
    <3>1. CASE FreeLock(t)
      BY <3>1 DEF FreeLock
    <3>2. ASSUME NEW tick \in BOOLEAN, FreeBody(t, tick)
          PROVE  UNCHANGED <<pf, entry>> /\ pc' = [pc EXCEPT ![t] = "unlock"]
      <4>1. PICK ver, m : FreeWrites(t, ver, m)
        BY <3>2, Zenon DEF FreeBody
      <4> QED BY <4>1 DEF FreeWrites
    <3>3. CASE FreeUnlock(t)
      BY <3>3 DEF FreeUnlock
    <3> QED BY <1>6, <3>1, <3>2, <3>3 DEF Finish
  <2> QED BY <1>1, <2>1 DEF IInv, Types
<1>7. CASE Quiescent
  BY <1>2, <1>7 DEF Quiescent
<1> QED BY <1>2, <1>3, <1>4, <1>5, <1>6, <1>7, FaultRuns, HandlerRuns DEF Next

LEMMA InitRuns == Init => AllRuns
<1> SUFFICES ASSUME Init, NEW u \in Thread PROVE Runs(u)
  BY DEF AllRuns
<1>1. pf[u] = NoFault /\ pc[u] = "idle" /\ ~NoFault.locked
  BY DEF Init, NoFault
<1> QED BY <1>1 DEF Runs, Stands, RunHasEntries

(* Only MapRun gives an alias a mapping.                                   *)
LEMMA OnlyMapRun ==
  ASSUME IInv, [Next]_vars, NEW a \in Alias, pte[a] = None, pte'[a] # None
  PROVE  \E t \in Thread : MapRun(t) /\ a \in RunAliases(pf[t])
<1>1. pte \in [Alias -> Page \cup {None}]
  BY DEF IInv, Types
<1>2. ~ UNCHANGED pte
  OBVIOUS
<1>3. ASSUME NEW s \in Slot, NEW m, Commit(s, m) PROVE FALSE
  BY <1>3 DEF Commit
<1>4. ASSUME NEW t \in Thread, Handler(t) PROVE MapRun(t)
  <2>1. ASSUME FlushBuffer(t) \/ FlushFails(t) PROVE FALSE
    <3>1. pf[t].slot \in Slot
      BY <2>1, FaultTypes DEF FlushBuffer, FlushFails, Knows
    <3> QED BY <1>2, <1>3, <2>1, <3>1 DEF FlushBuffer, FlushFails
  <2> QED BY <1>2, <1>4, <2>1, HandlerLeaves
<1>5. ASSUME NEW t \in Thread, MapRun(t) PROVE a \in RunAliases(pf[t])
  BY <1>1, <1>5 DEF MapRun
<1>6. ASSUME NEW t \in Thread, NEW tick \in BOOLEAN, FreeBody(t, tick) PROVE FALSE
  <2>1. PICK v, m : FreeWrites(t, v, m)
    BY <1>6, FreeBodyIs
  <2>2. SlotOf[t] \in Slot
    BY BatchedFreeAssumption
  <2> QED BY <1>3, <2>1, <2>2 DEF FreeWrites
<1>7. ASSUME NEW t \in Thread, FreeLock(t) \/ FreeUnlock(t) PROVE FALSE
  BY <1>2, <1>7 DEF FreeLock, FreeUnlock
<1>8. ASSUME NEW t \in Thread, NEW k \in Class, MallocReserved(t, k) \/ MallocRefill(t, k) PROVE FALSE
  BY <1>2, <1>8 DEF MallocReserved, MallocRefill
<1>9. ASSUME NEW t \in Thread, NEW b \in Alias, FreeClear(t, b) \/ PageFault(t, b) PROVE FALSE
  BY <1>2, <1>9 DEF FreeClear, PageFault
<1> QED BY <1>2, <1>4, <1>5, <1>6, <1>7, <1>8, <1>9 DEF Next, Finish, Quiescent, vars

(* A freed and unmapped alias gets a mapping again only from a handler     *)
(* that stands in another L1 table, or in none, with a run that reaches    *)
(* back to the alias: next() gave up the lock on that table                *)
(* (page_fault.bpf.c:286) before prefetch_fn maps the run.  No window, no  *)
(* buffer size, no shared slot and no failing flush opens another way.     *)
THEOREM DeadComesBackAcrossHolds == Spec => DeadComesBackAcross
<1>1. IInv /\ AllRuns /\ [Next]_vars =>
        [\A a \in Alias : Freed(a) /\ pte[a] = None /\ pte'[a] # None =>
           \E t \in Thread :
             /\ pc[t] = "map"
             /\ a \in RunAliases(pf[t])
             /\ pf[t].locked => L1Of(pf[t].cur) # L1Of(a)]_vars
  <2> SUFFICES ASSUME IInv, AllRuns, [Next]_vars, NEW a \in Alias, Freed(a), pte[a] = None,
                      pte'[a] # None
               PROVE  \E t \in Thread :
                        /\ pc[t] = "map"
                        /\ a \in RunAliases(pf[t])
                        /\ pf[t].locked => L1Of(pf[t].cur) # L1Of(a)
    OBVIOUS
  <2>1. PICK t \in Thread : MapRun(t) /\ a \in RunAliases(pf[t])
    BY OnlyMapRun
  <2>2. pc[t] = "map"
    BY <2>1 DEF MapRun
  <2>3. pf[t].locked => L1Of(pf[t].cur) # L1Of(a)
    BY <2>1 DEF AllRuns, Runs, RunHasEntries, Freed
  <2> QED BY <2>1, <2>2, <2>3
<1> QED BY <1>1, InitRuns, NextRunsKept, Invariant, PTL DEF Spec, DeadComesBackAcross
=============================================================================
