------------------------------- MODULE VmaProofs -------------------------------
(***************************************************************************)
(* Theorems about the lists of list.h, for any number of nodes, and about  *)
(* the areas that vmem.c keeps in one of them, for any number of areas,    *)
(* any page size and address space, and any hints and lengths of calls:    *)
(* the list is in the order of the addresses, holds exactly the structures *)
(* that are allocated, and has no neighbours that could be one area; and   *)
(* what the calls do to the pages is what Regions promises.                *)
(***************************************************************************)
EXTENDS Vma, SequenceTheorems, FiniteSetTheorems, WellFoundedInduction, TLAPS

(* The nodes of S, a head and its entries or more such lists, are linked   *)
(* with each other only, and prev undoes next.                             *)
Linked(l, S) ==
  /\ S \subseteq Node
  /\ \A n \in S : /\ l.next[n] \in S /\ l.prev[n] \in S
                  /\ l.prev[l.next[n]] = n /\ l.next[l.prev[n]] = n
-----------------------------------------------------------------------------
LEMMA BetweenType ==
  ASSUME NEW l \in Links, NEW n \in Node, NEW p \in Node, NEW q \in Node
  PROVE  Between(l, n, p, q) \in Links
<1>1. l.next \in [Node -> Node \cup {Nil}] /\ l.prev \in [Node -> Node \cup {Nil}]
  BY DEF Links
<1>2. [l.next EXCEPT ![n] = q, ![p] = n] \in [Node -> Node \cup {Nil}]
  BY <1>1
<1>3. [l.prev EXCEPT ![q] = n, ![n] = p] \in [Node -> Node \cup {Nil}]
  BY <1>1
<1> QED BY <1>2, <1>3 DEF Between, Links

(* __list_add between neighbours of the list.                              *)
LEMMA BetweenLinks ==
  ASSUME NEW l \in Links, NEW S, Linked(l, S), NEW p \in S,
         NEW n \in Node \ S
  PROVE  Linked(Between(l, n, p, l.next[p]), S \cup {n})
<1> DEFINE q == l.next[p]
           k == Between(l, n, p, q)
<1>1. q \in S /\ l.prev[q] = p /\ S \subseteq Node
  BY DEF Linked
<1>2. l.next \in [Node -> Node \cup {Nil}] /\ l.prev \in [Node -> Node \cup {Nil}]
  BY DEF Links
<1>3. \A x \in Node : k.next[x] = IF x = p THEN n ELSE IF x = n THEN q ELSE l.next[x]
  BY <1>1, <1>2 DEF Between
<1>4. \A x \in Node : k.prev[x] = IF x = n THEN p ELSE IF x = q THEN n ELSE l.prev[x]
  BY <1>1, <1>2 DEF Between
<1>5. \A x \in S : /\ l.next[x] \in S /\ l.prev[x] \in S
                   /\ l.prev[l.next[x]] = x /\ l.next[l.prev[x]] = x
  BY DEF Linked
<1> HIDE DEF k, q
<1>6. ASSUME NEW x \in S \cup {n}
      PROVE  /\ k.next[x] \in S \cup {n} /\ k.prev[x] \in S \cup {n}
             /\ k.prev[k.next[x]] = x /\ k.next[k.prev[x]] = x
  <2>1. CASE x = n
    BY <1>1, <1>3, <1>4, <2>1
  <2>2. CASE x \in S
    <3>1. x # n /\ x \in Node /\ n \in Node /\ p # n /\ q # n
      BY <1>1, <2>2
    <3>2. k.next[x] \in S \cup {n} /\ k.prev[k.next[x]] = x
      <4>1. CASE x = p
        BY <1>3, <1>4, <3>1, <4>1
      <4>2. CASE x # p
        <5>1. k.next[x] = l.next[x] /\ l.next[x] \in S /\ l.prev[l.next[x]] = x
          BY <1>3, <1>5, <2>2, <3>1, <4>2
        <5>2. l.next[x] # q /\ l.next[x] # n /\ l.next[x] \in Node
          BY <1>1, <4>2, <5>1
        <5> QED BY <1>4, <5>1, <5>2
      <4> QED BY <4>1, <4>2
    <3>3. k.prev[x] \in S \cup {n} /\ k.next[k.prev[x]] = x
      <4>1. CASE x = q
        BY <1>3, <1>4, <3>1, <4>1
      <4>2. CASE x # q
        <5>1. k.prev[x] = l.prev[x] /\ l.prev[x] \in S /\ l.next[l.prev[x]] = x
          BY <1>4, <1>5, <2>2, <3>1, <4>2
        <5>2. l.prev[x] # p /\ l.prev[x] # n /\ l.prev[x] \in Node
          BY <4>2, <5>1, <1>1 DEF q
        <5> QED BY <1>3, <5>1, <5>2
      <4> QED BY <4>1, <4>2
    <3> QED BY <3>2, <3>3
  <2> QED BY <2>1, <2>2
<1> QED BY <1>1, <1>6 DEF Linked, k, q

(* __list_del of the entry between p and q.                                *)
LEMMA DelLinks ==
  ASSUME NEW l \in Links, NEW S, Linked(l, S), NEW n \in S
  PROVE  Linked(Del(l, n), S \ {n})
<1> DEFINE p == l.prev[n]
           q == l.next[n]
           k == Del(l, n)
<1>1. p \in S /\ q \in S /\ n \in Node /\ S \subseteq Node /\ l.next[p] = n /\ l.prev[q] = n
  BY DEF Linked
<1>2. l.next \in [Node -> Node \cup {Nil}] /\ l.prev \in [Node -> Node \cup {Nil}]
  BY DEF Links
<1>3. \A x \in Node \ {n} : k.next[x] = IF x = p THEN q ELSE l.next[x]
  BY <1>1, <1>2 DEF Del, Bypass
<1>4. \A x \in Node \ {n} : k.prev[x] = IF x = q THEN p ELSE l.prev[x]
  BY <1>1, <1>2 DEF Del, Bypass
<1>5. \A x \in S : /\ l.next[x] \in S /\ l.prev[x] \in S
                   /\ l.prev[l.next[x]] = x /\ l.next[l.prev[x]] = x
  BY DEF Linked
<1>6. q = n <=> p = n
  BY <1>1, <1>5
<1> HIDE DEF k
<1>7. ASSUME NEW x \in S \ {n}
      PROVE  k.next[x] \in S \ {n} /\ k.prev[k.next[x]] = x
  <2>1. CASE x = p
    <3>1. k.next[x] = q /\ q \in S \ {n}
      BY <1>1, <1>3, <1>6, <2>1
    <3> QED BY <1>1, <1>4, <2>1, <3>1
  <2>2. CASE x # p
    <3>1. k.next[x] = l.next[x] /\ l.next[x] \in S /\ l.prev[l.next[x]] = x
      BY <1>1, <1>3, <1>5, <2>2
    <3>2. l.next[x] # n
      BY <2>2, <3>1
    <3>3. l.next[x] # q
      BY <1>1, <3>1
    <3> QED BY <1>1, <1>4, <3>1, <3>2, <3>3
  <2> QED BY <2>1, <2>2
<1>8. ASSUME NEW x \in S \ {n}
      PROVE  k.prev[x] \in S \ {n} /\ k.next[k.prev[x]] = x
  <2>1. CASE x = q
    <3>1. k.prev[x] = p /\ p \in S \ {n}
      BY <1>1, <1>4, <1>6, <2>1
    <3> QED BY <1>1, <1>3, <2>1, <3>1
  <2>2. CASE x # q
    <3>1. k.prev[x] = l.prev[x] /\ l.prev[x] \in S /\ l.next[l.prev[x]] = x
      BY <1>1, <1>4, <1>5, <2>2
    <3>2. l.prev[x] # n
      BY <2>2, <3>1
    <3>3. l.prev[x] # p
      BY <1>1, <3>1
    <3> QED BY <1>1, <1>3, <3>1, <3>2, <3>3
  <2> QED BY <2>1, <2>2
<1> QED BY <1>1, <1>7, <1>8 DEF Linked, k
-----------------------------------------------------------------------------
(* list_add and list_add_tail (list.h) put an entry into the list of h     *)
(* that was not in it and leave it well linked, wherever h is.             *)
THEOREM AddKeepsLinks ==
  ASSUME NEW l \in Links, NEW S, Linked(l, S), NEW h \in S, NEW n \in Node \ S
  PROVE  /\ Linked(Add(l, n, h), S \cup {n}) /\ Linked(AddTail(l, n, h), S \cup {n})
         /\ Add(l, n, h) \in Links /\ AddTail(l, n, h) \in Links
<1>1. Linked(Add(l, n, h), S \cup {n})
  BY BetweenLinks DEF Add
<1>2. l.prev[h] \in S /\ l.next[l.prev[h]] = h
  BY DEF Linked
<1>3. Linked(Between(l, n, l.prev[h], l.next[l.prev[h]]), S \cup {n})
  BY <1>2, BetweenLinks
<1>4. h \in Node /\ l.next[h] \in Node /\ l.prev[h] \in Node
  BY DEF Linked
<1>5. Add(l, n, h) \in Links /\ AddTail(l, n, h) \in Links
  BY <1>4, BetweenType DEF Add, AddTail
<1> QED BY <1>1, <1>2, <1>3, <1>5 DEF AddTail

(* list_del (list.h) takes the entry out of its list, leaves the others    *)
(* well linked and the entry itself with the poison values.                *)
THEOREM DelKeepsLinks ==
  ASSUME NEW l \in Links, NEW S, Linked(l, S), NEW n \in S
  PROVE  /\ Linked(Del(l, n), S \ {n})
         /\ Del(l, n).next[n] = Nil /\ Del(l, n).prev[n] = Nil
         /\ Del(l, n) \in Links
<1>1. l.next \in [Node -> Node \cup {Nil}] /\ l.prev \in [Node -> Node \cup {Nil}]
  BY DEF Links
<1>2. n \in Node
  BY DEF Linked
<1>3. Del(l, n).next[n] = Nil /\ Del(l, n).prev[n] = Nil
  BY <1>1, <1>2 DEF Del, Bypass
<1>4. l.prev[n] \in Node /\ l.next[n] \in Node
  BY DEF Linked
<1>5. Del(l, n) \in Links
  BY <1>1, <1>2, <1>4 DEF Del, Bypass, Links
<1> QED BY <1>3, <1>5, DelLinks
-----------------------------------------------------------------------------
(* Induction on numbers: a set of them that has a member has a least one.  *)
LEMMA Least ==
  ASSUME NEW S \in SUBSET Nat, S # {}
  PROVE  \E r \in S : \A q \in S : r <= q
<1> DEFINE Below == {ss \in Nat \X Nat : ss[1] < ss[2]}
<1>1. IsWellFoundedOn(Below, Nat)
  BY NatLessThanWellFounded DEF OpToRel
<1>2. PICK s \in S : TRUE
  OBVIOUS
<1>3. PICK r \in S : \A q \in S : ~ (<<q, r>> \in Below)
  <2> HIDE DEF Below
  <2> QED BY <1>1, <1>2, WFMin
<1>4. ASSUME NEW q \in S PROVE r <= q
  <2>1. q \in Nat /\ r \in Nat
    OBVIOUS
  <2>2. ~ (q < r)
    BY <1>3, <2>1
  <2> QED BY <2>1, <2>2
<1> QED BY <1>4

LEMMA Upwards ==
  ASSUME NEW a \in Nat, NEW b \in Nat, NEW P, a \in P,
         \A i \in a .. b - 1 : i \in P => i + 1 \in P
  PROVE  \A i \in a .. b : i \in P
<1> DEFINE S == (a .. b) \ P
<1>1. S \in SUBSET Nat
  OBVIOUS
<1>2. ASSUME S # {} PROVE FALSE
  <2>1. PICK k \in S : \A q \in S : k <= q
    <3> HIDE DEF S
    <3> QED BY <1>1, <1>2, Least
  <2>2. k - 1 \in a .. b - 1 /\ k - 1 \notin S
    BY <2>1
  <2>3. k - 1 \in P
    BY <2>2
  <2>4. (k - 1) + 1 = k
    OBVIOUS
  <2> QED BY <2>2, <2>3, <2>4
<1> QED BY <1>2

(* A recursive function exists where the argument of each call is nearer   *)
(* to an end.                                                              *)
Descends(X, Stop, next, rank) ==
  next \in [X -> X] /\ rank \in [X -> Nat] /\ \A x \in X : x \notin Stop => rank[next[x]] < rank[x]

Combines(X, V, base, comb) == base \in [X -> V] /\ comb \in [X \X V -> V]

Recurs(f, X, V, Stop, next, base, comb) ==
  /\ f \in [X -> V]
  /\ \A x \in X : f[x] = IF x \in Stop THEN base[x] ELSE comb[<<x, f[next[x]]>>]

LEMMA Recursion ==
  ASSUME NEW X, NEW V, NEW Stop, NEW next, NEW rank, NEW base, NEW comb,
         Descends(X, Stop, next, rank), Combines(X, V, base, comb)
  PROVE  \E f : Recurs(f, X, V, Stop, next, base, comb)
<1> DEFINE Near(n) == {x \in X : rank[x] < n}
           Solves(f, n) == /\ f \in [Near(n) -> V]
                           /\ \A x \in Near(n) : f[x] = IF x \in Stop THEN base[x] ELSE comb[<<x, f[next[x]]>>]
           P == {n \in Nat : \E f : Solves(f, n)}
<1>0. /\ next \in [X -> X] /\ rank \in [X -> Nat] /\ base \in [X -> V] /\ comb \in [X \X V -> V]
      /\ \A x \in X : x \notin Stop => rank[next[x]] < rank[x]
  BY DEF Descends, Combines
<1> USE <1>0
<1>1. \A x \in X : rank[x] \in Nat /\ next[x] \in X
  OBVIOUS
<1>2. ASSUME NEW n \in Nat, NEW x \in Near(n), x \notin Stop PROVE next[x] \in Near(n)
  BY <1>1, <1>2
<1>3. 0 \in P
  <2>1. Near(0) = {}
    BY <1>1
  <2>2. Solves([x \in Near(0) |-> 0], 0)
    BY <2>1
  <2> QED BY <2>2
<1>4. ASSUME NEW n \in Nat, n \in P PROVE n + 1 \in P
  <2>1. PICK f : Solves(f, n)
    BY <1>4
  <2> DEFINE g == [x \in Near(n + 1) |-> IF x \in Near(n) THEN f[x]
                                         ELSE IF x \in Stop THEN base[x] ELSE comb[<<x, f[next[x]]>>]]
  <2>2. ASSUME NEW x \in Near(n + 1), x \notin Stop PROVE next[x] \in Near(n)
    BY <1>1, <2>2
  <2>3. ASSUME NEW x \in Near(n + 1)
        PROVE  g[x] \in V /\ g[x] = IF x \in Stop THEN base[x] ELSE comb[<<x, g[next[x]]>>]
    <3>1. x \in X
      OBVIOUS
    <3>2. CASE x \in Stop
      <4>1. g[x] = base[x]
        BY <2>1, <3>2
      <4> QED BY <3>1, <3>2, <4>1
    <3>3. CASE x \notin Stop
      <4>1. next[x] \in Near(n)
        BY <2>2, <3>3
      <4>2. next[x] \in Near(n + 1)
        BY <1>1, <4>1
      <4>3. g[next[x]] = f[next[x]] /\ f[next[x]] \in V
        BY <2>1, <4>1, <4>2
      <4>4. g[x] = comb[<<x, f[next[x]]>>]
        BY <2>1, <3>3
      <4> QED BY <3>1, <3>3, <4>3, <4>4
    <3> QED BY <3>2, <3>3
  <2>4. g \in [Near(n + 1) -> V]
    BY <2>3
  <2> HIDE DEF g
  <2>5. Solves(g, n + 1)
    BY <2>3, <2>4
  <2> HIDE DEF Solves
  <2> QED BY <2>5
<1>5. ASSUME NEW n \in Nat PROVE \E f : Solves(f, n)
  <2> HIDE DEF P
  <2>1. \A i \in 0 .. n : i \in P
    BY <1>3, <1>4, Upwards
  <2>2. n \in P
    BY <2>1
  <2> HIDE DEF Solves
  <2> QED BY <2>2 DEF P
<1>6. ASSUME NEW n \in Nat, NEW k \in Nat, NEW f, NEW g, Solves(f, n), Solves(g, k),
             NEW y \in Near(n) \cap Near(k)
      PROVE  f[y] = g[y]
  <2> DEFINE Bad == {x \in Near(n) \cap Near(k) : f[x] # g[x]}
             Ranks == {rank[x] : x \in Bad}
  <2>1. ASSUME Bad # {} PROVE FALSE
    <3>1. Ranks \in SUBSET Nat /\ Ranks # {}
      BY <1>1, <2>1
    <3>2. PICK r \in Ranks : \A q \in Ranks : r <= q
      <4> HIDE DEF Ranks
      <4> QED BY <3>1, Least
    <3>3. PICK x \in Bad : r = rank[x]
      BY <3>2
    <3>4. x \notin Stop
      BY <1>6, <3>3
    <3>5. next[x] \in Near(n) \cap Near(k)
      BY <1>2, <3>3, <3>4
    <3>6. ASSUME next[x] \in Bad PROVE FALSE
      <4>1. rank[next[x]] < rank[x] /\ x \in X /\ rank[next[x]] \in Nat /\ rank[x] \in Nat
        BY <1>1, <3>3, <3>4
      <4>2. rank[next[x]] \in Ranks
        BY <3>6
      <4>3. rank[x] <= rank[next[x]]
        <5> HIDE DEF Ranks
        <5> QED BY <3>2, <3>3, <4>2
      <4> QED BY <4>1, <4>3
    <3>7. f[next[x]] = g[next[x]]
      BY <3>5, <3>6
    <3> QED BY <1>6, <3>3, <3>4, <3>7
  <2> QED BY <2>1
<1> DEFINE Best(x) == CHOOSE f : Solves(f, rank[x] + 1)
           F == [x \in X |-> Best(x)[x]]
<1>7. ASSUME NEW x \in X PROVE Solves(Best(x), rank[x] + 1) /\ x \in Near(rank[x] + 1)
  <2> HIDE DEF Solves
  <2>1. rank[x] + 1 \in Nat /\ rank[x] < rank[x] + 1
    BY <1>1
  <2>2. \E f : Solves(f, rank[x] + 1)
    BY <1>5, <2>1
  <2> QED BY <2>1, <2>2
<1> HIDE DEF Best
<1>8. ASSUME NEW x \in X PROVE F[x] \in V /\ F[x] = IF x \in Stop THEN base[x] ELSE comb[<<x, F[next[x]]>>]
  <2>1. Solves(Best(x), rank[x] + 1) /\ x \in Near(rank[x] + 1)
    BY <1>7
  <2>2. F[x] \in V
    BY <2>1
  <2>3. CASE x \in Stop
    BY <2>1, <2>2, <2>3
  <2>4. CASE x \notin Stop
    <3>1. next[x] \in Near(rank[x] + 1) /\ next[x] \in X
      BY <1>1, <1>2, <2>1, <2>4
    <3>2. Solves(Best(next[x]), rank[next[x]] + 1) /\ next[x] \in Near(rank[next[x]] + 1)
      BY <1>7, <3>1
    <3>3. rank[x] + 1 \in Nat /\ rank[next[x]] + 1 \in Nat
      BY <1>1, <3>1
    <3>4. Best(x)[next[x]] = Best(next[x])[next[x]]
      <4> HIDE DEF Solves, Near
      <4> QED BY <1>6, <2>1, <3>1, <3>2, <3>3
    <3> QED BY <2>1, <2>2, <2>4, <3>1, <3>4
  <2> QED BY <2>3, <2>4
<1>9. F \in [X -> V]
  BY <1>8
<1> HIDE DEF F
<1>10. Recurs(F, X, V, Stop, next, base, comb)
  BY <1>8, <1>9 DEF Recurs
<1> QED BY <1>10
-----------------------------------------------------------------------------
(* The areas.  S and E are where an area starts and ends, H is the head of *)
(* the list.                                                               *)
MM == [links : Links, area : [Id -> Area \cup {Nil}]]

S(m, v) == m.area[v].start
E(m, v) == m.area[v].end
N(m, v) == m.links.next[v]
Before(m, v) == m.links.prev[v]
H == VmaList

(* The areas of L are in the list and no others, in the order of their     *)
(* addresses.                                                              *)
Shape(m, L) ==
  /\ m \in MM /\ L \subseteq Allocated(m)
  /\ Linked(m.links, L \cup {H})
  /\ \A n \in Node \ (L \cup {H}) : N(m, n) = Nil

Ordered(m, L) ==
  /\ \A v \in L : S(m, v) < E(m, v)
  /\ \A v \in L : N(m, v) # H => E(m, v) <= S(m, N(m, v))
  /\ \A v \in L, u \in L : S(m, v) < S(m, u) => N(m, v) # H /\ S(m, N(m, v)) <= S(m, u)
  /\ \A u \in L : N(m, H) # H /\ S(m, N(m, H)) <= S(m, u)
  /\ \A v \in L, u \in L : u # v => S(m, u) # S(m, v)

Chain(m, L) == Shape(m, L) /\ Ordered(m, L)

LEMMA VmaConstants ==
  /\ Node = Id \cup {H} /\ H \notin Id /\ Nil \notin Node /\ Nil \notin Prot /\ Nil \notin Area /\ Nil \notin Attr
  /\ PageSize \in Nat \ {0} /\ Base \in Nat \ {0} /\ Top \in Nat \ {0} /\ NVma \in Nat \ {0}
  /\ Hints \subseteq Nat /\ Lens \subseteq Nat /\ Base % PageSize = 0 /\ Top % PageSize = 0
BY VmaAssumption DEF H

LEMMA AreaIs ==
  ASSUME NEW m \in MM, NEW v \in Allocated(m)
  PROVE  /\ v \in Id /\ m.area[v] \in Area /\ m.area[v] # Nil
         /\ S(m, v) \in Nat /\ E(m, v) \in Nat /\ Base <= S(m, v) /\ S(m, v) <= Top /\ Base <= E(m, v) /\ E(m, v) <= Top
<1>1. v \in Id /\ m.area[v] \in Area /\ m.area[v] # Nil
  BY DEF Allocated, MM
<1>2. m.area[v].start \in Base .. Top /\ m.area[v].end \in Base .. Top
  BY <1>1 DEF Area
<1> QED BY <1>1, <1>2, VmaConstants DEF S, E

LEMMA LinksAre ==
  ASSUME NEW m, NEW L, Shape(m, L)
  PROVE  /\ L \subseteq Id /\ H \notin L /\ H \in Node /\ L \subseteq Node
         /\ \A v \in L \cup {H} : /\ N(m, v) \in L \cup {H} /\ Before(m, v) \in L \cup {H}
                                  /\ Before(m, N(m, v)) = v /\ N(m, Before(m, v)) = v
         /\ \A n \in Node : N(m, n) # Nil <=> n \in L \cup {H}
         /\ m.links \in Links
<1>1. L \subseteq Id
  BY DEF Shape, Allocated
<1>2. H \notin L /\ H \in Node /\ L \subseteq Node
  BY <1>1, VmaConstants
<1>3. ASSUME NEW v \in L \cup {H}
      PROVE  /\ N(m, v) \in L \cup {H} /\ Before(m, v) \in L \cup {H}
             /\ Before(m, N(m, v)) = v /\ N(m, Before(m, v)) = v
  BY DEF Shape, Linked, N, Before
<1>4. ASSUME NEW n \in Node PROVE N(m, n) # Nil <=> n \in L \cup {H}
  BY <1>2, <1>3, VmaConstants DEF Shape
<1>5. m.links \in Links
  BY DEF Shape, MM
<1> QED BY <1>1, <1>2, <1>3, <1>4, <1>5

(* Areas do not overlap.                                                   *)
LEMMA Disjoint ==
  ASSUME NEW m, NEW L, Chain(m, L), NEW u \in L, NEW v \in L, S(m, u) < S(m, v)
  PROVE  E(m, u) <= S(m, v) /\ S(m, u) < E(m, u)
<1>1. N(m, u) # H /\ S(m, N(m, u)) <= S(m, v) /\ E(m, u) <= S(m, N(m, u)) /\ S(m, u) < E(m, u)
  BY DEF Chain, Ordered
<1>2. N(m, u) \in L
  BY <1>1, LinksAre DEF Chain
<1>3. S(m, N(m, u)) \in Nat /\ E(m, u) \in Nat /\ S(m, v) \in Nat
  BY <1>2, AreaIs DEF Chain, Shape
<1> QED BY <1>1, <1>3
-----------------------------------------------------------------------------
(* The walk over the list.                                                 *)
Rest(m, L, n) == IF n = H THEN L ELSE {u \in L : S(m, u) > S(m, n)}

LEMMA RestIs ==
  ASSUME NEW m, NEW L, Chain(m, L), NEW n \in L \cup {H}
  PROVE  /\ N(m, n) = H => Rest(m, L, n) = {}
         /\ N(m, n) # H => /\ N(m, n) \in L
                           /\ Rest(m, L, n) = {N(m, n)} \cup Rest(m, L, N(m, n))
                           /\ \A u \in Rest(m, L, N(m, n)) : S(m, N(m, n)) < S(m, u)
<1>1. H \notin L /\ N(m, n) \in L \cup {H}
  BY LinksAre DEF Chain
<1>2. \A u \in L : S(m, u) \in Nat /\ E(m, u) \in Nat
  BY AreaIs DEF Chain, Shape
<1>3. CASE N(m, n) = H
  BY <1>1, <1>2, <1>3 DEF Chain, Ordered, Rest
<1>4. CASE N(m, n) # H
  <2> DEFINE w == N(m, n)
  <2>1. w \in L
    BY <1>1, <1>4
  <2>2. \A u \in Rest(m, L, n) : S(m, w) <= S(m, u)
    BY <1>1, <1>2, <1>4, <2>1 DEF Chain, Ordered, Rest
  <2>3. w \in Rest(m, L, n)
    <3>1. CASE n = H
      BY <2>1, <3>1 DEF Rest
    <3>2. CASE n \in L
      <4>1. S(m, n) < E(m, n) /\ E(m, n) <= S(m, w)
        BY <1>4, <3>2 DEF Chain, Ordered
      <4> QED BY <1>1, <1>2, <2>1, <3>2, <4>1 DEF Rest
    <3> QED BY <3>1, <3>2
  <2>4. Rest(m, L, w) = {u \in L : S(m, u) > S(m, w)}
    BY <1>4 DEF Rest
  <2>5. Rest(m, L, n) \subseteq L
    BY DEF Rest
  <2>6. ASSUME NEW u \in Rest(m, L, n), u # w PROVE u \in Rest(m, L, w)
    <3>1. S(m, u) # S(m, w) /\ S(m, w) <= S(m, u)
      BY <2>1, <2>2, <2>5, <2>6 DEF Chain, Ordered
    <3> QED BY <1>2, <2>1, <2>4, <2>5, <3>1
  <2>7. ASSUME NEW u \in Rest(m, L, w) PROVE u \in Rest(m, L, n)
    <3>1. CASE n = H
      BY <2>4, <2>7, <3>1 DEF Rest
    <3>2. CASE n \in L
      <4>1. S(m, n) < S(m, w)
        BY <1>1, <2>3, <3>2 DEF Rest
      <4> QED BY <1>1, <1>2, <2>1, <2>4, <2>7, <3>2, <4>1 DEF Rest
    <3> QED BY <3>1, <3>2
  <2>8. Rest(m, L, n) = {w} \cup Rest(m, L, w)
    BY <2>3, <2>6, <2>7
  <2>9. \A u \in Rest(m, L, w) : S(m, w) < S(m, u)
    BY <1>2, <2>1, <2>4
  <2> HIDE DEF w
  <2> QED BY <1>4, <2>1, <2>8, <2>9 DEF w
<1> QED BY <1>3, <1>4

(* How far a node is from the end of the address space.                    *)
Far(m, n) == IF n = H THEN Top + 1 ELSE Top - S(m, n)

LEMMA Nearer ==
  ASSUME NEW m, NEW L, Chain(m, L), NEW n \in L \cup {H}
  PROVE  Far(m, n) \in Nat /\ (N(m, n) # H => Far(m, N(m, n)) < Far(m, n))
<1>1. H \notin L /\ N(m, n) \in L \cup {H} /\ Top \in Nat
  BY LinksAre, VmaConstants DEF Chain
<1>2. \A u \in L : S(m, u) \in Nat /\ S(m, u) <= Top /\ E(m, u) \in Nat
  BY AreaIs DEF Chain, Shape
<1>3. Far(m, n) \in Nat
  BY <1>1, <1>2 DEF Far
<1>4. CASE n = H
  BY <1>1, <1>2, <1>4 DEF Far
<1>5. CASE n \in L /\ N(m, n) # H
  <2>1. S(m, n) < E(m, n) /\ E(m, n) <= S(m, N(m, n))
    BY <1>5 DEF Chain, Ordered
  <2> QED BY <1>1, <1>2, <1>3, <1>5, <2>1 DEF Far
<1> QED BY <1>1, <1>3, <1>4, <1>5

On(m) == {n \in Node : m.links.next[n] # Nil}

Walking(m, f) ==
  f = [n \in On(m) |->
         IF m.links.next[n] = H THEN <<>> ELSE <<m.links.next[n]>> \o f[m.links.next[n]]]

LEMMA BehindExists ==
  ASSUME NEW m, NEW L, Chain(m, L)
  PROVE  \E f : Walking(m, f)
<1> DEFINE X == L \cup {H}
           stop == {n \in X : N(m, n) = H}
           next == [n \in X |-> N(m, n)]
           rank == [n \in X |-> Far(m, n)]
           base == [n \in X |-> <<>>]
           comb == [p \in X \X Seq(Node) |-> <<N(m, p[1])>> \o p[2]]
<1>1. X \subseteq Node /\ \A n \in X : N(m, n) \in X /\ N(m, n) \in Node
  BY LinksAre DEF Chain
<1>2. X = On(m)
  BY LinksAre DEF Chain, N, On
<1>3. next \in [X -> X] /\ rank \in [X -> Nat] /\ base \in [X -> Seq(Node)]
  BY <1>1, Nearer
<1>4. comb \in [X \X Seq(Node) -> Seq(Node)]
  <2>1. ASSUME NEW p \in X \X Seq(Node) PROVE <<N(m, p[1])>> \o p[2] \in Seq(Node)
    <3>1. <<N(m, p[1])>> \in Seq(Node) /\ p[2] \in Seq(Node)
      BY <1>1
    <3> QED BY <3>1, ConcatProperties
  <2> QED BY <2>1
<1>5. \A n \in X : n \notin stop => rank[next[n]] < rank[n]
  <2>1. ASSUME NEW n \in X, N(m, n) # H PROVE Far(m, N(m, n)) < Far(m, n)
    BY <2>1, Nearer
  <2> QED BY <1>1, <2>1
<1>6. Descends(X, stop, next, rank) /\ Combines(X, Seq(Node), base, comb)
  <2> HIDE DEF X, stop, next, rank, base, comb
  <2> QED BY <1>3, <1>4, <1>5 DEF Descends, Combines
<1>10. \E f : Recurs(f, X, Seq(Node), stop, next, base, comb)
  <2> HIDE DEF X, stop, next, rank, base, comb
  <2> QED BY <1>6, Recursion
<1>11. PICK f : Recurs(f, X, Seq(Node), stop, next, base, comb)
  <2> HIDE DEF X, stop, next, rank, base, comb
  <2> QED BY <1>10
<1>7. /\ f \in [X -> Seq(Node)]
      /\ \A n \in X : f[n] = IF n \in stop THEN base[n] ELSE comb[<<n, f[next[n]]>>]
  <2> HIDE DEF X, stop, next, rank, base, comb
  <2> QED BY <1>11 DEF Recurs
<1>8. ASSUME NEW n \in X PROVE f[n] = IF N(m, n) = H THEN <<>> ELSE <<N(m, n)>> \o f[N(m, n)]
  <2>1. CASE N(m, n) = H
    BY <1>7, <2>1
  <2>2. CASE N(m, n) # H
    <3>1. N(m, n) \in X /\ f[N(m, n)] \in Seq(Node)
      BY <1>1, <1>7
    <3>2. f[n] = comb[<<n, f[N(m, n)]>>]
      BY <1>7, <2>2
    <3>3. ASSUME NEW s \in Seq(Node) PROVE comb[<<n, s>>] = <<N(m, n)>> \o s
      <4> HIDE DEF X
      <4>1. <<n, s>> \in X \X Seq(Node)
        OBVIOUS
      <4> QED BY <4>1
    <3>4. f[n] = <<N(m, n)>> \o f[N(m, n)]
      <4> HIDE DEF comb, X
      <4> QED BY <3>1, <3>2, <3>3
    <3> QED BY <2>2, <3>4
  <2> QED BY <2>1, <2>2
<1>9. f = [n \in X |-> IF N(m, n) = H THEN <<>> ELSE <<N(m, n)>> \o f[N(m, n)]]
  <2> HIDE DEF X
  <2> QED BY <1>7, <1>8
<1> HIDE DEF X
<1>12. Walking(m, f)
  BY <1>2, <1>9 DEF N, Walking
<1> QED BY <1>12

(* Every area that is in the list is visited, in the order of addresses.   *)
Visits(m, L, n, es) ==
  /\ es \in Seq(L)
  /\ \A u : u \in Rest(m, L, n) <=> \E i \in 1 .. Len(es) : es[i] = u
  /\ \A i, j \in 1 .. Len(es) : i < j => S(m, es[i]) < S(m, es[j])

LEMMA VisitsOne ==
  ASSUME NEW m, NEW L, Chain(m, L), NEW n \in L \cup {H}, N(m, n) # H, NEW es, Visits(m, L, N(m, n), es)
  PROVE  Visits(m, L, n, <<N(m, n)>> \o es)
<1> DEFINE w == N(m, n)
           fs == <<w>> \o es
<1>1. w \in L /\ Rest(m, L, n) = {w} \cup Rest(m, L, w) /\ \A u \in Rest(m, L, w) : S(m, w) < S(m, u)
  BY RestIs
<1>2. es \in Seq(L) /\ \A u : u \in Rest(m, L, w) <=> \E i \in 1 .. Len(es) : es[i] = u
  BY DEF Visits
<1>3. \A i, j \in 1 .. Len(es) : i < j => S(m, es[i]) < S(m, es[j])
  BY DEF Visits
<1> HIDE DEF w
<1>4. <<w>> \in Seq(L) /\ Len(<<w>>) = 1 /\ <<w>>[1] = w
  BY <1>1
<1>5. fs \in Seq(L) /\ Len(fs) = Len(es) + 1 /\ Len(es) \in Nat
  BY <1>2, <1>4, ConcatProperties, LenProperties
<1>6. fs[1] = w /\ \A i \in 2 .. Len(fs) : fs[i] = es[i - 1]
  BY <1>2, <1>4, <1>5, ConcatProperties
<1> HIDE DEF fs
<1>7. ASSUME NEW u PROVE u \in Rest(m, L, n) <=> \E i \in 1 .. Len(fs) : fs[i] = u
  <2>1. ASSUME u \in Rest(m, L, n) PROVE \E i \in 1 .. Len(fs) : fs[i] = u
    <3>1. CASE u = w
      BY <1>5, <1>6, <3>1
    <3>2. CASE u \in Rest(m, L, w)
      <4>1. PICK i \in 1 .. Len(es) : es[i] = u
        BY <1>2, <3>2
      <4>2. i + 1 \in 2 .. Len(fs) /\ i + 1 \in 1 .. Len(fs) /\ (i + 1) - 1 = i
        BY <1>5
      <4>3. fs[i + 1] = u
        BY <1>6, <4>1, <4>2
      <4> QED BY <4>2, <4>3
    <3> QED BY <1>1, <2>1, <3>1, <3>2
  <2>2. ASSUME NEW i \in 1 .. Len(fs), fs[i] = u PROVE u \in Rest(m, L, n)
    <3>1. CASE i = 1
      BY <1>1, <1>6, <2>2, <3>1
    <3>2. CASE i # 1
      <4>1. i \in 2 .. Len(fs) /\ i - 1 \in 1 .. Len(es)
        BY <1>5, <3>2
      <4>2. es[i - 1] = u
        BY <1>6, <2>2, <4>1
      <4> QED BY <1>1, <1>2, <4>1, <4>2
    <3> QED BY <3>1, <3>2
  <2> QED BY <2>1, <2>2
<1>8. ASSUME NEW i \in 1 .. Len(fs), NEW j \in 1 .. Len(fs), i < j PROVE S(m, fs[i]) < S(m, fs[j])
  <2>1. j \in 2 .. Len(fs) /\ j - 1 \in 1 .. Len(es) /\ fs[j] = es[j - 1]
    BY <1>5, <1>6, <1>8
  <2>2. CASE i = 1
    <3>1. fs[j] \in Rest(m, L, w)
      BY <1>2, <2>1
    <3> QED BY <1>1, <1>6, <2>2, <3>1
  <2>3. CASE i # 1
    <3>1. i \in 2 .. Len(fs) /\ i - 1 \in 1 .. Len(es) /\ i - 1 < j - 1
      BY <1>5, <1>8, <2>3
    <3>2. fs[i] = es[i - 1]
      BY <1>6, <3>1
    <3> QED BY <1>3, <2>1, <3>1, <3>2
  <2> QED BY <2>2, <2>3
<1>9. Visits(m, L, n, fs)
  BY <1>5, <1>7, <1>8 DEF Visits
<1> QED BY <1>9 DEF fs, w

LEMMA EntriesVisit ==
  ASSUME NEW m, NEW L, Chain(m, L)
  PROVE  Visits(m, L, H, Listed(m))
<1> DEFINE f == CHOOSE g : Walking(m, g)
<1>1. \E g : Walking(m, g)
  BY BehindExists
<1>2. Walking(m, f)
  BY <1>1
<1>3. Listed(m) = f[H]
  BY DEF Listed, Entries, H, Walking, On
<1>4. On(m) = L \cup {H}
  BY LinksAre DEF Chain, N, On
<1> HIDE DEF f
<1>5. ASSUME NEW n \in L \cup {H} PROVE f[n] = IF N(m, n) = H THEN <<>> ELSE <<N(m, n)>> \o f[N(m, n)]
  <2>1. \A k \in On(m) : f[k] = IF m.links.next[k] = H THEN <<>> ELSE <<m.links.next[k]>> \o f[m.links.next[k]]
    BY <1>2 DEF Walking
  <2> QED BY <1>4, <2>1 DEF N
<1> DEFINE Bad == {n \in L \cup {H} : ~ Visits(m, L, n, f[n])}
           Fars == {Far(m, n) : n \in Bad}
<1>6. ASSUME Bad # {} PROVE FALSE
  <2>1. Fars \in SUBSET Nat /\ Fars # {}
    BY <1>6, Nearer
  <2>2. PICK r \in Fars : \A q \in Fars : r <= q
    <3> HIDE DEF Fars
    <3> QED BY <2>1, Least
  <2>3. PICK n \in Bad : r = Far(m, n)
    BY <2>2
  <2>4. n \in L \cup {H} /\ ~ Visits(m, L, n, f[n])
    BY <2>3
  <2>5. CASE N(m, n) = H
    <3>1. f[n] = <<>> /\ Rest(m, L, n) = {}
      BY <1>5, <2>4, <2>5, RestIs
    <3> HIDE DEF Bad
    <3> QED BY <2>4, <3>1 DEF Visits
  <2>6. CASE N(m, n) # H
    <3>1. N(m, n) \in L \cup {H}
      BY <2>4, LinksAre DEF Chain
    <3>2. Far(m, N(m, n)) < Far(m, n) /\ Far(m, n) \in Nat /\ Far(m, N(m, n)) \in Nat
      BY <2>4, <2>6, <3>1, Nearer
    <3>3. ASSUME N(m, n) \in Bad PROVE FALSE
      <4>1. Far(m, N(m, n)) \in Fars
        BY <3>3
      <4> HIDE DEF Fars, Bad
      <4> QED BY <2>2, <2>3, <3>2, <4>1
    <3>4. Visits(m, L, N(m, n), f[N(m, n)])
      BY <3>1, <3>3
    <3>5. f[n] = <<N(m, n)>> \o f[N(m, n)]
      BY <1>5, <2>4, <2>6
    <3> HIDE DEF Bad
    <3> QED BY <2>4, <2>6, <3>4, <3>5, VisitsOne
  <2> QED BY <2>5, <2>6
<1>7. Visits(m, L, H, f[H])
  BY <1>6
<1> QED BY <1>3, <1>7

LEMMA EntriesAre ==
  ASSUME NEW m, NEW L, Chain(m, L)
  PROVE  /\ Listed(m) \in Seq(L) /\ Len(Listed(m)) \in Nat /\ DOMAIN Listed(m) = 1 .. Len(Listed(m))
         /\ \A i \in 1 .. Len(Listed(m)) : Listed(m)[i] \in L
         /\ \A u \in L : \E i \in 1 .. Len(Listed(m)) : Listed(m)[i] = u
         /\ \A i, j \in 1 .. Len(Listed(m)) : i < j => S(m, Listed(m)[i]) < S(m, Listed(m)[j])
         /\ ToSet(Listed(m)) = L
<1> DEFINE es == Listed(m)
<1>1. Visits(m, L, H, es)
  BY EntriesVisit
<1> HIDE DEF es
<1>2. es \in Seq(L) /\ Len(es) \in Nat /\ DOMAIN es = 1 .. Len(es) /\ \A i \in 1 .. Len(es) : es[i] \in L
  BY <1>1, LenProperties, ElementOfSeq DEF Visits
<1>3. \A u \in L : \E i \in 1 .. Len(es) : es[i] = u
  BY <1>1 DEF Visits, Rest
<1>4. \A i, j \in 1 .. Len(es) : i < j => S(m, es[i]) < S(m, es[j])
  BY <1>1 DEF Visits
<1>5. ToSet(es) = L
  BY <1>2, <1>3 DEF ToSet
<1> QED BY <1>2, <1>3, <1>4, <1>5 DEF es

(* The first entry that is in a set is the one with the least address.     *)
LEMMA FirstIs ==
  ASSUME NEW m, NEW L, Chain(m, L), NEW T
  PROVE  /\ L \cap T = {} => First(m, T) = Nil
         /\ L \cap T # {} => /\ First(m, T) \in L \cap T
                             /\ \A u \in L \cap T : u # First(m, T) => S(m, First(m, T)) < S(m, u)
         /\ First(m, T) = Nil <=> L \cap T = {}
<1> DEFINE es == Listed(m)
           hit == {i \in DOMAIN es : es[i] \in T}
           k == CHOOSE i \in hit : \A j \in hit : i <= j
<1>1. /\ Len(es) \in Nat /\ DOMAIN es = 1 .. Len(es) /\ \A i \in 1 .. Len(es) : es[i] \in L
      /\ \A u \in L : \E i \in 1 .. Len(es) : es[i] = u
      /\ \A i, j \in 1 .. Len(es) : i < j => S(m, es[i]) < S(m, es[j])
  BY EntriesAre
<1>2. First(m, T) = IF hit = {} THEN Nil ELSE es[k]
  BY DEF First, FirstOf
<1>3. L \subseteq Id /\ Nil \notin L
  <2>1. L \subseteq Node
    BY LinksAre DEF Chain
  <2> QED BY <2>1, LinksAre, VmaConstants DEF Chain
<1> HIDE DEF es
<1>4. hit = {} <=> L \cap T = {}
  BY <1>1
<1>5. ASSUME hit # {} PROVE k \in hit /\ \A j \in hit : k <= j
  <2>1. hit \in SUBSET Nat
    BY <1>1
  <2>2. \E i \in hit : \A j \in hit : i <= j
    <3> HIDE DEF hit
    <3> QED BY <1>5, <2>1, Least
  <2> QED BY <2>2
<1> HIDE DEF k
<1>6. ASSUME hit # {}, NEW u \in L \cap T, u # es[k] PROVE S(m, es[k]) < S(m, u)
  <2>1. PICK i \in 1 .. Len(es) : es[i] = u
    BY <1>1
  <2>2. i \in hit /\ k <= i /\ k # i /\ k \in 1 .. Len(es)
    BY <1>1, <1>5, <1>6, <2>1
  <2>3. k < i
    BY <2>2
  <2> QED BY <1>1, <2>1, <2>2, <2>3
<1>7. ASSUME hit # {} PROVE es[k] \in L \cap T
  BY <1>1, <1>5, <1>7
<1> HIDE DEF hit
<1> QED BY <1>2, <1>3, <1>4, <1>6, <1>7
-----------------------------------------------------------------------------
(* How the list changes.                                                   *)
LEMMA FieldsOf ==
  ASSUME NEW m \in MM, NEW l \in Links
  PROVE  LET k == [m EXCEPT !.links = l]
         IN  /\ k \in MM /\ k.links = l /\ k.area = m.area /\ Allocated(k) = Allocated(m)
             /\ \A v : S(k, v) = S(m, v) /\ E(k, v) = E(m, v)
BY DEF MM, Allocated, S, E

(* Areas that start where they did and do not reach farther than the next. *)
LEMMA SameStarts ==
  ASSUME NEW m, NEW L, Chain(m, L), NEW k \in MM, k.links = m.links, L \subseteq Allocated(k),
         \A v \in L : /\ S(k, v) = S(m, v) /\ S(k, v) < E(k, v)
                      /\ N(m, v) # H => E(k, v) <= S(m, N(m, v))
  PROVE  Chain(k, L)
<1>1. \A v : N(k, v) = N(m, v)
  BY DEF N
<1>2. \A v \in L : N(m, v) \in L \cup {H}
  BY LinksAre DEF Chain
<1>3. N(m, H) \in L \cup {H}
  BY LinksAre DEF Chain
<1>4. Shape(k, L)
  BY <1>1 DEF Chain, Shape
<1>5. Ordered(k, L)
  BY <1>1, <1>2, <1>3 DEF Chain, Ordered
<1> QED BY <1>4, <1>5 DEF Chain

LEMMA Added ==
  ASSUME NEW m, NEW L, Chain(m, L), NEW v \in Allocated(m) \ L, NEW p \in L \cup {H},
         S(m, v) < E(m, v), p # H => E(m, p) <= S(m, v), N(m, p) # H => E(m, v) <= S(m, N(m, p))
  PROVE  LET k == [m EXCEPT !.links = Add(@, v, p)]
         IN  /\ Chain(k, L \cup {v}) /\ k.area = m.area
             /\ \A x \in Node : N(k, x) = IF x = p THEN v ELSE IF x = v THEN N(m, p) ELSE N(m, x)
<1> DEFINE l == Add(m.links, v, p)
           k == [m EXCEPT !.links = l]
           K == L \cup {v}
           q == N(m, p)
<1>1. /\ m \in MM /\ m.links \in Links /\ Linked(m.links, L \cup {H}) /\ v \in Id /\ L \subseteq Node /\ H \notin L
      /\ v \in Node /\ v # H /\ p \in Node /\ q \in L \cup {H} /\ q \in Node
  <2>1. m \in MM /\ Linked(m.links, L \cup {H})
    BY DEF Chain, Shape
  <2>2. m.links \in Links /\ L \subseteq Node /\ H \notin L /\ H \in Node /\ q \in L \cup {H}
    BY LinksAre DEF Chain
  <2>3. v \in Id
    BY <2>1, AreaIs
  <2>4. v \in Node /\ v # H
    BY <2>3, VmaConstants
  <2> HIDE DEF q
  <2> QED BY <2>1, <2>2, <2>3, <2>4
<1>2. l \in Links /\ Linked(l, (L \cup {H}) \cup {v})
  BY <1>1, AddKeepsLinks
<1>3. /\ k \in MM /\ k.links = l /\ k.area = m.area /\ Allocated(k) = Allocated(m)
      /\ \A x : S(k, x) = S(m, x) /\ E(k, x) = E(m, x)
  BY <1>1, <1>2, FieldsOf
<1>4. \A x \in Node : l.next[x] = IF x = p THEN v ELSE IF x = v THEN q ELSE N(m, x)
  BY <1>1 DEF Add, Between, N, Links
<1> HIDE DEF l, k, q
<1>5. ASSUME NEW x \in Node PROVE N(k, x) = IF x = p THEN v ELSE IF x = v THEN q ELSE N(m, x)
  <2>1. N(k, x) = l.next[x]
    BY <1>3 DEF N
  <2> QED BY <1>4, <2>1
<1>6. K \cup {H} = (L \cup {H}) \cup {v}
  OBVIOUS
<1>7. Shape(k, K)
  <2>1. ASSUME NEW n \in Node \ (K \cup {H}) PROVE N(k, n) = Nil
    <3>1. N(m, n) = Nil
      BY <2>1 DEF Chain, Shape
    <3>2. n # p /\ n # v
      BY <2>1
    <3> QED BY <1>5, <2>1, <3>1, <3>2
  <2>2. K \subseteq Allocated(k)
    BY <1>3 DEF Chain, Shape
  <2> QED BY <1>2, <1>3, <1>6, <2>1, <2>2 DEF Shape
<1>8. \A x \in K : S(m, x) \in Nat /\ E(m, x) \in Nat
  BY AreaIs DEF Chain, Shape
<1>9. \A x \in L : S(m, x) < E(m, x) /\ N(m, x) \in L \cup {H}
  BY LinksAre DEF Chain, Ordered
<1>10. \A x \in L : S(m, x) < S(m, v) => p # H /\ S(m, x) <= S(m, p)
  <2> TAKE x \in L
  <2> HAVE S(m, x) < S(m, v)
  <2>1. q = H \/ (q \in L /\ S(m, v) < S(m, q))
    BY <1>1, <1>8 DEF q
  <2>2. CASE p = H
    <3>1. N(m, H) # H /\ S(m, N(m, H)) <= S(m, x)
      BY DEF Chain, Ordered
    <3> QED BY <1>8, <2>1, <2>2, <3>1 DEF q
  <2>3. CASE p # H /\ S(m, p) < S(m, x)
    <3>1. q # H /\ S(m, q) <= S(m, x)
      BY <2>3 DEF Chain, Ordered, q
    <3> QED BY <1>8, <2>1, <3>1
  <2> QED BY <1>8, <2>2, <2>3
<1>11. \A x \in L : S(m, v) < S(m, x) => q # H /\ S(m, q) <= S(m, x)
  <2> TAKE x \in L
  <2> HAVE S(m, v) < S(m, x)
  <2>1. CASE p = H
    BY <2>1 DEF Chain, Ordered, q
  <2>2. CASE p # H
    <3>1. S(m, p) < S(m, x)
      BY <1>8, <1>9, <2>2
    <3> QED BY <2>2, <3>1 DEF Chain, Ordered, q
  <2> QED BY <2>1, <2>2
<1>12. \A x \in L : S(m, x) # S(m, v)
  <2> TAKE x \in L
  <2>1. CASE p # H /\ S(m, p) >= S(m, x)
    BY <1>8, <1>9, <2>1
  <2>2. CASE p # H /\ S(m, p) < S(m, x)
    <3>1. q # H /\ S(m, q) <= S(m, x) /\ q \in L
      BY <1>1, <2>2 DEF Chain, Ordered, q
    <3> QED BY <1>8, <3>1 DEF q
  <2>3. CASE p = H
    <3>1. q # H /\ S(m, q) <= S(m, x) /\ q \in L
      BY <1>1, <2>3 DEF Chain, Ordered, q
    <3> QED BY <1>8, <3>1 DEF q
  <2> QED BY <1>8, <2>1, <2>2, <2>3
<1>13. Ordered(k, K)
  <2>1. \A x \in K : S(k, x) < E(k, x)
    BY <1>3, <1>9
  <2>2. \A x \in K : N(k, x) # H => E(k, x) <= S(k, N(k, x))
    BY <1>1, <1>3, <1>5 DEF Chain, Ordered, q
  <2>3. ASSUME NEW x \in K, NEW y \in K, S(m, x) < S(m, y)
        PROVE  N(k, x) # H /\ S(m, N(k, x)) <= S(m, y)
    <3>1. CASE x = v
      <4>1. y \in L
        BY <1>8, <2>3, <3>1
      <4>2. N(k, x) = q
        BY <1>1, <1>5, <3>1
      <4> QED BY <1>11, <2>3, <3>1, <4>1, <4>2
    <3>2. CASE x \in L /\ x = p
      <4>1. N(k, x) = v
        BY <1>1, <1>5, <3>2
      <4>2. CASE y = v
        BY <1>1, <1>8, <4>1, <4>2
      <4>3. CASE y \in L
        <5>1. ~ (S(m, y) < S(m, v))
          BY <1>8, <1>10, <2>3, <3>2, <4>3
        <5> QED BY <1>1, <1>8, <4>1, <4>3, <5>1
      <4> QED BY <4>2, <4>3
    <3>3. CASE x \in L /\ x # p
      <4>1. N(k, x) = N(m, x) /\ N(m, x) \in L \cup {H} /\ x # v
        BY <1>1, <1>5, <1>9, <3>3
      <4>2. CASE y = v
        <5>1. p # H /\ S(m, x) <= S(m, p) /\ p \in L
          BY <1>10, <2>3, <3>3, <4>2
        <5>2. S(m, x) # S(m, p)
          BY <3>3, <5>1 DEF Chain, Ordered
        <5>3. N(m, x) # H /\ S(m, N(m, x)) <= S(m, p)
          BY <1>8, <3>3, <5>1, <5>2 DEF Chain, Ordered
        <5>4. S(m, p) < S(m, v)
          BY <1>8, <1>9, <5>1
        <5> QED BY <1>8, <4>1, <4>2, <5>1, <5>3, <5>4
      <4>3. CASE y \in L
        BY <2>3, <3>3, <4>1, <4>3 DEF Chain, Ordered
      <4> QED BY <4>2, <4>3
    <3> QED BY <3>1, <3>2, <3>3
  <2>4. ASSUME NEW y \in K PROVE N(k, H) # H /\ S(m, N(k, H)) <= S(m, y)
    <3>1. CASE p = H
      <4>1. N(k, H) = v
        BY <1>1, <1>5, <3>1
      <4>2. ~ (S(m, y) < S(m, v))
        BY <1>8, <1>10, <3>1
      <4> QED BY <1>1, <1>8, <4>1, <4>2
    <3>2. CASE p # H
      <4>1. N(k, H) = N(m, H)
        BY <1>1, <1>5, <3>2, VmaConstants
      <4>2. p \in L
        BY <3>2
      <4>3. N(m, H) # H /\ S(m, N(m, H)) <= S(m, p) /\ N(m, H) \in L
        BY <4>2, LinksAre DEF Chain, Ordered
      <4>4. S(m, p) < S(m, v)
        BY <1>8, <1>9, <3>2, <4>2
      <4>5. CASE y = v
        BY <1>8, <4>1, <4>2, <4>3, <4>4, <4>5
      <4>6. CASE y \in L
        BY <4>1, <4>6 DEF Chain, Ordered
      <4> QED BY <4>5, <4>6
    <3> QED BY <3>1, <3>2
  <2>5. ASSUME NEW x \in K, NEW y \in K, x # y PROVE S(m, x) # S(m, y)
    BY <1>12, <2>5 DEF Chain, Ordered
  <2> QED BY <1>3, <2>1, <2>2, <2>3, <2>4, <2>5 DEF Ordered
<1>14. Chain(k, K) /\ k.area = m.area
  BY <1>3, <1>7, <1>13 DEF Chain
<1>15. k = [m EXCEPT !.links = Add(@, v, p)]
  BY DEF k, l
<1> QED BY <1>5, <1>14, <1>15 DEF q
-----------------------------------------------------------------------------
(* The areas from a to b.                                                  *)
Span(m, L, a, b) == {v \in L : S(m, a) <= S(m, v) /\ S(m, v) <= S(m, b)}

(* A walk comes into the areas from a to b over a and leaves them over b.  *)
LEMMA SpanEnds ==
  ASSUME NEW m, NEW L, Chain(m, L), NEW a \in L, NEW b \in L, S(m, a) <= S(m, b)
  PROVE  LET K == Span(m, L, a, b)
         IN  /\ a \in K /\ b \in K /\ K \subseteq L
             /\ Before(m, a) \in (L \cup {H}) \ K /\ N(m, b) \in (L \cup {H}) \ K
             /\ \A x \in (L \cup {H}) \ K : N(m, x) \in K => x = Before(m, a)
             /\ \A x \in (L \cup {H}) \ K : Before(m, x) \in K => x = N(m, b)
<1> DEFINE K == Span(m, L, a, b)
<1>1. \A v \in L : S(m, v) \in Nat /\ E(m, v) \in Nat /\ S(m, v) < E(m, v)
  BY AreaIs DEF Chain, Shape, Ordered
<1>2. \A v \in L \cup {H} : /\ N(m, v) \in L \cup {H} /\ Before(m, v) \in L \cup {H}
                            /\ Before(m, N(m, v)) = v /\ N(m, Before(m, v)) = v
  BY LinksAre DEF Chain
<1>3. a \in K /\ b \in K /\ K \subseteq L /\ H \notin L
  BY <1>1, LinksAre DEF Span, Chain
<1>4. \A v \in L : N(m, v) # H => E(m, v) <= S(m, N(m, v))
  BY DEF Chain, Ordered
<1>5. \A v \in L, u \in L : S(m, v) < S(m, u) => N(m, v) # H /\ S(m, N(m, v)) <= S(m, u)
  BY DEF Chain, Ordered
<1>6. \A u \in L, v \in L : S(m, u) = S(m, v) => u = v
  BY DEF Chain, Ordered
<1>7. ASSUME Before(m, a) \in K PROVE FALSE
  <2>1. Before(m, a) \in L /\ N(m, Before(m, a)) = a /\ S(m, a) <= S(m, Before(m, a))
    BY <1>2, <1>3, <1>7 DEF Span
  <2>2. E(m, Before(m, a)) <= S(m, a)
    BY <1>3, <1>4, <2>1
  <2> QED BY <1>1, <2>1, <2>2
<1>8. ASSUME N(m, b) \in K PROVE FALSE
  <2>1. N(m, b) \in L /\ S(m, N(m, b)) <= S(m, b)
    BY <1>3, <1>8 DEF Span
  <2>2. E(m, b) <= S(m, N(m, b))
    BY <1>3, <1>4, <2>1
  <2> QED BY <1>1, <2>1, <2>2
<1>9. ASSUME NEW x \in (L \cup {H}) \ K, N(m, x) \in K PROVE x = Before(m, a)
  <2> DEFINE y == N(m, x)
  <2>1. y \in L /\ S(m, a) <= S(m, y) /\ S(m, y) <= S(m, b) /\ y # H
    BY <1>3, <1>9 DEF Span
  <2>2. ASSUME S(m, a) < S(m, y) PROVE FALSE
    <3>1. CASE x = H
      <4>1. S(m, N(m, H)) <= S(m, a)
        BY DEF Chain, Ordered
      <4> QED BY <1>1, <2>1, <2>2, <3>1, <4>1
    <3>2. CASE x \in L /\ S(m, x) < S(m, a)
      <4>1. S(m, y) <= S(m, a)
        BY <1>5, <3>2
      <4> QED BY <1>1, <2>1, <2>2, <4>1
    <3>3. CASE x \in L /\ ~ (S(m, x) < S(m, a))
      <4>1. E(m, x) <= S(m, y)
        BY <1>4, <2>1, <3>3
      <4>2. S(m, a) <= S(m, x) /\ S(m, x) <= S(m, b)
        BY <1>1, <2>1, <3>3, <4>1
      <4> QED BY <1>9, <3>3, <4>2 DEF Span
    <3> QED BY <1>9, <3>1, <3>2, <3>3
  <2>3. y = a
    BY <1>1, <1>6, <2>1, <2>2
  <2> QED BY <1>2, <1>9, <2>3
<1>10. ASSUME NEW x \in (L \cup {H}) \ K, Before(m, x) \in K PROVE x = N(m, b)
  <2> DEFINE y == Before(m, x)
  <2>1. y \in L /\ S(m, a) <= S(m, y) /\ S(m, y) <= S(m, b) /\ N(m, y) = x
    BY <1>2, <1>3, <1>10 DEF Span
  <2>2. ASSUME S(m, y) < S(m, b) PROVE FALSE
    <3>1. x # H /\ S(m, x) <= S(m, b) /\ x \in L
      BY <1>5, <1>10, <2>1, <2>2
    <3>2. E(m, y) <= S(m, x)
      BY <1>4, <2>1, <3>1
    <3>3. S(m, a) <= S(m, x)
      BY <1>1, <2>1, <3>1, <3>2
    <3> QED BY <1>10, <3>1, <3>3 DEF Span
  <2>3. y = b
    BY <1>1, <1>6, <2>1, <2>2
  <2> QED BY <2>1, <2>3
<1> HIDE DEF K
<1> QED BY <1>2, <1>3, <1>7, <1>8, <1>9, <1>10 DEF K

(* k is m without the areas from a to b; those that stay may have grown.   *)
IsCut(m, L, a, b, k) ==
  LET K == Span(m, L, a, b)
  IN  /\ k \in MM /\ L \ K \subseteq Allocated(k)
      /\ \A n \in Node : N(k, n) = IF n \in K THEN Nil ELSE IF n = Before(m, a) THEN N(m, b) ELSE N(m, n)
      /\ \A n \in Node : Before(k, n) = IF n \in K THEN Nil ELSE IF n = N(m, b) THEN Before(m, a) ELSE Before(m, n)
      /\ \A v \in L \ K : /\ S(k, v) = S(m, v) /\ S(k, v) < E(k, v)
                          /\ N(k, v) # H => E(k, v) <= S(m, N(k, v))

LEMMA CutOut ==
  ASSUME NEW m, NEW L, Chain(m, L), NEW a \in L, NEW b \in L, S(m, a) <= S(m, b), NEW k, IsCut(m, L, a, b, k)
  PROVE  Chain(k, L \ Span(m, L, a, b))
<1> DEFINE K == Span(m, L, a, b)
           M == L \ K
           p == Before(m, a)
           q == N(m, b)
<1>1. \A v \in L : S(m, v) \in Nat /\ E(m, v) \in Nat /\ S(m, v) < E(m, v)
  BY AreaIs DEF Chain, Shape, Ordered
<1>2. \A v \in L \cup {H} : /\ N(m, v) \in L \cup {H} /\ Before(m, v) \in L \cup {H}
                            /\ Before(m, N(m, v)) = v /\ N(m, Before(m, v)) = v
  BY LinksAre DEF Chain
<1>3. a \in K /\ b \in K /\ K \subseteq L /\ H \notin L /\ H \in Node /\ L \subseteq Node
  BY LinksAre, SpanEnds DEF Chain
<1>4. p \in M \cup {H} /\ q \in M \cup {H}
  BY <1>3, SpanEnds
<1>5. /\ \A x \in M \cup {H} : N(m, x) \in K => x = p
      /\ \A x \in M \cup {H} : Before(m, x) \in K => x = q
  BY <1>3, SpanEnds
<1>6. /\ \A n \in Node : N(k, n) = IF n \in K THEN Nil ELSE IF n = p THEN q ELSE N(m, n)
      /\ \A n \in Node : Before(k, n) = IF n \in K THEN Nil ELSE IF n = q THEN p ELSE Before(m, n)
      /\ k \in MM /\ M \subseteq Allocated(k)
  BY DEF IsCut
<1>7. \A v \in M : S(k, v) = S(m, v) /\ S(k, v) < E(k, v) /\ (N(k, v) # H => E(k, v) <= S(m, N(k, v)))
  BY DEF IsCut
<1>8. \A x \in L : x \in K <=> S(m, a) <= S(m, x) /\ S(m, x) <= S(m, b)
  BY DEF Span
<1>9. N(m, p) = a /\ Before(m, q) = b
  BY <1>2, <1>3
<1> HIDE DEF K, p, q
<1>10. ASSUME NEW x \in M \cup {H}
       PROVE  /\ N(k, x) \in M \cup {H} /\ Before(k, x) \in M \cup {H}
              /\ Before(k, N(k, x)) = x /\ N(k, Before(k, x)) = x
  <2>1. x \in Node /\ x \notin K /\ x \in L \cup {H}
    BY <1>3
  <2>2. N(k, x) \in M \cup {H} /\ Before(k, N(k, x)) = x
    <3>1. CASE x = p
      <4>1. N(k, x) = q /\ q \in Node /\ q \notin K
        BY <1>3, <1>4, <1>6, <2>1, <3>1
      <4> QED BY <1>4, <1>6, <3>1, <4>1
    <3>2. CASE x # p
      <4>1. N(k, x) = N(m, x) /\ N(m, x) \notin K /\ N(m, x) \in L \cup {H}
        BY <1>2, <1>5, <1>6, <2>1, <3>2
      <4>2. N(m, x) \in Node /\ N(m, x) # q
        BY <1>2, <1>3, <1>9, <2>1, <4>1
      <4> QED BY <1>2, <1>6, <2>1, <4>1, <4>2
    <3> QED BY <3>1, <3>2
  <2>3. Before(k, x) \in M \cup {H} /\ N(k, Before(k, x)) = x
    <3>1. CASE x = q
      <4>1. Before(k, x) = p /\ p \in Node /\ p \notin K
        BY <1>3, <1>4, <1>6, <2>1, <3>1
      <4> QED BY <1>4, <1>6, <3>1, <4>1
    <3>2. CASE x # q
      <4>1. Before(k, x) = Before(m, x) /\ Before(m, x) \notin K /\ Before(m, x) \in L \cup {H}
        BY <1>2, <1>5, <1>6, <2>1, <3>2
      <4>2. Before(m, x) \in Node /\ Before(m, x) # p
        BY <1>2, <1>3, <1>9, <2>1, <4>1
      <4> QED BY <1>2, <1>6, <2>1, <4>1, <4>2
    <3> QED BY <3>1, <3>2
  <2> QED BY <2>2, <2>3
<1>11. Shape(k, M)
  <2>1. Linked(k.links, M \cup {H})
    BY <1>3, <1>10 DEF Linked, N, Before
  <2>2. ASSUME NEW n \in Node \ (M \cup {H}) PROVE N(k, n) = Nil
    <3>1. CASE n \in K
      BY <1>6, <3>1
    <3>2. CASE n \notin K
      <4>1. n \notin L \cup {H} /\ n # p
        BY <1>4, <2>2, <3>2
      <4>2. N(m, n) = Nil
        BY <4>1 DEF Chain, Shape
      <4> QED BY <1>6, <3>2, <4>1, <4>2
    <3> QED BY <3>1, <3>2
  <2> QED BY <1>6, <2>1, <2>2 DEF Shape
<1>12. ASSUME NEW u \in M, S(m, a) <= S(m, u) PROVE q # H /\ S(m, q) <= S(m, u)
  <2>1. S(m, b) < S(m, u)
    BY <1>1, <1>3, <1>8, <1>12
  <2> QED BY <1>3, <2>1 DEF Chain, Ordered, q
<1>13. ASSUME NEW v \in M, NEW u \in M, S(m, v) < S(m, u) PROVE N(k, v) # H /\ S(m, N(k, v)) <= S(m, u)
  <2>1. N(m, v) # H /\ S(m, N(m, v)) <= S(m, u) /\ v \in Node /\ v \notin K
    BY <1>3, <1>13 DEF Chain, Ordered
  <2>2. CASE v = p
    BY <1>6, <1>9, <1>12, <2>1, <2>2
  <2>3. CASE v # p
    BY <1>6, <2>1, <2>3
  <2> QED BY <2>2, <2>3
<1>14. ASSUME NEW u \in M PROVE N(k, H) # H /\ S(m, N(k, H)) <= S(m, u)
  <2>1. N(m, H) # H /\ S(m, N(m, H)) <= S(m, u) /\ H \in Node /\ H \notin K
    BY <1>3 DEF Chain, Ordered
  <2>2. CASE H = p
    BY <1>6, <1>9, <1>12, <2>1, <2>2
  <2>3. CASE H # p
    BY <1>6, <2>1, <2>3
  <2> QED BY <2>2, <2>3
<1>15. \A v \in M : N(k, v) # H => N(k, v) \in M
  BY <1>10
<1>16. N(k, H) # H => N(k, H) \in M
  BY <1>10
<1>17. \A v \in M, u \in M : u # v => S(k, u) # S(k, v)
  BY <1>7 DEF Chain, Ordered
<1>18. Ordered(k, M)
  <2>1. \A v \in M : S(k, v) < E(k, v)
    BY <1>7
  <2>2. \A v \in M : N(k, v) # H => E(k, v) <= S(k, N(k, v))
    BY <1>7, <1>15
  <2>3. \A v \in M, u \in M : S(k, v) < S(k, u) => N(k, v) # H /\ S(k, N(k, v)) <= S(k, u)
    BY <1>7, <1>13, <1>15
  <2>4. \A u \in M : N(k, H) # H /\ S(k, N(k, H)) <= S(k, u)
    BY <1>7, <1>14, <1>16
  <2> QED BY <1>17, <2>1, <2>2, <2>3, <2>4 DEF Ordered
<1> QED BY <1>11, <1>18 DEF Chain, K
-----------------------------------------------------------------------------
(* An area that could be merged with the one behind it is in A, or the one *)
(* behind it is in B.                                                      *)
Tidy(m, A, B) ==
  /\ Chain(m, Allocated(m))
  /\ \A v \in Allocated(m) : N(m, v) # H /\ CanMerge(m, v, N(m, v)) => v \in A \/ N(m, v) \in B

Merges(m, v) == N(m, v) # H /\ CanMerge(m, v, N(m, v))

LEMMA MergeNextIs ==
  ASSUME NEW m, NEW v, Merges(m, v)
  PROVE  LET w == N(m, v)
         IN  TryMergeNext(m, v) = [links |-> Del(m.links, w),
                                   area |-> [m.area EXCEPT ![v].end = m.area[w].end, ![w] = Nil]]
BY DEF Merges, TryMergeNext, NextOf, N, H

LEMMA MergedFields ==
  ASSUME NEW m, Chain(m, Allocated(m)), NEW v \in Allocated(m), Merges(m, v)
  PROVE  LET k == TryMergeNext(m, v)
             w == N(m, v)
         IN  /\ w \in Allocated(m) /\ w # v /\ k \in MM /\ Allocated(k) = Allocated(m) \ {w}
             /\ \A x \in Id : x # v /\ x # w => k.area[x] = m.area[x]
             /\ k.area[v] = [m.area[v] EXCEPT !.end = E(m, w)]
             /\ \A n \in Node : N(k, n) = IF n = w THEN Nil ELSE IF n = v THEN N(m, w) ELSE N(m, n)
             /\ \A n \in Node : Before(k, n) = IF n = w THEN Nil ELSE IF n = N(m, w) THEN v ELSE Before(m, n)
<1> DEFINE k == TryMergeNext(m, v)
           w == N(m, v)
           L == Allocated(m)
<1>1. w \in L /\ v \in Id /\ w \in Id /\ w # v
  <2>1. w \in L
    BY LinksAre DEF Chain, Merges
  <2>2. S(m, v) < E(m, v) /\ E(m, v) <= S(m, w)
    BY DEF Chain, Ordered, Merges
  <2> QED BY <2>1, <2>2, AreaIs DEF Chain, Shape
<1>2. k = [links |-> Del(m.links, w), area |-> [m.area EXCEPT ![v].end = m.area[w].end, ![w] = Nil]]
  BY MergeNextIs
<1>3. /\ m \in MM /\ m.links \in Links /\ m.area \in [Id -> Area \cup {Nil}]
      /\ Linked(m.links, L \cup {H}) /\ w \in Node /\ v \in Node /\ Before(m, w) = v
      /\ w \in L \cup {H} /\ N(m, w) \in Node
  <2>1. m \in MM /\ Linked(m.links, L \cup {H})
    BY DEF Chain, Shape
  <2>2. m.links \in Links /\ m.area \in [Id -> Area \cup {Nil}]
    BY <2>1 DEF MM
  <2>3. N(m, w) \in L \cup {H} /\ Before(m, w) = v /\ L \subseteq Node /\ H \in Node
    BY <1>1, LinksAre DEF Chain
  <2> HIDE DEF w
  <2> QED BY <1>1, <2>1, <2>2, <2>3
<1>4. Del(m.links, w) \in Links
  BY <1>3, DelKeepsLinks
<1>5. m.area[v] \in Area /\ E(m, w) \in Base .. Top
  BY <1>1, <1>3, AreaIs, VmaConstants
<1>6. [m.area[v] EXCEPT !.end = E(m, w)] \in Area
  BY <1>5 DEF Area
<1>7. /\ \A x \in Id : x # v /\ x # w => k.area[x] = m.area[x]
      /\ k.area[v] = [m.area[v] EXCEPT !.end = E(m, w)] /\ k.area[w] = Nil
  <2> HIDE DEF k, w
  <2> QED BY <1>1, <1>2, <1>3 DEF E
<1>8. k.area \in [Id -> Area \cup {Nil}]
  <2>1. k.area = [x \in Id |-> IF x = v THEN [m.area[v] EXCEPT !.end = E(m, w)]
                               ELSE IF x = w THEN Nil ELSE m.area[x]]
    <3> HIDE DEF k, w
    <3> QED BY <1>1, <1>2, <1>3 DEF E
  <2> HIDE DEF k, w
  <2> QED BY <1>3, <1>6, <2>1
<1>9. k \in MM /\ k.links = Del(m.links, w)
  <2> HIDE DEF w
  <2>1. k.links = Del(m.links, w) /\ k = [links |-> k.links, area |-> k.area]
    BY <1>2
  <2> HIDE DEF k
  <2> QED BY <1>4, <1>8, <2>1 DEF MM
<1>10. Allocated(k) = L \ {w}
  <2>1. \A x \in Id : x # w => (k.area[x] = Nil <=> m.area[x] = Nil)
    <3>1. k.area[v] # Nil
      <4> HIDE DEF k, w
      <4> QED BY <1>6, <1>7, VmaConstants
    <3>2. m.area[v] # Nil
      BY <1>5, VmaConstants
    <3> HIDE DEF k, w
    <3> QED BY <1>7, <3>1, <3>2
  <2> HIDE DEF k, w
  <2> QED BY <1>7, <2>1 DEF Allocated
<1>11. /\ \A n \in Node : N(k, n) = IF n = w THEN Nil ELSE IF n = v THEN N(m, w) ELSE N(m, n)
       /\ \A n \in Node : Before(k, n) = IF n = w THEN Nil ELSE IF n = N(m, w) THEN v ELSE Before(m, n)
  <2> DEFINE l == m.links
             b == Bypass(l, v, N(m, w))
  <2>1. Del(l, w) = [next |-> [b.next EXCEPT ![w] = Nil], prev |-> [b.prev EXCEPT ![w] = Nil]]
    BY <1>3 DEF Del, N, Before
  <2>2. l.next \in [Node -> Node \cup {Nil}] /\ l.prev \in [Node -> Node \cup {Nil}]
    BY <1>3 DEF Links
  <2>3. /\ Del(l, w).next = [[l.next EXCEPT ![v] = N(m, w)] EXCEPT ![w] = Nil]
        /\ Del(l, w).prev = [[l.prev EXCEPT ![N(m, w)] = v] EXCEPT ![w] = Nil]
    BY <2>1 DEF Bypass
  <2>4. \A n \in Node : N(k, n) = Del(l, w).next[n] /\ Before(k, n) = Del(l, w).prev[n]
                        /\ N(m, n) = l.next[n] /\ Before(m, n) = l.prev[n]
    <3> HIDE DEF k, w
    <3> QED BY <1>9 DEF N, Before
  <2> HIDE DEF k, w, l
  <2> QED BY <1>1, <1>3, <2>2, <2>3, <2>4
<1> HIDE DEF k, w
<1> QED BY <1>1, <1>7, <1>9, <1>10, <1>11 DEF k, w

LEMMA MergeKeepsChain ==
  ASSUME NEW m, Chain(m, Allocated(m)), NEW v \in Allocated(m), Merges(m, v)
  PROVE  Chain(TryMergeNext(m, v), Allocated(TryMergeNext(m, v)))
<1> DEFINE k == TryMergeNext(m, v)
           w == N(m, v)
           L == Allocated(m)
<1>1. /\ w \in L /\ w # v /\ k \in MM /\ Allocated(k) = L \ {w}
      /\ \A x \in Id : x # v /\ x # w => k.area[x] = m.area[x]
      /\ k.area[v] = [m.area[v] EXCEPT !.end = E(m, w)]
      /\ \A n \in Node : N(k, n) = IF n = w THEN Nil ELSE IF n = v THEN N(m, w) ELSE N(m, n)
      /\ \A n \in Node : Before(k, n) = IF n = w THEN Nil ELSE IF n = N(m, w) THEN v ELSE Before(m, n)
  BY MergedFields
<1>2. \A x \in L : S(m, x) \in Nat /\ E(m, x) \in Nat /\ S(m, x) < E(m, x) /\ m.area[x] \in Area /\ x \in Id /\ x \in Node
  BY AreaIs, VmaConstants DEF Chain, Shape, Ordered
<1>3. Before(m, w) = v /\ H \notin L
  BY LinksAre DEF Chain
<1>4. S(m, w) <= S(m, w)
  BY <1>1, <1>2
<1>5. Span(m, L, w, w) = {w}
  <2>1. \A x \in L : x # w => S(m, x) # S(m, w)
    BY <1>1 DEF Chain, Ordered
  <2> HIDE DEF k, w
  <2> QED BY <1>1, <1>2, <2>1 DEF Span
<1>6. E(m, v) <= S(m, w)
  BY DEF Chain, Ordered, Merges
<1>7. S(k, v) = S(m, v) /\ E(k, v) = E(m, w)
  <2>1. m.area[v] \in Area
    BY <1>2
  <2> HIDE DEF k, w
  <2> QED BY <1>1, <2>1 DEF S, E, Area
<1>8. ASSUME NEW x \in L \ {w}
      PROVE  /\ S(k, x) = S(m, x) /\ S(k, x) < E(k, x)
             /\ N(k, x) # H => E(k, x) <= S(m, N(k, x))
  <2>1. CASE x = v
    <3>1. N(k, v) = N(m, w)
      BY <1>1, <1>2
    <3>2. N(m, w) # H => E(m, w) <= S(m, N(m, w))
      BY <1>1 DEF Chain, Ordered
    <3> HIDE DEF k, w
    <3> QED BY <1>1, <1>2, <1>6, <1>7, <2>1, <3>1, <3>2
  <2>2. CASE x # v
    <3>1. N(k, x) = N(m, x) /\ S(k, x) = S(m, x) /\ E(k, x) = E(m, x)
      BY <1>1, <1>2, <2>2 DEF S, E
    <3>2. N(m, x) # H => E(m, x) <= S(m, N(m, x))
      BY DEF Chain, Ordered
    <3> HIDE DEF k, w
    <3> QED BY <1>2, <3>1, <3>2
  <2> QED BY <2>1, <2>2
<1> HIDE DEF k, w
<1>9. IsCut(m, L, w, w, k)
  BY <1>1, <1>3, <1>5, <1>8 DEF IsCut
<1>10. Chain(k, L \ {w})
  BY <1>1, <1>4, <1>5, <1>9, CutOut
<1> QED BY <1>1, <1>10 DEF k, w

(* After the attempt v cannot be merged with the area behind it.           *)
LEMMA MergeNext ==
  ASSUME NEW m, NEW A, NEW B, Tidy(m, A, B), NEW v \in Allocated(m), N(m, v) \notin A
  PROVE  LET k == TryMergeNext(m, v)
         IN  /\ Tidy(k, A \ {v}, B \ {N(m, v)}) /\ Allocated(k) \subseteq Allocated(m)
             /\ Allocated(m) \ {N(m, v)} \subseteq Allocated(k)
<1> DEFINE k == TryMergeNext(m, v)
           w == N(m, v)
           L == Allocated(m)
<1>1. Chain(m, L)
  BY DEF Tidy
<1>2. CASE ~ Merges(m, v)
  <2>1. k = m
    BY <1>2 DEF Merges, TryMergeNext, NextOf, N, H
  <2>2. Before(m, w) = v
    BY <1>1, LinksAre DEF Chain
  <2>3. \A x \in L : Before(m, N(m, x)) = x
    BY <1>1, LinksAre DEF Chain
  <2>4. Tidy(m, A \ {v}, B \ {w})
    BY <1>2, <2>2, <2>3 DEF Tidy, Merges
  <2> HIDE DEF k, w
  <2> QED BY <2>1, <2>4 DEF k, w
<1>3. CASE Merges(m, v)
  <2>1. /\ w \in L /\ w # v /\ k \in MM /\ Allocated(k) = L \ {w}
        /\ \A x \in Id : x # v /\ x # w => k.area[x] = m.area[x]
        /\ k.area[v] = [m.area[v] EXCEPT !.end = E(m, w)]
        /\ \A n \in Node : N(k, n) = IF n = w THEN Nil ELSE IF n = v THEN N(m, w) ELSE N(m, n)
    BY <1>1, <1>3, MergedFields
  <2>2. Chain(k, Allocated(k))
    BY <1>1, <1>3, MergeKeepsChain
  <2>3. \A x \in L : /\ N(m, x) \in L \cup {H} /\ Before(m, N(m, x)) = x /\ x \in Id /\ x \in Node
                     /\ m.area[x] \in Area
    BY <1>1, LinksAre, AreaIs DEF Chain, Shape
  <2>4. CanMerge(m, v, w)
    BY <1>3 DEF Merges
  <2>5. /\ k.area[v].start = m.area[v].start /\ k.area[v].end = m.area[w].end
        /\ k.area[v].flags = m.area[v].flags /\ k.area[v].prot = m.area[v].prot
    <3>1. m.area[v] \in Area
      BY <2>3
    <3> HIDE DEF k, w
    <3> QED BY <2>1, <3>1 DEF E, Area
  <2>6. ASSUME NEW x \in Allocated(k), N(k, x) # H, CanMerge(k, x, N(k, x))
        PROVE  x \in A \ {v} \/ N(k, x) \in B \ {w}
    <3>1. x \in L /\ x # w /\ x \in Id /\ x \in Node /\ N(k, x) # w
      <4>1. N(k, x) \in Allocated(k)
        BY <2>2, <2>6, LinksAre DEF Chain
      <4> HIDE DEF k, w
      <4> QED BY <2>1, <2>3, <4>1
    <3>2. CASE x = v
      <4> DEFINE y == N(m, w)
      <4>1. N(k, x) = y /\ y # H /\ y \in L /\ y # w
        <5> HIDE DEF k, w
        <5> QED BY <2>1, <2>3, <2>6, <3>1, <3>2
      <4>2. y # v
        <5>1. y \in Allocated(k)
          BY <2>1, <4>1
        <5>2. E(k, v) <= S(k, y) /\ S(k, v) < E(k, v)
          BY <2>2, <2>6, <3>2, <4>1 DEF Chain, Ordered
        <5>3. S(k, v) \in Nat /\ E(k, v) \in Nat
          BY <2>2, <2>6, <3>2, AreaIs DEF Chain, Shape
        <5> QED BY <5>2, <5>3
      <4>3. k.area[y] = m.area[y]
        BY <2>1, <2>3, <4>1, <4>2
      <4>4. CanMerge(m, w, y)
        <5> HIDE DEF k, w, y
        <5> QED BY <2>4, <2>5, <2>6, <3>2, <4>1, <4>3 DEF CanMerge
      <4>5. w \in A \/ y \in B
        BY <2>1, <4>1, <4>4 DEF Tidy
      <4> HIDE DEF k, w, y
      <4> QED BY <4>1, <4>5 DEF w
    <3>3. CASE x # v
      <4> DEFINE y == N(m, x)
      <4>1. N(k, x) = y /\ y # H /\ y \in L /\ y \in Id /\ y # w
        BY <2>1, <2>3, <2>6, <3>1, <3>3
      <4>2. k.area[x] = m.area[x] /\ k.area[y].start = m.area[y].start
            /\ k.area[y].flags = m.area[y].flags /\ k.area[y].prot = m.area[y].prot
        <5> HIDE DEF k, w, y
        <5> QED BY <2>1, <2>5, <3>1, <3>3, <4>1
      <4>3. CanMerge(m, x, y)
        <5> HIDE DEF k, w, y
        <5> QED BY <2>6, <4>1, <4>2 DEF CanMerge
      <4>4. x \in A \/ y \in B
        BY <3>1, <4>1, <4>3 DEF Tidy
      <4> HIDE DEF k, w, y
      <4> QED BY <3>3, <4>1, <4>4
    <3> QED BY <3>2, <3>3
  <2>7. Tidy(k, A \ {v}, B \ {w})
    <3> HIDE DEF k, w
    <3> QED BY <2>2, <2>6 DEF Tidy
  <2> HIDE DEF k, w
  <2> QED BY <2>1, <2>7 DEF k, w
<1> QED BY <1>2, <1>3

LEMMA MergePrev ==
  ASSUME NEW m, NEW B, Tidy(m, {}, B), NEW v \in Allocated(m)
  PROVE  LET k == TryMergePrev(m, v)
         IN  /\ Tidy(k, {}, B \ {v}) /\ Allocated(k) \subseteq Allocated(m)
             /\ Allocated(m) \ {v} \subseteq Allocated(k)
<1> DEFINE p == Before(m, v)
<1>1. p \in Allocated(m) \cup {H} /\ N(m, p) = v
  BY LinksAre DEF Chain, Tidy
<1>2. \A x \in Allocated(m) : Before(m, N(m, x)) = x /\ x # H
  BY LinksAre DEF Chain, Tidy
<1>3. CASE p = H
  <2>1. TryMergePrev(m, v) = m
    BY <1>3 DEF TryMergePrev, PrevOf, Before, H
  <2>2. \A x \in Allocated(m) : N(m, x) # v
    BY <1>2, <1>3
  <2>3. Tidy(m, {}, B \ {v})
    BY <2>2 DEF Tidy
  <2> QED BY <2>1, <2>3
<1>4. CASE p # H
  <2>1. TryMergePrev(m, v) = TryMergeNext(m, p)
    BY <1>4 DEF TryMergePrev, PrevOf, Before, H
  <2>2. p \in Allocated(m) /\ N(m, p) \notin {} /\ {} \ {p} = {}
    BY <1>1, <1>4
  <2> HIDE DEF p
  <2> QED BY <1>1, <2>1, <2>2, MergeNext
<1> QED BY <1>3, <1>4

(* vmem_vma_try_merge                                                      *)
LEMMA MergeBoth ==
  ASSUME NEW m, NEW A, NEW B, Tidy(m, A, B), NEW v \in Allocated(m), A \subseteq {v}, B \subseteq {v}
  PROVE  Tidy(TryMerge(m, v), {}, {})
<1> DEFINE k == TryMergeNext(m, v)
<1>1. N(m, v) # v
  <2>1. Chain(m, Allocated(m)) /\ H \notin Allocated(m)
    BY LinksAre DEF Tidy, Chain
  <2>2. S(m, v) < E(m, v) /\ (N(m, v) # H => E(m, v) <= S(m, N(m, v)))
    BY <2>1 DEF Chain, Ordered
  <2>3. S(m, v) \in Nat /\ E(m, v) \in Nat
    BY <2>1, AreaIs DEF Chain, Shape
  <2> QED BY <2>1, <2>2, <2>3
<1>2. Tidy(k, A \ {v}, B \ {N(m, v)}) /\ v \in Allocated(k)
  <2>1. N(m, v) \notin A
    BY <1>1
  <2> QED BY <1>1, <2>1, MergeNext
<1>3. A \ {v} = {} /\ (B \ {N(m, v)}) \ {v} = {}
  OBVIOUS
<1> HIDE DEF k
<1>4. Tidy(TryMergePrev(k, v), {}, {})
  BY <1>2, <1>3, MergePrev
<1> QED BY <1>4 DEF k, TryMerge
-----------------------------------------------------------------------------
(* How the areas of a range are found.                                     *)
LEMMA FindIs ==
  ASSUME NEW m, Chain(m, Allocated(m)), NEW a \in Nat, NEW len \in Nat
  PROVE  /\ FindVma(m, a, len) # Nil => /\ FindVma(m, a, len) \in Allocated(m)
                                        /\ a + Larger(len, 1) > S(m, FindVma(m, a, len))
                                        /\ a < E(m, FindVma(m, a, len))
         /\ FindVma(m, a, len) = Nil =>
              \A u \in Allocated(m) : a + Larger(len, 1) <= S(m, u) \/ E(m, u) <= a
<1> DEFINE L == Allocated(m)
           T == {v \in L : a + Larger(len, 1) > m.area[v].start /\ a < m.area[v].end}
           w == First(m, T)
<1>1. FindVma(m, a, len) = w
  BY DEF FindVma
<1>2. L \cap T = T
  OBVIOUS
<1>3. w = Nil <=> T = {}
  BY <1>2, FirstIs
<1>4. T # {} => w \in T
  BY <1>2, FirstIs
<1>5. \A u \in L : S(m, u) \in Nat /\ E(m, u) \in Nat
  BY AreaIs DEF Chain, Shape
<1>6. Larger(len, 1) \in Nat
  BY DEF Larger
<1>7. \A u : u \in T <=> u \in L /\ a + Larger(len, 1) > S(m, u) /\ a < E(m, u)
  BY DEF S, E
<1> HIDE DEF T, w
<1>8. CASE w = Nil
  <2>1. ASSUME NEW u \in L PROVE a + Larger(len, 1) <= S(m, u) \/ E(m, u) <= a
    BY <1>3, <1>5, <1>6, <1>7, <1>8
  <2> QED BY <1>1, <1>8, <2>1
<1>9. CASE w # Nil
  BY <1>1, <1>3, <1>4, <1>7, <1>9
<1> QED BY <1>8, <1>9

LEMMA LastIs ==
  ASSUME NEW m, Chain(m, Allocated(m)), NEW from \in Allocated(m), NEW end \in Nat, end > S(m, from)
  PROVE  LET to == LastOfRange(m, from, end)
         IN  to \in Allocated(m) /\ S(m, from) <= S(m, to) /\ S(m, to) < end
<1> DEFINE L == Allocated(m)
           T == {v \in L : /\ m.area[v].start >= m.area[from].start
                           /\ \/ end > m.area[v].start /\ end <= m.area[v].end
                              \/ NextOf(m, v) = VmaList
                              \/ NextOf(m, v) # VmaList /\ end <= m.area[NextOf(m, v)].start}
           to == First(m, T)
           z == Before(m, H)
<1>1. to = LastOfRange(m, from, end)
  BY DEF LastOfRange
<1>2. \A v : v \in T <=> /\ v \in L /\ S(m, v) >= S(m, from)
                         /\ \/ end > S(m, v) /\ end <= E(m, v)
                            \/ N(m, v) = H
                            \/ N(m, v) # H /\ end <= S(m, N(m, v))
  BY DEF S, E, N, NextOf, H
<1>3. L \cap T = T
  OBVIOUS
<1>4. \A u \in L : S(m, u) \in Nat /\ E(m, u) \in Nat /\ S(m, u) < E(m, u)
  BY AreaIs DEF Chain, Shape, Ordered
<1>5. /\ H \notin L
      /\ \A u \in L \cup {H} : N(m, u) \in L \cup {H} /\ Before(m, u) \in L \cup {H}
                               /\ N(m, Before(m, u)) = u
  BY LinksAre DEF Chain
<1> HIDE DEF T, to
<1>6. z \in L /\ N(m, z) = H
  <2>1. N(m, H) # H
    BY DEF Chain, Ordered
  <2> QED BY <1>5, <2>1
<1>7. S(m, from) <= S(m, z)
  <2>1. ~ (S(m, z) < S(m, from))
    BY <1>6 DEF Chain, Ordered
  <2> QED BY <1>4, <1>6, <2>1
<1>8. z \in T
  BY <1>2, <1>4, <1>6, <1>7
<1>9. to \in T /\ \A u \in T : u # to => S(m, to) < S(m, u)
  BY <1>3, <1>8, FirstIs DEF to
<1>10. to \in L /\ S(m, from) <= S(m, to)
  BY <1>2, <1>4, <1>9
<1>11. CASE to = from
  BY <1>1, <1>10, <1>11
<1>12. CASE to # from
  <2> DEFINE u == Before(m, to)
  <2>1. S(m, to) # S(m, from)
    BY <1>10, <1>12 DEF Chain, Ordered
  <2>2. u \in L \cup {H} /\ N(m, u) = to /\ to # H
    BY <1>5, <1>10
  <2>3. u # H
    <3>1. S(m, N(m, H)) <= S(m, from)
      BY DEF Chain, Ordered
    <3> QED BY <1>4, <1>10, <2>1, <2>2, <3>1
  <2> HIDE DEF u
  <2>4. S(m, u) < S(m, to)
    <3>1. E(m, u) <= S(m, to)
      BY <2>2, <2>3 DEF Chain, Ordered
    <3> QED BY <1>4, <1>10, <2>2, <2>3, <3>1
  <2>5. ~ (S(m, u) < S(m, from))
    <3>1. ASSUME S(m, u) < S(m, from) PROVE S(m, to) <= S(m, from)
      BY <2>2, <2>3, <3>1 DEF Chain, Ordered
    <3> QED BY <1>4, <1>10, <2>1, <3>1
  <2>6. u \notin T
    BY <1>4, <1>9, <1>10, <2>2, <2>3, <2>4
  <2>7. ~ (end <= S(m, to))
    BY <1>2, <1>4, <2>2, <2>3, <2>5, <2>6
  <2> QED BY <1>1, <1>4, <1>10, <2>7
<1> QED BY <1>11, <1>12

(* A range that begins in the area from and ends in the area to.           *)
Covers(m, r) ==
  /\ r.from \in Allocated(m) /\ r.to \in Allocated(m) /\ S(m, r.from) <= S(m, r.to)
  /\ r.addr \in Nat /\ S(m, r.from) <= r.addr /\ r.addr < E(m, r.from)
  /\ r.end \in Nat /\ S(m, r.to) < r.end /\ r.end <= E(m, r.to)
  /\ r.addr < r.end

LEMMA RangeIs ==
  ASSUME NEW m, Chain(m, Allocated(m)), NEW a \in Nat, NEW len \in Nat \ {0}, FindRange(m, a, len).err = "ok"
  PROVE  Covers(m, FindRange(m, a, len))
<1> DEFINE r == FindRange(m, a, len)
           from == FindVma(m, a, len)
           to == LastOfRange(m, from, a + len)
           L == Allocated(m)
<1>1. \A u \in L : S(m, u) \in Nat /\ E(m, u) \in Nat /\ S(m, u) < E(m, u)
  BY AreaIs DEF Chain, Shape, Ordered
<1>2. from # Nil
  BY DEF FindRange, RangeFrom
<1>3. r = CutRange(m, from, to, a, a + len)
  BY <1>2 DEF FindRange, RangeFrom
<1> HIDE DEF from, to, r
<1>4. /\ r.from = from /\ r.to = to
      /\ r.addr = Larger(a, S(m, from)) /\ r.end = Smaller(a + len, E(m, to))
  <2>1. r.err = "ok"
    BY DEF r
  <2> QED BY <1>3, <2>1 DEF CutRange, S, E
<1>5. from \in L /\ a + len > S(m, from) /\ a < E(m, from)
  <2>1. Larger(len, 1) = len
    BY DEF Larger
  <2> QED BY <1>2, <2>1, FindIs DEF from
<1>6. to \in L /\ S(m, from) <= S(m, to) /\ S(m, to) < a + len
  <2>1. a + len \in Nat
    OBVIOUS
  <2> QED BY <1>5, <2>1, LastIs DEF to
<1>7. r.addr \in Nat /\ S(m, from) <= r.addr /\ r.addr < E(m, from)
  BY <1>1, <1>4, <1>5 DEF Larger
<1>8. r.end \in Nat /\ S(m, to) < r.end /\ r.end <= E(m, to)
  BY <1>1, <1>4, <1>6 DEF Smaller
<1>9. E(m, from) <= E(m, to)
  <2>1. CASE S(m, from) < S(m, to)
    <3>1. E(m, from) <= S(m, to)
      BY <1>5, <1>6, <2>1, Disjoint
    <3> QED BY <1>1, <1>5, <1>6, <3>1
  <2>2. CASE S(m, from) = S(m, to)
    <3>1. from = to
      BY <1>5, <1>6, <2>2 DEF Chain, Ordered
    <3> QED BY <1>1, <1>5, <3>1
  <2> QED BY <1>1, <1>5, <1>6, <2>1, <2>2
<1>10. r.addr < r.end
  BY <1>1, <1>4, <1>5, <1>6, <1>7, <1>9 DEF Larger, Smaller
<1>11. Covers(m, r)
  BY <1>4, <1>5, <1>6, <1>7, <1>8, <1>10 DEF Covers
<1> QED BY <1>11 DEF r

(* The walk from one area to another.                                      *)
LEMMA SectionIs ==
  ASSUME NEW m, NEW L, Chain(m, L), NEW from \in L, NEW to \in L, S(m, from) <= S(m, to)
  PROVE  LET range == AreasOf(m, from, to)
         IN  /\ Len(range) \in Nat \ {0} /\ DOMAIN range = 1 .. Len(range)
             /\ ToSet(range) = Span(m, L, from, to)
             /\ Last(range) = to /\ range[Len(range)] = to
             /\ \A i \in 1 .. Len(range) : range[i] \in L
             /\ \A i, j \in 1 .. Len(range) : i # j => range[i] # range[j]
<1> DEFINE es == Listed(m)
           i0 == CHOOSE i \in DOMAIN es : es[i] = from
           j0 == CHOOSE i \in DOMAIN es : es[i] = to
           range == SubSeq(es, i0, j0)
<1>1. AreasOf(m, from, to) = range
  BY DEF AreasOf, Section
<1>2. /\ es \in Seq(L) /\ Len(es) \in Nat /\ DOMAIN es = 1 .. Len(es)
      /\ \A i \in 1 .. Len(es) : es[i] \in L
      /\ \A u \in L : \E i \in 1 .. Len(es) : es[i] = u
      /\ \A i, j \in 1 .. Len(es) : i < j => S(m, es[i]) < S(m, es[j])
  BY EntriesAre
<1>3. \A u \in L : S(m, u) \in Nat
  BY AreaIs DEF Chain, Shape
<1> HIDE DEF es
<1>4. i0 \in 1 .. Len(es) /\ es[i0] = from /\ j0 \in 1 .. Len(es) /\ es[j0] = to
  <2>1. \E i \in DOMAIN es : es[i] = from
    BY <1>2
  <2>2. \E i \in DOMAIN es : es[i] = to
    BY <1>2
  <2> QED BY <1>2, <2>1, <2>2
<1> HIDE DEF i0, j0
<1>5. \A i, j \in 1 .. Len(es) : S(m, es[i]) <= S(m, es[j]) => i <= j
  <2>1. ASSUME NEW i \in 1 .. Len(es), NEW j \in 1 .. Len(es), S(m, es[i]) <= S(m, es[j]), ~ (i <= j) PROVE FALSE
    <3>1. S(m, es[j]) < S(m, es[i])
      BY <1>2, <2>1
    <3> QED BY <1>2, <1>3, <2>1, <3>1
  <2> QED BY <2>1
<1>6. i0 <= j0
  BY <1>4, <1>5
<1>7. /\ range \in Seq(L) /\ Len(range) = j0 - i0 + 1
      /\ \A i \in 1 .. j0 - i0 + 1 : range[i] = es[i0 + i - 1]
  <2>1. i0 \in 1 .. Len(es) + 1 /\ j0 \in i0 - 1 .. Len(es)
    BY <1>2, <1>4, <1>6
  <2> QED BY <1>2, <1>4, <1>6, <2>1, SubSeqProperties
<1> HIDE DEF range
<1>8. Len(range) \in Nat \ {0} /\ DOMAIN range = 1 .. Len(range)
  BY <1>4, <1>6, <1>7, LenProperties
<1>9. Last(range) = to /\ range[Len(range)] = to
  <2>1. Len(range) \in 1 .. j0 - i0 + 1 /\ i0 + Len(range) - 1 = j0
    BY <1>4, <1>6, <1>7
  <2> QED BY <1>4, <1>7, <2>1 DEF Last
<1>10. \A i \in 1 .. Len(range) : i0 + i - 1 \in 1 .. Len(es) /\ i0 + i - 1 >= i0 /\ i0 + i - 1 <= j0
  BY <1>2, <1>4, <1>6, <1>7
<1>11. \A i \in 1 .. Len(range) : range[i] \in L
  BY <1>2, <1>7, <1>10
<1>12. ASSUME NEW i \in 1 .. Len(range), NEW j \in 1 .. Len(range), i # j PROVE range[i] # range[j]
  <2>1. i0 + i - 1 \in 1 .. Len(es) /\ i0 + j - 1 \in 1 .. Len(es) /\ i0 + i - 1 # i0 + j - 1
    BY <1>4, <1>10, <1>12
  <2>2. i0 + i - 1 < i0 + j - 1 \/ i0 + j - 1 < i0 + i - 1
    BY <2>1, <1>2
  <2>3. S(m, es[i0 + i - 1]) # S(m, es[i0 + j - 1])
    <3>1. S(m, es[i0 + i - 1]) \in Nat /\ S(m, es[i0 + j - 1]) \in Nat
      BY <1>2, <1>3, <2>1
    <3>2. \/ S(m, es[i0 + i - 1]) < S(m, es[i0 + j - 1])
          \/ S(m, es[i0 + j - 1]) < S(m, es[i0 + i - 1])
      BY <1>2, <2>1, <2>2
    <3> QED BY <3>1, <3>2
  <2> QED BY <1>7, <2>3
<1>13. ASSUME NEW u \in L, S(m, from) <= S(m, u), S(m, u) <= S(m, to) PROVE \E i \in 1 .. Len(range) : range[i] = u
  <2>1. PICK j \in 1 .. Len(es) : es[j] = u
    BY <1>2
  <2>2. i0 <= j /\ j <= j0
    BY <1>4, <1>5, <1>13, <2>1
  <2>3. j - i0 + 1 \in 1 .. Len(range) /\ i0 + (j - i0 + 1) - 1 = j
    BY <1>2, <1>4, <1>7, <2>1, <2>2
  <2>4. range[j - i0 + 1] = u
    BY <1>7, <2>1, <2>3
  <2> QED BY <2>3, <2>4
<1>14. ASSUME NEW i \in 1 .. Len(range) PROVE S(m, from) <= S(m, range[i]) /\ S(m, range[i]) <= S(m, to)
  <2> DEFINE j == i0 + i - 1
  <2>1. j \in 1 .. Len(es) /\ i0 <= j /\ j <= j0 /\ range[i] = es[j]
    BY <1>4, <1>7, <1>10
  <2> HIDE DEF j
  <2>2. i0 = j \/ i0 < j
    BY <1>4, <2>1
  <2>3. j = j0 \/ j < j0
    BY <1>4, <2>1
  <2>4. S(m, es[i0]) <= S(m, es[j])
    BY <1>2, <1>3, <1>4, <2>1, <2>2
  <2>5. S(m, es[j]) <= S(m, es[j0])
    BY <1>2, <1>3, <1>4, <2>1, <2>3
  <2> QED BY <1>4, <2>1, <2>4, <2>5
<1>15. ToSet(range) = Span(m, L, from, to)
  <2>1. \A u : u \in ToSet(range) <=> \E i \in 1 .. Len(range) : range[i] = u
    BY <1>8 DEF ToSet
  <2> QED BY <1>11, <1>13, <1>14, <2>1 DEF Span
<1> QED BY <1>1, <1>8, <1>9, <1>11, <1>12, <1>15
-----------------------------------------------------------------------------
(* How areas are split.                                                    *)
LEMMA NewIs ==
  ASSUME NEW m, Id \ Allocated(m) # {}
  PROVE  New(m) \in Id \ Allocated(m)
<1> DEFINE F == Id \ Allocated(m)
<1>1. F \in SUBSET Nat /\ NVma \in Nat /\ F # {}
  BY VmaConstants DEF Id
<1>2. PICK v \in F : \A w \in F : v <= w
  <2> HIDE DEF F
  <2> QED BY <1>1, Least
<1>3. v \in 1 .. NVma
  BY <1>2 DEF Id
<1>4. ASSUME NEW w \in 1 .. v - 1 PROVE m.area[w] # Nil
  <2>1. w \in Id /\ ~ (v <= w)
    BY <1>1, <1>3 DEF Id
  <2>2. w \notin F
    BY <1>2, <2>1
  <2> QED BY <2>1, <2>2 DEF Allocated
<1>5. v \in Id /\ m.area[v] = Nil
  BY <1>2 DEF Allocated
<1>6. New(m) \in Id /\ m.area[New(m)] = Nil
  BY <1>4, <1>5 DEF New
<1> QED BY <1>6 DEF Allocated

(* An area that is cut off behind a and not linked yet.                    *)
CutOff(m, v, a, w) == [m.area EXCEPT ![w] = [m.area[v] EXCEPT !.start = a], ![v].end = a]

LEMMA CutOffIs ==
  ASSUME NEW m, Chain(m, Allocated(m)), NEW v \in Allocated(m), NEW a \in Nat, S(m, v) < a, a < E(m, v),
         NEW w \in Id \ Allocated(m)
  PROVE  LET k == [m EXCEPT !.area = CutOff(m, v, a, w)]
         IN  /\ Chain(k, Allocated(m)) /\ Allocated(k) = Allocated(m) \cup {w} /\ k.links = m.links
             /\ k.area[w] = [m.area[v] EXCEPT !.start = a] /\ k.area[v] = [m.area[v] EXCEPT !.end = a]
             /\ \A x \in Id : x # v /\ x # w => k.area[x] = m.area[x]
             /\ S(k, w) = a /\ E(k, w) = E(m, v) /\ S(k, v) = S(m, v) /\ E(k, v) = a
<1> DEFINE k == [m EXCEPT !.area = CutOff(m, v, a, w)]
           L == Allocated(m)
<1>1. /\ v \in Id /\ w \in Id /\ v # w /\ m.area[v] \in Area /\ m.area[w] = Nil /\ m \in MM
      /\ S(m, v) \in Nat /\ E(m, v) \in Nat /\ Base <= S(m, v) /\ E(m, v) <= Top
  BY AreaIs DEF Chain, Shape, Allocated
<1>2. m.area \in [Id -> Area \cup {Nil}] /\ m.links \in Links /\ m = [links |-> m.links, area |-> m.area]
  BY <1>1 DEF MM
<1>3. a \in Base .. Top
  BY <1>1, VmaConstants
<1>4. [m.area[v] EXCEPT !.start = a] \in Area /\ [m.area[v] EXCEPT !.end = a] \in Area
  BY <1>1, <1>3 DEF Area
<1>5. k.area = CutOff(m, v, a, w) /\ k.links = m.links /\ k = [links |-> m.links, area |-> CutOff(m, v, a, w)]
  BY <1>2
<1>6. CutOff(m, v, a, w) = [x \in Id |-> IF x = w THEN [m.area[v] EXCEPT !.start = a]
                                         ELSE IF x = v THEN [m.area[v] EXCEPT !.end = a] ELSE m.area[x]]
  BY <1>1, <1>2 DEF CutOff
<1> HIDE DEF k
<1>7. /\ k.area[w] = [m.area[v] EXCEPT !.start = a] /\ k.area[v] = [m.area[v] EXCEPT !.end = a]
      /\ \A x \in Id : x # v /\ x # w => k.area[x] = m.area[x]
  BY <1>1, <1>5, <1>6
<1>8. k \in MM
  <2>1. CutOff(m, v, a, w) \in [Id -> Area \cup {Nil}]
    BY <1>2, <1>4, <1>6
  <2> QED BY <1>2, <1>5, <2>1 DEF MM
<1>9. S(k, w) = a /\ E(k, w) = E(m, v) /\ S(k, v) = S(m, v) /\ E(k, v) = a
  BY <1>1, <1>7 DEF S, E, Area
<1>10. Allocated(k) = L \cup {w}
  <2>1. k.area[w] # Nil /\ k.area[v] # Nil /\ m.area[v] # Nil
    BY <1>1, <1>4, <1>7, VmaConstants
  <2> QED BY <1>1, <1>7, <2>1 DEF Allocated
<1>11. ASSUME NEW x \in L
       PROVE  /\ S(k, x) = S(m, x) /\ S(k, x) < E(k, x)
              /\ N(m, x) # H => E(k, x) <= S(m, N(m, x))
  <2>1. S(m, x) < E(m, x) /\ (N(m, x) # H => E(m, x) <= S(m, N(m, x)))
    BY DEF Chain, Ordered
  <2>2. CASE x = v
    <3>1. N(m, v) # H => S(m, N(m, v)) \in Nat
      BY LinksAre, AreaIs DEF Chain, Shape
    <3> QED BY <1>1, <1>9, <2>1, <2>2, <3>1
  <2>3. CASE x # v
    <3>1. k.area[x] = m.area[x]
      BY <1>7, <2>3 DEF Allocated
    <3> QED BY <2>1, <3>1 DEF S, E
  <2> QED BY <2>2, <2>3
<1>12. Chain(k, L)
  BY <1>5, <1>8, <1>10, <1>11, SameStarts
<1> QED BY <1>5, <1>7, <1>9, <1>10, <1>12 DEF k

(* k is m after the part of v from a on became the area w.                 *)
IsSplit(m, v, a, w, k) ==
  /\ Chain(k, Allocated(k)) /\ Allocated(k) = Allocated(m) \cup {w}
  /\ k.area[w] = [m.area[v] EXCEPT !.start = a] /\ k.area[v] = [m.area[v] EXCEPT !.end = a]
  /\ \A x \in Id : x # v /\ x # w => k.area[x] = m.area[x]
  /\ \A x \in Node : N(k, x) = IF x = v THEN w ELSE IF x = w THEN N(m, v) ELSE N(m, x)
  /\ S(k, w) = a /\ E(k, w) = E(m, v) /\ S(k, v) = S(m, v) /\ E(k, v) = a

LEMMA SplitIs ==
  ASSUME NEW m, Chain(m, Allocated(m)), NEW v \in Allocated(m), NEW a \in Nat, S(m, v) < a, a < E(m, v),
         NEW w \in Id \ Allocated(m)
  PROVE  IsSplit(m, v, a, w, SplitAt(m, v, a, w))
<1> DEFINE j == [m EXCEPT !.area = CutOff(m, v, a, w)]
           k == [j EXCEPT !.links = Add(@, w, v)]
           L == Allocated(m)
<1>1. /\ Chain(j, L) /\ Allocated(j) = L \cup {w} /\ j.links = m.links
      /\ j.area[w] = [m.area[v] EXCEPT !.start = a] /\ j.area[v] = [m.area[v] EXCEPT !.end = a]
      /\ \A x \in Id : x # v /\ x # w => j.area[x] = m.area[x]
      /\ S(j, w) = a /\ E(j, w) = E(m, v) /\ S(j, v) = S(m, v) /\ E(j, v) = a
  BY CutOffIs
<1>2. SplitAt(m, v, a, w) = k
  <2>1. m \in MM /\ m = [links |-> m.links, area |-> m.area]
    BY DEF Chain, Shape, MM
  <2>2. j = [links |-> m.links, area |-> CutOff(m, v, a, w)]
    BY <2>1
  <2>3. k = [links |-> Add(m.links, w, v), area |-> CutOff(m, v, a, w)]
    <3> HIDE DEF j
    <3> QED BY <2>2
  <2>4. SplitAt(m, v, a, w) = [links |-> Add(m.links, w, v), area |-> CutOff(m, v, a, w)]
    BY DEF SplitAt, CutOff
  <2> HIDE DEF j, k
  <2> QED BY <2>3, <2>4
<1>3. \A x : N(j, x) = N(m, x)
  BY <1>1 DEF N
<1>4. N(m, v) # H => E(m, v) <= S(j, N(m, v))
  <2>1. N(m, v) # H => E(m, v) <= S(m, N(m, v))
    BY DEF Chain, Ordered
  <2>2. N(m, v) # H => N(m, v) \in L
    BY LinksAre DEF Chain
  <2>3. N(m, v) # v
    <3>1. v # H
      BY LinksAre DEF Chain
    <3>2. S(m, v) \in Nat /\ E(m, v) \in Nat /\ S(m, v) < E(m, v)
      BY AreaIs DEF Chain, Shape, Ordered
    <3> QED BY <2>1, <3>1, <3>2
  <2>4. N(m, v) # H => j.area[N(m, v)] = m.area[N(m, v)]
    <3> HIDE DEF j
    <3> QED BY <1>1, <2>2, <2>3 DEF Allocated
  <2> HIDE DEF j
  <2> QED BY <2>1, <2>4 DEF S
<1> HIDE DEF j
<1>5. w \in Allocated(j) \ L /\ v \in L \cup {H}
  BY <1>1
<1>6. S(j, w) < E(j, w) /\ (v # H => E(j, v) <= S(j, w)) /\ (N(j, v) # H => E(j, w) <= S(j, N(j, v)))
  BY <1>1, <1>3, <1>4
<1>7. /\ Chain(k, L \cup {w}) /\ k.area = j.area
      /\ \A x \in Node : N(k, x) = IF x = v THEN w ELSE IF x = w THEN N(j, v) ELSE N(j, x)
  BY <1>1, <1>5, <1>6, Added
<1> HIDE DEF k
<1>8. Allocated(k) = L \cup {w}
  BY <1>1, <1>7 DEF Allocated
<1>9. \A x : S(k, x) = S(j, x) /\ E(k, x) = E(j, x)
  <2>1. k.area = j.area
    BY <1>7
  <2> QED BY <2>1 DEF S, E
<1> QED BY <1>1, <1>2, <1>3, <1>7, <1>8, <1>9 DEF IsSplit

(* Only the two parts can be merged that were one area.                    *)
LEMMA SplitTidy ==
  ASSUME NEW m, NEW B, Tidy(m, {}, B), NEW v \in Allocated(m), NEW a \in Nat, S(m, v) < a, a < E(m, v),
         NEW w \in Id \ Allocated(m)
  PROVE  LET k == SplitAt(m, v, a, w)
         IN  Tidy(k, {v}, B) /\ Tidy(k, {}, B \cup {w})
<1> DEFINE k == SplitAt(m, v, a, w)
           L == Allocated(m)
<1>1. Chain(m, L)
  BY DEF Tidy
<1>2. /\ Chain(k, Allocated(k)) /\ Allocated(k) = L \cup {w}
      /\ k.area[w] = [m.area[v] EXCEPT !.start = a] /\ k.area[v] = [m.area[v] EXCEPT !.end = a]
      /\ \A x \in Id : x # v /\ x # w => k.area[x] = m.area[x]
      /\ \A x \in Node : N(k, x) = IF x = v THEN w ELSE IF x = w THEN N(m, v) ELSE N(m, x)
  BY <1>1, SplitIs DEF IsSplit
<1>3. \A x \in L : /\ N(m, x) \in L \cup {H} /\ x # H /\ x \in Id /\ x \in Node /\ x # w /\ m.area[x] \in Area
  <2>1. \A x \in L : N(m, x) \in L \cup {H} /\ x # H
    BY <1>1, LinksAre DEF Chain
  <2>2. \A x \in L : x \in Id /\ m.area[x] \in Area /\ x # w
    BY <1>1, AreaIs DEF Chain, Shape
  <2> QED BY <2>1, <2>2, VmaConstants
<1>4. w \in Node /\ w \in Id
  BY VmaConstants
<1> HIDE DEF k
<1>5. /\ k.area[v].start = m.area[v].start /\ k.area[v].prot = m.area[v].prot /\ k.area[v].flags = m.area[v].flags
      /\ k.area[w].end = m.area[v].end /\ k.area[w].prot = m.area[v].prot /\ k.area[w].flags = m.area[v].flags
  <2>1. m.area[v] \in Area
    BY <1>3
  <2> QED BY <1>2, <2>1 DEF Area
<1>6. \A y \in L : /\ k.area[y].start = m.area[y].start /\ k.area[y].prot = m.area[y].prot
                   /\ k.area[y].flags = m.area[y].flags
  BY <1>2, <1>3, <1>5
<1>7. ASSUME NEW x \in Allocated(k), N(k, x) # H, CanMerge(k, x, N(k, x))
      PROVE  (x = v /\ N(k, x) = w) \/ N(k, x) \in B
  <2>1. CASE x = w
    <3>1. N(k, x) = N(m, v) /\ N(m, v) \in L /\ N(m, v) # H
      BY <1>2, <1>3, <1>4, <1>7, <2>1
    <3>2. CanMerge(m, v, N(m, v))
      BY <1>5, <1>6, <1>7, <2>1, <3>1 DEF CanMerge
    <3> QED BY <3>1, <3>2 DEF Tidy
  <2>2. CASE x = v
    BY <1>2, <1>3, <2>2
  <2>3. CASE x # v /\ x # w
    <3>1. x \in L /\ N(k, x) = N(m, x) /\ N(m, x) \in L /\ N(m, x) # H /\ k.area[x] = m.area[x]
      BY <1>2, <1>3, <1>7, <2>3
    <3>2. CanMerge(m, x, N(m, x))
      BY <1>6, <1>7, <3>1 DEF CanMerge
    <3> QED BY <3>1, <3>2 DEF Tidy
  <2> QED BY <2>1, <2>2, <2>3
<1>8. Tidy(k, {v}, B) /\ Tidy(k, {}, B \cup {w})
  BY <1>2, <1>7 DEF Tidy
<1> QED BY <1>8 DEF k

LEMMA TidyMore ==
  ASSUME NEW m, NEW A, NEW B, NEW C, NEW D, Tidy(m, A, B), A \subseteq C, B \subseteq D
  PROVE  Tidy(m, C, D)
BY DEF Tidy

(* The split at the begin of the range.                                    *)
LeftDone(m, r, new, l) ==
  /\ Tidy(l.mm, {}, {l.from})
  /\ l.from \in Allocated(l.mm) /\ l.to \in Allocated(l.mm) /\ S(l.mm, l.from) <= S(l.mm, l.to)
  /\ S(l.mm, l.to) < r.end /\ r.end <= E(l.mm, l.to)
  /\ (l.used = 0 /\ l.mm = m) \/ (l.used = 1 /\ Allocated(l.mm) = Allocated(m) \cup {new})

LEMMA LeftIs ==
  ASSUME NEW m, Tidy(m, {}, {}), NEW r, Covers(m, r), NEW prot, NEW new,
         SplitLeft(m, r, prot, new).used # 0 => new \in Id \ Allocated(m)
  PROVE  LeftDone(m, r, new, SplitLeft(m, r, prot, new))
<1> DEFINE l == SplitLeft(m, r, prot, new)
           k == SplitAt(m, r.from, r.addr, new)
           L == Allocated(m)
<1>1. /\ r.from \in L /\ r.to \in L /\ S(m, r.from) <= S(m, r.to)
      /\ r.addr \in Nat /\ S(m, r.from) <= r.addr /\ r.addr < E(m, r.from)
      /\ r.end \in Nat /\ S(m, r.to) < r.end /\ r.end <= E(m, r.to) /\ r.addr < r.end
  BY DEF Covers
<1>2. Chain(m, L)
  BY DEF Tidy
<1>3. \A x \in L : S(m, x) \in Nat /\ E(m, x) \in Nat
  BY <1>2, AreaIs DEF Chain, Shape
<1>4. CASE NeedSplit(m, r.from, r.addr - m.area[r.from].start, prot)
  <2>1. l = [mm |-> k, from |-> new, to |-> IF r.from = r.to THEN new ELSE r.to, used |-> 1]
    BY <1>4 DEF SplitLeft
  <2>2. S(m, r.from) < r.addr
    <3>1. r.addr - S(m, r.from) > 0
      BY <1>4 DEF NeedSplit, S
    <3> QED BY <1>1, <1>3, <3>1
  <2>3. new \in Id \ L
    <3>1. l.used # 0
      BY <2>1
    <3> QED BY <3>1
  <2> HIDE DEF l
  <2>4. /\ Chain(k, Allocated(k)) /\ Allocated(k) = L \cup {new}
        /\ \A x \in Id : x # r.from /\ x # new => k.area[x] = m.area[x]
        /\ S(k, new) = r.addr /\ E(k, new) = E(m, r.from)
    <3>1. IsSplit(m, r.from, r.addr, new, k)
      BY <1>1, <1>2, <2>2, <2>3, SplitIs
    <3> QED BY <3>1 DEF IsSplit
  <2>5. Tidy(k, {}, {} \cup {new}) /\ {} \cup {new} = {new}
    <3>1. Tidy(k, {}, {} \cup {new})
      BY <1>1, <2>2, <2>3, SplitTidy
    <3> QED BY <3>1
  <2> HIDE DEF k
  <2>6. l.mm = k /\ l.from = new /\ l.used = 1 /\ l.to = IF r.from = r.to THEN new ELSE r.to
    BY <2>1
  <2>7. CASE r.from = r.to
    <3>1. l.to = new /\ S(k, new) < r.end /\ r.end <= E(k, new) /\ S(k, new) <= S(k, new)
      BY <1>1, <2>4, <2>6, <2>7
    <3> QED BY <2>4, <2>5, <2>6, <3>1 DEF l, LeftDone
  <2>8. CASE r.from # r.to
    <3>1. r.to \in Id /\ r.to # new /\ S(k, r.to) = S(m, r.to) /\ E(k, r.to) = E(m, r.to)
      BY <1>1, <2>3, <2>4, <2>8 DEF Allocated, S, E
    <3>2. S(m, r.from) < S(m, r.to)
      <4>1. S(m, r.from) # S(m, r.to)
        BY <1>1, <1>2, <2>8 DEF Chain, Ordered
      <4> QED BY <1>1, <1>3, <4>1
    <3>3. E(m, r.from) <= S(m, r.to)
      BY <1>1, <1>2, <3>2, Disjoint
    <3>4. r.addr <= S(m, r.to)
      BY <1>1, <1>3, <3>3
    <3>5. l.to = r.to
      BY <2>6, <2>8
    <3> QED BY <1>1, <2>4, <2>5, <2>6, <3>1, <3>4, <3>5 DEF l, LeftDone
  <2> QED BY <2>7, <2>8
<1>5. CASE ~ NeedSplit(m, r.from, r.addr - m.area[r.from].start, prot)
  <2>1. l = [mm |-> m, from |-> r.from, to |-> r.to, used |-> 0]
    BY <1>5 DEF SplitLeft
  <2>2. Tidy(m, {}, {r.from})
    BY TidyMore
  <2> HIDE DEF l
  <2>3. l.mm = m /\ l.from = r.from /\ l.to = r.to /\ l.used = 0
    BY <2>1
  <2>4. LeftDone(m, r, new, l)
    <3>1. Tidy(l.mm, {}, {l.from})
      BY <2>2, <2>3
    <3>2. l.from \in Allocated(l.mm) /\ l.to \in Allocated(l.mm) /\ S(l.mm, l.from) <= S(l.mm, l.to)
      BY <1>1, <2>3
    <3>3. S(l.mm, l.to) < r.end /\ r.end <= E(l.mm, l.to)
      BY <1>1, <2>3
    <3> QED BY <2>3, <3>1, <3>2, <3>3 DEF LeftDone
  <2> QED BY <2>4 DEF l
<1> QED BY <1>4, <1>5

(* What a split leaves: only the areas at the ends of the range may be     *)
(* mergeable with what lies outside.                                       *)
SplitDone(r) ==
  /\ Tidy(r.mm, {r.to}, {r.from})
  /\ r.from \in Allocated(r.mm) /\ r.to \in Allocated(r.mm) /\ S(r.mm, r.from) <= S(r.mm, r.to)

LEMMA RightIs ==
  ASSUME NEW l, Tidy(l.mm, {}, {l.from}),
         l.from \in Allocated(l.mm), l.to \in Allocated(l.mm), S(l.mm, l.from) <= S(l.mm, l.to),
         NEW r, r.end \in Nat, S(l.mm, l.to) < r.end, r.end <= E(l.mm, l.to),
         NEW prot, NEW mem, mem # l.used => New(l.mm) \in Id \ Allocated(l.mm)
  PROVE  LET s == SplitRight(l, r, prot, mem)
         IN  /\ s.err = "ok" => SplitDone(s)
             /\ s.err # "ok" => Tidy(s.mm, {}, {})
<1> DEFINE s == SplitRight(l, r, prot, mem)
           k == SplitAt(l.mm, l.to, r.end, New(l.mm))
           right == NeedSplit(l.mm, l.to, l.mm.area[l.to].end - r.end, prot)
           L == Allocated(l.mm)
<1>1. Chain(l.mm, L)
  BY DEF Tidy
<1>2. S(l.mm, l.to) \in Nat /\ E(l.mm, l.to) \in Nat
  BY <1>1, AreaIs DEF Chain, Shape
<1>3. CASE right /\ mem = l.used
  <2>1. s = [err |-> "ENOMEM", mm |-> UndoSplit(l.mm, l.from)]
    BY <1>3 DEF SplitRight
  <2>2. Tidy(TryMerge(l.mm, l.from), {}, {})
    BY MergeBoth
  <2> HIDE DEF s
  <2> QED BY <2>1, <2>2 DEF UndoSplit, s
<1>4. CASE right /\ mem # l.used
  <2>1. s = [err |-> "ok", from |-> l.from, to |-> l.to, addr |-> r.addr, end |-> r.end, mm |-> k]
    BY <1>4 DEF SplitRight
  <2>2. r.end < E(l.mm, l.to)
    <3>1. E(l.mm, l.to) - r.end > 0
      BY <1>4 DEF NeedSplit, E
    <3> QED BY <1>2, <3>1
  <2>3. New(l.mm) \in Id \ L
    BY <1>4
  <2>4. Tidy(k, {l.to}, {l.from})
    BY <2>2, <2>3, SplitTidy
  <2>5. /\ Allocated(k) = L \cup {New(l.mm)} /\ S(k, l.to) = S(l.mm, l.to)
        /\ \A x \in Id : x # l.to /\ x # New(l.mm) => k.area[x] = l.mm.area[x]
    <3>1. IsSplit(l.mm, l.to, r.end, New(l.mm), k)
      BY <1>1, <2>2, <2>3, SplitIs
    <3> QED BY <3>1 DEF IsSplit
  <2> HIDE DEF k, s
  <2>6. S(k, l.from) = S(l.mm, l.from)
    <3>1. l.from \in Id /\ l.from # New(l.mm)
      BY <2>3 DEF Allocated
    <3> QED BY <2>5, <3>1 DEF S
  <2>7. SplitDone(s)
    BY <2>1, <2>4, <2>5, <2>6 DEF SplitDone
  <2> QED BY <2>1, <2>7 DEF s
<1>5. CASE ~ right
  <2>1. s = [err |-> "ok", from |-> l.from, to |-> l.to, addr |-> r.addr, end |-> r.end, mm |-> l.mm]
    BY <1>5 DEF SplitRight
  <2>2. Tidy(l.mm, {l.to}, {l.from})
    BY TidyMore
  <2> HIDE DEF s
  <2>3. SplitDone(s)
    BY <2>1, <2>2 DEF SplitDone
  <2> QED BY <2>1, <2>3 DEF s
<1> QED BY <1>3, <1>4, <1>5

(* There are structures for the splits that mem allows.                    *)
LEMMA MemLeft ==
  ASSUME NEW m, NEW mem \in Kmallocs(m)
  PROVE  /\ mem \in Nat /\ mem <= 2
         /\ mem # 0 => New(m) \in Id \ Allocated(m)
         /\ \A k : mem = 2 /\ Allocated(k) = Allocated(m) \cup {New(m)} => New(k) \in Id \ Allocated(k)
<1> DEFINE F == Id \ Allocated(m)
<1>1. IsFiniteSet(F) /\ Cardinality(F) \in Nat
  <2>1. IsFiniteSet(1 .. NVma)
    BY FS_Interval, VmaConstants
  <2> QED BY <2>1, FS_Subset, FS_CardinalityType DEF Id
<1>2. mem \in Nat /\ mem <= 2 /\ mem <= Cardinality(F)
  BY <1>1 DEF Kmallocs, Smaller
<1>3. mem # 0 => New(m) \in F
  <2>1. ASSUME mem # 0 PROVE F # {}
    BY <1>1, <1>2, <2>1, FS_EmptySet
  <2> QED BY <2>1, NewIs
<1>4. ASSUME NEW k, mem = 2, Allocated(k) = Allocated(m) \cup {New(m)} PROVE New(k) \in Id \ Allocated(k)
  <2>1. New(m) \in F /\ Id \ Allocated(k) = F \ {New(m)}
    BY <1>3, <1>4
  <2>2. Cardinality(F \ {New(m)}) = Cardinality(F) - 1
    BY <1>1, <2>1, FS_RemoveElement
  <2>3. F \ {New(m)} # {}
    <3>1. Cardinality(F \ {New(m)}) >= 1
      BY <1>1, <1>2, <1>4, <2>2
    <3>2. Cardinality({}) = 0
      BY FS_EmptySet
    <3> QED BY <3>1, <3>2
  <2> HIDE DEF F
  <2> QED BY <2>1, <2>3, NewIs
<1> QED BY <1>2, <1>3, <1>4

(* vmem_split_vma                                                          *)
LEMMA SplitVmaIs ==
  ASSUME NEW m, Tidy(m, {}, {}), NEW a \in Nat, NEW len \in Nat \ {0}, NEW prot, NEW mem \in Kmallocs(m)
  PROVE  LET s == SplitVma(m, a, len, prot, mem)
         IN  /\ s.err = "ok" => SplitDone(s)
             /\ s.err # "ok" => Tidy(s.mm, {}, {})
<1> DEFINE s == SplitVma(m, a, len, prot, mem)
           r == FindRange(m, a, len)
           l == SplitLeft(m, r, prot, New(m))
           F == Id \ Allocated(m)
<1>2. /\ mem \in Nat /\ mem <= 2
      /\ mem # 0 => New(m) \in F
      /\ \A k : mem = 2 /\ Allocated(k) = Allocated(m) \cup {New(m)} => New(k) \in Id \ Allocated(k)
  BY MemLeft
<1>3. Chain(m, Allocated(m))
  BY DEF Tidy
<1>4. s = SplitRange(m, r, prot, mem)
  BY DEF SplitVma
<1> HIDE DEF r
<1>5. CASE r.err # "ok"
  <2>1. s = [err |-> r.err, mm |-> m]
    BY <1>4, <1>5 DEF SplitRange
  <2> HIDE DEF s
  <2> QED BY <1>5, <2>1 DEF s
<1>6. CASE r.err = "ok"
  <2>1. s = SplitBoth(m, l, r, prot, mem)
    BY <1>4, <1>6 DEF SplitRange
  <2>2. Covers(m, r)
    BY <1>3, <1>6, RangeIs DEF r
  <2>3. l.used \in {0, 1}
    BY DEF SplitLeft
  <2> HIDE DEF s
  <2>4. CASE mem < l.used
    <3>1. s = [err |-> "ENOMEM", mm |-> m]
      BY <2>1, <2>4 DEF SplitBoth
    <3> QED BY <3>1 DEF s
  <2>5. CASE ~ (mem < l.used)
    <3>1. s = SplitRight(l, r, prot, mem)
      BY <2>1, <2>5 DEF SplitBoth
    <3> HIDE DEF l
    <3>3. l.used # 0 => New(m) \in F
      BY <1>2, <2>3, <2>5
    <3>4. /\ Tidy(l.mm, {}, {l.from})
          /\ l.from \in Allocated(l.mm) /\ l.to \in Allocated(l.mm) /\ S(l.mm, l.from) <= S(l.mm, l.to)
          /\ S(l.mm, l.to) < r.end /\ r.end <= E(l.mm, l.to)
          /\ (l.used = 0 /\ l.mm = m) \/ (l.used = 1 /\ Allocated(l.mm) = Allocated(m) \cup {New(m)})
      <4>1. LeftDone(m, r, New(m), l)
        BY <2>2, <3>3, LeftIs DEF l
      <4> QED BY <4>1 DEF LeftDone
    <3>5. ASSUME mem # l.used PROVE New(l.mm) \in Id \ Allocated(l.mm)
      <4>1. mem > l.used
        BY <1>2, <2>3, <2>5, <3>5
      <4>2. CASE l.used = 0 /\ l.mm = m
        BY <1>2, <4>1, <4>2
      <4>3. CASE l.used = 1 /\ Allocated(l.mm) = Allocated(m) \cup {New(m)}
        <5>1. mem = 2
          BY <1>2, <4>1, <4>3
        <5> QED BY <1>2, <4>3, <5>1
      <4> QED BY <3>4, <4>2, <4>3
    <3>6. r.end \in Nat
      BY <2>2 DEF Covers
    <3>7. /\ SplitRight(l, r, prot, mem).err = "ok" => SplitDone(SplitRight(l, r, prot, mem))
          /\ SplitRight(l, r, prot, mem).err # "ok" => Tidy(SplitRight(l, r, prot, mem).mm, {}, {})
      BY <3>4, <3>5, <3>6, RightIs
    <3> QED BY <3>1, <3>7 DEF s
  <2> QED BY <2>4, <2>5
<1> QED BY <1>5, <1>6
-----------------------------------------------------------------------------
(* What the areas say of an address: the attributes of the area it lies in *)
(* if any.  The calls are followed on these sets.                          *)
Kind(m, v) == [prot |-> m.area[v].prot, flags |-> m.area[v].flags]

At(m, v, x) == S(m, v) <= x /\ x < E(m, v)

View(m, x) == {Kind(m, v) : v \in {v \in Allocated(m) : At(m, v, x)}}

(* Areas begin and end at pages.                                           *)
OnPages(m) == \A v \in Allocated(m) : Aligned(S(m, v)) /\ Aligned(E(m, v))

(* The areas of k are cut differently but say the same as those of m.      *)
Same(m, k) ==
  /\ \A x \in Nat : View(k, x) = View(m, x)
  /\ OnPages(m) => OnPages(k)

LEMMA SameAgain ==
  ASSUME NEW m, NEW k, NEW j, Same(m, k), Same(k, j)
  PROVE  Same(m, j)
BY DEF Same

LEMMA SameSelf == \A m : Same(m, m)
BY DEF Same

LEMMA ViewHas ==
  ASSUME NEW m, NEW x, NEW z
  PROVE  z \in View(m, x) <=> \E v \in Allocated(m) : At(m, v, x) /\ z = Kind(m, v)
BY DEF View

(* An address lies in one area at most.                                    *)
LEMMA OneAt ==
  ASSUME NEW m, NEW L, Chain(m, L), NEW u \in L, NEW v \in L, NEW x \in Nat, At(m, u, x), At(m, v, x)
  PROVE  u = v
<1>1. S(m, u) \in Nat /\ E(m, u) \in Nat /\ S(m, v) \in Nat /\ E(m, v) \in Nat
  BY AreaIs DEF Chain, Shape
<1>2. S(m, u) <= x /\ x < E(m, u) /\ S(m, v) <= x /\ x < E(m, v)
  BY DEF At
<1>3. ~ (S(m, u) < S(m, v))
  <2>1. S(m, u) < S(m, v) => E(m, u) <= S(m, v)
    BY Disjoint
  <2> QED BY <1>1, <1>2, <2>1
<1>4. ~ (S(m, v) < S(m, u))
  <2>1. S(m, v) < S(m, u) => E(m, v) <= S(m, u)
    BY Disjoint
  <2> QED BY <1>1, <1>2, <2>1
<1>5. S(m, u) = S(m, v)
  BY <1>1, <1>3, <1>4
<1> QED BY <1>5 DEF Chain, Ordered

LEMMA ViewOf ==
  ASSUME NEW m, Chain(m, Allocated(m)), NEW v \in Allocated(m), NEW x \in Nat, At(m, v, x)
  PROVE  View(m, x) = {Kind(m, v)}
<1>1. \A u \in Allocated(m) : At(m, u, x) <=> u = v
  BY OneAt
<1>2. ASSUME NEW z PROVE z \in View(m, x) <=> z = Kind(m, v)
  BY <1>1, ViewHas
<1> QED BY <1>2

(* A merge takes nothing away and adds nothing.                            *)
LEMMA MergeNextSame ==
  ASSUME NEW m, Chain(m, Allocated(m)), NEW v \in Allocated(m)
  PROVE  Same(m, TryMergeNext(m, v))
<1> DEFINE k == TryMergeNext(m, v)
           w == N(m, v)
           L == Allocated(m)
<1>1. CASE ~ Merges(m, v)
  <2>1. k = m
    BY <1>1 DEF Merges, TryMergeNext, NextOf, N, H
  <2> QED BY <2>1, SameSelf
<1>2. CASE Merges(m, v)
  <2>1. /\ w \in L /\ w # v /\ Allocated(k) = L \ {w}
        /\ \A x \in Id : x # v /\ x # w => k.area[x] = m.area[x]
        /\ k.area[v] = [m.area[v] EXCEPT !.end = E(m, w)]
    BY <1>2, MergedFields
  <2>2. /\ E(m, v) = S(m, w) /\ Kind(m, v) = Kind(m, w)
    BY <1>2 DEF Merges, CanMerge, S, E, Kind
  <2>3. \A x \in L : S(m, x) \in Nat /\ E(m, x) \in Nat /\ S(m, x) < E(m, x) /\ m.area[x] \in Area /\ x \in Id
    BY AreaIs DEF Chain, Shape, Ordered
  <2> HIDE DEF k, w
  <2>4. /\ S(k, v) = S(m, v) /\ E(k, v) = E(m, w) /\ Kind(k, v) = Kind(m, v)
    BY <2>1, <2>3 DEF S, E, Kind, Area
  <2>5. \A u \in L \ {v, w} : S(k, u) = S(m, u) /\ E(k, u) = E(m, u) /\ Kind(k, u) = Kind(m, u)
    BY <2>1, <2>3 DEF S, E, Kind
  <2>6. ASSUME NEW x \in Nat PROVE View(k, x) = View(m, x)
    <3>1. At(k, v, x) <=> At(m, v, x) \/ At(m, w, x)
      BY <2>1, <2>2, <2>3, <2>4 DEF At
    <3>2. \A u \in L \ {v, w} : At(k, u, x) <=> At(m, u, x)
      BY <2>5 DEF At
    <3>3. ASSUME NEW z PROVE z \in View(k, x) <=> z \in View(m, x)
      <4>1. z \in View(k, x) <=> \E u \in L \ {w} : At(k, u, x) /\ z = Kind(k, u)
        BY <2>1, ViewHas
      <4>2. z \in View(m, x) <=> \E u \in L : At(m, u, x) /\ z = Kind(m, u)
        BY ViewHas
      <4>3. (\E u \in L \ {w} : At(k, u, x) /\ z = Kind(k, u))
            <=> (At(k, v, x) /\ z = Kind(m, v)) \/ (\E u \in L \ {v, w} : At(m, u, x) /\ z = Kind(m, u))
        BY <2>1, <2>4, <2>5, <3>2
      <4>4. (\E u \in L : At(m, u, x) /\ z = Kind(m, u))
            <=> \/ (At(m, v, x) \/ At(m, w, x)) /\ z = Kind(m, v)
                \/ \E u \in L \ {v, w} : At(m, u, x) /\ z = Kind(m, u)
        BY <2>1, <2>2
      <4> QED BY <3>1, <4>1, <4>2, <4>3, <4>4
    <3> QED BY <3>3
  <2>7. ASSUME OnPages(m) PROVE OnPages(k)
    BY <2>1, <2>4, <2>5, <2>7 DEF OnPages
  <2> QED BY <2>6, <2>7 DEF Same, k
<1> QED BY <1>1, <1>2

LEMMA MergePrevSame ==
  ASSUME NEW m, Chain(m, Allocated(m)), NEW v \in Allocated(m)
  PROVE  Same(m, TryMergePrev(m, v))
<1>1. CASE PrevOf(m, v) = VmaList
  BY <1>1, SameSelf DEF TryMergePrev
<1>2. CASE PrevOf(m, v) # VmaList
  <2>1. PrevOf(m, v) \in Allocated(m)
    BY <1>2, LinksAre DEF Chain, PrevOf, Before, H
  <2> QED BY <1>2, <2>1, MergeNextSame DEF TryMergePrev
<1> QED BY <1>1, <1>2

LEMMA MergeBothSame ==
  ASSUME NEW m, NEW A, NEW B, Tidy(m, A, B), NEW v \in Allocated(m), A \subseteq {v}
  PROVE  Same(m, TryMerge(m, v))
<1> DEFINE k == TryMergeNext(m, v)
<1>1. Chain(m, Allocated(m))
  BY DEF Tidy
<1>2. N(m, v) # v
  <2>1. H \notin Allocated(m)
    BY <1>1, LinksAre DEF Chain
  <2>2. S(m, v) < E(m, v) /\ (N(m, v) # H => E(m, v) <= S(m, N(m, v)))
    BY <1>1 DEF Chain, Ordered
  <2>3. S(m, v) \in Nat /\ E(m, v) \in Nat
    BY <1>1, AreaIs DEF Chain, Shape
  <2> QED BY <2>1, <2>2, <2>3
<1>3. N(m, v) \notin A
  BY <1>2
<1>4. Chain(k, Allocated(k)) /\ v \in Allocated(k)
  <2>1. Tidy(k, A \ {v}, B \ {N(m, v)}) /\ Allocated(m) \ {N(m, v)} \subseteq Allocated(k)
    BY <1>3, MergeNext
  <2> QED BY <1>2, <2>1 DEF Tidy
<1>5. Same(m, k)
  BY <1>1, MergeNextSame
<1> HIDE DEF k
<1>6. Same(k, TryMergePrev(k, v))
  BY <1>4, MergePrevSame
<1> QED BY <1>5, <1>6, SameAgain DEF k, TryMerge

(* Nor does a split.                                                       *)
LEMMA SplitSame ==
  ASSUME NEW m, Chain(m, Allocated(m)), NEW v \in Allocated(m), NEW a \in Nat, S(m, v) < a, a < E(m, v),
         NEW w \in Id \ Allocated(m), Aligned(a)
  PROVE  LET k == SplitAt(m, v, a, w)
         IN  Same(m, k) /\ Kind(k, v) = Kind(m, v) /\ Kind(k, w) = Kind(m, v)
<1> DEFINE k == SplitAt(m, v, a, w)
           L == Allocated(m)
<1>1. /\ Allocated(k) = L \cup {w}
      /\ k.area[w] = [m.area[v] EXCEPT !.start = a] /\ k.area[v] = [m.area[v] EXCEPT !.end = a]
      /\ \A x \in Id : x # v /\ x # w => k.area[x] = m.area[x]
      /\ S(k, w) = a /\ E(k, w) = E(m, v) /\ S(k, v) = S(m, v) /\ E(k, v) = a
  BY SplitIs DEF IsSplit
<1>2. \A x \in L : S(m, x) \in Nat /\ E(m, x) \in Nat /\ m.area[x] \in Area /\ x \in Id /\ x # w
  BY AreaIs DEF Chain, Shape
<1> HIDE DEF k
<1>3. Kind(k, v) = Kind(m, v) /\ Kind(k, w) = Kind(m, v)
  BY <1>1, <1>2 DEF Kind, Area
<1>4. \A u \in L \ {v} : S(k, u) = S(m, u) /\ E(k, u) = E(m, u) /\ Kind(k, u) = Kind(m, u)
  BY <1>1, <1>2 DEF S, E, Kind
<1>5. ASSUME NEW x \in Nat PROVE View(k, x) = View(m, x)
  <2>1. At(k, v, x) \/ At(k, w, x) <=> At(m, v, x)
    BY <1>1, <1>2 DEF At
  <2>2. \A u \in L \ {v} : At(k, u, x) <=> At(m, u, x)
    BY <1>4 DEF At
  <2>3. ASSUME NEW z PROVE z \in View(k, x) <=> z \in View(m, x)
    <3>1. z \in View(k, x) <=> \E u \in L \cup {w} : At(k, u, x) /\ z = Kind(k, u)
      BY <1>1, ViewHas
    <3>2. z \in View(m, x) <=> \E u \in L : At(m, u, x) /\ z = Kind(m, u)
      BY ViewHas
    <3>3. (\E u \in L \cup {w} : At(k, u, x) /\ z = Kind(k, u))
          <=> \/ (At(k, v, x) \/ At(k, w, x)) /\ z = Kind(m, v)
              \/ \E u \in L \ {v} : At(m, u, x) /\ z = Kind(m, u)
      BY <1>3, <1>4, <2>2
    <3>4. (\E u \in L : At(m, u, x) /\ z = Kind(m, u))
          <=> \/ At(m, v, x) /\ z = Kind(m, v)
              \/ \E u \in L \ {v} : At(m, u, x) /\ z = Kind(m, u)
      OBVIOUS
    <3> QED BY <2>1, <3>1, <3>2, <3>3, <3>4
  <2> QED BY <2>3
<1>6. ASSUME OnPages(m) PROVE OnPages(k)
  BY <1>1, <1>4, <1>6 DEF OnPages
<1> QED BY <1>3, <1>5, <1>6 DEF Same, k
-----------------------------------------------------------------------------
(* Which pages a range has areas of.                                       *)
LEMMA DivMod ==
  ASSUME NEW x \in Nat, NEW p \in Nat \ {0}
  PROVE  /\ x \div p \in Nat /\ x % p \in Nat /\ x % p < p
         /\ x = p * (x \div p) + (x % p)
OBVIOUS

LEMMA TimesGrows ==
  ASSUME NEW n \in Nat, NEW x \in Nat, NEW y \in Nat, x <= y
  PROVE  n * x \in Nat /\ n * y \in Nat /\ n * x <= n * y
<1> DEFINE d == y - x
<1>1. d \in Nat /\ y = x + d
  OBVIOUS
<1> HIDE DEF d
<1>2. n * y = n * x + n * d
  BY <1>1
<1>3. n * x \in Nat /\ n * d \in Nat
  BY <1>1
<1> QED BY <1>2, <1>3

LEMMA AlignedIs ==
  ASSUME NEW e \in Nat, Aligned(e)
  PROVE  e \div PageSize \in Nat /\ e = PageSize * (e \div PageSize)
<1>1. PageSize \in Nat \ {0} /\ e % PageSize = 0
  BY VmaConstants DEF Aligned
<1>2. e \div PageSize \in Nat /\ e = PageSize * (e \div PageSize) + (e % PageSize)
  BY <1>1, DivMod
<1>3. PageSize * (e \div PageSize) \in Nat
  BY <1>1, <1>2
<1> QED BY <1>1, <1>2, <1>3

(* Behind the begin of a page, a multiple of the page size is its end or   *)
(* more.                                                                   *)
LEMMA NextPage ==
  ASSUME NEW e \in Nat, Aligned(e), NEW p \in Nat, p * PageSize < e
  PROVE  (p + 1) * PageSize <= e
<1> DEFINE q == e \div PageSize
<1>1. q \in Nat /\ e = PageSize * q /\ PageSize \in Nat
  BY AlignedIs, VmaConstants
<1> HIDE DEF q
<1>2. ASSUME q <= p PROVE FALSE
  <2>1. PageSize * q <= PageSize * p /\ PageSize * p \in Nat
    BY <1>1, <1>2, TimesGrows
  <2>2. PageSize * p = p * PageSize
    BY <1>1
  <2> QED BY <1>1, <2>1, <2>2
<1>3. p + 1 <= q /\ p + 1 \in Nat
  BY <1>1, <1>2
<1>4. PageSize * (p + 1) <= PageSize * q
  BY <1>1, <1>3, TimesGrows
<1>5. PageSize * (p + 1) = (p + 1) * PageSize
  BY <1>1
<1> QED BY <1>1, <1>4, <1>5

LEMMA PageIs ==
  ASSUME NEW p \in Page
  PROVE  /\ p \in Nat /\ p * PageSize \in Nat /\ (p + 1) * PageSize \in Nat
         /\ p * PageSize < (p + 1) * PageSize
<1>1. PageSize \in Nat \ {0} /\ Base \in Nat /\ Top \in Nat
  BY VmaConstants
<1>2. Base \div PageSize \in Nat /\ Top \div PageSize \in Nat
  BY <1>1, DivMod
<1>3. p \in Nat
  BY <1>2 DEF Page
<1>4. p * PageSize \in Nat /\ (p + 1) * PageSize = p * PageSize + PageSize
  BY <1>1, <1>3
<1> QED BY <1>1, <1>3, <1>4

LEMMA FindLeast ==
  ASSUME NEW m, Chain(m, Allocated(m)), NEW a \in Nat, NEW len \in Nat \ {0}, FindVma(m, a, len) # Nil,
         NEW u \in Allocated(m), S(m, u) < a + len, a < E(m, u)
  PROVE  S(m, FindVma(m, a, len)) <= S(m, u)
<1> DEFINE L == Allocated(m)
           T == {v \in L : a + Larger(len, 1) > m.area[v].start /\ a < m.area[v].end}
           w == First(m, T)
<1>1. FindVma(m, a, len) = w
  BY DEF FindVma
<1>2. L \cap T = T
  OBVIOUS
<1>3. Larger(len, 1) = len
  BY DEF Larger
<1>4. S(m, u) \in Nat /\ E(m, u) \in Nat
  BY AreaIs DEF Chain, Shape
<1>5. a + len > S(m, u)
  BY <1>4
<1>6. u \in T
  BY <1>3, <1>5 DEF S, E
<1> HIDE DEF T, w
<1>7. u # w => S(m, w) < S(m, u)
  <2>1. L \cap T # {}
    BY <1>2, <1>6
  <2> QED BY <1>2, <1>6, <2>1, FirstIs DEF w
<1>8. S(m, w) \in Nat
  <2>1. w \in L
    BY <1>2, <1>6, FirstIs DEF w
  <2> QED BY <2>1, AreaIs DEF Chain, Shape
<1> QED BY <1>1, <1>4, <1>7, <1>8

LEMMA LastMost ==
  ASSUME NEW m, Chain(m, Allocated(m)), NEW from \in Allocated(m), NEW end \in Nat, end > S(m, from),
         NEW u \in Allocated(m), S(m, u) < end
  PROVE  S(m, u) <= S(m, LastOfRange(m, from, end))
<1> DEFINE L == Allocated(m)
           T == {v \in L : /\ m.area[v].start >= m.area[from].start
                           /\ \/ end > m.area[v].start /\ end <= m.area[v].end
                              \/ NextOf(m, v) = VmaList
                              \/ NextOf(m, v) # VmaList /\ end <= m.area[NextOf(m, v)].start}
           to == First(m, T)
<1>1. LastOfRange(m, from, end) = to
  BY DEF LastOfRange
<1>2. to \in L
  BY <1>1, LastIs
<1>3. to \in T
  <2>1. to # Nil
    BY <1>2, LinksAre, VmaConstants DEF Chain
  <2> QED BY <2>1, FirstIs
<1>4. end <= E(m, to) \/ N(m, to) = H \/ (N(m, to) # H /\ end <= S(m, N(m, to)))
  <2> HIDE DEF to
  <2> QED BY <1>3 DEF S, E, N, H, NextOf
<1> HIDE DEF T, to
<1>5. S(m, u) \in Nat /\ S(m, to) \in Nat /\ E(m, to) \in Nat
  BY <1>2, AreaIs DEF Chain, Shape
<1>6. ASSUME S(m, to) < S(m, u) PROVE FALSE
  <2>1. E(m, to) <= S(m, u)
    BY <1>2, <1>6, Disjoint
  <2>2. N(m, to) # H /\ S(m, N(m, to)) <= S(m, u)
    BY <1>2, <1>6 DEF Chain, Ordered
  <2>3. N(m, to) \in L
    BY <1>2, <2>2, LinksAre DEF Chain
  <2>4. S(m, N(m, to)) \in Nat
    BY <2>3, AreaIs DEF Chain, Shape
  <2> QED BY <1>4, <1>5, <2>1, <2>2, <2>4
<1> QED BY <1>1, <1>5, <1>6

(* vmem_vma_find_range cuts its range down to the areas that it overlaps,  *)
(* and to whole pages where it ends inside one.                            *)
Exact(m, a, len, r) ==
  /\ Covers(m, r) /\ Aligned(r.addr) /\ Aligned(r.end)
  /\ r.addr = Larger(a, S(m, r.from)) /\ r.end = Smaller(a + len, E(m, r.to))
  /\ a > S(m, r.from) => Aligned(a)
  /\ \A u \in Allocated(m) : S(m, u) < a + len /\ a < E(m, u) => S(m, r.from) <= S(m, u) /\ S(m, u) <= S(m, r.to)

LEMMA RangeExact ==
  ASSUME NEW m, Chain(m, Allocated(m)), OnPages(m), NEW a \in Nat, NEW len \in Nat \ {0}, FindRange(m, a, len).err = "ok"
  PROVE  Exact(m, a, len, FindRange(m, a, len))
<1> DEFINE r == FindRange(m, a, len)
           from == FindVma(m, a, len)
           to == LastOfRange(m, from, a + len)
           L == Allocated(m)
<1>1. \A u \in L : S(m, u) \in Nat /\ E(m, u) \in Nat /\ S(m, u) < E(m, u)
  BY AreaIs DEF Chain, Shape, Ordered
<1>2. from # Nil
  BY DEF FindRange, RangeFrom
<1>3. r = CutRange(m, from, to, a, a + len) /\ r.err = "ok"
  BY <1>2 DEF FindRange, RangeFrom
<1>4. from \in L /\ a + len > S(m, from) /\ a < E(m, from) /\ a + len \in Nat
  <2>1. Larger(len, 1) = len
    BY DEF Larger
  <2> QED BY <1>2, <2>1, FindIs
<1>5. to \in L
  BY <1>4, LastIs
<1>6. ASSUME NEW u \in L, S(m, u) < a + len, a < E(m, u) PROVE S(m, from) <= S(m, u) /\ S(m, u) <= S(m, to)
  BY <1>2, <1>4, <1>6, FindLeast, LastMost
<1>7. Covers(m, r)
  BY RangeIs
<1> HIDE DEF from, to, r
<1>8. ~ ((a > S(m, from) /\ ~Aligned(a)) \/ (a + len < E(m, to) /\ ~Aligned(a + len)))
  BY <1>3 DEF CutRange, S, E
<1>9. /\ r.from = from /\ r.to = to
      /\ r.addr = Larger(a, S(m, from)) /\ r.end = Smaller(a + len, E(m, to))
  BY <1>3 DEF CutRange, S, E
<1>10. Aligned(r.addr)
  BY <1>1, <1>4, <1>8, <1>9 DEF Larger, OnPages
<1>11. Aligned(r.end)
  BY <1>1, <1>4, <1>5, <1>8, <1>9 DEF Smaller, OnPages
<1>12. Exact(m, a, len, r)
  BY <1>6, <1>7, <1>8, <1>9, <1>10, <1>11 DEF Exact
<1> QED BY <1>12 DEF r

LEMMA RangeErrors ==
  ASSUME NEW m, NEW a, NEW len
  PROVE  /\ FindRange(m, a, len).err \in {"ok", "EINVAL", "ENOENT"}
         /\ FindRange(m, a, len).err = "ENOENT" => FindVma(m, a, len) = Nil
BY DEF FindRange, RangeFrom, CutRange

(* A mapped page that a call has a part of lies in the range whole.        *)
LEMMA PageInRange ==
  ASSUME NEW m, Chain(m, Allocated(m)), OnPages(m), NEW a \in Nat, NEW len \in Nat \ {0}, NEW r, Exact(m, a, len, r),
         NEW p \in Page, NEW v \in Allocated(m), At(m, v, p * PageSize)
  PROVE  p \in Covered(a, len) <=> r.addr <= p * PageSize /\ p * PageSize < r.end
<1> DEFINE x == p * PageSize
           y == (p + 1) * PageSize
           L == Allocated(m)
<1>1. x \in Nat /\ y \in Nat /\ x < y /\ p \in Nat
  BY PageIs
<1>2. p \in Covered(a, len) <=> a < y /\ x < a + len
  BY DEF Covered
<1>3. \A u \in L : S(m, u) \in Nat /\ E(m, u) \in Nat /\ S(m, u) < E(m, u) /\ Aligned(E(m, u))
  BY AreaIs DEF Chain, Shape, Ordered, OnPages
<1>4. S(m, v) <= x /\ x < E(m, v) /\ y <= E(m, v)
  <2>1. S(m, v) <= x /\ x < E(m, v)
    BY DEF At
  <2>2. y <= E(m, v)
    BY <1>1, <1>3, <2>1, NextPage
  <2> QED BY <2>1, <2>2
<1>5. r.from \in L /\ r.to \in L
  BY DEF Exact, Covers
<1>6. Aligned(a) /\ a < y => a <= x
  <2>1. Aligned(a) /\ x < a => y <= a
    BY <1>1, NextPage
  <2> HIDE DEF x, y
  <2> QED BY <1>1, <2>1
<1> HIDE DEF x, y
<1>7. ASSUME a < y, x < a + len PROVE r.addr <= x /\ x < r.end
  <2>1. S(m, r.from) <= S(m, v) /\ S(m, v) <= S(m, r.to)
    <3>1. S(m, v) < a + len /\ a < E(m, v)
      BY <1>1, <1>3, <1>4, <1>7
    <3> QED BY <3>1 DEF Exact
  <2>2. E(m, v) <= E(m, r.to)
    <3>1. CASE S(m, v) < S(m, r.to)
      <4>1. E(m, v) <= S(m, r.to)
        BY <1>5, <3>1, Disjoint
      <4> QED BY <1>3, <1>5, <4>1
    <3>2. CASE S(m, v) = S(m, r.to)
      <4>1. v = r.to
        BY <1>5, <3>2 DEF Chain, Ordered
      <4> QED BY <1>3, <4>1
    <3> QED BY <1>3, <1>5, <2>1, <3>1, <3>2
  <2>3. r.addr <= x
    <3>1. r.addr = Larger(a, S(m, r.from)) /\ (a > S(m, r.from) => Aligned(a))
      BY DEF Exact
    <3> QED BY <1>1, <1>3, <1>4, <1>5, <1>6, <1>7, <2>1, <3>1 DEF Larger
  <2>4. x < r.end
    <3>1. r.end = Smaller(a + len, E(m, r.to))
      BY DEF Exact
    <3> QED BY <1>1, <1>3, <1>4, <1>5, <1>7, <2>2, <3>1 DEF Smaller
  <2> QED BY <2>3, <2>4
<1>8. ASSUME r.addr <= x, x < r.end PROVE a < y /\ x < a + len
  <2>1. r.addr = Larger(a, S(m, r.from)) /\ r.end = Smaller(a + len, E(m, r.to))
    BY DEF Exact
  <2> QED BY <1>1, <1>3, <1>5, <1>8, <2>1 DEF Larger, Smaller
<1>9. p \in Covered(a, len) <=> r.addr <= x /\ x < r.end
  BY <1>2, <1>7, <1>8
<1> QED BY <1>9 DEF x

LEMMA NothingFound ==
  ASSUME NEW m, Chain(m, Allocated(m)), OnPages(m), NEW a \in Nat, NEW len \in Nat \ {0}, FindVma(m, a, len) = Nil,
         NEW p \in Page, p \in Covered(a, len)
  PROVE  View(m, p * PageSize) = {}
<1> DEFINE x == p * PageSize
           y == (p + 1) * PageSize
<1>1. x \in Nat /\ y \in Nat /\ x < y /\ p \in Nat /\ a < y /\ x < a + len
  BY PageIs DEF Covered
<1>2. ASSUME NEW v \in Allocated(m), At(m, v, x) PROVE FALSE
  <2>1. S(m, v) \in Nat /\ E(m, v) \in Nat /\ Aligned(E(m, v))
    BY AreaIs DEF Chain, Shape, OnPages
  <2>2. S(m, v) <= x /\ x < E(m, v)
    BY <1>2 DEF At
  <2>3. y <= E(m, v)
    BY <1>1, <2>1, <2>2, NextPage
  <2>4. Larger(len, 1) = len
    BY DEF Larger
  <2>5. a + len <= S(m, v) \/ E(m, v) <= a
    BY <2>4, FindIs
  <2> HIDE DEF x, y
  <2> QED BY <1>1, <2>1, <2>2, <2>3, <2>5
<1> QED BY <1>2 DEF View
-----------------------------------------------------------------------------
(* What a split does to the contents: nothing.  Where it was not needed,   *)
(* because the permissions are those asked for, the areas found reach      *)
(* beyond the range.                                                       *)
Has(m, x, prot) == prot # Nil /\ \A z \in View(m, x) : z.prot = prot

LEMMA LeftSame ==
  ASSUME NEW m, Tidy(m, {}, {}), OnPages(m), NEW r, Covers(m, r), Aligned(r.addr), NEW prot, NEW new,
         SplitLeft(m, r, prot, new).used # 0 => new \in Id \ Allocated(m)
  PROVE  LET l == SplitLeft(m, r, prot, new)
         IN  /\ Same(m, l.mm) /\ S(l.mm, l.from) <= r.addr
             /\ \A x \in Nat : S(l.mm, l.from) <= x /\ x < r.addr => Has(m, x, prot)
<1> DEFINE l == SplitLeft(m, r, prot, new)
           k == SplitAt(m, r.from, r.addr, new)
           L == Allocated(m)
<1>1. /\ r.from \in L /\ r.addr \in Nat /\ S(m, r.from) <= r.addr /\ r.addr < E(m, r.from) /\ Chain(m, L)
  BY DEF Covers, Tidy
<1>2. S(m, r.from) \in Nat /\ E(m, r.from) \in Nat
  BY <1>1, AreaIs DEF Chain, Shape
<1>3. CASE NeedSplit(m, r.from, r.addr - m.area[r.from].start, prot)
  <2>1. l = [mm |-> k, from |-> new, to |-> IF r.from = r.to THEN new ELSE r.to, used |-> 1]
    BY <1>3 DEF SplitLeft
  <2>2. S(m, r.from) < r.addr
    <3>1. r.addr - S(m, r.from) > 0
      BY <1>3 DEF NeedSplit, S
    <3> QED BY <1>1, <1>2, <3>1
  <2>3. new \in Id \ L
    <3>1. l.used # 0
      BY <2>1
    <3> QED BY <3>1
  <2>4. Same(m, k)
    BY <1>1, <2>2, <2>3, SplitSame
  <2>5. S(k, new) = r.addr
    <3>1. IsSplit(m, r.from, r.addr, new, k)
      BY <1>1, <2>2, <2>3, SplitIs
    <3> QED BY <3>1 DEF IsSplit
  <2> HIDE DEF l, k
  <2>6. l.mm = k /\ l.from = new
    BY <2>1
  <2>7. \A x \in Nat : ~ (S(l.mm, l.from) <= x /\ x < r.addr)
    BY <1>1, <2>5, <2>6
  <2>8. S(l.mm, l.from) <= r.addr
    BY <1>1, <2>5, <2>6
  <2> QED BY <2>4, <2>6, <2>7, <2>8 DEF l
<1>4. CASE ~ NeedSplit(m, r.from, r.addr - m.area[r.from].start, prot)
  <2>1. l = [mm |-> m, from |-> r.from, to |-> r.to, used |-> 0]
    BY <1>4 DEF SplitLeft
  <2> HIDE DEF l
  <2>2. l.mm = m /\ l.from = r.from
    BY <2>1
  <2>3. ASSUME NEW x \in Nat, S(m, r.from) <= x, x < r.addr PROVE Has(m, x, prot)
    <3>1. r.addr - m.area[r.from].start > 0
      BY <1>1, <1>2, <2>3 DEF S
    <3>2. prot # Nil /\ m.area[r.from].prot = prot
      BY <1>4, <3>1 DEF NeedSplit
    <3>3. At(m, r.from, x)
      BY <1>1, <1>2, <2>3 DEF At
    <3>4. View(m, x) = {Kind(m, r.from)}
      BY <1>1, <3>3, ViewOf
    <3> QED BY <3>2, <3>4 DEF Kind, Has
  <2> QED BY <1>1, <2>2, <2>3, SameSelf DEF l
<1> QED BY <1>3, <1>4

LEMMA RightSame ==
  ASSUME NEW l, Tidy(l.mm, {}, {l.from}), l.from \in Allocated(l.mm), l.to \in Allocated(l.mm),
         NEW r, r.end \in Nat, S(l.mm, l.to) < r.end, r.end <= E(l.mm, l.to), Aligned(r.end),
         NEW prot, NEW mem, mem # l.used => New(l.mm) \in Id \ Allocated(l.mm)
  PROVE  LET s == SplitRight(l, r, prot, mem)
         IN  /\ Same(l.mm, s.mm) /\ s.err \in {"ok", "ENOMEM"}
             /\ s.err = "ok" => /\ s.from = l.from /\ s.to = l.to /\ S(s.mm, s.from) = S(l.mm, l.from)
                                /\ r.end <= E(s.mm, s.to)
                                /\ \A x \in Nat : r.end <= x /\ x < E(s.mm, s.to) => Has(l.mm, x, prot)
<1> DEFINE s == SplitRight(l, r, prot, mem)
           k == SplitAt(l.mm, l.to, r.end, New(l.mm))
           right == NeedSplit(l.mm, l.to, l.mm.area[l.to].end - r.end, prot)
           L == Allocated(l.mm)
<1>1. Chain(l.mm, L)
  BY DEF Tidy
<1>2. S(l.mm, l.to) \in Nat /\ E(l.mm, l.to) \in Nat
  BY <1>1, AreaIs DEF Chain, Shape
<1>3. CASE right /\ mem = l.used
  <2>1. s = [err |-> "ENOMEM", mm |-> UndoSplit(l.mm, l.from)]
    BY <1>3 DEF SplitRight
  <2>2. Same(l.mm, TryMerge(l.mm, l.from))
    BY MergeBothSame
  <2> HIDE DEF s
  <2> QED BY <2>1, <2>2 DEF UndoSplit, s
<1>4. CASE right /\ mem # l.used
  <2>1. s = [err |-> "ok", from |-> l.from, to |-> l.to, addr |-> r.addr, end |-> r.end, mm |-> k]
    BY <1>4 DEF SplitRight
  <2>2. r.end < E(l.mm, l.to)
    <3>1. E(l.mm, l.to) - r.end > 0
      BY <1>4 DEF NeedSplit, E
    <3> QED BY <1>2, <3>1
  <2>3. New(l.mm) \in Id \ L
    BY <1>4
  <2>4. /\ S(k, l.to) = S(l.mm, l.to) /\ E(k, l.to) = r.end
        /\ \A x \in Id : x # l.to /\ x # New(l.mm) => k.area[x] = l.mm.area[x]
    <3>1. IsSplit(l.mm, l.to, r.end, New(l.mm), k)
      BY <1>1, <2>2, <2>3, SplitIs
    <3> QED BY <3>1 DEF IsSplit
  <2>5. Same(l.mm, k)
    BY <1>1, <2>2, <2>3, SplitSame
  <2> HIDE DEF k, s
  <2>6. S(k, l.from) = S(l.mm, l.from)
    <3>1. l.from \in Id /\ l.from # New(l.mm)
      BY <2>3 DEF Allocated
    <3> QED BY <2>4, <3>1 DEF S
  <2>7. s.err = "ok" /\ s.from = l.from /\ s.to = l.to /\ s.mm = k
    BY <2>1
  <2>8. \A x \in Nat : ~ (r.end <= x /\ x < E(k, l.to))
    BY <2>4
  <2>9. r.end <= E(k, l.to)
    BY <2>4
  <2> QED BY <2>5, <2>6, <2>7, <2>8, <2>9 DEF s
<1>5. CASE ~ right
  <2>1. s = [err |-> "ok", from |-> l.from, to |-> l.to, addr |-> r.addr, end |-> r.end, mm |-> l.mm]
    BY <1>5 DEF SplitRight
  <2> HIDE DEF s
  <2>2. s.err = "ok" /\ s.from = l.from /\ s.to = l.to /\ s.mm = l.mm
    BY <2>1
  <2>3. ASSUME NEW x \in Nat, r.end <= x, x < E(l.mm, l.to) PROVE Has(l.mm, x, prot)
    <3>1. l.mm.area[l.to].end - r.end > 0
      BY <1>2, <2>3 DEF E
    <3>2. prot # Nil /\ l.mm.area[l.to].prot = prot
      BY <1>5, <3>1 DEF NeedSplit
    <3>3. At(l.mm, l.to, x)
      BY <1>2, <2>3 DEF At
    <3>4. View(l.mm, x) = {Kind(l.mm, l.to)}
      BY <1>1, <3>3, ViewOf
    <3> QED BY <3>2, <3>4 DEF Kind, Has
  <2> QED BY <2>2, <2>3, SameSelf DEF s
<1> QED BY <1>3, <1>4, <1>5

(* The areas from s.from to s.to are those of the range r.                 *)
Trimmed(m, r, prot, s) ==
  /\ S(s.mm, s.from) <= r.addr /\ r.end <= E(s.mm, s.to)
  /\ \A x \in Nat : (S(s.mm, s.from) <= x /\ x < r.addr) \/ (r.end <= x /\ x < E(s.mm, s.to)) => Has(m, x, prot)

LEMMA SplitVmaSame ==
  ASSUME NEW m, Tidy(m, {}, {}), OnPages(m), NEW a \in Nat, NEW len \in Nat \ {0}, NEW prot, NEW mem \in Kmallocs(m)
  PROVE  LET s == SplitVma(m, a, len, prot, mem)
             r == FindRange(m, a, len)
         IN  /\ Same(m, s.mm)
             /\ r.err # "ok" => s.err = r.err
             /\ r.err = "ok" => s.err \in {"ok", "ENOMEM"}
             /\ s.err = "ok" => Trimmed(m, r, prot, s)
<1> DEFINE s == SplitVma(m, a, len, prot, mem)
           r == FindRange(m, a, len)
           l == SplitLeft(m, r, prot, New(m))
           F == Id \ Allocated(m)
<1>2. /\ mem \in Nat /\ mem <= 2
      /\ mem # 0 => New(m) \in F
      /\ \A k : mem = 2 /\ Allocated(k) = Allocated(m) \cup {New(m)} => New(k) \in Id \ Allocated(k)
  BY MemLeft
<1>3. Chain(m, Allocated(m))
  BY DEF Tidy
<1>4. s = SplitRange(m, r, prot, mem)
  BY DEF SplitVma
<1>5. r.err = "ok" => Exact(m, a, len, r)
  BY <1>3, RangeExact
<1> HIDE DEF r
<1>6. CASE r.err # "ok"
  <2>1. s = [err |-> r.err, mm |-> m]
    BY <1>4, <1>6 DEF SplitRange
  <2> HIDE DEF s
  <2> QED BY <1>6, <2>1, SameSelf DEF s, r
<1>7. CASE r.err = "ok"
  <2>1. s = SplitBoth(m, l, r, prot, mem)
    BY <1>4, <1>7 DEF SplitRange
  <2>2. Covers(m, r) /\ Aligned(r.addr) /\ Aligned(r.end)
    BY <1>5, <1>7 DEF Exact
  <2>3. l.used \in {0, 1}
    BY DEF SplitLeft
  <2> HIDE DEF s
  <2>4. CASE mem < l.used
    <3>1. s = [err |-> "ENOMEM", mm |-> m]
      BY <2>1, <2>4 DEF SplitBoth
    <3> QED BY <1>7, <3>1, SameSelf DEF s, r
  <2>5. CASE ~ (mem < l.used)
    <3>1. s = SplitRight(l, r, prot, mem)
      BY <2>1, <2>5 DEF SplitBoth
    <3> HIDE DEF l
    <3>3. l.used # 0 => New(m) \in F
      BY <1>2, <2>3, <2>5
    <3>4. /\ Tidy(l.mm, {}, {l.from})
          /\ l.from \in Allocated(l.mm) /\ l.to \in Allocated(l.mm) /\ S(l.mm, l.from) <= S(l.mm, l.to)
          /\ S(l.mm, l.to) < r.end /\ r.end <= E(l.mm, l.to)
          /\ (l.used = 0 /\ l.mm = m) \/ (l.used = 1 /\ Allocated(l.mm) = Allocated(m) \cup {New(m)})
      <4>1. LeftDone(m, r, New(m), l)
        BY <2>2, <3>3, LeftIs DEF l
      <4> QED BY <4>1 DEF LeftDone
    <3>5. ASSUME mem # l.used PROVE New(l.mm) \in Id \ Allocated(l.mm)
      <4>1. mem > l.used
        BY <1>2, <2>3, <2>5, <3>5
      <4>2. CASE l.used = 0 /\ l.mm = m
        BY <1>2, <4>1, <4>2
      <4>3. CASE l.used = 1 /\ Allocated(l.mm) = Allocated(m) \cup {New(m)}
        <5>1. mem = 2
          BY <1>2, <4>1, <4>3
        <5> QED BY <1>2, <4>3, <5>1
      <4> QED BY <3>4, <4>2, <4>3
    <3>6. r.end \in Nat /\ r.addr \in Nat
      BY <2>2 DEF Covers
    <3>7. /\ Same(m, l.mm) /\ S(l.mm, l.from) <= r.addr
          /\ \A x \in Nat : S(l.mm, l.from) <= x /\ x < r.addr => Has(m, x, prot)
      BY <2>2, <3>3, LeftSame DEF l
    <3>8. /\ Same(l.mm, s.mm) /\ s.err \in {"ok", "ENOMEM"}
          /\ s.err = "ok" => /\ s.from = l.from /\ s.to = l.to /\ S(s.mm, s.from) = S(l.mm, l.from)
                             /\ r.end <= E(s.mm, s.to)
                             /\ \A x \in Nat : r.end <= x /\ x < E(s.mm, s.to) => Has(l.mm, x, prot)
      BY <2>2, <3>1, <3>4, <3>5, <3>6, RightSame
    <3>9. \A x \in Nat : Has(l.mm, x, prot) <=> Has(m, x, prot)
      BY <3>7 DEF Has, Same
    <3>10. Same(m, s.mm)
      BY <3>7, <3>8, SameAgain
    <3>11. s.err = "ok" => Trimmed(m, r, prot, s)
      BY <3>7, <3>8, <3>9 DEF Trimmed
    <3> QED BY <1>7, <3>8, <3>10, <3>11 DEF s, r
  <2> QED BY <2>4, <2>5
<1> QED BY <1>6, <1>7
-----------------------------------------------------------------------------
(* How the areas of a range leave the list.                                *)
LEMMA UnlinkFields ==
  ASSUME NEW m, Chain(m, Allocated(m)), NEW a \in Allocated(m), NEW b \in Allocated(m), S(m, a) <= S(m, b)
  PROVE  LET k == Unlink(m, a, b)
             K == Span(m, Allocated(m), a, b)
         IN  /\ k \in MM /\ Allocated(k) = Allocated(m) \ K
             /\ \A x \in Id \ K : k.area[x] = m.area[x]
             /\ \A n \in Node : N(k, n) = IF n \in K THEN Nil ELSE IF n = Before(m, a) THEN N(m, b) ELSE N(m, n)
             /\ \A n \in Node : Before(k, n) = IF n \in K THEN Nil ELSE IF n = N(m, b) THEN Before(m, a) ELSE Before(m, n)
<1> DEFINE L == Allocated(m)
           K == Span(m, L, a, b)
           k == Unlink(m, a, b)
           p == Before(m, a)
           q == N(m, b)
           j == [m EXCEPT !.links = Bypass(@, p, q)]
<1>1. ToSet(AreasOf(m, a, b)) = K
  BY SectionIs
<1>2. k = Freed(j, K)
  BY <1>1 DEF Unlink, PrevOf, NextOf, N, Before
<1>3. /\ m \in MM /\ m.links \in Links /\ m.area \in [Id -> Area \cup {Nil}]
      /\ p \in Node /\ q \in Node /\ L \subseteq Node /\ H \in Node
  BY LinksAre DEF Chain, Shape, MM
<1>4. m.links.next \in [Node -> Node \cup {Nil}] /\ m.links.prev \in [Node -> Node \cup {Nil}]
  BY <1>3 DEF Links
<1>5. j.links = Bypass(m.links, p, q) /\ j.area = m.area
  BY <1>3 DEF MM
<1>6. /\ j.links.next = [m.links.next EXCEPT ![p] = q]
      /\ j.links.prev = [m.links.prev EXCEPT ![q] = p]
  BY <1>5 DEF Bypass
<1> HIDE DEF j, K, p, q, k
<1>7. k = [links |-> [next |-> [n \in Node |-> IF n \in K THEN Nil ELSE j.links.next[n]],
                      prev |-> [n \in Node |-> IF n \in K THEN Nil ELSE j.links.prev[n]]],
           area |-> [v \in Id |-> IF v \in K THEN Nil ELSE m.area[v]]]
  BY <1>2, <1>5 DEF Freed
<1>8. /\ k.links.next = [n \in Node |-> IF n \in K THEN Nil ELSE j.links.next[n]]
      /\ k.links.prev = [n \in Node |-> IF n \in K THEN Nil ELSE j.links.prev[n]]
      /\ k.area = [v \in Id |-> IF v \in K THEN Nil ELSE m.area[v]]
  BY <1>7
<1>9. /\ \A n \in Node : k.links.next[n] = IF n \in K THEN Nil ELSE IF n = p THEN q ELSE m.links.next[n]
      /\ \A n \in Node : k.links.prev[n] = IF n \in K THEN Nil ELSE IF n = q THEN p ELSE m.links.prev[n]
  BY <1>4, <1>6, <1>8
<1>10. k \in MM
  <2>1. k.area \in [Id -> Area \cup {Nil}]
    BY <1>3, <1>8
  <2>2. /\ \A n \in Node : k.links.next[n] \in Node \cup {Nil}
        /\ \A n \in Node : k.links.prev[n] \in Node \cup {Nil}
    BY <1>3, <1>4, <1>9
  <2>3. k.links.next \in [Node -> Node \cup {Nil}]
    <3>1. [n \in Node |-> k.links.next[n]] \in [Node -> Node \cup {Nil}]
      BY <2>2
    <3>2. k.links.next = [n \in Node |-> k.links.next[n]]
      BY <1>8
    <3> QED BY <3>1, <3>2
  <2>4. k.links.prev \in [Node -> Node \cup {Nil}]
    <3>1. [n \in Node |-> k.links.prev[n]] \in [Node -> Node \cup {Nil}]
      BY <2>2
    <3>2. k.links.prev = [n \in Node |-> k.links.prev[n]]
      BY <1>8
    <3> QED BY <3>1, <3>2
  <2>5. k.links = [next |-> k.links.next, prev |-> k.links.prev] /\ k = [links |-> k.links, area |-> k.area]
    BY <1>7
  <2>6. k.links \in Links
    BY <2>3, <2>4, <2>5 DEF Links
  <2> QED BY <2>1, <2>5, <2>6 DEF MM
<1>11. Allocated(k) = L \ K
  BY <1>8 DEF Allocated
<1>12. \A x \in Id \ K : k.area[x] = m.area[x]
  BY <1>8
<1> QED BY <1>9, <1>10, <1>11, <1>12 DEF k, K, p, q, N, Before

(* vmem_remove_range: what lies on either side of the range cannot be      *)
(* merged, there is a gap between them.                                    *)
LEMMA UnlinkIs ==
  ASSUME NEW m, NEW a \in Allocated(m), NEW b \in Allocated(m), Tidy(m, {b}, {a}), S(m, a) <= S(m, b)
  PROVE  Tidy(Unlink(m, a, b), {}, {})
<1> DEFINE L == Allocated(m)
           K == Span(m, L, a, b)
           k == Unlink(m, a, b)
           p == Before(m, a)
           q == N(m, b)
<1>1. Chain(m, L)
  BY DEF Tidy
<1>2. /\ k \in MM /\ Allocated(k) = L \ K
      /\ \A x \in Id \ K : k.area[x] = m.area[x]
      /\ \A n \in Node : N(k, n) = IF n \in K THEN Nil ELSE IF n = p THEN q ELSE N(m, n)
      /\ \A n \in Node : Before(k, n) = IF n \in K THEN Nil ELSE IF n = q THEN p ELSE Before(m, n)
  BY <1>1, UnlinkFields
<1>3. /\ a \in K /\ b \in K /\ K \subseteq L /\ p \in (L \cup {H}) \ K /\ q \in (L \cup {H}) \ K
      /\ \A x \in (L \cup {H}) \ K : N(m, x) \in K => x = p
  BY <1>1, SpanEnds
<1>4. \A x \in L : /\ x \in Id /\ x \in Node /\ N(m, x) \in L \cup {H}
                   /\ S(m, x) \in Nat /\ E(m, x) \in Nat /\ S(m, x) < E(m, x)
                   /\ N(m, x) # H => E(m, x) <= S(m, N(m, x))
  <2>1. \A x \in L : x \in Node /\ N(m, x) \in L \cup {H}
    BY <1>1, LinksAre DEF Chain
  <2>2. \A x \in L : x \in Id /\ S(m, x) \in Nat /\ E(m, x) \in Nat
    BY <1>1, AreaIs DEF Chain, Shape
  <2> QED BY <1>1, <2>1, <2>2 DEF Chain, Ordered
<1>5. N(m, p) = a
  BY <1>1, LinksAre DEF Chain
<1> HIDE DEF k, K, p, q
<1>6. p # H /\ q # H => E(m, p) < S(m, q)
  <2>1. ASSUME p # H, q # H PROVE E(m, p) < S(m, q)
    <3>1. p \in L /\ q \in L /\ a \in L /\ b \in L
      BY <1>3, <2>1
    <3>2. E(m, p) <= S(m, a)
      <4>1. a # H
        BY <1>1, LinksAre DEF Chain
      <4> QED BY <1>4, <1>5, <3>1, <4>1
    <3>3. E(m, b) <= S(m, q) /\ S(m, b) < E(m, b)
      BY <1>4, <2>1 DEF q
    <3> QED BY <1>4, <3>1, <3>2, <3>3
  <2> QED BY <2>1
<1>7. \A x \in L \ K : k.area[x] = m.area[x] /\ S(k, x) = S(m, x) /\ E(k, x) = E(m, x)
  BY <1>2, <1>4 DEF S, E
<1>8. ASSUME NEW x \in L \ K
      PROVE  /\ S(k, x) = S(m, x) /\ S(k, x) < E(k, x)
             /\ N(k, x) # H => E(k, x) <= S(m, N(k, x))
  <2>1. x \in Node /\ x \notin K /\ x # H
    BY <1>1, <1>4, LinksAre DEF Chain
  <2>2. CASE x = p
    <3>1. N(k, x) = q
      BY <1>2, <2>1, <2>2
    <3>2. q # H => S(m, q) \in Nat
      BY <1>3, <1>4
    <3> QED BY <1>4, <1>6, <1>7, <2>1, <2>2, <3>1, <3>2
  <2>3. CASE x # p
    <3>1. N(k, x) = N(m, x)
      BY <1>2, <2>1, <2>3
    <3> QED BY <1>4, <1>7, <3>1
  <2> QED BY <2>2, <2>3
<1>9. Chain(k, L \ K)
  <2>1. IsCut(m, L, a, b, k)
    BY <1>2, <1>8 DEF IsCut, K, p, q
  <2> QED BY <1>1, <2>1, CutOut DEF K
<1>10. ASSUME NEW x \in L \ K, N(k, x) # H, CanMerge(k, x, N(k, x)) PROVE FALSE
  <2> DEFINE y == N(k, x)
  <2>1. y \in L \ K /\ x \in Node
    BY <1>4, <1>9, <1>10, LinksAre DEF Chain
  <2>2. CanMerge(m, x, y)
    BY <1>7, <1>10, <2>1 DEF CanMerge
  <2>3. CASE x = p
    <3>1. y = q
      BY <1>2, <2>1, <2>3
    <3>2. E(m, p) = S(m, q) /\ p # H /\ q # H
      BY <1>10, <2>1, <2>2, <2>3, <3>1, <1>1, LinksAre DEF CanMerge, S, E, Chain
    <3>3. E(m, p) \in Nat /\ S(m, q) \in Nat
      BY <1>4, <2>1, <2>3, <3>1
    <3> QED BY <1>6, <3>2, <3>3
  <2>4. CASE x # p
    <3>1. y = N(m, x)
      BY <1>2, <2>1, <2>4
    <3>2. x = b \/ y = a
      BY <1>10, <2>2, <3>1 DEF Tidy
    <3> QED BY <1>3, <2>1, <3>2
  <2> QED BY <2>3, <2>4
<1>11. Tidy(k, {}, {})
  BY <1>2, <1>9, <1>10 DEF Tidy
<1> QED BY <1>11 DEF k
(* The areas of a section are those that an address between its ends is in. *)
LEMMA SpanAt ==
  ASSUME NEW m, NEW L, Chain(m, L), NEW a \in L, NEW b \in L, S(m, a) <= S(m, b),
         NEW v \in L, NEW x \in Nat, At(m, v, x)
  PROVE  v \in Span(m, L, a, b) <=> S(m, a) <= x /\ x < E(m, b)
<1>1. \A u \in L : S(m, u) \in Nat /\ E(m, u) \in Nat /\ S(m, u) < E(m, u)
  BY AreaIs DEF Chain, Shape, Ordered
<1>2. S(m, v) <= x /\ x < E(m, v)
  BY DEF At
<1>3. \A u \in L, w \in L : S(m, u) < S(m, w) => E(m, u) <= S(m, w)
  BY Disjoint
<1>4. ASSUME S(m, v) = S(m, b) PROVE v = b
  BY <1>4 DEF Chain, Ordered
<1>5. S(m, a) <= S(m, v) /\ S(m, v) <= S(m, b) <=> S(m, a) <= x /\ x < E(m, b)
  <2>1. ASSUME S(m, a) <= S(m, v), S(m, v) <= S(m, b) PROVE S(m, a) <= x /\ x < E(m, b)
    <3>1. CASE S(m, v) < S(m, b)
      BY <1>1, <1>2, <1>3, <2>1, <3>1
    <3>2. CASE S(m, v) = S(m, b)
      BY <1>1, <1>2, <1>4, <2>1, <3>2
    <3> QED BY <1>1, <2>1, <3>1, <3>2
  <2>2. ASSUME S(m, a) <= x, x < E(m, b) PROVE S(m, a) <= S(m, v) /\ S(m, v) <= S(m, b)
    BY <1>1, <1>2, <1>3, <2>2
  <2> QED BY <2>1, <2>2
<1> QED BY <1>5 DEF Span

(* Nothing is left between the ends of what was cut out.                   *)
LEMMA UnlinkView ==
  ASSUME NEW m, Chain(m, Allocated(m)), NEW a \in Allocated(m), NEW b \in Allocated(m), S(m, a) <= S(m, b)
  PROVE  LET k == Unlink(m, a, b)
         IN  /\ \A x \in Nat : View(k, x) = IF S(m, a) <= x /\ x < E(m, b) THEN {} ELSE View(m, x)
             /\ OnPages(m) => OnPages(k)
<1> DEFINE L == Allocated(m)
           K == Span(m, L, a, b)
           k == Unlink(m, a, b)
<1>1. Allocated(k) = L \ K /\ \A x \in Id \ K : k.area[x] = m.area[x]
  BY UnlinkFields
<1> HIDE DEF k, K
<1>2. \A v \in L \ K : S(k, v) = S(m, v) /\ E(k, v) = E(m, v) /\ Kind(k, v) = Kind(m, v)
  BY <1>1 DEF S, E, Kind, Allocated
<1>3. ASSUME NEW x \in Nat PROVE View(k, x) = IF S(m, a) <= x /\ x < E(m, b) THEN {} ELSE View(m, x)
  <2>1. \A v \in L : At(m, v, x) => (v \in K <=> S(m, a) <= x /\ x < E(m, b))
    BY SpanAt DEF K
  <2>2. \A v \in L \ K : At(k, v, x) <=> At(m, v, x)
    BY <1>2 DEF At
  <2>3. ASSUME NEW z PROVE z \in View(k, x) <=> z \in View(m, x) /\ ~ (S(m, a) <= x /\ x < E(m, b))
    <3>1. z \in View(k, x) <=> \E v \in L \ K : At(k, v, x) /\ z = Kind(k, v)
      BY <1>1, ViewHas
    <3>2. z \in View(m, x) <=> \E v \in L : At(m, v, x) /\ z = Kind(m, v)
      BY ViewHas
    <3> QED BY <1>2, <2>1, <2>2, <3>1, <3>2
  <2> QED BY <2>3
<1>4. ASSUME OnPages(m) PROVE OnPages(k)
  BY <1>1, <1>2, <1>4 DEF OnPages
<1> QED BY <1>3, <1>4 DEF k

-----------------------------------------------------------------------------
(* How the permissions of a range are set.                                 *)
Protected(m, K, prot) == [m EXCEPT !.area = [v \in Id |-> IF v \in K THEN [@[v] EXCEPT !.prot = prot] ELSE @[v]]]

LEMMA ProtectedIs ==
  ASSUME NEW m, NEW a \in Allocated(m), NEW b \in Allocated(m), Tidy(m, {b}, {a}), S(m, a) <= S(m, b),
         NEW prot \in Prot
  PROVE  LET K == Span(m, Allocated(m), a, b)
             k == Protected(m, K, prot)
         IN  Tidy(k, {b}, K) /\ Allocated(k) = Allocated(m) /\ k.links = m.links
<1> DEFINE L == Allocated(m)
           K == Span(m, L, a, b)
           k == Protected(m, K, prot)
<1>1. Chain(m, L)
  BY DEF Tidy
<1>2. /\ a \in K /\ b \in K /\ K \subseteq L
      /\ \A x \in (L \cup {H}) \ K : Before(m, x) \in K => x = N(m, b)
  BY <1>1, SpanEnds
<1>3. m \in MM /\ m.links \in Links /\ m.area \in [Id -> Area \cup {Nil}] /\ L \subseteq Id
  BY <1>1 DEF Chain, Shape, MM, Allocated
<1>4. \A x \in L : N(m, x) \in L \cup {H} /\ Before(m, N(m, x)) = x /\ m.area[x] \in Area /\ x \in Id
  <2>1. \A x \in L : N(m, x) \in L \cup {H} /\ Before(m, N(m, x)) = x
    BY <1>1, LinksAre DEF Chain
  <2>2. \A x \in L : m.area[x] \in Area /\ x \in Id
    BY <1>1, AreaIs DEF Chain, Shape
  <2> QED BY <2>1, <2>2
<1> HIDE DEF K
<1>5. /\ k.links = m.links /\ k = [links |-> m.links, area |-> k.area]
      /\ k.area = [v \in Id |-> IF v \in K THEN [m.area[v] EXCEPT !.prot = prot] ELSE m.area[v]]
  BY <1>3 DEF Protected, MM
<1> HIDE DEF k
<1>6. \A x \in K : [m.area[x] EXCEPT !.prot = prot] \in Area
  BY <1>2, <1>4 DEF Area
<1>7. k.area \in [Id -> Area \cup {Nil}]
  BY <1>3, <1>5, <1>6
<1>8. k \in MM
  BY <1>3, <1>5, <1>7 DEF MM
<1>9. Allocated(k) = L
  <2>1. \A x \in K : k.area[x] # Nil /\ m.area[x] # Nil
    BY <1>2, <1>4, <1>5, <1>6, VmaConstants
  <2>2. \A x \in Id \ K : k.area[x] = m.area[x]
    BY <1>5
  <2> QED BY <2>1, <2>2 DEF Allocated
<1>10. \A x \in L : /\ k.area[x].start = m.area[x].start /\ k.area[x].end = m.area[x].end
                    /\ k.area[x].flags = m.area[x].flags
                    /\ x \notin K => k.area[x].prot = m.area[x].prot
  BY <1>2, <1>4, <1>5 DEF Area
<1>11. Chain(k, L)
  <2>1. \A x \in L : S(k, x) = S(m, x) /\ E(k, x) = E(m, x)
    BY <1>10 DEF S, E
  <2>2. \A x \in L : S(m, x) < E(m, x) /\ (N(m, x) # H => E(m, x) <= S(m, N(m, x)))
    BY <1>1 DEF Chain, Ordered
  <2>3. \A x \in L : /\ S(k, x) = S(m, x) /\ S(k, x) < E(k, x)
                     /\ N(m, x) # H => E(k, x) <= S(m, N(m, x))
    BY <2>1, <2>2
  <2> QED BY <1>1, <1>5, <1>8, <1>9, <2>3, SameStarts
<1>12. ASSUME NEW x \in L, N(k, x) # H, CanMerge(k, x, N(k, x)), N(k, x) \notin K PROVE x = b
  <2> DEFINE y == N(m, x)
  <2>1. N(k, x) = y /\ y \in L /\ y # H /\ y \notin K /\ Before(m, y) = x
    BY <1>4, <1>5, <1>12 DEF N
  <2>2. CASE x \in K
    <3>1. y = N(m, b)
      BY <1>2, <2>1, <2>2
    <3>2. Before(m, N(m, b)) = b
      BY <1>4
    <3> QED BY <2>1, <3>1, <3>2
  <2>3. CASE x \notin K
    <3>1. CanMerge(m, x, y)
      BY <1>10, <1>12, <2>1, <2>3 DEF CanMerge
    <3>2. x = b \/ y = a
      BY <2>1, <3>1 DEF Tidy
    <3> QED BY <1>2, <2>1, <3>2
  <2> QED BY <2>2, <2>3
<1>13. Tidy(k, {b}, K)
  BY <1>9, <1>11, <1>12 DEF Tidy
<1> QED BY <1>5, <1>9, <1>13 DEF k, K

(* The contents of k where permissions were set between begin and end.     *)
ProtectedView(m, k, begin, end, prot) ==
  /\ \A x \in Nat : View(k, x) = IF begin <= x /\ x < end THEN {[z EXCEPT !.prot = prot] : z \in View(m, x)}
                                ELSE View(m, x)
  /\ OnPages(m) => OnPages(k)

LEMMA ProtectedSees ==
  ASSUME NEW m, Chain(m, Allocated(m)), NEW a \in Allocated(m), NEW b \in Allocated(m), S(m, a) <= S(m, b),
         NEW prot \in Prot, Allocated(Protected(m, Span(m, Allocated(m), a, b), prot)) = Allocated(m)
  PROVE  ProtectedView(m, Protected(m, Span(m, Allocated(m), a, b), prot), S(m, a), E(m, b), prot)
<1> DEFINE L == Allocated(m)
           K == Span(m, L, a, b)
           k == Protected(m, K, prot)
<1>1. m \in MM /\ \A x \in L : m.area[x] \in Area /\ x \in Id
  BY AreaIs DEF Chain, Shape
<1>2. Allocated(k) = L
  OBVIOUS
<1> HIDE DEF K
<1>3. k.area = [v \in Id |-> IF v \in K THEN [m.area[v] EXCEPT !.prot = prot] ELSE m.area[v]]
  BY <1>1 DEF Protected, MM
<1> HIDE DEF k
<1>4. \A v \in L : /\ S(k, v) = S(m, v) /\ E(k, v) = E(m, v)
                   /\ Kind(k, v) = IF v \in K THEN [Kind(m, v) EXCEPT !.prot = prot] ELSE Kind(m, v)
  <2>1. ASSUME NEW v \in L, v \in K
        PROVE  S(k, v) = S(m, v) /\ E(k, v) = E(m, v) /\ Kind(k, v) = [Kind(m, v) EXCEPT !.prot = prot]
    <3>1. k.area[v] = [m.area[v] EXCEPT !.prot = prot] /\ m.area[v] \in Area
      BY <1>1, <1>3, <2>1
    <3> QED BY <3>1 DEF S, E, Kind, Area
  <2>2. ASSUME NEW v \in L, v \notin K
        PROVE  S(k, v) = S(m, v) /\ E(k, v) = E(m, v) /\ Kind(k, v) = Kind(m, v)
    BY <1>1, <1>3, <2>2 DEF S, E, Kind
  <2> QED BY <2>1, <2>2
<1>5. ASSUME NEW x \in Nat
      PROVE  View(k, x) = IF S(m, a) <= x /\ x < E(m, b) THEN {[z EXCEPT !.prot = prot] : z \in View(m, x)}
                          ELSE View(m, x)
  <2>1. \A v \in L : At(m, v, x) => (v \in K <=> S(m, a) <= x /\ x < E(m, b))
    BY SpanAt DEF K
  <2>2. \A v \in L : At(k, v, x) <=> At(m, v, x)
    BY <1>4 DEF At
  <2>3. \A z : z \in View(k, x) <=> \E v \in L : At(m, v, x) /\ z = Kind(k, v)
    BY <1>2, <2>2, ViewHas
  <2>4. \A z : z \in View(m, x) <=> \E v \in L : At(m, v, x) /\ z = Kind(m, v)
    BY ViewHas
  <2>5. CASE S(m, a) <= x /\ x < E(m, b)
    <3>1. \A v \in L : At(m, v, x) => Kind(k, v) = [Kind(m, v) EXCEPT !.prot = prot]
      BY <1>4, <2>1, <2>5
    <3>2. ASSUME NEW y PROVE y \in View(k, x) <=> y \in {[z EXCEPT !.prot = prot] : z \in View(m, x)}
      BY <2>3, <2>4, <3>1
    <3> QED BY <2>5, <3>2
  <2>6. CASE ~ (S(m, a) <= x /\ x < E(m, b))
    <3>1. \A v \in L : At(m, v, x) => Kind(k, v) = Kind(m, v)
      BY <1>4, <2>1, <2>6
    <3>2. ASSUME NEW y PROVE y \in View(k, x) <=> y \in View(m, x)
      BY <2>3, <2>4, <3>1
    <3> QED BY <2>6, <3>2
  <2> QED BY <2>5, <2>6
<1>6. ASSUME OnPages(m) PROVE OnPages(k)
  BY <1>2, <1>4, <1>6 DEF OnPages
<1>7. ProtectedView(m, k, S(m, a), E(m, b), prot)
  BY <1>5, <1>6 DEF ProtectedView
<1> QED BY <1>7 DEF k, K

(* The mergers of vmem_set_prot_vma, one for each area of the range.       *)
Merging(f, m1, range, n) ==
  f = [i \in 0 .. n |-> IF i = 0 THEN TryMergeNext(m1, Last(range)) ELSE TryMergePrev(f[i - 1], range[i])]

LEMMA MergingExists ==
  ASSUME NEW m1, NEW range, NEW n \in Nat
  PROVE  \E f : Merging(f, m1, range, n)
<1> DEFINE P == {i \in Nat : \E f : Merging(f, m1, range, i)}
           f0 == [i \in 0 .. 0 |-> TryMergeNext(m1, Last(range))]
<1>1. 0 \in P
  <2>1. f0 = [i \in 0 .. 0 |-> IF i = 0 THEN TryMergeNext(m1, Last(range)) ELSE TryMergePrev(f0[i - 1], range[i])]
    OBVIOUS
  <2> HIDE DEF f0
  <2>2. Merging(f0, m1, range, 0)
    BY <2>1 DEF Merging
  <2> QED BY <2>2
<1>2. ASSUME NEW i \in Nat, i \in P PROVE i + 1 \in P
  <2>1. PICK f : Merging(f, m1, range, i)
    BY <1>2
  <2> DEFINE g == [j \in 0 .. i + 1 |-> IF j \in 0 .. i THEN f[j] ELSE TryMergePrev(f[i], range[i + 1])]
  <2>2. \A j \in 0 .. i : f[j] = IF j = 0 THEN TryMergeNext(m1, Last(range)) ELSE TryMergePrev(f[j - 1], range[j])
    BY <2>1 DEF Merging
  <2>3. ASSUME NEW j \in 0 .. i + 1
        PROVE  g[j] = IF j = 0 THEN TryMergeNext(m1, Last(range)) ELSE TryMergePrev(g[j - 1], range[j])
    <3>1. CASE j = 0
      <4>1. j \in 0 .. i
        BY <3>1
      <4>2. g[j] = f[j]
        BY <4>1
      <4> QED BY <2>2, <3>1, <4>1, <4>2
    <3>2. CASE j \in 1 .. i
      <4>1. j \in 0 .. i /\ j - 1 \in 0 .. i /\ j - 1 \in 0 .. i + 1 /\ j # 0
        BY <3>2
      <4>2. g[j] = f[j] /\ g[j - 1] = f[j - 1]
        BY <4>1
      <4> HIDE DEF g
      <4> QED BY <2>2, <4>1, <4>2
    <3>3. CASE j = i + 1
      <4>1. j - 1 = i /\ i \in 0 .. i /\ i \in 0 .. i + 1 /\ j # 0 /\ j \notin 0 .. i
        BY <3>3
      <4>2. g[j] = TryMergePrev(f[i], range[i + 1]) /\ g[j - 1] = f[i]
        BY <4>1
      <4> HIDE DEF g
      <4> QED BY <3>3, <4>1, <4>2
    <3> QED BY <3>1, <3>2, <3>3
  <2>4. g = [j \in 0 .. i + 1 |-> g[j]]
    OBVIOUS
  <2> HIDE DEF g
  <2>5. g = [j \in 0 .. i + 1 |-> IF j = 0 THEN TryMergeNext(m1, Last(range)) ELSE TryMergePrev(g[j - 1], range[j])]
    BY <2>3, <2>4
  <2>6. Merging(g, m1, range, i + 1)
    BY <2>5 DEF Merging
  <2> QED BY <2>6
<1> HIDE DEF P
<1>3. \A i \in 0 .. n : i \in P
  BY <1>1, <1>2, Upwards
<1>4. n \in P
  BY <1>3
<1> QED BY <1>4 DEF P

LEMMA SetProtIs ==
  ASSUME NEW m, NEW a \in Allocated(m), NEW b \in Allocated(m), Tidy(m, {b}, {a}), S(m, a) <= S(m, b),
         NEW prot \in Prot
  PROVE  LET k == SetProtRange(m, AreasOf(m, a, b), prot)
         IN  Tidy(k, {}, {}) /\ ProtectedView(m, k, S(m, a), E(m, b), prot)
<1> DEFINE L == Allocated(m)
           K == Span(m, L, a, b)
           range == AreasOf(m, a, b)
           n == Len(range)
           m1 == Protected(m, K, prot)
           f == CHOOSE g : Merging(g, m1, range, n)
<1>1. Chain(m, L)
  BY DEF Tidy
<1>2. /\ n \in Nat \ {0} /\ DOMAIN range = 1 .. n /\ ToSet(range) = K /\ Last(range) = b
      /\ \A i \in 1 .. n : range[i] \in L
      /\ \A i, j \in 1 .. n : i # j => range[i] # range[j]
  BY <1>1, SectionIs
<1>3. SetProtRange(m, range, prot) = f[n]
  BY <1>2 DEF SetProtRange, Merging, Protected
<1>4. Tidy(m1, {b}, K) /\ Allocated(m1) = L /\ m1.links = m.links
  BY ProtectedIs
<1>5. b \in K /\ N(m, b) \notin K
  BY <1>1, SpanEnds
<1> HIDE DEF range, K, m1
<1>6. Merging(f, m1, range, n)
  <2>1. \E g : Merging(g, m1, range, n)
    BY <1>2, MergingExists
  <2> QED BY <2>1
<1> HIDE DEF f, n
<1>7. /\ f[0] = TryMergeNext(m1, b)
      /\ \A i \in 1 .. n : f[i] = TryMergePrev(f[i - 1], range[i])
  <2>1. \A i \in 0 .. n : f[i] = IF i = 0 THEN TryMergeNext(m1, Last(range)) ELSE TryMergePrev(f[i - 1], range[i])
    BY <1>6 DEF Merging
  <2> QED BY <1>2, <2>1
<1> DEFINE Ahead(i) == {range[j] : j \in i + 1 .. n}
           P == {i \in 0 .. n : Tidy(f[i], {}, Ahead(i)) /\ Ahead(i) \subseteq Allocated(f[i]) /\ Same(m1, f[i])}
<1>8. 0 \in P
  <2>1. N(m1, b) = N(m, b) /\ N(m, b) \notin {b}
    BY <1>4, <1>5 DEF N
  <2>2. Tidy(f[0], {b} \ {b}, K \ {N(m, b)}) /\ L \ {N(m, b)} \subseteq Allocated(f[0])
    BY <1>4, <1>7, <2>1, MergeNext
  <2>3. Ahead(0) = K
    BY <1>2 DEF ToSet
  <2>4. K \subseteq L
    BY <1>1, SpanEnds DEF K
  <2>5. {b} \ {b} = {} /\ K \ {N(m, b)} = K
    BY <1>5
  <2>6. Tidy(f[0], {}, K) /\ K \subseteq Allocated(f[0])
    BY <1>5, <2>2, <2>4, <2>5
  <2>7. Same(m1, f[0])
    BY <1>4, <1>7, MergeNextSame DEF Tidy
  <2>8. Tidy(f[0], {}, Ahead(0)) /\ Ahead(0) \subseteq Allocated(f[0]) /\ Same(m1, f[0])
    BY <2>3, <2>6, <2>7
  <2>9. 0 \in 0 .. n
    BY <1>2
  <2> HIDE DEF Ahead
  <2> QED BY <2>8, <2>9
<1>9. ASSUME NEW i \in 0 .. n - 1, i \in P PROVE i + 1 \in P
  <2> DEFINE v == range[i + 1]
  <2>1. i + 1 \in 1 .. n /\ (i + 1) - 1 = i /\ i + 1 \in i + 1 .. n /\ i + 1 \in 0 .. n
    BY <1>2
  <2>2. Tidy(f[i], {}, Ahead(i)) /\ Ahead(i) \subseteq Allocated(f[i]) /\ v \in Ahead(i) /\ Same(m1, f[i])
    BY <1>9, <2>1
  <2>3. f[i + 1] = TryMergePrev(f[i], v)
    BY <1>7, <2>1
  <2>4. Ahead(i + 1) = Ahead(i) \ {v}
    <3>1. ASSUME NEW j \in (i + 1) + 1 .. n PROVE j \in i + 1 .. n /\ range[j] # v
      <4>1. j \in i + 1 .. n /\ j \in 1 .. n /\ j # i + 1
        BY <1>2, <2>1
      <4> QED BY <1>2, <2>1, <4>1
    <3>2. ASSUME NEW j \in i + 1 .. n, j # i + 1 PROVE j \in (i + 1) + 1 .. n
      BY <1>2, <3>2
    <3> QED BY <3>1, <3>2
  <2> HIDE DEF Ahead, v
  <2>5. Tidy(f[i + 1], {}, Ahead(i) \ {v}) /\ Allocated(f[i]) \ {v} \subseteq Allocated(f[i + 1])
    <3>1. v \in Allocated(f[i])
      BY <2>2
    <3> QED BY <2>2, <2>3, <3>1, MergePrev
  <2>6. Tidy(f[i + 1], {}, Ahead(i + 1)) /\ Ahead(i + 1) \subseteq Allocated(f[i + 1])
    BY <2>2, <2>4, <2>5
  <2>7. Same(m1, f[i + 1])
    <3>1. v \in Allocated(f[i]) /\ Chain(f[i], Allocated(f[i]))
      BY <2>2 DEF Tidy
    <3>2. Same(f[i], f[i + 1])
      BY <2>3, <3>1, MergePrevSame
    <3> QED BY <2>2, <3>2, SameAgain
  <2> QED BY <2>1, <2>6, <2>7
<1>10. \A i \in 0 .. n : i \in P
  <2> HIDE DEF P
  <2>1. 0 \in Nat /\ n \in Nat
    BY <1>2
  <2> QED BY <1>8, <1>9, <2>1, Upwards
<1>11. Tidy(f[n], {}, Ahead(n)) /\ Same(m1, f[n])
  <2>1. n \in 0 .. n
    BY <1>2
  <2> HIDE DEF Ahead
  <2> QED BY <1>10, <2>1
<1>12. Ahead(n) = {}
  BY <1>2
<1> HIDE DEF Ahead
<1>13. Tidy(f[n], {}, {})
  BY <1>11, <1>12
<1>14. ProtectedView(m, m1, S(m, a), E(m, b), prot)
  BY <1>1, <1>4, ProtectedSees DEF m1, K
<1>15. ProtectedView(m, f[n], S(m, a), E(m, b), prot)
  BY <1>11, <1>14 DEF ProtectedView, Same
<1> QED BY <1>3, <1>13, <1>15 DEF range
-----------------------------------------------------------------------------
(* Where an area is mapped.                                                *)
Bit(x, m) == IF x % 2 = 1 /\ m % 2 = 0 THEN 1 ELSE 0

Masking(f) ==
  f = [p \in Nat \X Nat |->
         IF p[1] = 0 THEN 0
         ELSE (IF p[1] % 2 = 1 /\ p[2] % 2 = 0 THEN 1 ELSE 0) + 2 * f[<<p[1] \div 2, p[2] \div 2>>]]

LEMMA Halves ==
  ASSUME NEW x \in Nat
  PROVE  x \div 2 \in Nat /\ x % 2 \in 0 .. 1 /\ x = 2 * (x \div 2) + (x % 2) /\ (x # 0 => x \div 2 < x)
<1>1. 2 \in Nat \ {0}
  OBVIOUS
<1>2. x \div 2 \in Nat /\ x % 2 \in Nat /\ x % 2 < 2 /\ x = 2 * (x \div 2) + (x % 2)
  BY <1>1, DivMod
<1> QED BY <1>2

LEMMA MaskingExists == \E f : Masking(f)
<1> DEFINE X == Nat \X Nat
           stop == {p \in X : p[1] = 0}
           next == [p \in X |-> <<p[1] \div 2, p[2] \div 2>>]
           rank == [p \in X |-> p[1]]
           base == [p \in X |-> 0]
           comb == [q \in X \X Nat |-> Bit(q[1][1], q[1][2]) + 2 * q[2]]
<1>1. next \in [X -> X]
  <2>1. ASSUME NEW p \in X PROVE <<p[1] \div 2, p[2] \div 2>> \in X
    BY Halves
  <2> QED BY <2>1
<1>2. rank \in [X -> Nat] /\ base \in [X -> Nat]
  OBVIOUS
<1>3. comb \in [X \X Nat -> Nat]
  BY DEF Bit
<1>4. \A p \in X : p \notin stop => rank[next[p]] < rank[p]
  <2>1. ASSUME NEW p \in X, p[1] # 0 PROVE rank[next[p]] < rank[p]
    <3>1. next[p] = <<p[1] \div 2, p[2] \div 2>> /\ next[p] \in X
      BY <1>1
    <3>2. rank[next[p]] = p[1] \div 2 /\ rank[p] = p[1]
      BY <3>1
    <3> QED BY <2>1, <3>2, Halves
  <2> QED BY <2>1
<1> HIDE DEF X, stop, next, rank, base, comb
<1>5. Descends(X, stop, next, rank) /\ Combines(X, Nat, base, comb)
  BY <1>1, <1>2, <1>3, <1>4 DEF Descends, Combines
<1>6. PICK f : Recurs(f, X, Nat, stop, next, base, comb)
  BY <1>5, Recursion
<1>7. ASSUME NEW p \in X
      PROVE  f[p] = IF p[1] = 0 THEN 0
                    ELSE (IF p[1] % 2 = 1 /\ p[2] % 2 = 0 THEN 1 ELSE 0) + 2 * f[<<p[1] \div 2, p[2] \div 2>>]
  <2>1. f[p] = IF p \in stop THEN base[p] ELSE comb[<<p, f[next[p]]>>]
    BY <1>6 DEF Recurs
  <2>2. p \in stop <=> p[1] = 0
    BY DEF stop
  <2>3. base[p] = 0 /\ next[p] = <<p[1] \div 2, p[2] \div 2>>
    BY DEF base, next
  <2>4. f[next[p]] \in Nat
    BY <1>1, <1>6 DEF Recurs
  <2>5. ASSUME NEW y \in Nat PROVE comb[<<p, y>>] = Bit(p[1], p[2]) + 2 * y
    BY DEF comb
  <2> QED BY <2>1, <2>2, <2>3, <2>4, <2>5 DEF Bit
<1>8. f \in [Nat \X Nat -> Nat] /\ X = Nat \X Nat
  BY <1>6 DEF Recurs, X
<1>9. f = [p \in Nat \X Nat |-> f[p]]
  BY <1>8
<1>10. f = [p \in Nat \X Nat |->
              IF p[1] = 0 THEN 0
              ELSE (IF p[1] % 2 = 1 /\ p[2] % 2 = 0 THEN 1 ELSE 0) + 2 * f[<<p[1] \div 2, p[2] \div 2>>]]
  BY <1>7, <1>8, <1>9
<1>11. Masking(f)
  BY <1>10 DEF Masking
<1> QED BY <1>11

LEMMA AndNotIs ==
  ASSUME NEW x \in Nat, NEW m \in Nat
  PROVE  AndNot(x, m) = IF x = 0 THEN 0 ELSE Bit(x, m) + 2 * AndNot(x \div 2, m \div 2)
<1> DEFINE f == CHOOSE g : Masking(g)
<1>1. \A y, n : AndNot(y, n) = f[<<y, n>>]
  BY DEF AndNot, Masking
<1>2. Masking(f)
  BY MaskingExists
<1> HIDE DEF f
<1>3. \A p \in Nat \X Nat :
        f[p] = IF p[1] = 0 THEN 0
               ELSE (IF p[1] % 2 = 1 /\ p[2] % 2 = 0 THEN 1 ELSE 0) + 2 * f[<<p[1] \div 2, p[2] \div 2>>]
  BY <1>2 DEF Masking
<1>4. f[<<x, m>>] = IF x = 0 THEN 0 ELSE Bit(x, m) + 2 * f[<<x \div 2, m \div 2>>]
  <2>1. <<x, m>> \in Nat \X Nat /\ <<x, m>>[1] = x /\ <<x, m>>[2] = m
    OBVIOUS
  <2> QED BY <1>3, <2>1 DEF Bit
<1> QED BY <1>1, <1>4

(* x & ~m is less than x by at most m.                                     *)
LEMMA AndNotLow ==
  ASSUME NEW x \in Nat, NEW m \in Nat
  PROVE  AndNot(x, m) \in Nat /\ x <= AndNot(x, m) + m
<1> DEFINE P == {n \in Nat : \A y \in 0 .. n : \A k \in Nat : AndNot(y, k) \in Nat /\ y <= AndNot(y, k) + k}
<1>1. 0 \in P
  <2>1. ASSUME NEW k \in Nat PROVE AndNot(0, k) = 0
    BY AndNotIs
  <2> QED BY <2>1
<1>2. ASSUME NEW n \in Nat, n \in P PROVE n + 1 \in P
  <2>1. ASSUME NEW k \in Nat PROVE AndNot(n + 1, k) \in Nat /\ n + 1 <= AndNot(n + 1, k) + k
    <3> DEFINE y == n + 1
               h == y \div 2
               j == k \div 2
    <3>1. y \in Nat /\ y # 0 /\ AndNot(y, k) = Bit(y, k) + 2 * AndNot(h, j)
      <4>1. y \in Nat /\ y # 0
        OBVIOUS
      <4> HIDE DEF y
      <4> QED BY <4>1, AndNotIs
    <3>2. h \in Nat /\ y % 2 \in 0 .. 1 /\ y = 2 * h + (y % 2) /\ h < y
      BY <3>1, Halves
    <3>3. j \in Nat /\ k % 2 \in 0 .. 1 /\ k = 2 * j + (k % 2)
      BY Halves
    <3> HIDE DEF h, j
    <3>4. h \in 0 .. n
      BY <3>2
    <3>5. AndNot(h, j) \in Nat /\ h <= AndNot(h, j) + j
      BY <1>2, <3>3, <3>4
    <3>6. Bit(y, k) \in 0 .. 1 /\ y % 2 <= Bit(y, k) + (k % 2)
      BY <3>2, <3>3 DEF Bit
    <3> HIDE DEF y
    <3>7. ASSUME NEW A \in Nat, NEW b \in 0 .. 1, NEW r \in 0 .. 1, NEW s \in 0 .. 1,
                 y = 2 * h + r, k = 2 * j + s, h <= A + j, r <= b + s
          PROVE  b + 2 * A \in Nat /\ y <= b + 2 * A + k
      BY <3>2, <3>3, <3>7
    <3>8. AndNot(y, k) \in Nat /\ y <= AndNot(y, k) + k
      BY <3>1, <3>2, <3>3, <3>5, <3>6, <3>7
    <3> QED BY <3>8 DEF y
  <2> QED BY <1>2, <2>1
<1> HIDE DEF P
<1>3. x \in P
  BY <1>1, <1>2, Upwards
<1> QED BY <1>3 DEF P

(* What the masks of vma_map keep aligned.                                 *)
LEMMA ModOfMultiple ==
  ASSUME NEW n \in Nat \ {0}, NEW t \in Nat
  PROVE  n * t \in Nat /\ (n * t) % n = 0
<1> DEFINE q == (n * t) \div n
           r == (n * t) % n
<1>1. n * t \in Nat
  OBVIOUS
<1>2. q \in Nat /\ r \in Nat /\ r < n /\ n * t = n * q + r
  BY <1>1, DivMod
<1> HIDE DEF q, r
<1>3. n * q \in Nat
  BY <1>2
<1>4. ASSUME t < q PROVE FALSE
  <2>1. t + 1 <= q
    BY <1>2, <1>4
  <2>2. n * (t + 1) <= n * q
    BY <1>2, <2>1, TimesGrows
  <2>3. n * (t + 1) = n * t + n
    OBVIOUS
  <2> QED BY <1>1, <1>2, <1>3, <2>2, <2>3
<1>5. ASSUME q < t PROVE FALSE
  <2>1. q + 1 <= t
    BY <1>2, <1>5
  <2>2. n * (q + 1) <= n * t
    BY <1>2, <2>1, TimesGrows
  <2>3. n * (q + 1) = n * q + n
    BY <1>2
  <2> QED BY <1>1, <1>2, <1>3, <2>2, <2>3
<1>6. q = t
  BY <1>2, <1>4, <1>5
<1>7. r = 0
  BY <1>1, <1>2, <1>6
<1> QED BY <1>1, <1>7 DEF r

LEMMA Quotient ==
  ASSUME NEW x \in Nat, NEW n \in Nat \ {0}, x % n = 0
  PROVE  x \div n \in Nat /\ x = n * (x \div n)
<1>1. x \div n \in Nat /\ x = n * (x \div n) + (x % n)
  BY DivMod
<1>2. n * (x \div n) \in Nat
  BY <1>1
<1> QED BY <1>1, <1>2

LEMMA Factor ==
  ASSUME NEW x \in Nat, NEW n \in Nat \ {0}, x % n = 0
  PROVE  \E t \in Nat : x = n * t
BY Quotient

(* A divisor of a power of two is one.                                     *)
LEMMA PowerDivides ==
  ASSUME NEW n \in Nat \ {0}, PowerOfTwo(n), NEW h \in Nat \ {0}, n % h = 0
  PROVE  PowerOfTwo(h)
<1>1. SUFFICES ASSUME NEW d \in 1 .. h, h % d = 0 PROVE d = 1 \/ d % 2 = 0
  BY DEF PowerOfTwo
<1>2. PICK a \in Nat : n = h * a
  BY Quotient
<1>3. PICK b \in Nat : h = d * b
  <2>1. d \in Nat \ {0} /\ h \in Nat /\ h % d = 0
    BY <1>1
  <2> QED BY <2>1, Quotient
<1>4. b * a \in Nat /\ n = d * (b * a)
  BY <1>2, <1>3
<1>5. n % d = 0
  BY <1>4, ModOfMultiple
<1>6. d <= n
  <2>1. b * a # 0
    BY <1>4
  <2>2. d * 1 <= d * (b * a)
    BY <1>4, <2>1, TimesGrows
  <2> QED BY <1>4, <2>2
<1>7. d \in 1 .. n
  BY <1>6
<1> QED BY <1>5, <1>7 DEF PowerOfTwo

LEMMA PowerHalves ==
  ASSUME NEW n \in Nat \ {0}, PowerOfTwo(n), n # 1
  PROVE  \E q \in Nat \ {0} : n = 2 * q /\ q < n /\ PowerOfTwo(q)
<1>1. n % n = 0
  <2>1. n * 1 = n /\ (n * 1) % n = 0
    BY ModOfMultiple
  <2> QED BY <2>1
<1>2. n % 2 = 0
  BY <1>1 DEF PowerOfTwo
<1> DEFINE q == n \div 2
<1>3. q \in Nat /\ n = 2 * q
  BY <1>2, Quotient
<1> HIDE DEF q
<1>4. q \in Nat \ {0} /\ q < n /\ n = q * 2
  BY <1>3
<1>5. n % q = 0
  BY <1>4, ModOfMultiple
<1>6. PowerOfTwo(q)
  BY <1>4, <1>5, PowerDivides
<1> QED BY <1>3, <1>4, <1>6

LEMMA OddHalves ==
  ASSUME NEW c \in Nat \ {0}
  PROVE  2 * c - 1 \in Nat /\ 2 * c - 1 # 0 /\ (2 * c - 1) % 2 = 1 /\ (2 * c - 1) \div 2 = c - 1
OBVIOUS

(* x & ~m loses its last bit where m has it.                               *)
LEMMA AndNotOdd ==
  ASSUME NEW x \in Nat, NEW c \in Nat \ {0}
  PROVE  AndNot(x, 2 * c - 1) = 2 * AndNot(x \div 2, c - 1)
<1>1. 2 * c - 1 \in Nat /\ (2 * c - 1) % 2 = 1 /\ (2 * c - 1) \div 2 = c - 1
  BY OddHalves
<1>2. CASE x = 0
  <2>1. x \div 2 = 0 /\ c - 1 \in Nat
    BY <1>2
  <2>2. AndNot(0, 2 * c - 1) = 0 /\ AndNot(0, c - 1) = 0
    BY <1>1, <2>1, AndNotIs
  <2> QED BY <1>2, <2>1, <2>2
<1>3. CASE x # 0
  <2>1. Bit(x, 2 * c - 1) = 0
    BY <1>1 DEF Bit
  <2>2. AndNot(x, 2 * c - 1) = Bit(x, 2 * c - 1) + 2 * AndNot(x \div 2, c - 1)
    BY <1>1, <1>3, AndNotIs
  <2>3. AndNot(x \div 2, c - 1) \in Nat
    <3>1. x \div 2 \in Nat /\ c - 1 \in Nat
      BY Halves
    <3> QED BY <3>1, AndNotLow
  <2> QED BY <2>1, <2>2, <2>3
<1> QED BY <1>2, <1>3

LEMMA AndNotNothing ==
  ASSUME NEW x \in Nat
  PROVE  AndNot(x, 0) = x
<1> DEFINE P == {n \in Nat : \A y \in 0 .. n : AndNot(y, 0) = y}
<1>1. 0 \in P
  <2>1. AndNot(0, 0) = 0
    BY AndNotIs
  <2> QED BY <2>1
<1>2. ASSUME NEW n \in Nat, n \in P PROVE n + 1 \in P
  <2>1. AndNot(n + 1, 0) = n + 1
    <3> DEFINE y == n + 1
               h == y \div 2
    <3>1. y \in Nat /\ y # 0 /\ AndNot(y, 0) = Bit(y, 0) + 2 * AndNot(h, 0 \div 2)
      <4>1. y \in Nat /\ y # 0
        OBVIOUS
      <4> HIDE DEF y
      <4> QED BY <4>1, AndNotIs
    <3>2. h \in Nat /\ y % 2 \in 0 .. 1 /\ y = 2 * h + (y % 2) /\ h < y
      BY <3>1, Halves
    <3> HIDE DEF h
    <3>3. h \in 0 .. n
      BY <3>2
    <3>4. AndNot(h, 0) = h /\ 0 \div 2 = 0
      BY <1>2, <3>3
    <3>5. Bit(y, 0) = y % 2
      BY <3>2 DEF Bit
    <3> HIDE DEF y
    <3>6. AndNot(y, 0) = y
      BY <3>1, <3>2, <3>4, <3>5
    <3> QED BY <3>6 DEF y
  <2>2. \A y \in 0 .. n + 1 : y = n + 1 \/ y \in 0 .. n
    OBVIOUS
  <2> QED BY <1>2, <2>1, <2>2
<1> HIDE DEF P
<1>3. x \in P
  BY <1>1, <1>2, Upwards
<1> QED BY <1>3 DEF P

(* The mask of a multiple of a power of two leaves multiples of it.        *)
Masked(n) == PowerOfTwo(n) => \A x \in Nat, j \in Nat \ {0} : \E t \in Nat : AndNot(x, n * j - 1) = n * t

LEMMA MaskLeavesMultiples ==
  ASSUME NEW n \in Nat \ {0}
  PROVE  Masked(n)
<1> DEFINE P == {i \in Nat : \A k \in 1 .. i : Masked(k)}
<1>1. 0 \in P
  OBVIOUS
<1>2. ASSUME NEW i \in Nat, i \in P PROVE i + 1 \in P
  <2> DEFINE y == i + 1
  <2>1. ASSUME PowerOfTwo(y), NEW x \in Nat, NEW j \in Nat \ {0}
        PROVE  \E t \in Nat : AndNot(x, y * j - 1) = y * t
    <3>1. CASE y = 1
      <4>1. y * j - 1 \in Nat
        BY <3>1
      <4>2. AndNot(x, y * j - 1) \in Nat
        BY <4>1, AndNotLow
      <4>3. AndNot(x, y * j - 1) = y * AndNot(x, y * j - 1)
        <5> HIDE DEF y
        <5> QED BY <3>1, <4>2
      <4> QED BY <4>2, <4>3
    <3>2. CASE y # 1
      <4>1. PICK q \in Nat \ {0} : y = 2 * q /\ q < y /\ PowerOfTwo(q)
        <5>1. y \in Nat \ {0}
          OBVIOUS
        <5> HIDE DEF y
        <5> QED BY <2>1, <3>2, <5>1, PowerHalves
      <4>2. q \in 1 .. i
        BY <4>1
      <4>3. Masked(q)
        BY <1>2, <4>2
      <4> DEFINE c == q * j
      <4>4. c \in Nat \ {0} /\ y * j = 2 * c
        <5>1. y * j = (2 * q) * j /\ (2 * q) * j = 2 * (q * j)
          BY <4>1
        <5>2. q * 1 <= q * j
          BY TimesGrows
        <5> QED BY <5>1, <5>2
      <4>5. x \div 2 \in Nat
        BY Halves
      <4>6. PICK t \in Nat : AndNot(x \div 2, c - 1) = q * t
        BY <4>1, <4>3, <4>5 DEF Masked
      <4> HIDE DEF c, y
      <4>7. AndNot(x, y * j - 1) = 2 * (q * t)
        BY <4>4, <4>6, AndNotOdd
      <4>8. 2 * (q * t) = y * t
        BY <4>1
      <4> QED BY <4>7, <4>8
    <3> QED BY <3>1, <3>2
  <2>2. Masked(y)
    BY <2>1 DEF Masked
  <2>3. \A k \in 1 .. i + 1 : k = i + 1 \/ k \in 1 .. i
    OBVIOUS
  <2> QED BY <1>2, <2>2, <2>3
<1> HIDE DEF P
<1>3. n \in P
  BY <1>1, <1>2, Upwards
<1>4. n \in 1 .. n
  OBVIOUS
<1> QED BY <1>3, <1>4 DEF P

(* A multiple of a power of two is not rounded up to the next one.         *)
Exactly(n) == PowerOfTwo(n) => \A t \in Nat : AndNot(n + n * t - 1, n - 1) = n * t

LEMMA RoundsExactly ==
  ASSUME NEW n \in Nat \ {0}
  PROVE  Exactly(n)
<1> DEFINE P == {i \in Nat : \A k \in 1 .. i : Exactly(k)}
<1>1. 0 \in P
  OBVIOUS
<1>2. ASSUME NEW i \in Nat, i \in P PROVE i + 1 \in P
  <2> DEFINE y == i + 1
  <2>1. ASSUME PowerOfTwo(y), NEW t \in Nat PROVE AndNot(y + y * t - 1, y - 1) = y * t
    <3>1. CASE y = 1
      <4>1. y + y * t - 1 = t /\ y - 1 = 0 /\ y * t = t
        <5> HIDE DEF y
        <5> QED BY <3>1
      <4> HIDE DEF y
      <4> QED BY <4>1, AndNotNothing
    <3>2. CASE y # 1
      <4>1. PICK q \in Nat \ {0} : y = 2 * q /\ q < y /\ PowerOfTwo(q)
        <5>1. y \in Nat \ {0}
          OBVIOUS
        <5> HIDE DEF y
        <5> QED BY <2>1, <3>2, <5>1, PowerHalves
      <4>2. q \in 1 .. i
        BY <4>1
      <4>3. AndNot(q + q * t - 1, q - 1) = q * t
        <5>1. Exactly(q)
          BY <1>2, <4>2
        <5> QED BY <4>1, <5>1 DEF Exactly
      <4> DEFINE c == q + q * t
      <4>4. q * t \in Nat /\ c \in Nat \ {0} /\ y * t = 2 * (q * t) /\ y + y * t = 2 * c
        BY <4>1
      <4> HIDE DEF c, y
      <4>5. 2 * c - 1 \in Nat /\ (2 * c - 1) \div 2 = c - 1
        BY <4>4, OddHalves
      <4>6. AndNot(2 * c - 1, 2 * q - 1) = 2 * AndNot(c - 1, q - 1)
        BY <4>5, AndNotOdd
      <4> QED BY <4>1, <4>3, <4>4, <4>6 DEF c
    <3> QED BY <3>1, <3>2
  <2>2. Exactly(y)
    BY <2>1 DEF Exactly
  <2>3. \A k \in 1 .. i + 1 : k = i + 1 \/ k \in 1 .. i
    OBVIOUS
  <2> QED BY <1>2, <2>2, <2>3
<1> HIDE DEF P
<1>3. n \in P
  BY <1>1, <1>2, Upwards
<1>4. n \in 1 .. n
  OBVIOUS
<1> QED BY <1>3, <1>4 DEF P

(* Whatever alignment a hint asks for, the places behind areas are pages.  *)
Suits(hint) == hint % PageSize = 0 \/ PageSize % hint = 0

LEMMA HintAligns ==
  ASSUME NEW hint \in Nat \ {0}, Suits(hint), NEW e \in Nat, Aligned(e)
  PROVE  Aligned(AndNot(hint + e - 1, hint - 1))
<1>1. PageSize \in Nat \ {0} /\ PowerOfTwo(PageSize)
  BY VmaConstants, PageAssumption
<1>2. PICK a \in Nat : e = PageSize * a
  BY <1>1, Factor DEF Aligned
<1>3. CASE hint % PageSize = 0
  <2>1. PICK j \in Nat : hint = PageSize * j
    BY <1>1, <1>3, Factor
  <2>2. j \in Nat \ {0}
    BY <1>1, <2>1
  <2>3. hint + e - 1 \in Nat
    OBVIOUS
  <2>4. Masked(PageSize)
    BY <1>1, MaskLeavesMultiples
  <2>5. PICK t \in Nat : AndNot(hint + e - 1, PageSize * j - 1) = PageSize * t
    BY <1>1, <2>2, <2>3, <2>4 DEF Masked
  <2> QED BY <1>1, <2>1, <2>5, ModOfMultiple DEF Aligned
<1>4. CASE PageSize % hint = 0
  <2>1. PowerOfTwo(hint)
    BY <1>1, <1>4, PowerDivides
  <2>2. PICK b \in Nat : PageSize = hint * b
    BY <1>1, <1>4, Factor
  <2>3. b * a \in Nat /\ e = hint * (b * a)
    BY <1>2, <2>2
  <2>4. Exactly(hint)
    BY RoundsExactly
  <2>5. AndNot(hint + e - 1, hint - 1) = e
    BY <2>1, <2>3, <2>4 DEF Exactly
  <2> QED BY <2>5
<1> QED BY <1>3, <1>4 DEF Suits

LEMMA HintIsPage ==
  ASSUME NEW hint \in Nat \ {0}, Suits(hint), Base <= hint
  PROVE  Aligned(hint)
<1>1. PageSize \in Nat \ {0} /\ Base \in Nat \ {0} /\ Base % PageSize = 0
  BY VmaConstants
<1>2. CASE PageSize % hint = 0
  <2>1. PICK b \in Nat : PageSize = hint * b
    BY <1>1, <1>2, Factor
  <2>2. PICK c \in Nat : Base = PageSize * c
    BY <1>1, Factor
  <2>3. b # 0 /\ c # 0
    BY <1>1, <2>1, <2>2
  <2>4. hint * 1 <= hint * b /\ PageSize * 1 <= PageSize * c
    BY <1>1, <2>3, TimesGrows
  <2>5. hint = PageSize
    BY <1>1, <2>1, <2>2, <2>4
  <2>6. PageSize * 1 = PageSize /\ (PageSize * 1) % PageSize = 0
    BY <1>1, ModOfMultiple
  <2> QED BY <2>5, <2>6 DEF Aligned
<1> QED BY <1>2 DEF Suits, Aligned
-----------------------------------------------------------------------------
(* Where vma_map places an area.                                           *)
LEMMA AlignUpIs ==
  ASSUME NEW a \in Nat
  PROVE  AlignUp(a) \in Nat /\ a <= AlignUp(a) /\ Aligned(AlignUp(a))
<1>1. ASSUME NEW p \in Nat \ {0} PROVE ((a + p - 1) \div p) * p \in Nat /\ a <= ((a + p - 1) \div p) * p
  <2>1. a + p - 1 \in Nat
    OBVIOUS
  <2> DEFINE q == (a + p - 1) \div p
             r == (a + p - 1) % p
  <2>2. q \in Nat /\ r \in Nat /\ r < p /\ a + p - 1 = p * q + r
    BY <2>1, DivMod
  <2> HIDE DEF q, r
  <2>3. q * p = p * q /\ p * q \in Nat
    BY <2>2
  <2>4. ASSUME NEW t \in Nat, a + p - 1 = t + r PROVE a <= t
    BY <2>2, <2>4
  <2>5. q * p \in Nat /\ a <= q * p
    BY <2>2, <2>3, <2>4
  <2> QED BY <2>5 DEF q
<1>2. Aligned(AlignUp(a))
  <2> DEFINE q == (a + PageSize - 1) \div PageSize
  <2>1. PageSize \in Nat \ {0} /\ a + PageSize - 1 \in Nat
    BY VmaConstants
  <2>2. q \in Nat
    BY <2>1, DivMod
  <2>3. AlignUp(a) = q * PageSize
    BY DEF AlignUp
  <2> HIDE DEF q
  <2>4. q * PageSize = PageSize * q
    BY <2>1, <2>2
  <2> QED BY <2>1, <2>2, <2>3, <2>4, ModOfMultiple DEF Aligned
<1> QED BY <1>1, <1>2, VmaConstants DEF AlignUp

(* No area overlaps what lies from va to end.                              *)
Vacant(m, va, end) == \A u \in Allocated(m) : end <= S(m, u) \/ E(m, u) <= va

(* vmem_first_fit                                                          *)
LEMMA FirstFitIs ==
  ASSUME NEW m, Chain(m, Allocated(m)), NEW len \in Nat
  PROVE  LET va == FirstFit(m, len)
         IN  va \in Nat /\ Base <= va /\ Vacant(m, va, va + len) /\ Aligned(va)
<1> DEFINE L == Allocated(m)
           es == Listed(m)
           n == Len(es)
           gap(i) == GapStart(m, es, i)
           Fits(i) == /\ i = n \/ gap(i) + len <= S(m, es[i + 1])
                      /\ \A j \in 0 .. i - 1 : gap(j) + len > S(m, es[j + 1])
           I == {i \in 0 .. n : i = n \/ gap(i) + len <= S(m, es[i + 1])}
           c == CHOOSE i \in 0 .. n : Fits(i)
<1>1. /\ n \in Nat /\ \A i \in 1 .. n : es[i] \in L
      /\ \A u \in L : \E i \in 1 .. n : es[i] = u
      /\ \A i, j \in 1 .. n : i < j => S(m, es[i]) < S(m, es[j])
  BY EntriesAre
<1>2. FirstFit(m, len) = gap(c)
  BY DEF FirstFit, FitIn, S
<1>3. \A u \in L : S(m, u) \in Nat /\ E(m, u) \in Nat /\ S(m, u) < E(m, u) /\ Base <= E(m, u)
  <2>1. \A u \in L : S(m, u) \in Nat /\ E(m, u) \in Nat /\ Base <= E(m, u)
    BY AreaIs DEF Chain, Shape
  <2> QED BY <2>1 DEF Chain, Ordered
<1> HIDE DEF es, n
<1>4. ASSUME NEW i \in 0 .. n
      PROVE  /\ gap(i) \in Nat /\ Base <= gap(i) /\ Aligned(gap(i))
             /\ i # 0 => E(m, es[i]) <= gap(i)
  <2>1. CASE i = 0
    BY <2>1, VmaConstants DEF GapStart, Aligned
  <2>2. CASE i # 0
    <3>1. es[i] \in L
      BY <1>1, <2>2
    <3>2. gap(i) = AlignUp(E(m, es[i]))
      BY <2>2 DEF GapStart, E
    <3>3. /\ AlignUp(E(m, es[i])) \in Nat /\ E(m, es[i]) <= AlignUp(E(m, es[i]))
          /\ Aligned(AlignUp(E(m, es[i])))
      BY <1>3, <3>1, AlignUpIs
    <3> HIDE DEF gap
    <3> QED BY <1>3, <3>1, <3>2, <3>3, VmaConstants
  <2> QED BY <2>1, <2>2
<1> HIDE DEF gap
<1>5. \E i \in 0 .. n : Fits(i)
  <2>1. I \in SUBSET Nat /\ I # {}
    BY <1>1
  <2>2. PICK r \in I : \A q \in I : r <= q
    <3> HIDE DEF I
    <3> QED BY <2>1, Least
  <2>3. ASSUME NEW j \in 0 .. r - 1 PROVE gap(j) + len > S(m, es[j + 1])
    <3>1. j \in 0 .. n /\ ~ (r <= j) /\ j # n /\ j + 1 \in 1 .. n
      BY <1>1, <2>2
    <3>2. j \notin I
      BY <2>2, <3>1
    <3>3. S(m, es[j + 1]) \in Nat /\ gap(j) \in Nat
      BY <1>1, <1>3, <1>4, <3>1
    <3> QED BY <3>1, <3>2, <3>3
  <2>4. Fits(r)
    BY <2>2, <2>3
  <2> QED BY <2>2, <2>4
<1>6. c \in 0 .. n /\ Fits(c)
  <2> HIDE DEF Fits
  <2> QED BY <1>5
<1>7. c = n \/ gap(c) + len <= S(m, es[c + 1])
  BY <1>6
<1> HIDE DEF c
<1>8. ASSUME NEW u \in L PROVE gap(c) + len <= S(m, u) \/ E(m, u) <= gap(c)
  <2>1. PICK j \in 1 .. n : es[j] = u
    BY <1>1
  <2>2. CASE j <= c
    <3>1. c \in 1 .. n /\ es[c] \in L /\ c # 0
      BY <1>1, <1>6, <2>1, <2>2
    <3>2. E(m, u) <= E(m, es[c])
      <4>1. CASE j = c
        BY <1>3, <2>1, <4>1
      <4>2. CASE j # c
        <5>1. S(m, u) < S(m, es[c])
          BY <1>1, <2>1, <2>2, <3>1, <4>2
        <5>2. E(m, u) <= S(m, es[c])
          BY <3>1, <5>1, Disjoint
        <5> QED BY <1>3, <3>1, <5>2
      <4> QED BY <4>1, <4>2
    <3> QED BY <1>3, <1>4, <1>6, <3>1, <3>2
  <2>3. CASE ~ (j <= c)
    <3>1. c + 1 \in 1 .. n /\ c # n /\ c + 1 <= j
      BY <1>1, <1>6, <2>1, <2>3
    <3>2. S(m, es[c + 1]) <= S(m, u)
      <4>1. CASE c + 1 = j
        BY <1>3, <2>1, <4>1
      <4>2. CASE c + 1 # j
        <5>1. S(m, es[c + 1]) < S(m, es[j])
          BY <1>1, <2>1, <3>1, <4>2
        <5> QED BY <1>1, <1>3, <2>1, <3>1, <5>1
      <4> QED BY <4>1, <4>2
    <3>3. S(m, es[c + 1]) \in Nat
      BY <1>1, <1>3, <3>1
    <3> QED BY <1>3, <1>4, <1>6, <1>7, <3>1, <3>2, <3>3
  <2> QED BY <2>2, <2>3
<1>9. gap(c) \in Nat /\ Base <= gap(c) /\ Aligned(gap(c))
  BY <1>4, <1>6
<1>10. Vacant(m, gap(c), gap(c) + len)
  BY <1>8 DEF Vacant
<1> QED BY <1>2, <1>9, <1>10

(* The places that vma_map tries, one behind the other.                    *)
Behind(m, hint, len, va) == AndNot(hint + m.area[FindVma(m, va, len)].end - 1, hint - 1)

Trying(m, hint, len, f) ==
  f = [va \in Nat |-> IF FindVma(m, va, len) = Nil THEN va
                      ELSE f[AndNot(hint + m.area[FindVma(m, va, len)].end - 1, hint - 1)]]

LEMMA BehindIs ==
  ASSUME NEW m, Chain(m, Allocated(m)), NEW hint \in Nat \ {0}, NEW len \in Nat, NEW va \in Nat,
         FindVma(m, va, len) # Nil
  PROVE  /\ Behind(m, hint, len, va) \in Nat /\ va < Behind(m, hint, len, va) /\ va < Top
         /\ OnPages(m) /\ Suits(hint) => Aligned(Behind(m, hint, len, va))
<1> DEFINE v == FindVma(m, va, len)
<1>1. v \in Allocated(m) /\ va < E(m, v)
  BY FindIs
<1>2. E(m, v) \in Nat /\ E(m, v) <= Top /\ Top \in Nat
  BY <1>1, AreaIs, VmaConstants DEF Chain, Shape
<1> HIDE DEF v
<1>3. hint + E(m, v) - 1 \in Nat /\ hint - 1 \in Nat
  BY <1>2
<1>4. AndNot(hint + E(m, v) - 1, hint - 1) \in Nat
      /\ hint + E(m, v) - 1 <= AndNot(hint + E(m, v) - 1, hint - 1) + (hint - 1)
  BY <1>3, AndNotLow
<1>5. Behind(m, hint, len, va) = AndNot(hint + E(m, v) - 1, hint - 1)
  BY DEF Behind, v, E
<1>6. OnPages(m) /\ Suits(hint) => Aligned(Behind(m, hint, len, va))
  <2>1. ASSUME OnPages(m), Suits(hint) PROVE Aligned(AndNot(hint + E(m, v) - 1, hint - 1))
    <3>1. Aligned(E(m, v))
      BY <1>1, <2>1 DEF OnPages
    <3> QED BY <1>2, <2>1, <3>1, HintAligns
  <2> QED BY <1>5, <2>1
<1> QED BY <1>1, <1>2, <1>4, <1>5, <1>6

LEMMA TryingExists ==
  ASSUME NEW m, Chain(m, Allocated(m)), NEW hint \in Nat \ {0}, NEW len \in Nat
  PROVE  \E f : Trying(m, hint, len, f)
<1> DEFINE stop == {va \in Nat : FindVma(m, va, len) = Nil}
           next == [va \in Nat |-> IF va \in stop THEN va ELSE Behind(m, hint, len, va)]
           rank == [va \in Nat |-> IF va < Top THEN Top - va ELSE 0]
           base == [va \in Nat |-> va]
           comb == [q \in Nat \X Nat |-> q[2]]
<1>1. \A va \in Nat : va \notin stop =>
        Behind(m, hint, len, va) \in Nat /\ va < Behind(m, hint, len, va) /\ va < Top
  BY BehindIs
<1>2. Top \in Nat
  BY VmaConstants
<1> HIDE DEF stop
<1>3. next \in [Nat -> Nat] /\ rank \in [Nat -> Nat] /\ base \in [Nat -> Nat] /\ comb \in [Nat \X Nat -> Nat]
  BY <1>1, <1>2
<1>4. \A va \in Nat : va \notin stop => rank[next[va]] < rank[va]
  BY <1>1, <1>2
<1> HIDE DEF next, rank, base, comb
<1>5. Descends(Nat, stop, next, rank) /\ Combines(Nat, Nat, base, comb)
  BY <1>3, <1>4 DEF Descends, Combines
<1>6. PICK f : Recurs(f, Nat, Nat, stop, next, base, comb)
  BY <1>5, Recursion
<1>7. f \in [Nat -> Nat] /\ \A va \in Nat : f[va] = IF va \in stop THEN base[va] ELSE comb[<<va, f[next[va]]>>]
  BY <1>6 DEF Recurs
<1>8. ASSUME NEW va \in Nat
      PROVE  f[va] = IF FindVma(m, va, len) = Nil THEN va
                     ELSE f[AndNot(hint + m.area[FindVma(m, va, len)].end - 1, hint - 1)]
  <2>1. CASE FindVma(m, va, len) = Nil
    BY <1>7, <2>1 DEF stop, base
  <2>2. CASE FindVma(m, va, len) # Nil
    <3>1. va \notin stop /\ next[va] = Behind(m, hint, len, va)
      BY <2>2 DEF stop, next
    <3>2. f[next[va]] \in Nat
      BY <1>3, <1>7
    <3>3. f[va] = f[Behind(m, hint, len, va)]
      BY <1>7, <3>1, <3>2 DEF comb
    <3> QED BY <2>2, <3>3 DEF Behind
  <2> QED BY <2>1, <2>2
<1>9. f = [va \in Nat |-> f[va]]
  BY <1>7
<1>10. f = [va \in Nat |-> IF FindVma(m, va, len) = Nil THEN va
                           ELSE f[AndNot(hint + m.area[FindVma(m, va, len)].end - 1, hint - 1)]]
  BY <1>8, <1>9
<1>11. Trying(m, hint, len, f)
  BY <1>10 DEF Trying
<1> QED BY <1>11

LEMMA TryingFinds ==
  ASSUME NEW m, Chain(m, Allocated(m)), NEW hint \in Nat \ {0}, NEW len \in Nat, NEW f, Trying(m, hint, len, f),
         NEW va \in Nat
  PROVE  /\ f[va] \in Nat /\ va <= f[va] /\ FindVma(m, f[va], len) = Nil
         /\ OnPages(m) /\ Suits(hint) /\ Aligned(va) => Aligned(f[va])
<1> DEFINE Good(x) == /\ f[x] \in Nat /\ x <= f[x] /\ FindVma(m, f[x], len) = Nil
                      /\ OnPages(m) /\ Suits(hint) /\ Aligned(x) => Aligned(f[x])
           Bad == {x \in Nat : ~ Good(x)}
           Left(x) == IF x < Top THEN Top - x ELSE 0
           Lefts == {Left(x) : x \in Bad}
<1>1. ASSUME NEW x \in Nat
      PROVE  f[x] = IF FindVma(m, x, len) = Nil THEN x ELSE f[Behind(m, hint, len, x)]
  BY DEF Trying, Behind
<1>2. Top \in Nat
  BY VmaConstants
<1>3. ASSUME Bad # {} PROVE FALSE
  <2>1. Lefts \in SUBSET Nat /\ Lefts # {}
    <3> HIDE DEF Bad
    <3>1. \A x \in Bad : Left(x) \in Nat
      BY <1>2 DEF Bad
    <3> QED BY <1>3, <3>1
  <2>2. PICK r \in Lefts : \A q \in Lefts : r <= q
    <3> HIDE DEF Lefts
    <3> QED BY <2>1, Least
  <2>3. PICK x \in Bad : r = Left(x)
    BY <2>2
  <2>4. x \in Nat /\ ~ Good(x)
    BY <2>3
  <2>5. FindVma(m, x, len) # Nil
    BY <1>1, <2>4
  <2> DEFINE y == Behind(m, hint, len, x)
  <2>6. /\ y \in Nat /\ x < y /\ x < Top /\ f[x] = f[y]
        /\ OnPages(m) /\ Suits(hint) => Aligned(y)
    BY <1>1, <2>4, <2>5, BehindIs
  <2> HIDE DEF y
  <2>7. ASSUME y \in Bad PROVE FALSE
    <3>1. Left(y) \in Lefts
      BY <2>7
    <3>2. Left(x) <= Left(y)
      <4> HIDE DEF Lefts, Left
      <4> QED BY <2>2, <2>3, <3>1
    <3> QED BY <1>2, <2>4, <2>6, <3>2
  <2>8. Good(y)
    BY <2>6, <2>7
  <2> QED BY <2>4, <2>6, <2>8
<1> QED BY <1>3

(* vma_map finds a place that no area takes.                               *)
LEMMA PlaceIs ==
  ASSUME NEW m, Chain(m, Allocated(m)), NEW hint \in Nat, NEW len \in Nat \ {0}
  PROVE  LET va == Place(m, hint, len)
         IN  /\ va \in Nat /\ Base <= va /\ Vacant(m, va, va + len)
             /\ OnPages(m) /\ (hint # 0 => Suits(hint)) => Aligned(va)
<1> DEFINE f == CHOOSE g : Trying(m, hint, len, g)
           start == IF hint < Base THEN AndNot(hint + Base - 1, hint - 1) ELSE hint
<1>1. CASE hint = 0
  <2>1. Place(m, hint, len) = FirstFit(m, len)
    BY <1>1 DEF Place
  <2> QED BY <2>1, FirstFitIs
<1>2. CASE hint # 0
  <2>1. Place(m, hint, len) = f[start]
    BY <1>2 DEF Place, Trying
  <2>2. Trying(m, hint, len, f)
    <3>1. \E g : Trying(m, hint, len, g)
      BY <1>2, TryingExists
    <3> QED BY <3>1
  <2>3. start \in Nat /\ Base <= start
    <3>1. hint + Base - 1 \in Nat /\ hint - 1 \in Nat /\ Base \in Nat
      BY <1>2, VmaConstants
    <3>2. AndNot(hint + Base - 1, hint - 1) \in Nat
          /\ hint + Base - 1 <= AndNot(hint + Base - 1, hint - 1) + (hint - 1)
      BY <3>1, AndNotLow
    <3> QED BY <3>1, <3>2
  <2> HIDE DEF f, start
  <2>4. ASSUME Suits(hint) PROVE Aligned(start)
    <3>1. CASE hint < Base
      <4>1. Base \in Nat /\ Aligned(Base)
        BY VmaConstants DEF Aligned
      <4> QED BY <1>2, <2>4, <3>1, <4>1, HintAligns DEF start
    <3>2. CASE ~ (hint < Base)
      <4>1. Base <= hint
        BY <3>2, VmaConstants
      <4> QED BY <1>2, <2>4, <3>2, <4>1, HintIsPage DEF start
    <3> QED BY <3>1, <3>2
  <2>5. /\ f[start] \in Nat /\ start <= f[start] /\ FindVma(m, f[start], len) = Nil
        /\ OnPages(m) /\ Suits(hint) /\ Aligned(start) => Aligned(f[start])
    BY <1>2, <2>2, <2>3, TryingFinds
  <2>6. \A u \in Allocated(m) : f[start] + Larger(len, 1) <= S(m, u) \/ E(m, u) <= f[start]
    BY <2>5, FindIs
  <2>7. Larger(len, 1) = len
    BY DEF Larger
  <2>8. Vacant(m, f[start], f[start] + len)
    BY <2>6, <2>7 DEF Vacant
  <2> QED BY <1>2, <2>1, <2>3, <2>4, <2>5, <2>8, VmaConstants
<1> QED BY <1>1, <1>2
-----------------------------------------------------------------------------
(* An area that is mapped where no area lies.                              *)
LEMMA FilledIs ==
  ASSUME NEW m, Chain(m, Allocated(m)), NEW v \in Id \ Allocated(m), NEW area \in Area
  PROVE  LET j == [m EXCEPT !.area[v] = area]
         IN  /\ Chain(j, Allocated(m)) /\ Allocated(j) = Allocated(m) \cup {v} /\ j.links = m.links
             /\ j.area[v] = area /\ \A x \in Id \ {v} : j.area[x] = m.area[x]
<1> DEFINE j == [m EXCEPT !.area[v] = area]
           L == Allocated(m)
<1>1. m \in MM /\ m.area \in [Id -> Area \cup {Nil}] /\ m.links \in Links /\ area # Nil
  BY VmaConstants DEF Chain, Shape, MM
<1>2. j = [links |-> m.links, area |-> [m.area EXCEPT ![v] = area]]
  BY <1>1 DEF MM
<1> HIDE DEF j
<1>3. j.links = m.links /\ j.area = [m.area EXCEPT ![v] = area]
  BY <1>2
<1>4. j.area[v] = area /\ \A x \in Id \ {v} : j.area[x] = m.area[x]
  BY <1>1, <1>3
<1>5. j \in MM
  <2>1. j.area \in [Id -> Area \cup {Nil}]
    BY <1>1, <1>3
  <2> QED BY <1>1, <1>2, <1>3, <2>1 DEF MM
<1>6. Allocated(j) = L \cup {v}
  BY <1>1, <1>4 DEF Allocated
<1>7. \A x \in L : S(j, x) = S(m, x) /\ E(j, x) = E(m, x)
  BY <1>4 DEF S, E, Allocated
<1>8. \A x \in L : S(m, x) < E(m, x) /\ (N(m, x) # H => E(m, x) <= S(m, N(m, x)))
  BY DEF Chain, Ordered
<1>9. \A x \in L : /\ S(j, x) = S(m, x) /\ S(j, x) < E(j, x)
                   /\ N(m, x) # H => E(j, x) <= S(m, N(m, x))
  BY <1>7, <1>8
<1>10. L \subseteq Allocated(j)
  BY <1>6
<1>11. Chain(j, L)
  BY <1>3, <1>5, <1>9, <1>10, SameStarts
<1> QED BY <1>3, <1>4, <1>6, <1>11 DEF j

(* vmem_insert_vma: the area comes behind p.                               *)
LEMMA InsertIs ==
  ASSUME NEW j, NEW L, Chain(j, L), NEW v \in Allocated(j) \ L, Allocated(j) = L \cup {v},
         S(j, v) < E(j, v), \A u \in L : E(j, v) <= S(j, u) \/ E(j, u) <= S(j, v)
  PROVE  \E p \in L \cup {H} : /\ Insert(j, v) = [j EXCEPT !.links = Add(@, v, p)]
                               /\ p # H => E(j, p) <= S(j, v)
                               /\ N(j, p) # H => E(j, v) <= S(j, N(j, p))
<1> DEFINE T == {u \in Allocated(j) : j.area[v].start < j.area[u].end}
           w == First(j, T)
<1>1. \A x \in L \cup {v} : S(j, x) \in Nat /\ E(j, x) \in Nat
  BY AreaIs DEF Chain, Shape
<1>2. \A x \in L : S(j, x) < E(j, x) /\ (N(j, x) # H => E(j, x) <= S(j, N(j, x)))
  BY DEF Chain, Ordered
<1>3. /\ H \notin L /\ Nil \notin L
      /\ \A x \in L \cup {H} : N(j, x) \in L \cup {H} /\ Before(j, x) \in L \cup {H} /\ N(j, Before(j, x)) = x
  <2>1. L \subseteq Node
    BY LinksAre DEF Chain
  <2> QED BY <2>1, LinksAre, VmaConstants DEF Chain
<1>4. \A u \in L : u \in T <=> S(j, v) < E(j, u)
  BY DEF S, E
<1>5. /\ w = Nil <=> L \cap T = {}
      /\ w # Nil => w \in L \cap T /\ \A u \in L \cap T : u # w => S(j, w) < S(j, u)
  BY FirstIs
<1>6. Insert(j, v) = [j EXCEPT !.links = IF w = Nil THEN AddTail(@, v, VmaList) ELSE Add(@, v, PrevOf(j, w))]
  BY DEF Insert
<1> HIDE DEF w, T
<1>7. CASE w = Nil
  <2> DEFINE p == Before(j, H)
  <2>1. p \in L \cup {H} /\ N(j, p) = H
    BY <1>3
  <2>2. AddTail(j.links, v, VmaList) = Add(j.links, v, p)
    BY <2>1 DEF AddTail, Add, N, Before, H
  <2>3. Insert(j, v) = [j EXCEPT !.links = Add(@, v, p)]
    BY <1>6, <1>7, <2>2
  <2> HIDE DEF p
  <2>4. p # H => E(j, p) <= S(j, v)
    BY <1>1, <1>4, <1>5, <1>7, <2>1
  <2> QED BY <2>1, <2>3, <2>4
<1>8. CASE w # Nil
  <2> DEFINE p == Before(j, w)
  <2>1. w \in L /\ w \in T /\ w # H /\ p \in L \cup {H} /\ N(j, p) = w
    BY <1>3, <1>5, <1>8
  <2>2. Insert(j, v) = [j EXCEPT !.links = Add(@, v, p)]
    BY <1>6, <1>8 DEF PrevOf, Before
  <2> HIDE DEF p
  <2>3. E(j, v) <= S(j, w)
    BY <1>1, <1>4, <2>1
  <2>4. p # H => E(j, p) <= S(j, v)
    <3>1. ASSUME p # H PROVE E(j, p) <= S(j, v)
      <4>1. p \in L /\ S(j, p) < S(j, w)
        BY <1>1, <1>2, <2>1, <3>1
      <4>2. p \notin T
        BY <1>1, <1>5, <1>8, <2>1, <4>1
      <4> QED BY <1>1, <1>4, <4>1, <4>2
    <3> QED BY <3>1
  <2> QED BY <2>1, <2>2, <2>3, <2>4
<1> QED BY <1>7, <1>8

LEMMA MappedIs ==
  ASSUME NEW m, Tidy(m, {}, {}), NEW v \in Id \ Allocated(m), NEW area \in Area,
         area.start < area.end, Vacant(m, area.start, area.end)
  PROVE  LET k == Mapped(m, v, area)
         IN  /\ Tidy(k, {}, {})
             /\ \A x \in Nat : View(k, x) = IF area.start <= x /\ x < area.end
                                          THEN {[prot |-> area.prot, flags |-> area.flags]} ELSE View(m, x)
             /\ OnPages(m) /\ Aligned(area.start) /\ Aligned(area.end) => OnPages(k)
<1> DEFINE L == Allocated(m)
           j == [m EXCEPT !.area[v] = area]
           k == Insert(j, v)
<1>1. Chain(m, L)
  BY DEF Tidy
<1>2. /\ Chain(j, L) /\ Allocated(j) = L \cup {v} /\ j.links = m.links
      /\ j.area[v] = area /\ \A x \in Id \ {v} : j.area[x] = m.area[x]
  BY <1>1, FilledIs
<1> HIDE DEF j
<1>3. /\ \A x \in L : S(j, x) = S(m, x) /\ E(j, x) = E(m, x) /\ x \in Id /\ x # v
      /\ S(j, v) = area.start /\ E(j, v) = area.end
  BY <1>2 DEF S, E, Allocated
<1>4. \A u \in L : E(j, v) <= S(j, u) \/ E(j, u) <= S(j, v)
  BY <1>3 DEF Vacant
<1>5. v \in Allocated(j) \ L /\ S(j, v) < E(j, v)
  BY <1>2, <1>3
<1>6. PICK p \in L \cup {H} : /\ k = [j EXCEPT !.links = Add(@, v, p)]
                              /\ p # H => E(j, p) <= S(j, v)
                              /\ N(j, p) # H => E(j, v) <= S(j, N(j, p))
  <2> HIDE DEF L
  <2> QED BY <1>2, <1>4, <1>5, InsertIs
<1>7. /\ Chain(k, L \cup {v}) /\ k.area = j.area
      /\ \A x \in Node : N(k, x) = IF x = p THEN v ELSE IF x = v THEN N(j, p) ELSE N(j, x)
  <2> HIDE DEF L, k
  <2> QED BY <1>2, <1>5, <1>6, Added
<1> HIDE DEF k
<1>8. Allocated(k) = L \cup {v}
  BY <1>2, <1>7 DEF Allocated
<1>9. \A x \in Node : N(j, x) = N(m, x)
  BY <1>2 DEF N
<1>10. L \subseteq Node /\ \A x \in L : N(m, x) \in L \cup {H}
  BY <1>1, LinksAre DEF Chain
<1>11. ASSUME NEW x \in L \cup {v}, N(k, x) # H, CanMerge(k, x, N(k, x)), x # v, N(k, x) # v PROVE FALSE
  <2>1. x \in L /\ x \in Node
    BY <1>10, <1>11
  <2>2. N(k, x) = N(m, x) /\ N(m, x) \in L
    BY <1>7, <1>9, <1>10, <1>11, <2>1
  <2>3. k.area[x] = m.area[x] /\ k.area[N(m, x)] = m.area[N(m, x)]
    BY <1>2, <1>3, <1>7, <2>1, <2>2
  <2>4. CanMerge(m, x, N(m, x))
    BY <1>11, <2>2, <2>3 DEF CanMerge
  <2> QED BY <1>11, <2>1, <2>2, <2>4 DEF Tidy
<1>12. Tidy(k, {v}, {v})
  BY <1>7, <1>8, <1>11 DEF Tidy
<1>13. Tidy(TryMerge(k, v), {}, {})
  <2>1. v \in Allocated(k)
    BY <1>8
  <2> QED BY <1>12, <2>1, MergeBoth
<1>14. Same(k, TryMerge(k, v))
  <2>1. v \in Allocated(k)
    BY <1>8
  <2> QED BY <1>12, <2>1, MergeBothSame
<1>15. \A u \in L : S(k, u) = S(m, u) /\ E(k, u) = E(m, u) /\ Kind(k, u) = Kind(m, u)
  BY <1>2, <1>3, <1>7 DEF S, E, Kind
<1>16. S(k, v) = area.start /\ E(k, v) = area.end /\ Kind(k, v) = [prot |-> area.prot, flags |-> area.flags]
  BY <1>2, <1>7 DEF S, E, Kind
<1>17. ASSUME NEW x \in Nat
       PROVE  View(k, x) = IF area.start <= x /\ x < area.end THEN {[prot |-> area.prot, flags |-> area.flags]}
                           ELSE View(m, x)
  <2>1. At(k, v, x) <=> area.start <= x /\ x < area.end
    BY <1>16 DEF At
  <2>2. \A u \in L : At(k, u, x) <=> At(m, u, x)
    BY <1>15 DEF At
  <2>3. \A z : z \in View(k, x) <=> \E u \in L \cup {v} : At(k, u, x) /\ z = Kind(k, u)
    BY <1>8, ViewHas
  <2>4. \A z : z \in View(m, x) <=> \E u \in L : At(m, u, x) /\ z = Kind(m, u)
    BY ViewHas
  <2>5. ASSUME At(k, v, x), NEW u \in L PROVE ~ At(m, u, x)
    <3>1. area.end <= S(m, u) \/ E(m, u) <= area.start
      BY DEF Vacant
    <3>2. S(m, u) \in Nat /\ E(m, u) \in Nat /\ area.start \in Nat /\ area.end \in Nat
      <4>1. area.start \in Base .. Top /\ area.end \in Base .. Top
        BY DEF Area
      <4>2. S(m, u) \in Nat /\ E(m, u) \in Nat
        BY <1>1, AreaIs DEF Chain, Shape
      <4> QED BY <4>1, <4>2, VmaConstants
    <3> QED BY <2>1, <2>5, <3>1, <3>2 DEF At
  <2>6. CASE At(k, v, x)
    <3>1. \A z : z \in View(k, x) <=> z = Kind(k, v)
      BY <2>2, <2>3, <2>5, <2>6
    <3>2. View(k, x) = {Kind(k, v)}
      BY <3>1
    <3> QED BY <1>16, <2>1, <2>6, <3>2
  <2>7. CASE ~ At(k, v, x)
    <3>1. \A z : z \in View(k, x) <=> z \in View(m, x)
      BY <1>15, <2>2, <2>3, <2>4, <2>7
    <3>2. View(k, x) = View(m, x)
      BY <3>1
    <3> QED BY <2>1, <2>7, <3>2
  <2> QED BY <2>6, <2>7
<1>18. ASSUME OnPages(m), Aligned(area.start), Aligned(area.end) PROVE OnPages(k)
  BY <1>8, <1>15, <1>16, <1>18 DEF OnPages
<1>19. /\ \A x \in Nat : View(TryMerge(k, v), x) = IF area.start <= x /\ x < area.end
                                                 THEN {[prot |-> area.prot, flags |-> area.flags]} ELSE View(m, x)
       /\ OnPages(m) /\ Aligned(area.start) /\ Aligned(area.end) => OnPages(TryMerge(k, v))
  BY <1>14, <1>17, <1>18 DEF Same
<1> QED BY <1>13, <1>19 DEF Mapped, j, k

Empty == [links |-> InitHead(Unlinked, VmaList), area |-> [v \in Id |-> Nil]]

LEMMA EmptyIs == Tidy(Empty, {}, {}) /\ Allocated(Empty) = {}
<1> DEFINE m == Empty
<1>1. H \in Node /\ H = VmaList
  BY VmaConstants DEF H
<1>2. /\ m.links.next = [[n \in Node |-> Nil] EXCEPT ![H] = H]
      /\ m.links.prev = [[n \in Node |-> Nil] EXCEPT ![H] = H]
      /\ m.area = [v \in Id |-> Nil]
      /\ m = [links |-> [next |-> m.links.next, prev |-> m.links.prev], area |-> m.area]
  BY DEF Empty, InitHead, Unlinked, H
<1> HIDE DEF m
<1>3. m.links.next \in [Node -> Node \cup {Nil}] /\ m.links.prev \in [Node -> Node \cup {Nil}]
  BY <1>1, <1>2
<1>4. m \in MM
  <2>1. m.links \in Links
    <3>1. m.links = [next |-> m.links.next, prev |-> m.links.prev]
      BY <1>2
    <3> QED BY <1>3, <3>1 DEF Links
  <2>2. m.area \in [Id -> Area \cup {Nil}] /\ m = [links |-> m.links, area |-> m.area]
    BY <1>2
  <2> QED BY <2>1, <2>2 DEF MM
<1>5. Allocated(m) = {}
  BY <1>2 DEF Allocated
<1>6. Shape(m, {})
  <2>1. m.links.next[H] = H /\ m.links.prev[H] = H
    BY <1>1, <1>2
  <2>2. Linked(m.links, {} \cup {H})
    BY <1>1, <2>1 DEF Linked
  <2>3. \A n \in Node \ ({} \cup {H}) : N(m, n) = Nil
    BY <1>2 DEF N
  <2> QED BY <1>4, <2>2, <2>3 DEF Shape
<1>7. Ordered(m, {})
  BY DEF Ordered
<1>8. Tidy(m, {}, {})
  BY <1>5, <1>6, <1>7 DEF Tidy, Chain
<1> QED BY <1>5, <1>8 DEF m
-----------------------------------------------------------------------------
(* The invariant: between two system calls the list holds exactly the      *)
(* allocated areas, in order, and no two of them could be one.             *)
VInv ==
  /\ Tidy(mm, {}, {})
  /\ pte \subseteq Page /\ active \in BOOLEAN /\ panicked \in BOOLEAN

LEMMA StartsWithInv == Init => VInv
<1> SUFFICES ASSUME Init PROVE VInv
  OBVIOUS
<1>1. mm = Empty
  BY DEF Init, Empty
<1> QED BY <1>1, EmptyIs DEF Init, VInv

LEMMA MmapKeeps ==
  ASSUME VInv, NEW hint \in Hints, NEW len \in Lens, NEW prot \in Prot, NEW flags \in FlagSets,
         Mmap(hint, len, prot, flags)
  PROVE  VInv'
<1> DEFINE size == AlignUp(len)
           va == Place(mm, hint, size)
           area == [start |-> va, end |-> va + size, prot |-> prot, flags |-> flags]
<1>1. Tidy(mm, {}, {}) /\ Chain(mm, Allocated(mm))
  BY DEF VInv, Tidy
<1>2. /\ MmapCheck(hint, len, flags, 0) = "ok" /\ Allocated(mm) # Id /\ va + size <= Top
      /\ mm' = Mapped(mm, New(mm), area) /\ UNCHANGED <<active, pte, panicked>>
  BY DEF Mmap
<1>3. len \in Nat \ {0} /\ hint \in Nat
  <2>1. len # 0
    BY <1>2 DEF MmapCheck
  <2> QED BY <2>1, VmaConstants
<1>4. size \in Nat \ {0}
  <2>1. size \in Nat /\ len <= size
    BY <1>3, AlignUpIs
  <2> HIDE DEF size
  <2> QED BY <1>3, <2>1
<1> HIDE DEF size
<1>5. va \in Nat /\ Base <= va /\ Vacant(mm, va, va + size)
  BY <1>1, <1>3, <1>4, PlaceIs
<1> HIDE DEF va
<1>6. area \in Area /\ area.start = va /\ area.end = va + size /\ va < va + size
  <2>1. va \in Base .. Top /\ va + size \in Base .. Top
    BY <1>2, <1>4, <1>5, VmaConstants
  <2> QED BY <1>4, <1>5, <2>1 DEF Area
<1>7. New(mm) \in Id \ Allocated(mm)
  <2>1. Id \ Allocated(mm) # {}
    BY <1>2 DEF Allocated
  <2> QED BY <2>1, NewIs
<1> HIDE DEF area
<1>8. Tidy(Mapped(mm, New(mm), area), {}, {})
  BY <1>1, <1>5, <1>6, <1>7, MappedIs
<1> QED BY <1>2, <1>8 DEF VInv

LEMMA FailedSplitKeeps ==
  ASSUME VInv, NEW r, r.err # "ok" => Tidy(r.mm, {}, {}), NEW asked, SplitFailed(r, asked)
  PROVE  VInv'
<1>1. CASE r.err = "ENOENT" /\ Returns(asked)
  BY <1>1 DEF Returns, VInv
<1>2. CASE r.err \in {"EINVAL", "ENOMEM"} /\ mm' = r.mm /\ UNCHANGED <<active, pte, panicked>>
  <2>1. r.err # "ok"
    BY <1>2
  <2> QED BY <1>2, <2>1 DEF VInv
<1> QED BY <1>1, <1>2 DEF SplitFailed

LEMMA RangeSplit ==
  ASSUME VInv, NEW addr \in Base .. Top - 1, NEW len \in Lens, len # 0, NEW prot, NEW mem \in Kmallocs(mm)
  PROVE  LET r == SplitVma(mm, addr, AlignUp(len), prot, mem)
         IN  /\ r.err = "ok" => SplitDone(r)
             /\ r.err # "ok" => Tidy(r.mm, {}, {})
<1>1. Tidy(mm, {}, {}) /\ addr \in Nat
  BY VmaConstants DEF VInv
<1>2. AlignUp(len) \in Nat \ {0}
  <2>1. len \in Nat \ {0}
    BY VmaConstants
  <2>2. AlignUp(len) \in Nat /\ len <= AlignUp(len)
    BY <2>1, AlignUpIs
  <2> QED BY <2>1, <2>2
<1> QED BY <1>1, <1>2, SplitVmaIs

LEMMA MunmapKeeps ==
  ASSUME VInv, NEW addr \in Base .. Top - 1, NEW len \in Lens, NEW mem \in Kmallocs(mm), Munmap(addr, len, mem)
  PROVE  VInv'
<1> DEFINE asked == [op |-> "munmap", pages |-> Covered(addr, AlignUp(len))]
           r == SplitVma(mm, addr, AlignUp(len), Nil, mem)
<1>1. CASE len = 0 /\ Fails
  BY <1>1 DEF Fails, Returns, VInv
<1>2. CASE len # 0 /\ SplitFailed(r, asked)
  <2>1. r.err # "ok" => Tidy(r.mm, {}, {})
    BY <1>2, RangeSplit
  <2> HIDE DEF r, asked
  <2> QED BY <1>2, <2>1, FailedSplitKeeps
<1>3. CASE /\ len # 0 /\ r.err = "ok" /\ mm' = Unlink(r.mm, r.from, r.to)
           /\ pte' = pte \ PagesOf(r.mm, ToSet(AreasOf(r.mm, r.from, r.to)))
           /\ UNCHANGED <<active, panicked>>
  <2>1. SplitDone(r)
    BY <1>3, RangeSplit
  <2> HIDE DEF r
  <2>2. Tidy(Unlink(r.mm, r.from, r.to), {}, {})
    BY <2>1, UnlinkIs DEF SplitDone
  <2> QED BY <1>3, <2>2 DEF VInv
<1> QED BY <1>1, <1>2, <1>3 DEF Munmap

LEMMA MprotectKeeps ==
  ASSUME VInv, NEW addr \in Base .. Top - 1, NEW len \in Lens, NEW prot \in Prot, NEW mem \in Kmallocs(mm),
         Mprotect(addr, len, prot, mem)
  PROVE  VInv'
<1> DEFINE asked == [op |-> "mprotect", pages |-> Covered(addr, AlignUp(len)), prot |-> prot]
           r == SplitVma(mm, addr, AlignUp(len), prot, mem)
           range == AreasOf(r.mm, r.from, r.to)
<1>1. CASE len = 0 /\ Returns(asked)
  BY <1>1 DEF Returns, VInv
<1>2. CASE len # 0 /\ SplitFailed(r, asked)
  <2>1. r.err # "ok" => Tidy(r.mm, {}, {})
    BY <1>2, RangeSplit
  <2> HIDE DEF r, asked
  <2> QED BY <1>2, <2>1, FailedSplitKeeps
<1>3. CASE len # 0 /\ r.err = "ok" /\ Panics
  BY <1>3 DEF Panics, VInv
<1>4. CASE len # 0 /\ r.err = "ok" /\ mm' = SetProtRange(r.mm, range, prot) /\ UNCHANGED <<active, pte, panicked>>
  <2>1. SplitDone(r)
    BY <1>4, RangeSplit
  <2> HIDE DEF r
  <2>2. Tidy(SetProtRange(r.mm, range, prot), {}, {})
    BY <2>1, SetProtIs DEF SplitDone
  <2> QED BY <1>4, <2>2 DEF VInv
<1> QED BY <1>1, <1>2, <1>3, <1>4 DEF Mprotect

LEMMA MadviseKeeps ==
  ASSUME VInv, NEW addr, NEW len, Madvise(addr, len)
  PROVE  VInv'
<1>1. UNCHANGED <<mm, active, panicked>> /\ pte' \subseteq pte
  BY DEF Madvise, Returns, Fails
<1> QED BY <1>1 DEF VInv

LEMMA NextKeepsInv == VInv /\ [Next]_vars => VInv'
<1> SUFFICES ASSUME VInv, [Next]_vars PROVE VInv'
  OBVIOUS
<1>1. CASE UNCHANGED vars
  BY <1>1 DEF vars, VInv
<1>2. ASSUME NEW hint \in Hints, NEW len \in Lens, NEW flags \in FlagSets, NEW prot \in Prot,
             Mmap(hint, len, prot, flags)
      PROVE  VInv'
  BY <1>2, MmapKeeps
<1>3. ASSUME NEW hint \in Hints, NEW len \in Lens, NEW flags \in FlagSets, NEW offset \in {0, 1},
             MmapFails(hint, len, flags, offset)
      PROVE  VInv'
  <2>1. Panics \/ Fails
    BY <1>3 DEF MmapFails
  <2> QED BY <2>1 DEF Panics, Fails, Returns, VInv
<1>4. ASSUME NEW addr \in Base .. Top - 1, NEW len \in Lens, NEW mem \in Kmallocs(mm), Munmap(addr, len, mem)
      PROVE  VInv'
  BY <1>4, MunmapKeeps
<1>5. ASSUME NEW addr \in Base .. Top - 1, NEW len \in Lens, NEW mem \in Kmallocs(mm), NEW prot \in Prot,
             Mprotect(addr, len, prot, mem)
      PROVE  VInv'
  BY <1>5, MprotectKeeps
<1>6. ASSUME NEW addr \in Base .. Top - 1, NEW len \in Lens, Madvise(addr, len) PROVE VInv'
  BY <1>6, MadviseKeeps
<1>7. ASSUME NEW p \in Page, Touch(p) PROVE VInv'
  BY <1>7 DEF Touch, VInv
<1>8. ASSUME Destroy PROVE VInv'
  <2>1. mm' = Empty /\ pte' \subseteq pte /\ active' = FALSE /\ panicked' = panicked
    BY <1>8 DEF Destroy, Empty
  <2> QED BY <2>1, EmptyIs DEF VInv
<1>9. CASE Syscall
  BY <1>2, <1>3, <1>4, <1>5, <1>6, <1>7, <1>8, <1>9 DEF Syscall
<1> QED BY <1>1, <1>9 DEF Next

(* Only mmap changes onPages.                                              *)
LEMMA OnPagesMoves ==
  ASSUME [Next]_vars
  PROVE  \/ \E hint \in Hints, len \in Lens, flags \in FlagSets, prot \in Prot : Mmap(hint, len, prot, flags)
         \/ UNCHANGED onPages
<1> SUFFICES ASSUME Syscall
             PROVE  \/ \E hint \in Hints, len \in Lens, flags \in FlagSets, prot \in Prot : Mmap(hint, len, prot, flags)
                    \/ UNCHANGED onPages
  BY DEF Next, vars
<1>1. ASSUME NEW hint \in Hints, NEW len \in Lens, NEW flags \in FlagSets, NEW offset \in {0, 1},
             MmapFails(hint, len, flags, offset)
      PROVE  UNCHANGED onPages
  BY <1>1 DEF MmapFails, Panics, Fails, Returns
<1>2. ASSUME NEW addr \in Base .. Top - 1, NEW len \in Lens, NEW mem \in Kmallocs(mm), Munmap(addr, len, mem)
      PROVE  UNCHANGED onPages
  BY <1>2 DEF Munmap, SplitFailed, Fails, Returns
<1>3. ASSUME NEW addr \in Base .. Top - 1, NEW len \in Lens, NEW mem \in Kmallocs(mm), NEW prot \in Prot,
             Mprotect(addr, len, prot, mem)
      PROVE  UNCHANGED onPages
  BY <1>3 DEF Mprotect, SplitFailed, Panics, Returns
<1>4. ASSUME NEW addr \in Base .. Top - 1, NEW len \in Lens, Madvise(addr, len)
      PROVE  UNCHANGED onPages
  BY <1>4 DEF Madvise, Fails, Returns
<1>5. ASSUME NEW p \in Page, Touch(p) PROVE UNCHANGED onPages
  BY <1>5 DEF Touch
<1>6. ASSUME Destroy PROVE UNCHANGED onPages
  BY <1>6 DEF Destroy
<1> QED BY <1>1, <1>2, <1>3, <1>4, <1>5, <1>6 DEF Syscall

(* Once an area was mapped elsewhere, onPages stays FALSE.                 *)
LEMMA OnPagesFalls ==
  ASSUME onPages \in BOOLEAN, [Next]_vars
  PROVE  onPages' \in BOOLEAN /\ (onPages' => onPages)
<1>1. ASSUME NEW hint \in Hints, NEW len \in Lens, NEW flags \in FlagSets, NEW prot \in Prot,
             Mmap(hint, len, prot, flags)
      PROVE  \E va : onPages' = (onPages /\ Aligned(va))
  BY <1>1 DEF Mmap
<1>2. CASE \E va : onPages' = (onPages /\ Aligned(va))
  <2>1. PICK va : onPages' = (onPages /\ Aligned(va))
    BY <1>2
  <2>2. CASE Aligned(va) /\ onPages
    BY <2>1, <2>2
  <2>3. CASE ~ (Aligned(va) /\ onPages)
    <3>1. onPages' = FALSE
      BY <2>1, <2>3
    <3> QED BY <3>1
  <2> QED BY <2>2, <2>3
<1>3. CASE UNCHANGED onPages
  BY <1>3
<1> QED BY <1>1, <1>2, <1>3, OnPagesMoves

THEOREM OnPagesHolds == Spec => [](onPages \in BOOLEAN)
<1>1. Init => onPages \in BOOLEAN
  BY DEF Init
<1>2. onPages \in BOOLEAN /\ [Next]_vars => (onPages \in BOOLEAN)'
  BY OnPagesFalls
<1> QED BY <1>1, <1>2, PTL DEF Spec

THEOREM VInvHolds == Spec => []VInv
<1> QED BY StartsWithInv, NextKeepsInv, PTL DEF Spec

(* Every area is what vmem.c makes of it and every link is a list_head:    *)
(* Vma!TypeOK for every number of areas and every address space.           *)
THEOREM TypeOKHolds == Spec => []TypeOK
<1>1. VInv /\ onPages \in BOOLEAN => TypeOK
  BY DEF VInv, Tidy, Chain, Shape, MM, TypeOK
<1> QED BY <1>1, VInvHolds, OnPagesHolds, PTL

(* The list is in the order of the addresses and no areas overlap, which   *)
(* vmem_find_vma, vmem_first_fit and the walks over a range rely on.       *)
THEOREM ListIsSortedHolds == Spec => []ListIsSorted
<1>1. ASSUME VInv PROVE ListIsSorted
  <2> DEFINE L == Allocated(mm)
             es == Listed(mm)
  <2>1. Chain(mm, L)
    BY <1>1 DEF VInv, Tidy
  <2>2. /\ DOMAIN es = 1 .. Len(es) /\ Len(es) \in Nat /\ \A i \in 1 .. Len(es) : es[i] \in L
        /\ \A i, j \in 1 .. Len(es) : i < j => S(mm, es[i]) < S(mm, es[j])
    BY <2>1, EntriesAre
  <2> HIDE DEF es, L
  <2>3. ASSUME NEW i \in DOMAIN es
        PROVE  mm.area[es[i]].start < mm.area[es[i]].end /\ (i > 1 => mm.area[es[i - 1]].end <= mm.area[es[i]].start)
    <3>1. S(mm, es[i]) < E(mm, es[i])
      BY <2>1, <2>2 DEF Chain, Ordered
    <3>2. ASSUME i > 1 PROVE E(mm, es[i - 1]) <= S(mm, es[i])
      <4>1. i - 1 \in 1 .. Len(es) /\ i \in 1 .. Len(es) /\ i - 1 < i
        BY <2>2, <3>2
      <4>2. es[i - 1] \in L /\ es[i] \in L /\ S(mm, es[i - 1]) < S(mm, es[i])
        BY <2>2, <4>1
      <4> QED BY <2>1, <4>2, Disjoint
    <3> QED BY <3>1, <3>2 DEF S, E
  <2> QED BY <2>3 DEF ListIsSorted, es
<1> QED BY <1>1, VInvHolds, PTL

(* kmalloc and kfree keep pace with the list on every path of split,       *)
(* merge, unlink and their failures.                                       *)
THEOREM StructsAreListedHolds == Spec => []StructsAreListed
<1>1. ASSUME VInv PROVE StructsAreListed
  <2>1. Chain(mm, Allocated(mm))
    BY <1>1 DEF VInv, Tidy
  <2>2. ToSet(Listed(mm)) = Allocated(mm)
    BY <2>1, EntriesAre
  <2>3. \A n \in Allocated(mm) \cup {H} : Before(mm, N(mm, n)) = n /\ N(mm, Before(mm, n)) = n
    BY <2>1, LinksAre DEF Chain
  <2> QED BY <2>2, <2>3 DEF StructsAreListed, Allocated, N, Before, H
<1> QED BY <1>1, VInvHolds, PTL

(* A failed split is merged again, and so is what a change of permissions  *)
(* makes equal: no two neighbours could be one area.                       *)
THEOREM NoMergeableNeighboursHolds == Spec => []NoMergeableNeighbours
<1>1. ASSUME VInv PROVE NoMergeableNeighbours
  <2>1. Chain(mm, Allocated(mm))
    BY <1>1 DEF VInv, Tidy
  <2>2. ToSet(Listed(mm)) = Allocated(mm)
    BY <2>1, EntriesAre
  <2> QED BY <1>1, <2>2 DEF NoMergeableNeighbours, VInv, Tidy, N, H
<1> QED BY <1>1, VInvHolds, PTL
-----------------------------------------------------------------------------
(* The refinement of Regions.  What it sees of a page: the attributes of   *)
(* the area that the page lies in.                                         *)
PageView(m, p) == View(m, p * PageSize)

Seen(V) == IF V = {} THEN Nil ELSE CHOOSE z \in V : TRUE

OneOrNone(V) == V = {} \/ \E z \in Attr : V = {z}

LEMMA SeenIs ==
  /\ Seen({}) = Nil
  /\ \A z : Seen({z}) = z
<1>1. \A z : {z} # {} /\ (CHOOSE y \in {z} : TRUE) = z
  OBVIOUS
<1> QED BY <1>1 DEF Seen

AttrIn(m, p) ==
  LET T == {a \in ToSet(m.area) \ {Nil} : a.start <= p * PageSize /\ p * PageSize < a.end}
  IN IF T = {} THEN Nil
     ELSE LET a == CHOOSE a \in T : TRUE IN [prot |-> a.prot, flags |-> a.flags]

LEMMA AttrIs ==
  ASSUME NEW m, Chain(m, Allocated(m)), NEW p \in Page
  PROVE  AttrIn(m, p) = Seen(PageView(m, p)) /\ OneOrNone(PageView(m, p))
<1> DEFINE x == p * PageSize
           T == {a \in ToSet(m.area) \ {Nil} : a.start <= x /\ x < a.end}
<1>1. x \in Nat
  BY PageIs
<1>2. m \in MM /\ m.area \in [Id -> Area \cup {Nil}]
  BY DEF Chain, Shape, MM
<1>3. \A a : a \in T <=> \E v \in Allocated(m) : At(m, v, x) /\ a = m.area[v]
  <2>1. DOMAIN m.area = Id
    BY <1>2
  <2>2. \A a : a \in ToSet(m.area) \ {Nil} <=> \E v \in Allocated(m) : a = m.area[v]
    BY <2>1 DEF ToSet, Allocated
  <2> QED BY <2>2 DEF At, S, E
<1>4. AttrIn(m, p) = IF T = {} THEN Nil
                     ELSE LET a == CHOOSE a \in T : TRUE IN [prot |-> a.prot, flags |-> a.flags]
  BY DEF AttrIn
<1> HIDE DEF x, T
<1>5. CASE \A v \in Allocated(m) : ~ At(m, v, x)
  <2>1. T = {}
    BY <1>3, <1>5
  <2>2. View(m, x) = {}
    BY <1>5, ViewHas
  <2> QED BY <1>4, <2>1, <2>2, SeenIs DEF PageView, x, OneOrNone
<1>6. ASSUME NEW v \in Allocated(m), At(m, v, x)
      PROVE  AttrIn(m, p) = Seen(PageView(m, p)) /\ OneOrNone(PageView(m, p))
  <2>1. \A u \in Allocated(m) : At(m, u, x) => u = v
    BY <1>1, <1>6, OneAt
  <2>2. T = {m.area[v]}
    BY <1>3, <1>6, <2>1
  <2>3. (CHOOSE a \in T : TRUE) = m.area[v]
    BY <2>2
  <2>4. AttrIn(m, p) = Kind(m, v)
    BY <1>4, <2>2, <2>3 DEF Kind
  <2>5. View(m, x) = {Kind(m, v)}
    BY <1>1, <1>6, ViewOf
  <2>6. Kind(m, v) \in Attr
    <3>1. m.area[v] \in Area
      BY <1>2, AreaIs
    <3> QED BY <3>1 DEF Area, Attr, Kind
  <2> QED BY <2>4, <2>5, <2>6, SeenIs DEF PageView, x, OneOrNone
<1> QED BY <1>5, <1>6

(* The invariant of the refinement: areas begin and end at pages, and a    *)
(* page that is in the page table lies in an area.                         *)
RInv ==
  /\ VInv /\ OnPages(mm)
  /\ \A p \in pte : PageView(mm, p) # {}

ContentsOf(m) == [p \in Page |-> Seen(PageView(m, p))]

LEMMA ContentsAre ==
  /\ VInv => Contents = ContentsOf(mm) /\ \A p \in Page : OneOrNone(PageView(mm, p))
  /\ VInv' => Contents' = ContentsOf(mm') /\ \A p \in Page : OneOrNone(PageView(mm', p))
<1>1. ASSUME VInv PROVE Contents = ContentsOf(mm) /\ \A p \in Page : OneOrNone(PageView(mm, p))
  <2>1. Chain(mm, Allocated(mm))
    BY <1>1 DEF VInv, Tidy
  <2>2. \A p \in Page : AttrIn(mm, p) = Seen(PageView(mm, p)) /\ OneOrNone(PageView(mm, p))
    BY <2>1, AttrIs
  <2>3. Contents = [p \in Page |-> AttrIn(mm, p)]
    BY DEF Contents, AttrOf, AttrIn
  <2> QED BY <2>2, <2>3 DEF ContentsOf
<1>2. ASSUME VInv' PROVE Contents' = ContentsOf(mm') /\ \A p \in Page : OneOrNone(PageView(mm', p))
  <2>1. Chain(mm', Allocated(mm'))
    BY <1>2 DEF VInv, Tidy
  <2>2. \A p \in Page : AttrIn(mm', p) = Seen(PageView(mm', p)) /\ OneOrNone(PageView(mm', p))
    BY <2>1, AttrIs
  <2>3. Contents' = [p \in Page |-> AttrIn(mm', p)]
    BY DEF Contents, AttrOf, AttrIn
  <2> QED BY <2>2, <2>3 DEF ContentsOf
<1> QED BY <1>1, <1>2

LEMMA ContentsHas ==
  ASSUME NEW m, NEW p \in Page, OneOrNone(PageView(m, p))
  PROVE  /\ ContentsOf(m)[p] = Nil <=> PageView(m, p) = {}
         /\ ContentsOf(m)[p] # Nil => ContentsOf(m)[p] \in Attr /\ PageView(m, p) = {ContentsOf(m)[p]}
<1>1. ContentsOf(m)[p] = Seen(PageView(m, p))
  BY DEF ContentsOf
<1> QED BY <1>1, SeenIs, VmaConstants DEF OneOrNone
-----------------------------------------------------------------------------
(* A set of pages without a gap is an interval of Regions.                 *)
Convex(C) == C \subseteq Page /\ \A p \in C, r \in C, q \in Page : p <= q /\ q <= r => q \in C

LEMMA ConvexInterval ==
  ASSUME NEW C, Convex(C)
  PROVE  C \in Promise!Intervals
<1>1. CASE C = {}
  BY <1>1 DEF Promise!Intervals
<1>2. CASE C # {}
  <2>1. /\ Page \subseteq Nat /\ C \subseteq Page /\ Top \div PageSize \in Nat
        /\ \A p \in Page : p <= Top \div PageSize
        /\ \A p \in Page, r \in Page, q \in Nat : p <= q /\ q <= r => q \in Page
    <3>1. Base \div PageSize \in Nat /\ Top \div PageSize \in Nat
      BY VmaConstants, DivMod
    <3> QED BY <3>1 DEF Page, Convex
  <2>2. PICK lo \in C : \A p \in C : lo <= p
    BY <1>2, <2>1, Least
  <2> DEFINE t == Top \div PageSize
             D == {d \in Nat : t - d \in C}
  <2>3. PICK d \in D : \A e \in D : d <= e
    <3>1. D \in SUBSET Nat /\ D # {}
      <4>1. t - lo \in Nat /\ t - (t - lo) = lo
        BY <2>1
      <4> QED BY <4>1
    <3> HIDE DEF D
    <3> QED BY <3>1, Least
  <2> DEFINE hi == t - d
  <2>4. hi \in C /\ \A p \in C : p <= hi
    <3>1. ASSUME NEW p \in C PROVE p <= hi
      <4>1. t - p \in Nat /\ t - (t - p) = p
        BY <2>1
      <4>2. d <= t - p
        BY <2>3, <4>1
      <4> QED BY <2>1, <2>3, <4>1, <4>2
    <3> QED BY <2>3, <3>1
  <2> HIDE DEF hi
  <2>5. C = lo .. hi
    <3>1. ASSUME NEW q \in lo .. hi PROVE q \in C
      <4>1. q \in Page
        BY <2>1, <2>2, <2>4
      <4> QED BY <2>2, <2>4, <4>1 DEF Convex
    <3>2. ASSUME NEW q \in C PROVE q \in lo .. hi
      BY <2>1, <2>2, <2>4
    <3> QED BY <3>1, <3>2
  <2>6. lo \in Page /\ hi \in Page
    BY <2>1, <2>2, <2>4
  <2> QED BY <2>5, <2>6 DEF Promise!Intervals
<1> QED BY <1>1, <1>2

LEMMA AskedInterval ==
  /\ \A a \in Nat, len \in Nat : Convex(Covered(a, len))
  /\ Convex(Page)
<1>1. ASSUME NEW a \in Nat, NEW len \in Nat, NEW p \in Covered(a, len), NEW r \in Covered(a, len),
             NEW q \in Page, p <= q, q <= r
      PROVE  q \in Covered(a, len)
  <2>1. p \in Page /\ r \in Page /\ len > 0 /\ a < (p + 1) * PageSize /\ r * PageSize < a + len
    BY DEF Covered
  <2>2. /\ p \in Nat /\ q \in Nat /\ r \in Nat /\ PageSize \in Nat
        /\ (p + 1) * PageSize \in Nat /\ (q + 1) * PageSize \in Nat /\ q * PageSize \in Nat /\ r * PageSize \in Nat
    BY <2>1, PageIs, VmaConstants
  <2>3. (p + 1) * PageSize <= (q + 1) * PageSize /\ q * PageSize <= r * PageSize
    <3>1. PageSize * (p + 1) <= PageSize * (q + 1) /\ PageSize * q <= PageSize * r
      BY <1>1, <2>2, TimesGrows
    <3> QED BY <2>2, <3>1
  <2>4. a < (q + 1) * PageSize /\ q * PageSize < a + len
    BY <2>1, <2>2, <2>3
  <2> QED BY <2>1, <2>4 DEF Covered
<1>2. \A a, len : Covered(a, len) \subseteq Page
  BY DEF Covered
<1> QED BY <1>1, <1>2 DEF Convex

LEMMA CoversNothing == AlignUp(0) = 0 /\ \A a : Covered(a, 0) = {}
<1>1. PageSize \in Nat \ {0}
  BY VmaConstants
<1>2. (PageSize - 1) \div PageSize = 0
  BY <1>1
<1>3. AlignUp(0) = ((PageSize - 1) \div PageSize) * PageSize
  BY <1>1 DEF AlignUp
<1>4. AlignUp(0) = 0
  BY <1>1, <1>2, <1>3
<1> QED BY <1>4 DEF Covered

LEMMA SameCardinality == \A P : Promise!Cardinality(P) = Cardinality(P)
BY DEF Promise!Cardinality, Cardinality, Promise!IsFiniteSet, IsFiniteSet

(* What a call does to the pages is what Regions lets it do.               *)
LEMMA MapStep ==
  ASSUME RInv, VInv', OnPages(mm'), NEW P \in Promise!Intervals, NEW a \in Attr, P # {}, P \subseteq Page,
         \A p \in P : PageView(mm, p) = {},
         \A p \in Page : PageView(mm', p) = IF p \in P THEN {a} ELSE PageView(mm, p),
         pte' = pte, call' = [op |-> "mmap", size |-> Cardinality(P), attr |-> a]
  PROVE  RInv' /\ Promise!Next
<1>1. /\ Contents = ContentsOf(mm) /\ \A p \in Page : OneOrNone(PageView(mm, p))
      /\ Contents' = ContentsOf(mm') /\ \A p \in Page : OneOrNone(PageView(mm', p))
  BY ContentsAre DEF RInv
<1>2. P \cap Promise!Mapped = {}
  BY <1>1, ContentsHas DEF Promise!Mapped
<1>3. Contents' = [p \in Page |-> IF p \in P THEN a ELSE Contents[p]]
  <2>1. \A p \in Page : Seen(PageView(mm', p)) = IF p \in P THEN a ELSE Seen(PageView(mm, p))
    BY SeenIs
  <2>2. \A p \in Page : Contents[p] = Seen(PageView(mm, p))
    BY <1>1 DEF ContentsOf
  <2> QED BY <1>1, <2>1, <2>2 DEF ContentsOf
<1>4. Promise!Map(P, a)
  BY <1>2, <1>3, SameCardinality DEF Promise!Map
<1>5. a \in Promise!Attr
  BY DEF Attr, Promise!Attr
<1>6. Promise!Next
  BY <1>4, <1>5 DEF Promise!Next
<1>7. \A p \in pte' : PageView(mm', p) # {}
  BY DEF RInv, VInv
<1> QED BY <1>6, <1>7 DEF RInv

LEMMA UnmapStep ==
  ASSUME RInv, VInv', OnPages(mm'), NEW P \in Promise!Intervals,
         \A p \in Page : PageView(mm', p) = IF p \in P THEN {} ELSE PageView(mm, p),
         pte' = pte \ P, call' = [op |-> "munmap", pages |-> P]
  PROVE  RInv' /\ Promise!Next
<1>1. /\ Contents = ContentsOf(mm) /\ Contents' = ContentsOf(mm')
  BY ContentsAre DEF RInv
<1>2. Contents' = [p \in Page |-> IF p \in P THEN Nil ELSE Contents[p]]
  <2>1. \A p \in Page : Seen(PageView(mm', p)) = IF p \in P THEN Nil ELSE Seen(PageView(mm, p))
    BY SeenIs
  <2>2. \A p \in Page : Contents[p] = Seen(PageView(mm, p))
    BY <1>1 DEF ContentsOf
  <2> QED BY <1>1, <2>1, <2>2 DEF ContentsOf
<1>3. Promise!Unmap(P)
  BY <1>2 DEF Promise!Unmap
<1>4. Promise!Next
  BY <1>3 DEF Promise!Next
<1>5. \A p \in pte' : PageView(mm', p) # {}
  BY DEF RInv, VInv
<1> QED BY <1>4, <1>5 DEF RInv

LEMMA ProtectStep ==
  ASSUME RInv, VInv', OnPages(mm'), NEW P \in Promise!Intervals, NEW prot \in Prot,
         \A p \in Page : PageView(mm', p) = IF p \in P THEN {[z EXCEPT !.prot = prot] : z \in PageView(mm, p)}
                                           ELSE PageView(mm, p),
         pte' = pte, call' = [op |-> "mprotect", pages |-> P, prot |-> prot]
  PROVE  RInv' /\ Promise!Next
<1>1. /\ Contents = ContentsOf(mm) /\ Contents' = ContentsOf(mm')
      /\ \A p \in Page : OneOrNone(PageView(mm, p))
  BY ContentsAre DEF RInv
<1>2. ASSUME NEW p \in Page
      PROVE  /\ Seen(PageView(mm', p)) = IF p \in P \cap Promise!Mapped THEN [Contents[p] EXCEPT !.prot = prot]
                                         ELSE Contents[p]
             /\ PageView(mm', p) = {} <=> PageView(mm, p) = {}
  <2>1. Contents[p] = Seen(PageView(mm, p))
    BY <1>1 DEF ContentsOf
  <2>2. p \in Promise!Mapped <=> PageView(mm, p) # {}
    BY <1>1, ContentsHas DEF Promise!Mapped
  <2>3. CASE p \notin P
    BY <2>1, <2>3
  <2>4. CASE p \in P /\ PageView(mm, p) = {}
    <3>1. PageView(mm', p) = {}
      BY <2>4
    <3> QED BY <2>1, <2>2, <2>4, <3>1
  <2>5. CASE p \in P /\ PageView(mm, p) # {}
    <3>1. PICK y \in Attr : PageView(mm, p) = {y}
      BY <1>1, <2>5 DEF OneOrNone
    <3>2. PageView(mm', p) = {[y EXCEPT !.prot = prot]}
      BY <2>5, <3>1
    <3>3. Contents[p] = y /\ Seen(PageView(mm', p)) = [y EXCEPT !.prot = prot]
      BY <2>1, <3>1, <3>2, SeenIs
    <3> QED BY <2>2, <2>5, <3>2, <3>3
  <2> QED BY <2>3, <2>4, <2>5
<1>3. Contents' = [p \in Page |-> IF p \in P \cap Promise!Mapped THEN [Contents[p] EXCEPT !.prot = prot]
                                  ELSE Contents[p]]
  BY <1>1, <1>2 DEF ContentsOf
<1>4. Promise!Protect(P, prot)
  BY <1>3 DEF Promise!Protect
<1>5. Promise!Next
  BY <1>4 DEF Promise!Next
<1>6. \A p \in pte' : PageView(mm', p) # {}
  BY <1>2 DEF RInv, VInv
<1> QED BY <1>5, <1>6 DEF RInv

(* The contents stay.                                                      *)
LEMMA ContentsStay ==
  ASSUME RInv, VInv', Same(mm, mm'), pte' \subseteq pte
  PROVE  RInv' /\ Contents' = Contents
<1>1. /\ Contents = ContentsOf(mm) /\ Contents' = ContentsOf(mm')
  BY ContentsAre DEF RInv
<1>2. \A p \in Page : PageView(mm', p) = PageView(mm, p)
  BY PageIs DEF Same, PageView
<1>3. Contents' = Contents
  BY <1>1, <1>2 DEF ContentsOf
<1>4. OnPages(mm') /\ \A p \in pte' : PageView(mm', p) # {}
  BY <1>2 DEF RInv, Same, VInv
<1> QED BY <1>3, <1>4 DEF RInv

LEMMA FailStep ==
  ASSUME RInv, VInv', Same(mm, mm'), pte' = pte, call' = [op |-> "failed"]
  PROVE  RInv' /\ Promise!Next
<1>1. RInv' /\ Contents' = Contents
  BY ContentsStay
<1>2. Promise!Fail
  BY <1>1 DEF Promise!Fail, Promise!Failed
<1> QED BY <1>1, <1>2 DEF Promise!Next

LEMMA StutterStep ==
  ASSUME RInv, VInv', mm' = mm, pte' = pte, call' = call
  PROVE  RInv' /\ UNCHANGED Promise!vars
<1>1. RInv' /\ Contents' = Contents
  BY ContentsStay, SameSelf
<1> QED BY <1>1 DEF Promise!vars

LEMMA AdviseStep ==
  ASSUME RInv, VInv', mm' = mm, NEW P \in Promise!Intervals, pte' = pte \ P,
         call' = [op |-> "madvise", pages |-> P]
  PROVE  RInv' /\ Promise!Next
<1>1. RInv' /\ Contents' = Contents
  BY ContentsStay, SameSelf
<1>2. Promise!Advise(P)
  BY <1>1 DEF Promise!Advise
<1> QED BY <1>1, <1>2 DEF Promise!Next

(* The pages of a section of the list are the mapped ones between its ends. *)
LEMMA PageOfSection ==
  ASSUME NEW m, Chain(m, Allocated(m)), OnPages(m), NEW a \in Allocated(m), NEW b \in Allocated(m),
         S(m, a) <= S(m, b), NEW p \in Page
  PROVE  p \in PagesOf(m, ToSet(AreasOf(m, a, b)))
           <=> PageView(m, p) # {} /\ S(m, a) <= p * PageSize /\ p * PageSize < E(m, b)
<1> DEFINE x == p * PageSize
           K == ToSet(AreasOf(m, a, b))
<1>1. x \in Nat /\ p \in Nat /\ (p + 1) * PageSize \in Nat /\ x < (p + 1) * PageSize
  BY PageIs
<1>2. K = Span(m, Allocated(m), a, b)
  BY SectionIs
<1> HIDE DEF x, K
<1>3. K \subseteq Allocated(m)
  BY <1>2 DEF Span
<1>4. ASSUME NEW v \in Allocated(m) PROVE p \in Pages(S(m, v), E(m, v)) <=> At(m, v, x)
  <2>1. S(m, v) \in Nat /\ E(m, v) \in Nat /\ Aligned(E(m, v))
    BY AreaIs DEF Chain, Shape, OnPages
  <2>2. x < E(m, v) => (p + 1) * PageSize <= E(m, v)
    BY <1>1, <2>1, NextPage DEF x
  <2> QED BY <1>1, <2>1, <2>2 DEF Pages, At, x
<1>5. p \in PagesOf(m, K) <=> \E v \in K : At(m, v, x)
  <2>1. p \in PagesOf(m, K) <=> \E v \in K : p \in Pages(S(m, v), E(m, v))
    BY DEF PagesOf, S, E
  <2> QED BY <1>3, <1>4, <2>1
<1>6. \A v \in Allocated(m) : At(m, v, x) => (v \in K <=> S(m, a) <= x /\ x < E(m, b))
  BY <1>1, <1>2, SpanAt
<1>7. PageView(m, p) # {} <=> \E v \in Allocated(m) : At(m, v, x)
  BY ViewHas DEF PageView, x
<1> QED BY <1>3, <1>5, <1>6, <1>7 DEF K, x

(* What a split that a call begins with finds and leaves.                  *)
Covering(a, n, r) ==
  \A p \in Page : PageView(mm, p) # {} =>
    (p \in Covered(a, n) <=> r.addr <= p * PageSize /\ p * PageSize < r.end)

LEMMA RangeShows ==
  ASSUME RInv, NEW a \in Nat, NEW n \in Nat \ {0}
  PROVE  LET r == FindRange(mm, a, n)
         IN  /\ r.err \in {"ok", "EINVAL", "ENOENT"}
             /\ r.err = "ENOENT" => \A p \in Covered(a, n) : PageView(mm, p) = {}
             /\ r.err = "ok" => Exact(mm, a, n, r) /\ Covering(a, n, r)
<1> DEFINE r == FindRange(mm, a, n)
<1>1. Chain(mm, Allocated(mm)) /\ OnPages(mm)
  BY DEF RInv, VInv, Tidy
<1>2. r.err \in {"ok", "EINVAL", "ENOENT"} /\ (r.err = "ENOENT" => FindVma(mm, a, n) = Nil)
  BY RangeErrors
<1>3. ASSUME r.err = "ENOENT", NEW p \in Covered(a, n) PROVE PageView(mm, p) = {}
  <2>1. p \in Page
    BY DEF Covered
  <2> QED BY <1>1, <1>2, <1>3, <2>1, NothingFound DEF PageView
<1>4. ASSUME r.err = "ok" PROVE Exact(mm, a, n, r) /\ Covering(a, n, r)
  <2>1. Exact(mm, a, n, r)
    BY <1>1, <1>4, RangeExact
  <2> HIDE DEF r
  <2>2. ASSUME NEW p \in Page, PageView(mm, p) # {}
        PROVE  p \in Covered(a, n) <=> r.addr <= p * PageSize /\ p * PageSize < r.end
    <3>1. PICK v \in Allocated(mm) : At(mm, v, p * PageSize)
      BY <2>2, ViewHas DEF PageView
    <3> QED BY <1>1, <2>1, <3>1, PageInRange
  <2> QED BY <2>1, <2>2 DEF Covering
<1> QED BY <1>2, <1>3, <1>4

LEMMA SplitShows ==
  ASSUME RInv, NEW a \in Nat, NEW n \in Nat \ {0}, NEW prot, NEW mem \in Kmallocs(mm)
  PROVE  LET s == SplitVma(mm, a, n, prot, mem)
             r == FindRange(mm, a, n)
         IN  /\ Same(mm, s.mm) /\ s.err \in {"ok", "EINVAL", "ENOENT", "ENOMEM"}
             /\ s.err = "ENOENT" => \A p \in Covered(a, n) : PageView(mm, p) = {}
             /\ s.err = "ok" => /\ SplitDone(s) /\ Chain(s.mm, Allocated(s.mm)) /\ OnPages(s.mm)
                                /\ Trimmed(mm, r, prot, s) /\ Covering(a, n, r) /\ r.addr \in Nat /\ r.end \in Nat
                                /\ \A p \in Page : PageView(s.mm, p) = PageView(mm, p)
<1> DEFINE s == SplitVma(mm, a, n, prot, mem)
           r == FindRange(mm, a, n)
<1>1. Tidy(mm, {}, {}) /\ OnPages(mm)
  BY DEF RInv, VInv
<1>2. /\ r.err \in {"ok", "EINVAL", "ENOENT"}
      /\ r.err = "ENOENT" => \A p \in Covered(a, n) : PageView(mm, p) = {}
      /\ r.err = "ok" => Covering(a, n, r) /\ r.addr \in Nat /\ r.end \in Nat
  BY RangeShows DEF Exact, Covers
<1>3. /\ Same(mm, s.mm)
      /\ r.err # "ok" => s.err = r.err
      /\ r.err = "ok" => s.err \in {"ok", "ENOMEM"}
      /\ s.err = "ok" => Trimmed(mm, r, prot, s)
  BY <1>1, SplitVmaSame
<1>4. s.err = "ok" => SplitDone(s)
  BY <1>1, SplitVmaIs
<1> HIDE DEF s, r
<1>5. s.err = "ok" => Chain(s.mm, Allocated(s.mm)) /\ OnPages(s.mm)
  BY <1>1, <1>3, <1>4 DEF SplitDone, Tidy, Same
<1>6. \A p \in Page : PageView(s.mm, p) = PageView(mm, p)
  BY <1>3, PageIs DEF Same, PageView
<1> QED BY <1>2, <1>3, <1>4, <1>5, <1>6 DEF s, r

LEMMA Asked ==
  ASSUME NEW addr \in Base .. Top - 1, NEW len \in Lens
  PROVE  /\ addr \in Nat /\ len \in Nat /\ AlignUp(len) \in Nat /\ (len # 0 => AlignUp(len) # 0)
         /\ Covered(addr, len) \in Promise!Intervals /\ Covered(addr, AlignUp(len)) \in Promise!Intervals
<1>1. addr \in Nat /\ len \in Nat
  BY VmaConstants
<1>2. AlignUp(len) \in Nat /\ len <= AlignUp(len)
  BY <1>1, AlignUpIs
<1> QED BY <1>1, <1>2, AskedInterval, ConvexInterval

(* do_munmap: the pages of the range are unmapped and leave the page       *)
(* table, or nothing changes.                                              *)
LEMMA MunmapStep ==
  ASSUME RInv, VInv', NEW addr \in Base .. Top - 1, NEW len \in Lens, NEW mem \in Kmallocs(mm),
         Munmap(addr, len, mem)
  PROVE  RInv' /\ Promise!Next
<1> DEFINE n == AlignUp(len)
           P == Covered(addr, n)
           asked == [op |-> "munmap", pages |-> P]
           s == SplitVma(mm, addr, n, Nil, mem)
           r == FindRange(mm, addr, n)
<1>1. addr \in Nat /\ n \in Nat /\ (len # 0 => n # 0) /\ P \in Promise!Intervals
  BY Asked
<1>2. CASE len = 0 /\ Fails
  BY <1>2, FailStep, SameSelf DEF Fails, Returns
<1>3. ASSUME len # 0
      PROVE  /\ Same(mm, s.mm)
             /\ s.err = "ENOENT" => \A p \in P : PageView(mm, p) = {}
             /\ s.err = "ok" => /\ SplitDone(s) /\ Chain(s.mm, Allocated(s.mm)) /\ OnPages(s.mm)
                                /\ Trimmed(mm, r, Nil, s) /\ Covering(addr, n, r) /\ r.addr \in Nat /\ r.end \in Nat
                                /\ \A p \in Page : PageView(s.mm, p) = PageView(mm, p)
  <2>1. n \in Nat \ {0}
    BY <1>1, <1>3
  <2> HIDE DEF n
  <2> QED BY <1>1, <2>1, SplitShows
<1>4. \/ len = 0 /\ Fails
      \/ len # 0 /\ s.err = "ENOENT" /\ Returns(asked)
      \/ len # 0 /\ mm' = s.mm /\ pte' = pte /\ call' = [op |-> "failed"]
      \/ /\ len # 0 /\ s.err = "ok" /\ mm' = Unlink(s.mm, s.from, s.to) /\ call' = asked
         /\ pte' = pte \ PagesOf(s.mm, ToSet(AreasOf(s.mm, s.from, s.to)))
  BY DEF Munmap, SplitFailed
<1> HIDE DEF s, r, n
<1>5. CASE len # 0 /\ s.err = "ENOENT" /\ Returns(asked)
  <2>1. mm' = mm /\ pte' = pte /\ call' = asked /\ \A p \in P : PageView(mm, p) = {}
    BY <1>3, <1>5 DEF Returns
  <2>2. pte' = pte \ P
    BY <2>1 DEF RInv
  <2>3. OnPages(mm') /\ \A p \in Page : PageView(mm', p) = IF p \in P THEN {} ELSE PageView(mm, p)
    BY <2>1 DEF RInv
  <2> HIDE DEF P
  <2> QED BY <1>1, <2>1, <2>2, <2>3, UnmapStep
<1>6. CASE len # 0 /\ mm' = s.mm /\ pte' = pte /\ call' = [op |-> "failed"]
  <2>1. Same(mm, mm')
    BY <1>3, <1>6
  <2> QED BY <1>6, <2>1, FailStep
<1>7. CASE /\ len # 0 /\ s.err = "ok" /\ mm' = Unlink(s.mm, s.from, s.to) /\ call' = asked
           /\ pte' = pte \ PagesOf(s.mm, ToSet(AreasOf(s.mm, s.from, s.to)))
  <2> DEFINE In(p) == S(s.mm, s.from) <= p * PageSize /\ p * PageSize < E(s.mm, s.to)
  <2>1. /\ Chain(s.mm, Allocated(s.mm)) /\ OnPages(s.mm) /\ s.from \in Allocated(s.mm) /\ s.to \in Allocated(s.mm)
        /\ S(s.mm, s.from) <= S(s.mm, s.to)
        /\ Trimmed(mm, r, Nil, s) /\ Covering(addr, n, r) /\ \A p \in Page : PageView(s.mm, p) = PageView(mm, p)
    BY <1>3, <1>7 DEF SplitDone
  <2>2. ASSUME NEW p \in Page, PageView(mm, p) # {} PROVE p \in P <=> In(p)
    <3>1. p \in P <=> r.addr <= p * PageSize /\ p * PageSize < r.end
      BY <2>1, <2>2 DEF Covering
    <3>2. /\ p * PageSize \in Nat /\ S(s.mm, s.from) \in Nat /\ E(s.mm, s.to) \in Nat
      BY <2>1, AreaIs, PageIs DEF Chain, Shape
    <3>3. /\ S(s.mm, s.from) <= r.addr /\ r.end <= E(s.mm, s.to)
          /\ ~ (S(s.mm, s.from) <= p * PageSize /\ p * PageSize < r.addr)
          /\ ~ (r.end <= p * PageSize /\ p * PageSize < E(s.mm, s.to))
      BY <2>1, <3>2 DEF Trimmed, Has
    <3>4. r.addr \in Nat /\ r.end \in Nat
      BY <1>3, <1>7
    <3> QED BY <3>1, <3>2, <3>3, <3>4
  <2>3. ASSUME NEW p \in Page PROVE PageView(mm', p) = IF p \in P THEN {} ELSE PageView(mm, p)
    <3>1. PageView(mm', p) = IF In(p) THEN {} ELSE PageView(s.mm, p)
      BY <1>7, <2>1, UnlinkView, PageIs DEF PageView
    <3> QED BY <2>1, <2>2, <3>1
  <2>4. OnPages(mm')
    BY <1>7, <2>1, UnlinkView
  <2>5. \A p \in pte : p \in PagesOf(s.mm, ToSet(AreasOf(s.mm, s.from, s.to))) <=> p \in P
    <3>1. \A p \in pte : p \in Page /\ PageView(mm, p) # {}
      BY DEF RInv, VInv
    <3>2. \A p \in Page : p \in PagesOf(s.mm, ToSet(AreasOf(s.mm, s.from, s.to)))
                            <=> PageView(s.mm, p) # {} /\ In(p)
      BY <2>1, PageOfSection
    <3> QED BY <2>1, <2>2, <3>1, <3>2
  <2>6. pte' = pte \ P
    BY <1>7, <2>5
  <2> HIDE DEF P
  <2> QED BY <1>1, <1>7, <2>3, <2>4, <2>6, UnmapStep
<1> QED BY <1>2, <1>4, <1>5, <1>6, <1>7

(* do_mprotect                                                             *)
LEMMA MprotectStep ==
  ASSUME RInv, VInv', NEW addr \in Base .. Top - 1, NEW len \in Lens, NEW mem \in Kmallocs(mm), NEW prot \in Prot,
         Mprotect(addr, len, prot, mem)
  PROVE  RInv' /\ [Promise!Next]_(Promise!vars)
<1> DEFINE n == AlignUp(len)
           P == Covered(addr, n)
           asked == [op |-> "mprotect", pages |-> P, prot |-> prot]
           s == SplitVma(mm, addr, n, prot, mem)
           r == FindRange(mm, addr, n)
<1>1. addr \in Nat /\ n \in Nat /\ (len # 0 => n # 0) /\ P \in Promise!Intervals
  BY Asked
<1>2. ASSUME len # 0
      PROVE  /\ Same(mm, s.mm)
             /\ s.err = "ENOENT" => \A p \in P : PageView(mm, p) = {}
             /\ s.err = "ok" => /\ SplitDone(s) /\ Chain(s.mm, Allocated(s.mm)) /\ OnPages(s.mm)
                                /\ Trimmed(mm, r, prot, s) /\ Covering(addr, n, r) /\ r.addr \in Nat /\ r.end \in Nat
                                /\ \A p \in Page : PageView(s.mm, p) = PageView(mm, p)
  <2>1. n \in Nat \ {0}
    BY <1>1, <1>2
  <2> HIDE DEF n
  <2> QED BY <1>1, <2>1, SplitShows
<1>3. ASSUME Returns(asked), \A p \in P : PageView(mm, p) = {} PROVE RInv' /\ Promise!Next
  <2>1. mm' = mm /\ pte' = pte /\ call' = asked
    BY <1>3 DEF Returns
  <2>2. ASSUME NEW p \in Page
        PROVE  PageView(mm', p) = IF p \in P THEN {[z EXCEPT !.prot = prot] : z \in PageView(mm, p)}
                                  ELSE PageView(mm, p)
    <3>1. CASE p \in P
      <4>1. PageView(mm, p) = {}
        BY <1>3, <3>1
      <4> QED BY <2>1, <3>1, <4>1
    <3>2. CASE p \notin P
      BY <2>1, <3>2
    <3> QED BY <3>1, <3>2
  <2>3. OnPages(mm')
    BY <2>1 DEF RInv
  <2> HIDE DEF P
  <2> QED BY <1>1, <2>1, <2>2, <2>3, ProtectStep
<1>4. \/ len = 0 /\ Returns(asked)
      \/ len # 0 /\ s.err = "ENOENT" /\ Returns(asked)
      \/ len # 0 /\ mm' = s.mm /\ pte' = pte /\ call' = [op |-> "failed"]
      \/ Panics
      \/ /\ len # 0 /\ s.err = "ok" /\ mm' = SetProtRange(s.mm, AreasOf(s.mm, s.from, s.to), prot)
         /\ call' = asked /\ pte' = pte
  BY DEF Mprotect, SplitFailed
<1>5. CASE len = 0 /\ Returns(asked)
  <2>1. P = {}
    BY <1>5, CoversNothing
  <2> QED BY <1>3, <1>5, <2>1
<1> HIDE DEF s, r, n
<1>6. CASE len # 0 /\ s.err = "ENOENT" /\ Returns(asked)
  BY <1>2, <1>3, <1>6
<1>7. CASE len # 0 /\ mm' = s.mm /\ pte' = pte /\ call' = [op |-> "failed"]
  <2>1. Same(mm, mm')
    BY <1>2, <1>7
  <2> QED BY <1>7, <2>1, FailStep
<1>8. CASE Panics
  BY <1>8, StutterStep DEF Panics
<1>9. CASE /\ len # 0 /\ s.err = "ok" /\ mm' = SetProtRange(s.mm, AreasOf(s.mm, s.from, s.to), prot)
           /\ call' = asked /\ pte' = pte
  <2> DEFINE x(p) == p * PageSize
             In(p) == S(s.mm, s.from) <= x(p) /\ x(p) < E(s.mm, s.to)
             Changed(V) == {[z EXCEPT !.prot = prot] : z \in V}
  <2>1. /\ Chain(s.mm, Allocated(s.mm)) /\ OnPages(s.mm) /\ s.from \in Allocated(s.mm) /\ s.to \in Allocated(s.mm)
        /\ S(s.mm, s.from) <= S(s.mm, s.to) /\ Tidy(s.mm, {s.to}, {s.from})
        /\ Trimmed(mm, r, prot, s) /\ Covering(addr, n, r) /\ \A p \in Page : PageView(s.mm, p) = PageView(mm, p)
    BY <1>2, <1>9 DEF SplitDone
  <2>2. ProtectedView(s.mm, mm', S(s.mm, s.from), E(s.mm, s.to), prot)
    BY <1>9, <2>1, SetProtIs
  <2>3. ASSUME NEW p \in Page
        PROVE  PageView(mm', p) = IF p \in P THEN Changed(PageView(mm, p)) ELSE PageView(mm, p)
    <3>1. x(p) \in Nat
      BY PageIs
    <3>2. PageView(mm', p) = IF In(p) THEN Changed(PageView(mm, p)) ELSE PageView(mm, p)
      <4>1. PageView(mm', p) = IF In(p) THEN Changed(PageView(s.mm, p)) ELSE PageView(s.mm, p)
        BY <2>2, <3>1 DEF ProtectedView, PageView
      <4>2. PageView(s.mm, p) = PageView(mm, p)
        BY <2>1
      <4> QED BY <4>1, <4>2
    <3>3. CASE PageView(mm, p) = {}
      <4>1. Changed(PageView(mm, p)) = {}
        BY <3>3
      <4> QED BY <3>2, <3>3, <4>1
    <3>4. CASE PageView(mm, p) # {}
      <4>1. p \in P <=> r.addr <= x(p) /\ x(p) < r.end
        BY <2>1, <3>4 DEF Covering
      <4>2. /\ S(s.mm, s.from) <= r.addr /\ r.end <= E(s.mm, s.to)
            /\ (S(s.mm, s.from) <= x(p) /\ x(p) < r.addr) \/ (r.end <= x(p) /\ x(p) < E(s.mm, s.to)) => Has(mm, x(p), prot)
        BY <2>1, <3>1 DEF Trimmed
      <4>3. S(s.mm, s.from) \in Nat /\ E(s.mm, s.to) \in Nat
        BY <2>1, AreaIs DEF Chain, Shape
      <4>4. r.addr \in Nat /\ r.end \in Nat
        BY <1>2, <1>9
      <4>5. (p \in P <=> In(p)) \/ (In(p) /\ Has(mm, x(p), prot))
        BY <3>1, <4>1, <4>2, <4>3, <4>4
      <4>6. Has(mm, x(p), prot) => Changed(PageView(mm, p)) = PageView(mm, p)
        <5>1. ASSUME Has(mm, x(p), prot) PROVE Changed(PageView(mm, p)) = PageView(mm, p)
          <6>1. PICK z \in Attr : PageView(mm, p) = {z}
            <7>1. OneOrNone(PageView(mm, p))
              BY ContentsAre DEF RInv
            <7> QED BY <3>4, <7>1 DEF OneOrNone
          <6>2. z.prot = prot
            BY <5>1, <6>1 DEF Has, PageView
          <6>3. [z EXCEPT !.prot = prot] = z
            BY <6>2 DEF Attr
          <6> QED BY <6>1, <6>3
        <5> QED BY <5>1
      <4> QED BY <3>2, <4>5, <4>6
    <3> QED BY <3>3, <3>4
  <2>4. OnPages(mm')
    BY <2>1, <2>2 DEF ProtectedView
  <2> HIDE DEF P
  <2> QED BY <1>1, <1>9, <2>3, <2>4, ProtectStep
<1> QED BY <1>4, <1>5, <1>6, <1>7, <1>8, <1>9

(* do_madvise                                                              *)
LEMMA MadviseStep ==
  ASSUME RInv, VInv', NEW addr \in Base .. Top - 1, NEW len \in Lens, Madvise(addr, len)
  PROVE  RInv' /\ Promise!Next
<1> DEFINE P == Covered(addr, len)
           asked == [op |-> "madvise", pages |-> P]
           r == FindRange(mm, addr, len)
<1>1. addr \in Nat /\ len \in Nat /\ P \in Promise!Intervals
  BY Asked
<1>2. ASSUME len # 0
      PROVE  /\ r.err = "ENOENT" => \A p \in P : PageView(mm, p) = {}
             /\ r.err = "ok" => Exact(mm, addr, len, r) /\ Covering(addr, len, r)
  <2>1. len \in Nat \ {0}
    BY <1>1, <1>2
  <2> QED BY <1>1, <2>1, RangeShows
<1>3. ASSUME Returns(asked), \A p \in P : PageView(mm, p) = {} PROVE RInv' /\ Promise!Next
  <2>1. mm' = mm /\ pte' = pte /\ call' = asked
    BY <1>3 DEF Returns
  <2>2. pte' = pte \ P
    BY <1>3, <2>1 DEF RInv
  <2> HIDE DEF P
  <2> QED BY <1>1, <2>1, <2>2, AdviseStep
<1>4. \/ len = 0 /\ Returns(asked)
      \/ len # 0 /\ r.err = "ENOENT" /\ Returns(asked)
      \/ Fails
      \/ /\ len # 0 /\ r.err = "ok" /\ call' = asked /\ mm' = mm
         /\ pte' = pte \ (Pages(r.addr, r.end) \cap PagesOf(mm, ToSet(AreasOf(mm, r.from, r.to))))
  BY DEF Madvise
<1>5. CASE len = 0 /\ Returns(asked)
  <2>1. P = {}
    BY <1>5, CoversNothing
  <2> QED BY <1>3, <1>5, <2>1
<1>6. CASE len # 0 /\ r.err = "ENOENT" /\ Returns(asked)
  BY <1>2, <1>3, <1>6
<1>7. CASE Fails
  BY <1>7, FailStep, SameSelf DEF Fails, Returns
<1> HIDE DEF r
<1>8. CASE /\ len # 0 /\ r.err = "ok" /\ call' = asked /\ mm' = mm
           /\ pte' = pte \ (Pages(r.addr, r.end) \cap PagesOf(mm, ToSet(AreasOf(mm, r.from, r.to))))
  <2> DEFINE Z == PagesOf(mm, ToSet(AreasOf(mm, r.from, r.to)))
  <2>1. /\ Covers(mm, r) /\ Aligned(r.addr) /\ Aligned(r.end) /\ Covering(addr, len, r)
        /\ Chain(mm, Allocated(mm)) /\ OnPages(mm)
    BY <1>2, <1>8 DEF Exact, RInv, VInv, Tidy
  <2>2. /\ r.from \in Allocated(mm) /\ r.to \in Allocated(mm) /\ S(mm, r.from) <= S(mm, r.to)
        /\ r.addr \in Nat /\ r.end \in Nat /\ S(mm, r.from) <= r.addr /\ r.end <= E(mm, r.to)
        /\ S(mm, r.from) \in Nat /\ E(mm, r.to) \in Nat
    BY <2>1, AreaIs DEF Covers, Chain, Shape
  <2>3. \A p \in Page : p \in Z <=> /\ PageView(mm, p) # {}
                                    /\ S(mm, r.from) <= p * PageSize /\ p * PageSize < E(mm, r.to)
    BY <2>1, <2>2, PageOfSection
  <2> HIDE DEF Z
  <2>4. ASSUME NEW p \in pte PROVE p \in Pages(r.addr, r.end) \cap Z <=> p \in P
    <3>1. p \in Page /\ PageView(mm, p) # {}
      BY DEF RInv, VInv
    <3>2. p \in P <=> r.addr <= p * PageSize /\ p * PageSize < r.end
      BY <2>1, <3>1 DEF Covering
    <3>3. p \in Nat /\ p * PageSize \in Nat /\ (p + 1) * PageSize \in Nat /\ p * PageSize < (p + 1) * PageSize
      BY <3>1, PageIs
    <3>4. p * PageSize < r.end <=> (p + 1) * PageSize <= r.end
      <4>1. p * PageSize < r.end => (p + 1) * PageSize <= r.end
        BY <2>1, <2>2, <3>3, NextPage
      <4> QED BY <2>2, <3>3, <4>1
    <3>5. p \in Pages(r.addr, r.end) <=> r.addr <= p * PageSize /\ p * PageSize < r.end
      BY <3>1, <3>4 DEF Pages
    <3>6. r.addr <= p * PageSize /\ p * PageSize < r.end => p \in Z
      BY <2>2, <2>3, <3>1, <3>3
    <3> QED BY <3>2, <3>5, <3>6
  <2>5. pte' = pte \ P
    BY <1>8, <2>4 DEF Z
  <2> HIDE DEF P
  <2> QED BY <1>1, <1>8, <2>5, AdviseStep
<1> QED BY <1>4, <1>5, <1>6, <1>7, <1>8

(* The pages of a place that begins and ends at pages.                     *)
LEMMA Cancel ==
  ASSUME NEW n \in Nat \ {0}, NEW x \in Nat, NEW y \in Nat
  PROVE  n * x <= n * y <=> x <= y
<1>1. ASSUME x <= y PROVE n * x <= n * y
  BY <1>1, TimesGrows
<1>2. ASSUME y < x PROVE n * y < n * x
  <2>1. y + 1 <= x /\ y + 1 \in Nat
    BY <1>2
  <2>2. n * (y + 1) <= n * x
    BY <2>1, TimesGrows
  <2>3. n * (y + 1) = n * y + n /\ n * y \in Nat /\ n * x \in Nat
    BY <2>1, TimesGrows
  <2> QED BY <2>2, <2>3
<1>3. n * x \in Nat /\ n * y \in Nat
  BY TimesGrows
<1> QED BY <1>1, <1>2, <1>3

LEMMA PlacePages ==
  ASSUME NEW va \in Nat, NEW size \in Nat \ {0}, Aligned(va), Aligned(size), Base <= va, va + size <= Top
  PROVE  LET P == {p \in Page : va <= p * PageSize /\ p * PageSize < va + size}
         IN  P # {} /\ Convex(P) /\ Cardinality(P) = size \div PageSize
<1> DEFINE i == va \div PageSize
           n == size \div PageSize
           b == Base \div PageSize
           t == Top \div PageSize
           P == {p \in Page : va <= p * PageSize /\ p * PageSize < va + size}
<1>1. /\ PageSize \in Nat \ {0} /\ i \in Nat /\ n \in Nat /\ b \in Nat /\ t \in Nat
      /\ va = PageSize * i /\ size = PageSize * n /\ Base = PageSize * b /\ Top = PageSize * t
  <2>1. Aligned(Base) /\ Aligned(Top) /\ Base \in Nat /\ Top \in Nat /\ PageSize \in Nat \ {0}
    BY VmaConstants DEF Aligned
  <2> QED BY <2>1, AlignedIs
<1>2. Page = b .. t - 1
  BY DEF Page
<1> HIDE DEF i, n, b, t
<1>3. n # 0 /\ va + size = PageSize * (i + n) /\ i + n \in Nat
  BY <1>1
<1>4. b <= i /\ i + n <= t
  <2>1. PageSize * b <= PageSize * i /\ PageSize * (i + n) <= PageSize * t
    BY <1>1, <1>3
  <2> QED BY <1>1, <1>3, <2>1, Cancel
<1>5. ASSUME NEW p \in Nat PROVE va <= p * PageSize /\ p * PageSize < va + size <=> i <= p /\ p < i + n
  <2>1. p * PageSize = PageSize * p /\ PageSize * p \in Nat /\ PageSize * (i + n) \in Nat
    BY <1>1, <1>3, TimesGrows
  <2>2. PageSize * i <= PageSize * p <=> i <= p
    BY <1>1, Cancel
  <2>3. PageSize * (i + n) <= PageSize * p <=> i + n <= p
    BY <1>1, <1>3, Cancel
  <2> HIDE DEF P
  <2> QED BY <1>1, <1>3, <2>1, <2>2, <2>3
<1>6. P = i .. (i + n - 1)
  <2>1. ASSUME NEW p \in P PROVE p \in i .. (i + n - 1)
    <3>1. p \in Nat /\ va <= p * PageSize /\ p * PageSize < va + size
      BY <1>1, <1>2
    <3>2. i <= p /\ p < i + n
      BY <1>5, <3>1
    <3> QED BY <1>1, <3>1, <3>2
  <2>2. ASSUME NEW p \in i .. (i + n - 1) PROVE p \in P
    <3>1. p \in Nat /\ p \in Page /\ i <= p /\ p < i + n
      BY <1>1, <1>2, <1>4
    <3> QED BY <1>5, <3>1
  <2> QED BY <2>1, <2>2
<1>7. P \subseteq Page
  OBVIOUS
<1> HIDE DEF P
<1>8. P # {}
  <2>1. i \in i .. (i + n - 1)
    BY <1>1, <1>3
  <2> QED BY <1>6, <2>1
<1>9. Convex(P)
  BY <1>1, <1>2, <1>6, <1>7 DEF Convex
<1>10. Cardinality(P) = n
  <2>1. Cardinality(i .. (i + n - 1)) = (i + n - 1) - i + 1
    BY <1>1, <1>3, FS_Interval
  <2> QED BY <1>1, <1>6, <2>1
<1> QED BY <1>8, <1>9, <1>10 DEF P, n

(* do_mmap                                                                 *)
LEMMA MmapStep ==
  ASSUME RInv, VInv', NEW hint \in Hints, NEW len \in Lens, NEW prot \in Prot, NEW flags \in FlagSets,
         Mmap(hint, len, prot, flags), onPages'
  PROVE  RInv' /\ Promise!Next
<1> DEFINE size == AlignUp(len)
           va == Place(mm, hint, size)
           area == [start |-> va, end |-> va + size, prot |-> prot, flags |-> flags]
           a == [prot |-> prot, flags |-> flags]
           P == {p \in Page : va <= p * PageSize /\ p * PageSize < va + size}
<1>1. Tidy(mm, {}, {}) /\ Chain(mm, Allocated(mm)) /\ OnPages(mm)
  BY DEF RInv, VInv, Tidy
<1>2. /\ MmapCheck(hint, len, flags, 0) = "ok" /\ Allocated(mm) # Id /\ va + size <= Top
      /\ mm' = Mapped(mm, New(mm), area) /\ pte' = pte
      /\ call' = [op |-> "mmap", size |-> size \div PageSize, attr |-> a]
      /\ onPages' = (onPages /\ Aligned(va))
  BY DEF Mmap
<1>3. len \in Nat \ {0} /\ hint \in Nat
  <2>1. len # 0
    BY <1>2 DEF MmapCheck
  <2> QED BY <2>1, VmaConstants
<1>4. size \in Nat \ {0} /\ Aligned(size)
  <2>1. size \in Nat /\ len <= size /\ Aligned(size)
    BY <1>3, AlignUpIs
  <2> HIDE DEF size
  <2> QED BY <1>3, <2>1
<1>5. Aligned(va)
  BY <1>2
<1> HIDE DEF size
<1>6. va \in Nat /\ Base <= va /\ Vacant(mm, va, va + size) /\ Aligned(va)
  BY <1>1, <1>3, <1>4, <1>5, PlaceIs
<1> HIDE DEF va
<1>7. area \in Area /\ area.start = va /\ area.end = va + size /\ va < va + size
  <2>1. va \in Base .. Top /\ va + size \in Base .. Top
    BY <1>2, <1>4, <1>6, VmaConstants
  <2> QED BY <1>4, <1>6, <2>1 DEF Area
<1>8. New(mm) \in Id \ Allocated(mm)
  <2>1. Id \ Allocated(mm) # {}
    BY <1>2 DEF Allocated
  <2> QED BY <2>1, NewIs
<1>9. Aligned(va + size)
  <2>1. va % PageSize = 0 /\ size % PageSize = 0 /\ PageSize \in Nat \ {0}
    BY <1>4, <1>6, VmaConstants DEF Aligned
  <2>2. va = PageSize * (va \div PageSize) /\ size = PageSize * (size \div PageSize)
    BY <1>4, <1>6, AlignedIs
  <2>3. va \div PageSize \in Nat /\ size \div PageSize \in Nat
    BY <1>4, <1>6, <2>1, DivMod
  <2>4. va + size = PageSize * ((va \div PageSize) + (size \div PageSize))
    BY <2>1, <2>2, <2>3
  <2>5. (PageSize * ((va \div PageSize) + (size \div PageSize))) % PageSize = 0
    BY <2>1, <2>3, ModOfMultiple
  <2> QED BY <2>4, <2>5 DEF Aligned
<1>10. P # {} /\ Convex(P) /\ Cardinality(P) = size \div PageSize
  BY <1>2, <1>4, <1>6, PlacePages
<1>11. /\ \A x \in Nat : View(mm', x) = IF va <= x /\ x < va + size THEN {a} ELSE View(mm, x)
       /\ OnPages(mm')
  <2>1. area.prot = prot /\ area.flags = flags
    OBVIOUS
  <2>2. Vacant(mm, area.start, area.end) /\ Aligned(area.start) /\ Aligned(area.end) /\ area.start < area.end
    BY <1>6, <1>7, <1>9
  <2> HIDE DEF area
  <2>3. /\ \A x \in Nat : View(mm', x) = IF area.start <= x /\ x < area.end
                                       THEN {[prot |-> area.prot, flags |-> area.flags]} ELSE View(mm, x)
        /\ OnPages(mm')
    BY <1>1, <1>2, <1>7, <1>8, <2>2, MappedIs
  <2> QED BY <1>7, <2>1, <2>3
<1>12. \A p \in Page : PageView(mm', p) = IF p \in P THEN {a} ELSE PageView(mm, p)
  BY <1>11, PageIs DEF PageView
<1>13. ASSUME NEW p \in P PROVE PageView(mm, p) = {}
  <2>1. p \in Page /\ va <= p * PageSize /\ p * PageSize < va + size /\ p * PageSize \in Nat
    BY PageIs
  <2>2. ASSUME NEW v \in Allocated(mm), At(mm, v, p * PageSize) PROVE FALSE
    <3>1. va + size <= S(mm, v) \/ E(mm, v) <= va
      BY <1>6 DEF Vacant
    <3>2. S(mm, v) \in Nat /\ E(mm, v) \in Nat
      BY <1>1, AreaIs DEF Chain, Shape
    <3> HIDE DEF P
    <3> QED BY <1>4, <1>6, <2>1, <2>2, <3>1, <3>2 DEF At
  <2> QED BY <2>2, ViewHas DEF PageView
<1>14. a \in Attr
  BY DEF Attr
<1>15. P \subseteq Page
  OBVIOUS
<1> HIDE DEF P, a
<1>16. P \in Promise!Intervals
  BY <1>10, ConvexInterval
<1> QED BY <1>2, <1>10, <1>11, <1>12, <1>13, <1>14, <1>15, <1>16, MapStep

LEMMA NoAreas ==
  ASSUME NEW m, Allocated(m) = {}
  PROVE  OnPages(m) /\ \A p : PageView(m, p) = {}
<1>1. \A p : PageView(m, p) = {}
  BY ViewHas DEF PageView
<1> QED BY <1>1 DEF OnPages

(* mm_destory                                                              *)
LEMMA DestroyStep ==
  ASSUME RInv, VInv', Destroy
  PROVE  RInv' /\ Promise!Next
<1>1. /\ mm' = Empty /\ pte' = pte \ PagesOf(mm, ToSet(Listed(mm)))
      /\ call' = [op |-> "munmap", pages |-> Page]
  BY DEF Destroy, Empty
<1>2. Chain(mm, Allocated(mm)) /\ OnPages(mm)
  BY DEF RInv, VInv, Tidy
<1>3. ToSet(Listed(mm)) = Allocated(mm)
  BY <1>2, EntriesAre
<1>4. ASSUME NEW p \in pte PROVE p \in PagesOf(mm, Allocated(mm))
  <2>1. p \in Page /\ PageView(mm, p) # {}
    BY DEF RInv, VInv
  <2>2. PICK v \in Allocated(mm) : At(mm, v, p * PageSize)
    BY <2>1, ViewHas DEF PageView
  <2>3. E(mm, v) \in Nat /\ S(mm, v) \in Nat /\ Aligned(E(mm, v))
    BY <1>2, AreaIs DEF Chain, Shape, OnPages
  <2>4. p \in Nat /\ (p + 1) * PageSize <= E(mm, v)
    BY <2>1, <2>2, <2>3, PageIs, NextPage DEF At
  <2>5. p \in Pages(S(mm, v), E(mm, v))
    BY <2>1, <2>2, <2>4 DEF Pages, At
  <2> QED BY <2>5 DEF PagesOf, S, E
<1>5. pte' = pte \ Page /\ Page \in Promise!Intervals
  <2>1. pte' = {}
    BY <1>1, <1>3, <1>4
  <2> QED BY <2>1, AskedInterval, ConvexInterval DEF RInv, VInv
<1>6. OnPages(mm') /\ \A p : PageView(mm', p) = {}
  BY <1>1, EmptyIs, NoAreas
<1>7. \A p \in Page : PageView(mm', p) = IF p \in Page THEN {} ELSE PageView(mm, p)
  BY <1>6
<1> QED BY <1>1, <1>5, <1>6, <1>7, UnmapStep

LEMMA TouchStep ==
  ASSUME RInv, VInv', NEW p \in Page, Touch(p)
  PROVE  RInv' /\ Promise!Next
<1>1. Chain(mm, Allocated(mm)) /\ mm' = mm /\ pte' = pte \cup {p} /\ call' = call
  BY DEF RInv, VInv, Tidy, Touch
<1>2. PageView(mm, p) # {}
  <2>1. ToSet(Listed(mm)) = Allocated(mm)
    BY <1>1, EntriesAre
  <2>2. PICK v \in Allocated(mm) : p \in Pages(S(mm, v), E(mm, v))
    BY <2>1 DEF Touch, S, E
  <2>3. S(mm, v) \in Nat /\ E(mm, v) \in Nat
    BY <1>1, AreaIs DEF Chain, Shape
  <2>4. At(mm, v, p * PageSize)
    BY <2>2, <2>3, PageIs DEF At, Pages
  <2> QED BY <2>4, ViewHas DEF PageView
<1>3. /\ Contents = ContentsOf(mm) /\ Contents' = ContentsOf(mm)
      /\ OneOrNone(PageView(mm, p))
  BY <1>1, ContentsAre DEF RInv
<1>4. p \in Promise!Mapped
  BY <1>2, <1>3, ContentsHas DEF Promise!Mapped
<1>5. Promise!Touch(p)
  BY <1>1, <1>3, <1>4 DEF Promise!Touch
<1>6. RInv'
  BY <1>1, <1>2 DEF RInv
<1> QED BY <1>5, <1>6 DEF Promise!Next

LEMMA StartsRefined == Init => RInv /\ Promise!Init
<1> SUFFICES ASSUME Init PROVE RInv /\ Promise!Init
  OBVIOUS
<1>1. VInv /\ mm = Empty /\ pte = {} /\ call = [op |-> "failed"]
  BY StartsWithInv DEF Init, Empty
<1>2. OnPages(mm) /\ \A p : PageView(mm, p) = {}
  BY <1>1, EmptyIs, NoAreas
<1>3. Contents = [p \in Page |-> Nil]
  <2>1. Contents = ContentsOf(mm)
    BY <1>1, ContentsAre
  <2> QED BY <1>2, <2>1, SeenIs DEF ContentsOf
<1>4. Promise!Init
  BY <1>1, <1>3 DEF Promise!Init, Promise!Failed
<1> QED BY <1>1, <1>2, <1>4 DEF RInv

LEMMA NextRefines ==
  RInv /\ onPages' /\ [Next]_vars => RInv' /\ [Promise!Next]_(Promise!vars)
<1> SUFFICES ASSUME RInv, onPages', [Next]_vars PROVE RInv' /\ [Promise!Next]_(Promise!vars)
  OBVIOUS
<1>0. VInv'
  BY NextKeepsInv DEF RInv
<1>1. CASE UNCHANGED vars
  BY <1>0, <1>1, StutterStep DEF vars
<1>2. ASSUME NEW hint \in Hints, NEW len \in Lens, NEW flags \in FlagSets, NEW prot \in Prot,
             Mmap(hint, len, prot, flags)
      PROVE  RInv' /\ Promise!Next
  BY <1>0, <1>2, MmapStep
<1>3. ASSUME NEW hint \in Hints, NEW len \in Lens, NEW flags \in FlagSets, NEW offset \in {0, 1},
             MmapFails(hint, len, flags, offset)
      PROVE  RInv' /\ [Promise!Next]_(Promise!vars)
  <2>1. Panics \/ Fails
    BY <1>3 DEF MmapFails
  <2>2. CASE Panics
    BY <1>0, <2>2, StutterStep DEF Panics
  <2>3. CASE Fails
    BY <1>0, <2>3, FailStep, SameSelf DEF Fails, Returns
  <2> QED BY <2>1, <2>2, <2>3
<1>4. ASSUME NEW addr \in Base .. Top - 1, NEW len \in Lens, NEW mem \in Kmallocs(mm), Munmap(addr, len, mem)
      PROVE  RInv' /\ Promise!Next
  BY <1>0, <1>4, MunmapStep
<1>5. ASSUME NEW addr \in Base .. Top - 1, NEW len \in Lens, NEW mem \in Kmallocs(mm), NEW prot \in Prot,
             Mprotect(addr, len, prot, mem)
      PROVE  RInv' /\ [Promise!Next]_(Promise!vars)
  BY <1>0, <1>5, MprotectStep
<1>6. ASSUME NEW addr \in Base .. Top - 1, NEW len \in Lens, Madvise(addr, len)
      PROVE  RInv' /\ Promise!Next
  BY <1>0, <1>6, MadviseStep
<1>7. ASSUME NEW p \in Page, Touch(p) PROVE RInv' /\ Promise!Next
  BY <1>0, <1>7, TouchStep
<1>8. ASSUME Destroy PROVE RInv' /\ Promise!Next
  BY <1>0, <1>8, DestroyStep
<1>9. CASE Syscall
  BY <1>2, <1>3, <1>4, <1>5, <1>6, <1>7, <1>8, <1>9 DEF Syscall
<1> QED BY <1>1, <1>9 DEF Next

(* Whatever areas a call splits, merges and unlinks, it does to the pages  *)
(* what Regions promises, all of what was asked for or nothing, until an   *)
(* area is mapped that does not begin at a page: for hints of any kind.    *)
THEOREM RegionsImplemented == Spec => ImplementsRegions
<1> DEFINE J == onPages \in BOOLEAN /\ (onPages => RInv)
           Kept == onPages' => Promise!Next \/ UNCHANGED Promise!vars
<1>1. Init => J /\ Promise!Init
  BY StartsRefined DEF Init
<1>2. J /\ [Next]_vars => J' /\ Kept
  BY OnPagesFalls, NextRefines
<1> HIDE DEF J
<1> QED BY <1>1, <1>2, PTL DEF Spec, ImplementsRegions

(* A hint that is a multiple or a divisor of a page leads to a page.       *)
LEMMA HintsLeadToPages ==
  ASSUME HintsArePages, RInv, onPages, [Next]_vars
  PROVE  onPages'
<1>1. ASSUME NEW hint \in Hints, NEW len \in Lens, NEW flags \in FlagSets, NEW prot \in Prot,
             Mmap(hint, len, prot, flags)
      PROVE  onPages'
  <2> DEFINE size == AlignUp(len)
             va == Place(mm, hint, size)
  <2>1. MmapCheck(hint, len, flags, 0) = "ok" /\ onPages' = (onPages /\ Aligned(va))
    BY <1>1 DEF Mmap
  <2>2. len \in Nat \ {0} /\ hint \in Nat
    <3>1. len # 0
      BY <2>1 DEF MmapCheck
    <3> QED BY <3>1, VmaConstants
  <2>3. size \in Nat \ {0}
    <3>1. size \in Nat /\ len <= size
      BY <2>2, AlignUpIs
    <3> HIDE DEF size
    <3> QED BY <2>2, <3>1
  <2> HIDE DEF size
  <2>4. Chain(mm, Allocated(mm)) /\ OnPages(mm) /\ (hint # 0 => Suits(hint))
    BY DEF RInv, VInv, Tidy, HintsArePages, Suits
  <2>5. Aligned(va)
    BY <2>2, <2>3, <2>4, PlaceIs
  <2> QED BY <2>1, <2>5
<1>2. CASE UNCHANGED onPages
  BY <1>2
<1>3. (\E hint \in Hints, len \in Lens, flags \in FlagSets, prot \in Prot : Mmap(hint, len, prot, flags))
      \/ UNCHANGED onPages
  BY OnPagesMoves
<1> QED BY <1>1, <1>2, <1>3

(* With such hints the calls keep the promise of Regions for ever.         *)
THEOREM RegionsAlwaysImplemented ==
  ASSUME HintsArePages PROVE Spec => ImplementsRegionsAlways
<1> DEFINE J == onPages \in BOOLEAN /\ onPages /\ RInv
<1>1. Init => J /\ Promise!Init
  BY StartsRefined DEF Init
<1>2. J /\ [Next]_vars => J' /\ [Promise!Next]_(Promise!vars)
  BY OnPagesFalls, HintsLeadToPages, NextRefines
<1> HIDE DEF J
<1> QED BY <1>1, <1>2, PTL DEF Spec, ImplementsRegionsAlways, Promise!Spec
=============================================================================
