-------------------------- MODULE PageTablesProofs --------------------------
(***************************************************************************)
(* Proofs about the page tables, for directories and pools of any size:    *)
(* every page is in one place, and the trees of directories implement maps *)
(* from virtual to physical pages.                                         *)
(***************************************************************************)
EXTENDS PageTables, FiniteSetTheorems, SequenceTheorems, TLAPS

USE NumPteAssumption, NumPagesAssumption

-----------------------------------------------------------------------------
(***************************************************************************)
(* Induction and recursion for loops, in terms of sets and functions.  A   *)
(* set that the steps of a loop do not leave has all of its indices: else  *)
(* the missing ones up to the first of them, each moved down by one, would *)
(* be missing ones without it, as many in fewer places.                    *)
(***************************************************************************)
LEMMA Induction ==
    ASSUME NEW n \in Nat, NEW A, 0 \in A, \A k \in 0 .. n - 1 : k \in A => k + 1 \in A
    PROVE  \A k \in 0 .. n : k \in A
<1> SUFFICES ASSUME NEW b \in 0 .. n, b \notin A PROVE FALSE
    OBVIOUS
<1> DEFINE S == {k \in 0 .. b : k \notin A}
           T == S \ {b}
           f == [k \in S |-> k - 1]
<1>1. IsFiniteSet(S)
    <2>1. IsFiniteSet(0 .. b)
        BY FS_Interval
    <2> QED BY <2>1, FS_Subset
<1>2. b \in S
    OBVIOUS
<1>3. IsFiniteSet(T) /\ Cardinality(T) < Cardinality(S)
    <2>1. IsFiniteSet(T) /\ Cardinality(T) = Cardinality(S) - 1
        BY <1>1, <1>2, FS_RemoveElement
    <2>2. Cardinality(S) \in Nat
        BY <1>1, FS_CardinalityType
    <2> QED BY <2>1, <2>2
<1>4. f \in [S -> T]
    <2> SUFFICES ASSUME NEW k \in S PROVE k - 1 \in T
        OBVIOUS
    <2>1. k # 0
        OBVIOUS
    <2>2. k - 1 \in 0 .. n - 1 /\ (k - 1) + 1 = k /\ k - 1 \in 0 .. b /\ k - 1 # b
        BY <2>1
    <2> QED BY <2>2
<1>5. PICK x, y \in S : x # y /\ f[x] = f[y]
    <2> HIDE DEF S, T, f
    <2> QED BY <1>1, <1>3, <1>4, FS_PigeonHole
<1> QED BY <1>5

(* The states a loop goes through, from m, with F as one of its rounds. *)
Rounds(g, k, m, F) ==
    g[0] = m /\ \A n \in 1 .. k : g[n] = F[<<g[n - 1], n - 1>>]

LEMMA LoopRuns ==
    ASSUME NEW M, NEW m \in M, NEW k \in Nat, NEW F \in [M \X (0 .. k - 1) -> M]
    PROVE  \E g \in [0 .. k -> M] : Rounds(g, k, m, F)
<1> DEFINE A == {j \in 0 .. k : \E g \in [0 .. j -> M] : Rounds(g, j, m, F)}
<1>1. 0 \in A
    <2> DEFINE g == [n \in 0 .. 0 |-> m]
    <2>1. g \in [0 .. 0 -> M] /\ Rounds(g, 0, m, F)
        BY DEF Rounds
    <2> QED BY <2>1
<1>2. ASSUME NEW j \in 0 .. k - 1, j \in A PROVE j + 1 \in A
    <2>1. PICK g \in [0 .. j -> M] : Rounds(g, j, m, F)
        BY <1>2
    <2> DEFINE h == [n \in 0 .. j + 1 |-> IF n = j + 1 THEN F[<<g[j], j>>] ELSE g[n]]
    <2>2. F[<<g[j], j>>] \in M
        OBVIOUS
    <2>3. h \in [0 .. j + 1 -> M]
        <3>1. ASSUME NEW n \in 0 .. j + 1, n # j + 1 PROVE g[n] \in M
            BY <3>1
        <3> QED BY <2>2, <3>1
    <2>4. h[0] = m
        BY <2>1 DEF Rounds
    <2>5. ASSUME NEW n \in 1 .. j + 1 PROVE h[n] = F[<<h[n - 1], n - 1>>]
        <3>1. n - 1 \in 0 .. j /\ n - 1 # j + 1
            BY <2>5
        <3>2. h[n - 1] = g[n - 1]
            BY <3>1
        <3>3. CASE n = j + 1
            <4>1. n - 1 = j /\ h[n - 1] = g[j]
                BY <3>2, <3>3
            <4>2. h[n] = F[<<g[j], j>>]
                BY <3>3
            <4> HIDE DEF h
            <4> QED BY <4>1, <4>2
        <3>4. CASE n # j + 1
            <4>1. n \in 1 .. j
                BY <3>4
            <4> QED BY <2>1, <3>2, <4>1 DEF Rounds
        <3> QED BY <3>3, <3>4
    <2>6. Rounds(h, j + 1, m, F)
        BY <2>4, <2>5 DEF Rounds
    <2>7. j + 1 \in 0 .. k
        OBVIOUS
    <2> HIDE DEF h
    <2> QED BY <2>3, <2>6, <2>7
<1>3. \A j \in 0 .. k - 1 : j \in A => j + 1 \in A
    BY <1>2
<1>4. k \in 0 .. k
    OBVIOUS
<1> HIDE DEF A
<1>5. k \in A
    BY <1>1, <1>3, <1>4, Induction
<1> QED BY <1>5 DEF A

-----------------------------------------------------------------------------
(***************************************************************************)
(* The states of memory and pool: a valid entry has the number of a page.  *)
(***************************************************************************)
GoodEntries == {e \in Entries : e.v => e.page \in Pages}
Memories == [Pages -> [Index -> GoodEntries]]
Pools    == {f \in Seq(Pages) : Len(f) <= NumPages}
Machines == [mem : Memories, free : Pools, err : BOOLEAN]

(***************************************************************************)
(* K gives each page its kind: 1, 2 or 3 for a directory of that level, 0  *)
(* for a page that is mapped, 4 for one in the pool, 5 for one that is     *)
(* lost.  In a tidy state a valid entry of a directory leads one level     *)
(* down, each page below the roots has exactly one such entry, and there   *)
(* is no valid entry in the pages that become directories or go back.      *)
(***************************************************************************)
Clean(M, p) == \A i \in Index : ~M[p][i].v

CleanPages(K, M) ==
    \A p \in Pages : K[p] = 4 \/ (Deallocates /\ K[p] = 0) => Clean(M, p)

Leads(K, M, d, i) == K[d] \in 1 .. 3 /\ M[d][i].v

Levels(K, M) ==
    \A d \in Pages, i \in Index : Leads(K, M, d, i) => K[M[d][i].page] = K[d] - 1

OneParent(K, M) ==
    \A d, e \in Pages, i, j \in Index :
        Leads(K, M, d, i) /\ Leads(K, M, e, j) /\ M[d][i].page = M[e][j].page
        => d = e /\ i = j

Parented(K, M) ==
    \A p \in Pages : K[p] \in 0 .. 2 =>
        \E d \in Pages, i \in Index : Leads(K, M, d, i) /\ M[d][i].page = p

Distinct(f) == \A i, j \in 1 .. Len(f) : f[i] = f[j] => i = j

PoolIs(K, f) == Distinct(f) /\ \A p \in Pages : K[p] = 4 <=> p \in Range(f)

RootsAre(K, r) ==
    /\ \A t, u \in Tables : r[t] # NoPage /\ r[t] = r[u] => t = u
    /\ \A p \in Pages : K[p] = 3 <=> \E t \in Tables : r[t] = p

LostAre(K, lk) == \A p \in Pages : K[p] = 5 <=> p \in lk

Trees(K, M) == CleanPages(K, M) /\ Levels(K, M) /\ OneParent(K, M) /\ Parented(K, M)

Tidy(K, m, r, lk) ==
    /\ K \in [Pages -> 0 .. 5]
    /\ ~m.err
    /\ Trees(K, m.mem)
    /\ PoolIs(K, m.free)
    /\ RootsAre(K, r)
    /\ LostAre(K, lk)

-----------------------------------------------------------------------------
(* The pool without its first page.                                        *)
LEMMA PoolTail ==
    ASSUME NEW f \in Pools, f # << >>, Distinct(f)
    PROVE  /\ Head(f) \in Pages /\ Head(f) \in Range(f)
           /\ Tail(f) \in Pools /\ Distinct(Tail(f))
           /\ Range(Tail(f)) = Range(f) \ {Head(f)}
<1>1. f \in Seq(Pages) /\ Len(f) \in Nat \ {0} /\ Len(f) <= NumPages
    BY DEF Pools
<1>2. /\ Tail(f) \in Seq(Pages) /\ Len(Tail(f)) = Len(f) - 1
      /\ \A i \in 1 .. Len(f) - 1 : Tail(f)[i] = f[i + 1]
      /\ Head(f) = f[1]
    BY <1>1
<1>3. DOMAIN f = 1 .. Len(f) /\ DOMAIN Tail(f) = 1 .. Len(f) - 1
    BY <1>1, <1>2
<1>4. Head(f) \in Pages /\ Head(f) \in Range(f)
    BY <1>1, <1>2, <1>3 DEF Range
<1>5. Distinct(Tail(f))
    <2> SUFFICES ASSUME NEW i \in 1 .. Len(Tail(f)), NEW j \in 1 .. Len(Tail(f)),
                        Tail(f)[i] = Tail(f)[j]
                 PROVE  i = j
        BY DEF Distinct
    <2>1. i + 1 \in 1 .. Len(f) /\ j + 1 \in 1 .. Len(f)
        BY <1>1, <1>2
    <2>2. f[i + 1] = f[j + 1]
        BY <1>1, <1>2
    <2>3. i + 1 = j + 1
        BY <2>1, <2>2 DEF Distinct
    <2> QED BY <1>1, <1>2, <2>3
<1>6. ASSUME NEW p \in Range(Tail(f)) PROVE p \in Range(f) \ {Head(f)}
    <2>1. PICK i \in 1 .. Len(f) - 1 : p = Tail(f)[i]
        BY <1>3, <1>6 DEF Range
    <2>2. i + 1 \in 1 .. Len(f) /\ p = f[i + 1] /\ 1 \in 1 .. Len(f) /\ i + 1 # 1
        BY <1>1, <1>2, <2>1
    <2>3. f[i + 1] # f[1]
        BY <2>2 DEF Distinct
    <2> QED BY <1>2, <1>3, <2>2, <2>3 DEF Range
<1>7. ASSUME NEW p \in Range(f), p # Head(f) PROVE p \in Range(Tail(f))
    <2>1. PICK i \in 1 .. Len(f) : p = f[i]
        BY <1>3, <1>7 DEF Range
    <2>2. i # 1 /\ i - 1 \in 1 .. Len(f) - 1
        BY <1>1, <1>2, <1>7, <2>1
    <2>3. Tail(f)[i - 1] = p
        <3>1. Tail(f)[i - 1] = f[(i - 1) + 1] /\ (i - 1) + 1 = i
            BY <1>2, <2>1, <2>2
        <3> QED BY <2>1, <3>1
    <2> QED BY <1>3, <2>2, <2>3 DEF Range
<1> QED BY <1>1, <1>2, <1>4, <1>5, <1>6, <1>7 DEF Pools

(* The pool with a page put on top that was not in it: there is room.      *)
LEMMA PoolPush ==
    ASSUME NEW f \in Pools, Distinct(f), NEW p \in Pages, p \notin Range(f)
    PROVE  /\ Len(f) # NumPages
           /\ <<p>> \o f \in Pools /\ Distinct(<<p>> \o f)
           /\ Range(<<p>> \o f) = Range(f) \cup {p}
<1> DEFINE h == <<p>> \o f
<1>1. f \in Seq(Pages) /\ Len(f) \in Nat /\ Len(f) <= NumPages /\ DOMAIN f = 1 .. Len(f)
    BY DEF Pools
<1>2. /\ h \in Seq(Pages) /\ Len(h) = Len(f) + 1 /\ DOMAIN h = 1 .. Len(f) + 1
      /\ h[1] = p
    BY <1>1
<1>3. \A i \in 2 .. Len(f) + 1 : h[i] = f[i - 1] /\ i - 1 \in 1 .. Len(f)
    BY <1>1
<1> HIDE DEF h
<1>4. ASSUME NEW i \in 1 .. Len(f) + 1, NEW j \in 1 .. Len(f) + 1, h[i] = h[j]
      PROVE  i = j
    <2>1. i = 1 \/ i \in 2 .. Len(f) + 1
        BY <1>1
    <2>2. j = 1 \/ j \in 2 .. Len(f) + 1
        BY <1>1
    <2>3. \A k \in 2 .. Len(f) + 1 : h[k] # p
        BY <1>1, <1>3 DEF Range
    <2>4. CASE i \in 2 .. Len(f) + 1 /\ j \in 2 .. Len(f) + 1
        <3>1. i - 1 = j - 1
            BY <1>3, <1>4, <2>4 DEF Distinct
        <3> QED BY <2>4, <3>1
    <2> QED BY <1>2, <1>4, <2>1, <2>2, <2>3, <2>4
<1>5. Distinct(h)
    BY <1>2, <1>4 DEF Distinct
<1>6. Len(f) # NumPages
    <2> SUFFICES ASSUME Len(f) = NumPages PROVE FALSE
        OBVIOUS
    <2>1. h \in [1 .. NumPages + 1 -> Pages]
        BY <1>2
    <2>2. /\ IsFiniteSet(1 .. NumPages + 1) /\ Cardinality(1 .. NumPages + 1) = NumPages + 1
          /\ IsFiniteSet(Pages) /\ Cardinality(Pages) = NumPages
        BY FS_Interval DEF Pages
    <2>3. \E i, j \in 1 .. NumPages + 1 : i # j /\ h[i] = h[j]
        BY <2>1, <2>2, FS_PigeonHole
    <2> QED BY <1>4, <2>3
<1>7. Range(h) = Range(f) \cup {p}
    <2>1. ASSUME NEW q \in Range(h) PROVE q \in Range(f) \cup {p}
        <3>1. PICK i \in 1 .. Len(f) + 1 : q = h[i]
            BY <1>2, <2>1 DEF Range
        <3>2. i = 1 \/ i \in 2 .. Len(f) + 1
            BY <1>1
        <3> QED BY <1>1, <1>2, <1>3, <3>1, <3>2 DEF Range
    <2>2. ASSUME NEW q \in Range(f) PROVE q \in Range(h)
        <3>1. PICK i \in 1 .. Len(f) : q = f[i]
            BY <1>1, <2>2 DEF Range
        <3>2. i + 1 \in 2 .. Len(f) + 1 /\ (i + 1) - 1 = i
            BY <1>1
        <3>3. h[i + 1] = q
            BY <1>3, <3>1, <3>2
        <3> QED BY <1>1, <1>2, <3>2, <3>3 DEF Range
    <2>3. p \in Range(h)
        BY <1>1, <1>2 DEF Range
    <2> QED BY <2>1, <2>2, <2>3
<1>8. h \in Pools
    <2>1. Len(h) <= NumPages
        <3>1. Len(f) \in Nat /\ Len(f) <= NumPages
            BY <1>1
        <3>2. Len(h) = Len(f) + 1
            BY <1>2
        <3> QED BY <1>6, <3>1, <3>2
    <2> QED BY <1>2, <2>1 DEF Pools
<1> QED BY <1>5, <1>6, <1>7, <1>8 DEF h

-----------------------------------------------------------------------------
(***************************************************************************)
(* What the calls do to the trees.  First: entry i of a directory d gets   *)
(* the page p, which was in the pool.                                      *)
(***************************************************************************)
LEMMA FillTrees ==
    ASSUME NEW K \in [Pages -> 0 .. 5], NEW M \in Memories, NEW N \in Memories,
           NEW d \in Pages, NEW i \in Index, NEW p \in Pages, NEW flags,
           Trees(K, M), K[d] \in 1 .. 3, ~M[d][i].v, K[p] = 4,
           N = [M EXCEPT ![d][i] = Entry(p, flags)]
    PROVE  Trees([K EXCEPT ![p] = K[d] - 1], N)
<1> DEFINE J == [K EXCEPT ![p] = K[d] - 1]
<1>1. /\ J \in [Pages -> 0 .. 5] /\ J[p] = K[d] - 1 /\ p # d
      /\ \A q \in Pages : q # p => J[q] = K[q]
    OBVIOUS
<1>2. /\ N[d][i].v /\ N[d][i].page = p
      /\ \A e \in Pages, j \in Index : e # d \/ j # i => N[e][j] = M[e][j]
    BY DEF Entry, Memories
<1>3. Clean(N, p)
    BY <1>1, <1>2 DEF Trees, CleanPages, Clean
<1> HIDE DEF J
<1>4. \A e \in Pages, j \in Index :
        Leads(J, N, e, j) <=> Leads(K, M, e, j) \/ (e = d /\ j = i)
    BY <1>1, <1>2, <1>3 DEF Leads, Clean, Trees, CleanPages
<1>5. ASSUME NEW e \in Pages, NEW j \in Index, Leads(K, M, e, j)
      PROVE  /\ N[e][j] = M[e][j] /\ N[e][j].page # p /\ N[e][j].page \in Pages
             /\ K[N[e][j].page] = K[e] - 1 /\ e # p
    <2>1. N[e][j] = M[e][j] /\ M[e][j].v
        BY <1>2, <1>5 DEF Leads
    <2>2. M[e][j].page \in Pages
        BY <2>1 DEF Memories, GoodEntries
    <2> QED BY <1>5, <2>1, <2>2 DEF Trees, Levels, Leads
<1>6. CleanPages(J, N)
    BY <1>1, <1>2, <1>3 DEF Trees, CleanPages, Clean
<1>7. Levels(J, N)
    <2> SUFFICES ASSUME NEW e \in Pages, NEW j \in Index, Leads(J, N, e, j)
                 PROVE  J[N[e][j].page] = J[e] - 1
        BY DEF Levels
    <2>1. CASE e = d /\ j = i
        BY <1>1, <1>2, <2>1
    <2>2. CASE Leads(K, M, e, j)
        <3>1. K[N[e][j].page] = K[e] - 1
            BY <1>5, <2>2
        <3>2. J[N[e][j].page] = K[N[e][j].page] /\ J[e] = K[e]
            BY <1>1, <1>5, <2>2
        <3> QED BY <3>1, <3>2
    <2> QED BY <1>4, <2>1, <2>2
<1>8. OneParent(J, N)
    <2> SUFFICES ASSUME NEW e \in Pages, NEW j \in Index, Leads(J, N, e, j),
                        NEW c \in Pages, NEW k \in Index, Leads(J, N, c, k),
                        N[e][j].page = N[c][k].page
                 PROVE  e = c /\ j = k
        BY DEF OneParent
    <2>1. CASE Leads(K, M, e, j) /\ Leads(K, M, c, k)
        <3>1. M[e][j].page = M[c][k].page
            BY <1>5, <2>1
        <3> QED BY <2>1, <3>1 DEF Trees, OneParent
    <2>2. CASE e = d /\ j = i
        <3>1. ~Leads(K, M, c, k)
            BY <1>2, <1>5, <2>2
        <3> QED BY <1>4, <2>2, <3>1
    <2>3. CASE c = d /\ k = i
        <3>1. ~Leads(K, M, e, j)
            BY <1>2, <1>5, <2>3
        <3> QED BY <1>4, <2>3, <3>1
    <2> QED BY <1>4, <2>1, <2>2, <2>3
<1>9. Parented(J, N)
    <2> SUFFICES ASSUME NEW q \in Pages, J[q] \in 0 .. 2
                 PROVE  \E e \in Pages, j \in Index : Leads(J, N, e, j) /\ N[e][j].page = q
        BY DEF Parented
    <2>1. CASE q = p
        BY <1>2, <1>4, <2>1
    <2>2. CASE q # p
        <3>1. K[q] \in 0 .. 2
            BY <1>1, <2>2
        <3>2. PICK e \in Pages, j \in Index : Leads(K, M, e, j) /\ M[e][j].page = q
            BY <3>1 DEF Trees, Parented
        <3> QED BY <1>4, <1>5, <3>2
    <2> QED BY <2>1, <2>2
<1> QED BY <1>6, <1>7, <1>8, <1>9 DEF Trees, J

(* Its inverse: an entry whose page has nothing valid in it is cleared,    *)
(* and the page goes to the pool.                                          *)
LEMMA DropTrees ==
    ASSUME NEW K \in [Pages -> 0 .. 5], NEW M \in Memories, NEW N \in Memories,
           NEW d \in Pages, NEW i \in Index, NEW p \in Pages,
           Trees(K, M), K[d] \in 1 .. 3, M[d][i].v, M[d][i].page = p, Clean(M, p),
           N = [M EXCEPT ![d][i] = ZeroEntry]
    PROVE  Trees([K EXCEPT ![p] = 4], N)
<1> DEFINE J == [K EXCEPT ![p] = 4]
<1>1. Leads(K, M, d, i) /\ K[p] = K[d] - 1 /\ p # d
    BY DEF Leads, Trees, Levels
<1>2. /\ J \in [Pages -> 0 .. 5] /\ J[p] = 4
      /\ \A q \in Pages : q # p => J[q] = K[q]
    OBVIOUS
<1>3. /\ ~N[d][i].v
      /\ \A e \in Pages, j \in Index : e # d \/ j # i => N[e][j] = M[e][j]
    BY DEF ZeroEntry, Memories
<1>4. Clean(N, p)
    BY <1>1, <1>3 DEF Clean
<1> HIDE DEF J
<1>5. \A e \in Pages, j \in Index :
        Leads(J, N, e, j) <=> Leads(K, M, e, j) /\ ~(e = d /\ j = i)
    <2> SUFFICES ASSUME NEW e \in Pages, NEW j \in Index
                 PROVE  Leads(J, N, e, j) <=> Leads(K, M, e, j) /\ ~(e = d /\ j = i)
        OBVIOUS
    <2>1. CASE e = d /\ j = i
        BY <1>3, <2>1 DEF Leads
    <2>2. CASE e = p
        BY <1>2, <1>4, <2>2 DEF Leads, Clean
    <2>3. CASE e # p /\ ~(e = d /\ j = i)
        BY <1>2, <1>3, <2>3 DEF Leads
    <2> QED BY <2>1, <2>2, <2>3
<1>6. ASSUME NEW e \in Pages, NEW j \in Index, Leads(J, N, e, j)
      PROVE  /\ N[e][j] = M[e][j] /\ Leads(K, M, e, j) /\ N[e][j].page # p
             /\ N[e][j].page \in Pages /\ e # p /\ ~(e = d /\ j = i)
    <2>1. Leads(K, M, e, j) /\ ~(e = d /\ j = i)
        BY <1>5, <1>6
    <2>2. N[e][j] = M[e][j] /\ M[e][j].v
        BY <1>3, <2>1 DEF Leads
    <2>3. M[e][j].page \in Pages
        BY <2>2 DEF Memories, GoodEntries
    <2>4. M[e][j].page # p
        BY <1>1, <2>1 DEF Trees, OneParent
    <2>5. e # p
        BY <1>6, <1>2 DEF Leads
    <2> QED BY <2>1, <2>2, <2>3, <2>4, <2>5
<1>kept. \A e \in Pages, j \in Index : Leads(J, N, e, j) =>
            Leads(K, M, e, j) /\ N[e][j].page = M[e][j].page
    BY <1>6
<1>7. CleanPages(J, N)
    <2> SUFFICES ASSUME NEW q \in Pages, J[q] = 4 \/ (Deallocates /\ J[q] = 0)
                 PROVE  Clean(N, q)
        BY DEF CleanPages
    <2>1. CASE q = p
        BY <1>4, <2>1
    <2>2. CASE q # p
        <3>1. Clean(M, q)
            BY <1>2, <2>2 DEF Trees, CleanPages
        <3> QED BY <1>3, <3>1 DEF Clean
    <2> QED BY <2>1, <2>2
<1>8. Levels(J, N)
    <2> SUFFICES ASSUME NEW e \in Pages, NEW j \in Index, Leads(J, N, e, j)
                 PROVE  J[N[e][j].page] = J[e] - 1
        BY DEF Levels
    <2>1. Leads(K, M, e, j) /\ N[e][j] = M[e][j]
        BY <1>6, Zenon
    <2>3. K[N[e][j].page] = K[e] - 1
        BY <2>1 DEF Trees, Levels
    <2>2. N[e][j].page \in Pages /\ N[e][j].page # p /\ e # p
        BY <1>6
    <2>4. J[N[e][j].page] = K[N[e][j].page] /\ J[e] = K[e]
        BY <1>2, <2>2
    <2> QED BY <2>3, <2>4
<1>9. OneParent(J, N)
    <2> SUFFICES ASSUME NEW e \in Pages, NEW j \in Index, Leads(J, N, e, j),
                        NEW c \in Pages, NEW k \in Index, Leads(J, N, c, k),
                        N[e][j].page = N[c][k].page
                 PROVE  e = c /\ j = k
        BY DEF OneParent
    <2>1. OneParent(K, M)
        BY DEF Trees
    <2>2. Leads(K, M, e, j) /\ N[e][j].page = M[e][j].page
        BY <1>kept
    <2>3. Leads(K, M, c, k) /\ N[c][k].page = M[c][k].page
        BY <1>kept
    <2>4. M[e][j].page = M[c][k].page
        BY <2>2, <2>3
    <2> QED BY <2>1, <2>2, <2>3, <2>4 DEF OneParent
<1>10. Parented(J, N)
    <2> SUFFICES ASSUME NEW q \in Pages, J[q] \in 0 .. 2
                 PROVE  \E e \in Pages, j \in Index : Leads(J, N, e, j) /\ N[e][j].page = q
        BY DEF Parented
    <2>1. q # p /\ K[q] \in 0 .. 2
        BY <1>2
    <2>2. PICK e \in Pages, j \in Index : Leads(K, M, e, j) /\ M[e][j].page = q
        BY <2>1 DEF Trees, Parented
    <2>3. ~(e = d /\ j = i)
        BY <2>1, <2>2
    <2> QED BY <1>3, <1>5, <2>2, <2>3
<1> QED BY <1>7, <1>8, <1>9, <1>10 DEF Trees, J

(* A page without valid entries, or one that is mapped, changes its        *)
(* content or its kind: a root comes or goes, a page is lost, data is      *)
(* stored.                                                                 *)
LEMMA MoveTrees ==
    ASSUME NEW K \in [Pages -> 0 .. 5], NEW M \in Memories, NEW N \in Memories,
           NEW p \in Pages, NEW c \in 0 .. 5, Trees(K, M),
           K[p] \in 0 .. 2 \/ c \in 0 .. 2 => c = 0 /\ K[p] = 0,
           \A j \in Index : ~Leads(K, M, p, j),
           (c = 0 /\ ~Deallocates) \/ Clean(N, p),
           \A e \in Pages : e # p => N[e] = M[e]
    PROVE  Trees([K EXCEPT ![p] = c], N)
<1> DEFINE J == [K EXCEPT ![p] = c]
<1>1. /\ J \in [Pages -> 0 .. 5] /\ J[p] = c
      /\ \A q \in Pages : q # p => J[q] = K[q]
    OBVIOUS
<1> HIDE DEF J
<1>2. \A e \in Pages, j \in Index : Leads(J, N, e, j) <=> Leads(K, M, e, j)
    <2> SUFFICES ASSUME NEW e \in Pages, NEW j \in Index
                 PROVE  Leads(J, N, e, j) <=> Leads(K, M, e, j)
        OBVIOUS
    <2>1. CASE e = p
        <3>1. ~Leads(J, N, p, j)
            BY <1>1 DEF Leads, Clean
        <3> QED BY <2>1, <3>1
    <2>2. CASE e # p
        BY <1>1, <2>2 DEF Leads
    <2> QED BY <2>1, <2>2
<1>3. ASSUME NEW e \in Pages, NEW j \in Index, Leads(K, M, e, j)
      PROVE  /\ N[e][j] = M[e][j] /\ J[e] = K[e] /\ N[e][j].page \in Pages
             /\ J[N[e][j].page] = K[e] - 1 /\ K[N[e][j].page] = K[e] - 1
    <2>1. e # p
        BY <1>3
    <2>2. N[e][j] = M[e][j] /\ M[e][j].v /\ J[e] = K[e] /\ K[e] \in 1 .. 3
        BY <1>1, <1>3, <2>1 DEF Leads
    <2>3. M[e][j].page \in Pages
        BY <2>2 DEF Memories, GoodEntries
    <2>4. K[M[e][j].page] = K[e] - 1
        BY <1>3, <2>2 DEF Trees, Levels
    <2>5. J[M[e][j].page] = K[M[e][j].page]
        <3>1. CASE M[e][j].page = p
            BY <1>1, <2>2, <2>4, <3>1
        <3> QED BY <1>1, <2>3, <3>1
    <2> QED BY <2>2, <2>3, <2>4, <2>5
<1>4. CleanPages(J, N)
    <2> SUFFICES ASSUME NEW q \in Pages, J[q] = 4 \/ (Deallocates /\ J[q] = 0)
                 PROVE  Clean(N, q)
        BY DEF CleanPages
    <2>1. CASE q = p
        BY <1>1, <2>1
    <2>2. CASE q # p
        <3>1. Clean(M, q)
            BY <1>1, <2>2 DEF Trees, CleanPages
        <3> QED BY <2>2, <3>1 DEF Clean
    <2> QED BY <2>1, <2>2
<1>5. Levels(J, N)
    BY <1>2, <1>3 DEF Levels
<1>6. OneParent(J, N)
    <2> SUFFICES ASSUME NEW e \in Pages, NEW j \in Index, Leads(J, N, e, j),
                        NEW d \in Pages, NEW k \in Index, Leads(J, N, d, k),
                        N[e][j].page = N[d][k].page
                 PROVE  e = d /\ j = k
        BY DEF OneParent
    <2>1. /\ Leads(K, M, e, j) /\ Leads(K, M, d, k)
          /\ M[e][j].page = M[d][k].page
        BY <1>2, <1>3
    <2> QED BY <2>1 DEF Trees, OneParent
<1>7. Parented(J, N)
    <2> SUFFICES ASSUME NEW q \in Pages, J[q] \in 0 .. 2
                 PROVE  \E e \in Pages, j \in Index : Leads(J, N, e, j) /\ N[e][j].page = q
        BY DEF Parented
    <2>1. K[q] \in 0 .. 2
        BY <1>1
    <2>2. PICK e \in Pages, j \in Index : Leads(K, M, e, j) /\ M[e][j].page = q
        BY <2>1 DEF Trees, Parented
    <2> QED BY <1>2, <1>3, <2>2
<1> QED BY <1>4, <1>5, <1>6, <1>7 DEF Trees, J

-----------------------------------------------------------------------------
(***************************************************************************)
(* The statements of mapVirtualPage.                                       *)
(***************************************************************************)
Flags == SUBSET {"R", "W", "X"}

(* Whatever state it is in, an entry that is filled stays well formed.     *)
LEMMA FilledTyped ==
    ASSUME NEW m \in Machines, NEW d \in Pages, NEW i \in Index, NEW flags \in Flags
    PROVE  /\ Filled(m, d, i, flags) \in Machines
           /\ ~Filled(m, d, i, flags).err =>
                Filled(m, d, i, flags).mem[d][i].v
<1> DEFINE p == Head(m.free)
           N == [m.mem EXCEPT ![d][i] = Entry(p, flags)]
<1>1. m.mem \in Memories /\ m.free \in Pools /\ m.err \in BOOLEAN
    BY DEF Machines
<1>2. CASE m.err \/ m.mem[d][i].v
    BY <1>2 DEF Filled
<1>3. CASE ~m.err /\ ~m.mem[d][i].v /\ m.free = << >>
    <2>1. Filled(m, d, i, flags) = [m EXCEPT !.err = TRUE]
        BY <1>3 DEF Filled, Error
    <2> QED BY <2>1 DEF Machines
<1>4. CASE ~m.err /\ ~m.mem[d][i].v /\ m.free # << >>
    <2>1. Filled(m, d, i, flags) = [mem |-> N, free |-> Tail(m.free), err |-> m.err]
        BY <1>4 DEF Filled, Taken, Machines
    <2>2. Tail(m.free) \in Pools /\ p \in Pages
        BY <1>1, <1>4 DEF Pools
    <2>3. Entry(p, flags) \in GoodEntries
        BY <2>2 DEF Entry, GoodEntries, Entries, Flags
    <2> HIDE DEF p
    <2>4. N \in Memories /\ N[d][i] = Entry(p, flags)
        BY <1>1, <2>3 DEF Memories
    <2>5. N[d][i].v
        BY <2>4 DEF Entry
    <2> HIDE DEF N
    <2> QED BY <1>1, <2>1, <2>2, <2>4, <2>5 DEF Machines
<1> QED BY <1>1, <1>2, <1>3, <1>4

(* In a tidy state it is there already, or gets a page of the pool, or the *)
(* kernel stops.                                                           *)
Fills(K, m, n, r, lk, d, i, flags) ==
    \/ n.err /\ n.mem = m.mem
    \/ n = m /\ m.mem[d][i].v
    \/ /\ ~n.err /\ ~m.mem[d][i].v /\ Range(n.free) \subseteq Range(m.free)
       /\ \E p \in Pages :
             /\ K[p] = 4
             /\ n.mem = [m.mem EXCEPT ![d][i] = Entry(p, flags)]
             /\ Tidy([K EXCEPT ![p] = K[d] - 1], n, r, lk)

LEMMA FilledTidy ==
    ASSUME NEW K, NEW m \in Machines, NEW r, NEW lk, Tidy(K, m, r, lk),
           NEW d \in Pages, NEW i \in Index, NEW flags \in Flags, K[d] \in 1 .. 3
    PROVE  Fills(K, m, Filled(m, d, i, flags), r, lk, d, i, flags)
<1> USE DEF Fills
<1> DEFINE p == Head(m.free)
           N == [m.mem EXCEPT ![d][i] = Entry(p, flags)]
           J == [K EXCEPT ![p] = K[d] - 1]
           n == Filled(m, d, i, flags)
<1>1. /\ m.mem \in Memories /\ m.free \in Pools /\ m.err = FALSE
      /\ K \in [Pages -> 0 .. 5]
    BY DEF Machines, Tidy
<1>2. CASE m.mem[d][i].v
    BY <1>2 DEF Filled
<1>3. CASE ~m.mem[d][i].v /\ m.free = << >>
    <2>1. n = [m EXCEPT !.err = TRUE]
        BY <1>1, <1>3 DEF Filled, Error
    <2> QED BY <1>3, <2>1 DEF Machines
<1>4. CASE ~m.mem[d][i].v /\ m.free # << >>
    <2>1. n = [mem |-> N, free |-> Tail(m.free), err |-> FALSE]
        BY <1>1, <1>4 DEF Filled, Taken, Machines
    <2>2. Distinct(m.free)
        BY DEF Tidy, PoolIs
    <2>3. /\ p \in Pages /\ p \in Range(m.free) /\ Distinct(Tail(m.free))
          /\ Range(Tail(m.free)) = Range(m.free) \ {p}
        BY <1>1, <1>4, <2>2, PoolTail
    <2>4. K[p] = 4
        BY <2>3 DEF Tidy, PoolIs
    <2> HIDE DEF p
    <2>5. n \in Machines
        BY FilledTyped DEF n
    <2>6. N \in Memories
        <3> HIDE DEF N
        <3> QED BY <2>1, <2>5 DEF Machines
    <2>7. Trees(J, N)
        <3>1. Trees(K, m.mem)
            BY DEF Tidy
        <3> QED BY <1>1, <1>4, <2>3, <2>4, <2>6, <3>1, FillTrees
    <2>8. /\ J \in [Pages -> 0 .. 5] /\ J[p] \in 0 .. 2
          /\ \A q \in Pages : q # p => J[q] = K[q]
        BY <1>1, <2>3
    <2> HIDE DEF J, N
    <2>9. PoolIs(J, Tail(m.free))
        BY <2>3, <2>8 DEF Tidy, PoolIs
    <2>10. RootsAre(J, r) /\ LostAre(J, lk)
        BY <2>4, <2>8 DEF Tidy, RootsAre, LostAre
    <2>11. n.mem = N /\ n.free = Tail(m.free) /\ n.err = FALSE
        BY <2>1
    <2> HIDE DEF n
    <2>12. Range(n.free) \subseteq Range(m.free)
        BY <2>3, <2>11
    <2>13. Tidy(J, n, r, lk)
        BY <2>7, <2>8, <2>9, <2>10, <2>11 DEF Tidy
    <2> QED BY <1>4, <2>3, <2>4, <2>11, <2>13 DEF n, N, J
<1> QED BY <1>2, <1>3, <1>4

(* mapVirtualPage: every entry of the way down is filled, at its level.    *)
LEMMA MappedTyped ==
    ASSUME NEW m \in Machines, NEW t \in Tables, root[t] \in Pages,
           NEW v \in VirtualPages, NEW flags \in Flags
    PROVE  Mapped(m, t, v, flags) \in Machines
<1> DEFINE m2 == Filled(m, root[t], v[1], {"R"})
           l1 == m2.mem[root[t]][v[1]].page
           m1 == Filled(m2, l1, v[2], {"R"})
           l0 == m1.mem[l1][v[2]].page
<1>1. v[1] \in Index /\ v[2] \in Index /\ v[3] \in Index /\ {"R"} \in Flags
    BY DEF VirtualPages, Flags
<1>2. m2 \in Machines /\ (~m2.err => m2.mem[root[t]][v[1]].v)
    BY <1>1, FilledTyped
<1> HIDE DEF m2
<1>3. ~m2.err => l1 \in Pages
    BY <1>1, <1>2 DEF Machines, Memories, GoodEntries
<1> HIDE DEF l1
<1>4. ~m2.err => m1 \in Machines /\ (~m1.err => m1.mem[l1][v[2]].v)
    BY <1>1, <1>2, <1>3, FilledTyped
<1> HIDE DEF m1
<1>5. ~m2.err /\ ~m1.err => l0 \in Pages
    BY <1>1, <1>3, <1>4 DEF Machines, Memories, GoodEntries
<1> HIDE DEF l0
<1>6. ~m2.err /\ ~m1.err => Filled(m1, l0, v[3], flags) \in Machines
    BY <1>1, <1>4, <1>5, FilledTyped
<1>7. Mapped(m, t, v, flags) = IF m2.err THEN m2 ELSE IF m1.err THEN m1
                               ELSE Filled(m1, l0, v[3], flags)
    BY DEF Mapped, m2, l1, m1, l0
<1> QED BY <1>2, <1>4, <1>6, <1>7

-----------------------------------------------------------------------------
(***************************************************************************)
(* deallocatePageTable.  O gives the table that a page below its root      *)
(* belongs to, and Left the states that the loops over the entries of a    *)
(* directory d of level k go through from m: the directories of its level  *)
(* and above stay, all but d as they were, and so does what other tables   *)
(* have.  At the end of the loop d has no valid entry.                     *)
(***************************************************************************)
Heirs(O, K, M) ==
    \A d \in Pages, i \in Index : Leads(K, M, d, i) => O[M[d][i].page] = O[d]

Stays(k, K, J, O, m, l, d) ==
    \A e \in Pages :
        /\ K[e] \in k .. 3 => J[e] = K[e] /\ (e # d => l.mem[e] = m.mem[e])
        /\ O[e] # O[d] => l.mem[e] = m.mem[e]

Left(k, K, O, m, d, r, lk) ==
    {l \in Machines : \E J : /\ Tidy(J, l, r, lk) /\ Heirs(O, J, l.mem)
                             /\ Stays(k, K, J, O, m, l, d)}

Emptied(k, K, O, m, d, r, lk, l) == l \in Left(k, K, O, m, d, r, lk) /\ Clean(l.mem, d)

Dropped(k, m, d) ==
    IF k = 0 THEN m ELSE IF k = 1 THEN DropL0(m, d) ELSE IF k = 2 THEN DropL1(m, d)
    ELSE DropL2(m, d)

Round(k, l, d, n) == DropEntry(l, d, n, Dropped(k - 1, l, l.mem[d][n].page))

Empties(k, r, lk) ==
    \A K, O : \A m \in Machines, d \in Pages :
        Tidy(K, m, r, lk) /\ Heirs(O, K, m.mem) /\ K[d] = k
        => Emptied(k, K, O, m, d, r, lk, Dropped(k, m, d))

Cleared(l, x, d, n) ==
    ~x.mem[d][n].v /\ \A j \in Index : j # n => x.mem[d][j] = l.mem[d][j]

(* A page goes back to a pool that has room for it.                        *)
LEMMA DropEntryIs ==
    ASSUME NEW l, NEW d, NEW n, NEW b \in Machines, ~l.err, l.mem[d][n].v, ~b.err,
           Len(b.free) # NumPages
    PROVE  DropEntry(l, d, n, b)
           = [mem |-> [b.mem EXCEPT ![d][n] = ZeroEntry],
              free |-> <<b.mem[d][n].page>> \o b.free, err |-> b.err]
<1> DEFINE p == b.mem[d][n].page
           q == <<p>> \o b.free
           f == [mem |-> b.mem, free |-> q, err |-> b.err]
<1>1. Freed(b, p) = f
    BY DEF Freed, Machines
<1>2. DropEntry(l, d, n, b) = [f EXCEPT !.mem[d][n] = ZeroEntry]
    <2>1. DropEntry(l, d, n, b) = IF Freed(b, p).err THEN Freed(b, p)
                                  ELSE [Freed(b, p) EXCEPT !.mem[d][n] = ZeroEntry]
        BY DEF DropEntry
    <2>2. ~f.err
        OBVIOUS
    <2> HIDE DEF f, p
    <2> QED BY <1>1, <2>1, <2>2
<1> HIDE DEF q
<1>3. [f EXCEPT !.mem[d][n] = ZeroEntry]
      = [mem |-> [b.mem EXCEPT ![d][n] = ZeroEntry], free |-> q, err |-> b.err]
    OBVIOUS
<1> QED BY <1>2, <1>3 DEF q

(* One round: entry n is gone, the others are as they were.                *)
LEMMA RoundDrops ==
    ASSUME NEW k \in 1 .. 3, NEW K, NEW O, NEW m \in Machines, NEW d \in Pages,
           NEW r, NEW lk, K[d] = k, Empties(k - 1, r, lk),
           NEW l \in Left(k, K, O, m, d, r, lk), NEW n \in Index
    PROVE  /\ Round(k, l, d, n) \in Left(k, K, O, m, d, r, lk)
           /\ Cleared(l, Round(k, l, d, n), d, n)
<1>1. PICK J : Tidy(J, l, r, lk) /\ Heirs(O, J, l.mem) /\ Stays(k, K, J, O, m, l, d)
    BY DEF Left
<1>2. l \in Machines /\ l.mem \in Memories /\ ~l.err /\ J[d] = k
    BY <1>1 DEF Left, Machines, Tidy, Stays
<1>3. CASE ~l.mem[d][n].v
    BY <1>3 DEF Round, DropEntry, Cleared
<1>4. CASE l.mem[d][n].v
    <2> DEFINE p == l.mem[d][n].page
               b == Dropped(k - 1, l, p)
               N == [b.mem EXCEPT ![d][n] = ZeroEntry]
               x == [mem |-> N, free |-> <<p>> \o b.free, err |-> b.err]
    <2>1. p \in Pages /\ Leads(J, l.mem, d, n) /\ J[p] = k - 1 /\ O[p] = O[d] /\ p # d
        <3>1. p \in Pages /\ Leads(J, l.mem, d, n)
            BY <1>2, <1>4 DEF Memories, GoodEntries, Leads
        <3>2. J[p] = J[d] - 1
            BY <1>1, <3>1 DEF Tidy, Trees, Levels
        <3>3. O[p] = O[d]
            BY <1>1, <3>1 DEF Heirs
        <3> QED BY <1>2, <3>1, <3>2, <3>3
    <2> HIDE DEF p
    <2>2. b \in Left(k - 1, J, O, l, p, r, lk) /\ Clean(b.mem, p)
        BY <1>1, <1>2, <2>1 DEF Empties, Emptied
    <2> HIDE DEF b
    <2>3. PICK H : Tidy(H, b, r, lk) /\ Heirs(O, H, b.mem) /\ Stays(k - 1, J, H, O, l, b, p)
        BY <2>2 DEF Left
    <2>4. b \in Machines /\ b.mem \in Memories /\ b.free \in Pools /\ b.err \in BOOLEAN /\ ~b.err
        BY <2>2, <2>3 DEF Left, Machines, Tidy
    <2>5. H[d] = k /\ H[p] = k - 1 /\ b.mem[d] = l.mem[d]
        BY <1>2, <2>1, <2>3 DEF Stays
    <2>6. b.mem[d][n].v /\ b.mem[d][n].page = p
        BY <1>4, <2>5 DEF p
    <2>7. H \in [Pages -> 0 .. 5] /\ Distinct(b.free) /\ p \notin Range(b.free)
        BY <2>1, <2>3, <2>5 DEF Tidy, PoolIs
    <2>8. /\ Len(b.free) # NumPages /\ <<p>> \o b.free \in Pools
          /\ Distinct(<<p>> \o b.free) /\ Range(<<p>> \o b.free) = Range(b.free) \cup {p}
        BY <2>1, <2>4, <2>7, PoolPush
    <2>9. Round(k, l, d, n) = x
        <3>1. Round(k, l, d, n) = DropEntry(l, d, n, b)
            BY DEF Round, b, p
        <3>2. DropEntry(l, d, n, b)
              = [mem |-> [b.mem EXCEPT ![d][n] = ZeroEntry],
                 free |-> <<b.mem[d][n].page>> \o b.free, err |-> b.err]
            <4>1. ~l.err /\ l.mem[d][n].v /\ b \in Machines /\ ~b.err
                BY <1>2, <1>4, <2>4
            <4>2. Len(b.free) # NumPages
                BY <2>8
            <4> QED BY <4>1, <4>2, DropEntryIs
        <3> QED BY <2>6, <3>1, <3>2
    <2>10. /\ N \in Memories /\ ~N[d][n].v
           /\ \A e \in Pages, j \in Index : e # d \/ j # n => N[e][j] = b.mem[e][j]
           /\ \A e \in Pages : e # d => N[e] = b.mem[e]
        <3>1. ZeroEntry \in GoodEntries /\ ~ZeroEntry.v
            BY DEF ZeroEntry, GoodEntries, Entries
        <3> HIDE DEF ZeroEntry
        <3> QED BY <2>4, <3>1 DEF Memories
    <2> DEFINE G == [H EXCEPT ![p] = 4]
    <2>11. Trees(G, N)
        <3>1. Trees(H, b.mem) /\ H[d] \in 1 .. 3
            BY <2>3, <2>5 DEF Tidy
        <3> QED BY <2>1, <2>2, <2>4, <2>6, <2>7, <2>10, <3>1, DropTrees
    <2>12. G \in [Pages -> 0 .. 5] /\ G[p] = 4 /\ \A q \in Pages : q # p => G[q] = H[q]
        BY <2>1, <2>7
    <2> HIDE DEF G, N
    <2>13. Tidy(G, x, r, lk)
        <3>1. PoolIs(G, <<p>> \o b.free)
            BY <2>1, <2>3, <2>8, <2>12 DEF Tidy, PoolIs
        <3>2. RootsAre(G, r) /\ LostAre(G, lk)
            BY <2>3, <2>5, <2>12 DEF Tidy, RootsAre, LostAre
        <3> QED BY <2>4, <2>11, <2>12, <3>1, <3>2 DEF Tidy
    <2>14. Heirs(O, G, N)
        <3> SUFFICES ASSUME NEW e \in Pages, NEW j \in Index, Leads(G, N, e, j)
                     PROVE  O[N[e][j].page] = O[e]
            BY DEF Heirs
        <3>1. e # p /\ ~(e = d /\ j = n)
            BY <2>10, <2>12 DEF Leads
        <3>2. N[e][j] = b.mem[e][j] /\ G[e] = H[e]
            BY <2>10, <2>12, <3>1
        <3>3. Leads(H, b.mem, e, j)
            BY <3>2 DEF Leads
        <3> QED BY <2>3, <3>2, <3>3 DEF Heirs
    <2>15. Stays(k, K, G, O, m, x, d)
        <3> SUFFICES ASSUME NEW e \in Pages
                     PROVE  /\ K[e] \in k .. 3 => G[e] = K[e] /\ (e # d => N[e] = m.mem[e])
                            /\ O[e] # O[d] => N[e] = m.mem[e]
            BY DEF Stays
        <3>1. ASSUME K[e] \in k .. 3 PROVE G[e] = K[e] /\ (e # d => N[e] = m.mem[e])
            <4>1. J[e] = K[e] /\ e # p /\ (e # d => l.mem[e] = m.mem[e])
                BY <1>1, <2>1, <3>1 DEF Stays
            <4>2. J[e] \in k - 1 .. 3
                BY <3>1, <4>1
            <4>3. H[e] = J[e] /\ b.mem[e] = l.mem[e]
                BY <2>3, <4>1, <4>2 DEF Stays
            <4> QED BY <2>10, <2>12, <4>1, <4>3
        <3>2. ASSUME O[e] # O[d] PROVE N[e] = m.mem[e]
            <4>1. l.mem[e] = m.mem[e] /\ b.mem[e] = l.mem[e] /\ e # d
                BY <1>1, <2>1, <2>3, <3>2 DEF Stays
            <4> QED BY <2>10, <4>1
        <3> QED BY <3>1, <3>2
    <2>16. x \in Machines
        BY <2>4, <2>8, <2>10 DEF Machines
    <2>17. x \in Left(k, K, O, m, d, r, lk)
        BY <2>13, <2>14, <2>15, <2>16 DEF Left
    <2>18. \A j \in Index : j # n => x.mem[d][j] = l.mem[d][j]
        BY <2>5, <2>10
    <2> HIDE DEF x
    <2>19. ~x.mem[d][n].v
        BY <2>10 DEF x
    <2> QED BY <2>9, <2>17, <2>18, <2>19 DEF Cleared
<1> QED BY <1>3, <1>4

(* The loop of level k, as the recursion that defines it, and that there   *)
(* is a function that solves it if the states it goes through are known.   *)
Loop(k, m, d, h) ==
    h = [n \in 0 .. NUM_PTE |-> IF n = 0 THEN m ELSE Round(k, h[n - 1], d, n - 1)]

LEMMA DropIsLoop ==
    ASSUME NEW k \in 1 .. 3, NEW m, NEW d, NEW g, Loop(k, m, d, g)
    PROVE  \E h : Loop(k, m, d, h) /\ Dropped(k, m, d) = h[NUM_PTE]
<1> DEFINE L(h) == Loop(k, m, d, h)
<1>1. L(CHOOSE h : L(h))
    <2>1. L(g)
        OBVIOUS
    <2> HIDE DEF L
    <2> QED BY <2>1
<1>2. Dropped(k, m, d) = (CHOOSE h : L(h))[NUM_PTE]
    <2>1. CASE k = 1
        <3>1. DropL0(m, d) = (CHOOSE h : L(h))[NUM_PTE]
            BY <2>1 DEF DropL0, Loop, Round, Dropped
        <3> QED BY <2>1, <3>1 DEF Dropped
    <2>2. CASE k = 2
        <3>1. DropL1(m, d) = (CHOOSE h : L(h))[NUM_PTE]
            BY <2>2 DEF DropL1, Loop, Round, Dropped
        <3> QED BY <2>2, <3>1 DEF Dropped
    <2>3. CASE k = 3
        <3>1. DropL2(m, d) = (CHOOSE h : L(h))[NUM_PTE]
            BY <2>3 DEF DropL2, Loop, Round, Dropped
        <3> QED BY <2>3, <3>1 DEF Dropped
    <2> QED BY <2>1, <2>2, <2>3
<1> QED BY <1>1, <1>2

(* A whole loop, given what the loops inside it do.                        *)
LEMMA LoopEmpties ==
    ASSUME NEW k \in 1 .. 3, NEW r, NEW lk, Empties(k - 1, r, lk)
    PROVE  Empties(k, r, lk)
<1> SUFFICES ASSUME NEW K, NEW O, NEW m \in Machines, NEW d \in Pages,
                    Tidy(K, m, r, lk), Heirs(O, K, m.mem), K[d] = k
             PROVE  Emptied(k, K, O, m, d, r, lk, Dropped(k, m, d))
    BY DEF Empties
<1> DEFINE A == Left(k, K, O, m, d, r, lk)
           F == [x \in A \X (0 .. NUM_PTE - 1) |-> Round(k, x[1], d, x[2])]
<1>1. m \in A
    BY DEF Left, Stays
<1>2. ASSUME NEW l \in A, NEW n \in Index
      PROVE  Round(k, l, d, n) \in A /\ Cleared(l, Round(k, l, d, n), d, n)
    <2>1. l \in Left(k, K, O, m, d, r, lk)
        BY <1>2
    <2>2. Round(k, l, d, n) \in Left(k, K, O, m, d, r, lk)
        BY <2>1, RoundDrops
    <2>3. Cleared(l, Round(k, l, d, n), d, n)
        BY <2>1, RoundDrops
    <2> QED BY <2>2, <2>3
<1> HIDE DEF A
<1>3. F \in [A \X (0 .. NUM_PTE - 1) -> A]
    BY <1>2 DEF Index
<1>4. PICK g \in [0 .. NUM_PTE -> A] : Rounds(g, NUM_PTE, m, F)
    <2> HIDE DEF F
    <2> QED BY <1>1, <1>3, LoopRuns
<1>5. Loop(k, m, d, g)
    <2>1. g[0] = m
        BY <1>4 DEF Rounds
    <2>2. ASSUME NEW n \in 0 .. NUM_PTE, n # 0 PROVE g[n] = Round(k, g[n - 1], d, n - 1)
        <3>1. n \in 1 .. NUM_PTE /\ n - 1 \in 0 .. NUM_PTE - 1 /\ n - 1 \in 0 .. NUM_PTE
            BY <2>2
        <3>2. g[n] = F[<<g[n - 1], n - 1>>] /\ g[n - 1] \in A
            BY <1>4, <3>1 DEF Rounds
        <3> QED BY <3>1, <3>2
    <2>3. g = [n \in 0 .. NUM_PTE |-> g[n]]
        BY <1>4
    <2> QED BY <2>1, <2>2, <2>3 DEF Loop
<1>6. PICK h : Loop(k, m, d, h) /\ Dropped(k, m, d) = h[NUM_PTE]
    BY <1>5, DropIsLoop
<1>7. h[0] = m /\ \A n \in Index : h[n + 1] = Round(k, h[n], d, n)
    <2>1. 0 \in 0 .. NUM_PTE
        OBVIOUS
    <2>2. ASSUME NEW n \in Index PROVE h[n + 1] = Round(k, h[n], d, n)
        <3>1. n + 1 \in 0 .. NUM_PTE /\ n + 1 # 0 /\ (n + 1) - 1 = n
            BY DEF Index
        <3>2. h[n + 1] = Round(k, h[(n + 1) - 1], d, (n + 1) - 1)
            BY <1>6, <3>1 DEF Loop
        <3> QED BY <3>1, <3>2
    <2> QED BY <1>6, <2>1, <2>2 DEF Loop
<1> DEFINE B == {n \in 0 .. NUM_PTE : h[n] \in A /\ \A j \in 0 .. n - 1 : ~h[n].mem[d][j].v}
<1>8. 0 \in B
    BY <1>1, <1>7
<1>9. ASSUME NEW n \in 0 .. NUM_PTE - 1, n \in B PROVE n + 1 \in B
    <2>1. n \in Index /\ n + 1 \in 0 .. NUM_PTE
        BY DEF Index
    <2>2. h[n + 1] = Round(k, h[n], d, n)
        BY <1>7, <2>1
    <2>3. h[n + 1] \in A /\ ~h[n + 1].mem[d][n].v
        BY <1>2, <1>9, <2>1, <2>2 DEF Cleared
    <2>4. ASSUME NEW j \in 0 .. n, j # n PROVE ~h[n + 1].mem[d][j].v
        <3>1. j \in Index /\ j \in 0 .. n - 1
            BY <2>1, <2>4 DEF Index
        <3>2. Cleared(h[n], h[n + 1], d, n)
            BY <1>2, <1>9, <2>1, <2>2
        <3>3. h[n + 1].mem[d][j] = h[n].mem[d][j]
            BY <2>4, <3>1, <3>2 DEF Cleared
        <3> QED BY <1>9, <3>1, <3>3
    <2>5. \A j \in 0 .. (n + 1) - 1 : ~h[n + 1].mem[d][j].v
        BY <2>3, <2>4
    <2> QED BY <2>1, <2>3, <2>5, Zenon
<1>10. NUM_PTE \in B
    <2>1. \A n \in 0 .. NUM_PTE - 1 : n \in B => n + 1 \in B
        BY <1>9
    <2> HIDE DEF B
    <2>2. \A n \in 0 .. NUM_PTE : n \in B
        BY <1>8, <2>1, Induction
    <2> QED BY <2>2
<1> QED BY <1>6, <1>10 DEF Emptied, Clean, Index, A

(* All loops, in a system where pages that are mapped hold no entries.     *)
LEMMA DropEmpties ==
    ASSUME Deallocates, NEW r, NEW lk
    PROVE  Empties(3, r, lk)
<1>1. Empties(0, r, lk)
    <2> SUFFICES ASSUME NEW K, NEW O, NEW m \in Machines, NEW d \in Pages,
                        Tidy(K, m, r, lk), Heirs(O, K, m.mem), K[d] = 0
                 PROVE  m \in Left(0, K, O, m, d, r, lk) /\ Clean(m.mem, d)
        BY DEF Empties, Emptied, Dropped
    <2>1. Clean(m.mem, d)
        BY DEF Tidy, Trees, CleanPages
    <2> QED BY <2>1 DEF Left, Stays
<1>2. Empties(1, r, lk)
    BY <1>1, LoopEmpties
<1>3. Empties(2, r, lk)
    BY <1>2, LoopEmpties
<1> QED BY <1>3, LoopEmpties

-----------------------------------------------------------------------------
(***************************************************************************)
(* Translations: the way of a virtual page w of table u to its directory   *)
(* of level 1, and on to its final entry.                                  *)
(***************************************************************************)
Roots == [Tables -> Pages \cup {NoPage}]

Second(M, r, u, w) == M[r[u]][w[1]].page
Third(M, r, u, w)  == M[Second(M, r, u, w)][w[2]].page

Enters(M, r, u, w)  == r[u] # NoPage /\ M[r[u]][w[1]].v
Reaches(M, r, u, w) == Enters(M, r, u, w) /\ M[Second(M, r, u, w)][w[2]].v
Walks(M, r, u, w)   == Reaches(M, r, u, w) /\ M[Third(M, r, u, w)][w[3]].v
Last(M, r, u, w)    == M[Third(M, r, u, w)][w[3]]

LEMMA WayDown ==
    ASSUME NEW K, NEW m \in Machines, NEW r \in Roots, NEW lk, Tidy(K, m, r, lk),
           NEW u \in Tables, NEW w \in VirtualPages
    PROVE  LET M == m.mem IN
           /\ r[u] # NoPage => r[u] \in Pages /\ K[r[u]] = 3
           /\ Enters(M, r, u, w) =>
                /\ Leads(K, M, r[u], w[1])
                /\ Second(M, r, u, w) \in Pages /\ K[Second(M, r, u, w)] = 2
           /\ Reaches(M, r, u, w) =>
                /\ Leads(K, M, Second(M, r, u, w), w[2])
                /\ Third(M, r, u, w) \in Pages /\ K[Third(M, r, u, w)] = 1
           /\ Walks(M, r, u, w) =>
                /\ Leads(K, M, Third(M, r, u, w), w[3])
                /\ Last(M, r, u, w) \in GoodEntries /\ Last(M, r, u, w).v
                /\ Last(M, r, u, w).page \in Pages /\ K[Last(M, r, u, w).page] = 0
<1> DEFINE M == m.mem
<1>1. w[1] \in Index /\ w[2] \in Index /\ w[3] \in Index
    BY DEF VirtualPages
<1>2. M \in Memories /\ Levels(K, M)
    BY DEF Machines, Tidy, Trees
<1> HIDE DEF M
<1>3. \A d \in Pages, i \in Index :
         Leads(K, M, d, i) => M[d][i] \in GoodEntries /\ M[d][i].page \in Pages
                              /\ K[M[d][i].page] = K[d] - 1
    BY <1>2 DEF Memories, GoodEntries, Levels, Leads
<1>4. r[u] # NoPage => r[u] \in Pages /\ K[r[u]] = 3
    BY DEF Roots, Tidy, RootsAre
<1>5. Enters(M, r, u, w) =>
          /\ Leads(K, M, r[u], w[1])
          /\ Second(M, r, u, w) \in Pages /\ K[Second(M, r, u, w)] = 2
    <2> SUFFICES ASSUME Enters(M, r, u, w)
                 PROVE  /\ Leads(K, M, r[u], w[1])
                        /\ Second(M, r, u, w) \in Pages /\ K[Second(M, r, u, w)] = 2
        OBVIOUS
    <2>1. r[u] \in Pages /\ K[r[u]] = 3 /\ Leads(K, M, r[u], w[1])
        BY <1>4 DEF Enters, Leads
    <2> QED BY <1>1, <1>3, <2>1 DEF Second
<1>6. Reaches(M, r, u, w) =>
          /\ Leads(K, M, Second(M, r, u, w), w[2])
          /\ Third(M, r, u, w) \in Pages /\ K[Third(M, r, u, w)] = 1
    <2> SUFFICES ASSUME Reaches(M, r, u, w)
                 PROVE  /\ Leads(K, M, Second(M, r, u, w), w[2])
                        /\ Third(M, r, u, w) \in Pages /\ K[Third(M, r, u, w)] = 1
        OBVIOUS
    <2>1. /\ Second(M, r, u, w) \in Pages /\ K[Second(M, r, u, w)] = 2
          /\ Leads(K, M, Second(M, r, u, w), w[2])
        BY <1>5 DEF Reaches, Leads
    <2> QED BY <1>1, <1>3, <2>1 DEF Third
<1>7. Walks(M, r, u, w) =>
          /\ Leads(K, M, Third(M, r, u, w), w[3])
          /\ Last(M, r, u, w) \in GoodEntries /\ Last(M, r, u, w).v
          /\ Last(M, r, u, w).page \in Pages /\ K[Last(M, r, u, w).page] = 0
    <2> SUFFICES ASSUME Walks(M, r, u, w)
                 PROVE  /\ Leads(K, M, Third(M, r, u, w), w[3])
                        /\ Last(M, r, u, w) \in GoodEntries /\ Last(M, r, u, w).v
                        /\ Last(M, r, u, w).page \in Pages
                        /\ K[Last(M, r, u, w).page] = 0
        OBVIOUS
    <2>1. /\ Third(M, r, u, w) \in Pages /\ K[Third(M, r, u, w)] = 1
          /\ Leads(K, M, Third(M, r, u, w), w[3])
        BY <1>6 DEF Walks, Leads
    <2>2. Last(M, r, u, w).v
        BY DEF Walks, Last
    <2> QED BY <1>1, <1>3, <2>1, <2>2 DEF Last
<1> QED BY <1>4, <1>5, <1>6, <1>7 DEF M

(* Two ways to the same directory are the same way.                        *)
LEMMA OneWay ==
    ASSUME NEW K, NEW m \in Machines, NEW r \in Roots, NEW lk, Tidy(K, m, r, lk),
           NEW t \in Tables, NEW v \in VirtualPages, Reaches(m.mem, r, t, v),
           NEW u \in Tables, NEW w \in VirtualPages, Reaches(m.mem, r, u, w),
           Third(m.mem, r, t, v) = Third(m.mem, r, u, w)
    PROVE  t = u /\ v[1] = w[1] /\ v[2] = w[2]
<1> DEFINE M == m.mem
<1>1. /\ v[1] \in Index /\ v[2] \in Index /\ w[1] \in Index /\ w[2] \in Index
    BY DEF VirtualPages
<1>2. OneParent(K, M) /\ RootsAre(K, r)
    BY DEF Tidy, Trees
<1> HIDE DEF M
<1>3. /\ Leads(K, M, Second(M, r, t, v), v[2]) /\ Leads(K, M, Second(M, r, u, w), w[2])
      /\ Second(M, r, t, v) \in Pages /\ Second(M, r, u, w) \in Pages
      /\ Leads(K, M, r[t], v[1]) /\ Leads(K, M, r[u], w[1])
      /\ r[t] \in Pages /\ r[u] \in Pages /\ r[t] # NoPage
    <2>1. /\ Leads(K, M, Second(M, r, t, v), v[2]) /\ Second(M, r, t, v) \in Pages
          /\ Leads(K, M, r[t], v[1]) /\ r[t] \in Pages /\ r[t] # NoPage
        <3>1. Reaches(M, r, t, v) /\ Enters(M, r, t, v) /\ r[t] # NoPage
            BY DEF M, Reaches, Enters
        <3> QED BY <3>1, WayDown DEF M
    <2>2. /\ Leads(K, M, Second(M, r, u, w), w[2]) /\ Second(M, r, u, w) \in Pages
          /\ Leads(K, M, r[u], w[1]) /\ r[u] \in Pages
        <3>1. Reaches(M, r, u, w) /\ Enters(M, r, u, w) /\ r[u] # NoPage
            BY DEF M, Reaches, Enters
        <3> QED BY <3>1, WayDown DEF M
    <2> QED BY <2>1, <2>2
<1>4. Second(M, r, t, v) = Second(M, r, u, w) /\ v[2] = w[2]
    <2>1. M[Second(M, r, t, v)][v[2]].page = M[Second(M, r, u, w)][w[2]].page
        BY DEF Third, M
    <2> QED BY <1>1, <1>2, <1>3, <2>1 DEF OneParent
<1>5. r[t] = r[u] /\ v[1] = w[1]
    BY <1>1, <1>2, <1>3, <1>4 DEF OneParent, Second
<1> QED BY <1>2, <1>3, <1>4, <1>5 DEF RootsAre

SameWalk(M, N, r, u, w) ==
    /\ Walks(N, r, u, w) <=> Walks(M, r, u, w)
    /\ Walks(M, r, u, w) => Last(N, r, u, w) = Last(M, r, u, w)

(* An entry that gets a page of the pool adds at most one translation, and *)
(* that only at the last level: what is behind the new page is not valid.  *)
FillsWalk(K, M, N, r, d, i, u, w) ==
    /\ Enters(M, r, u, w)  => Enters(N, r, u, w) /\ Second(N, r, u, w) = Second(M, r, u, w)
    /\ Reaches(M, r, u, w) => Reaches(N, r, u, w) /\ Third(N, r, u, w) = Third(M, r, u, w)
    /\ \/ SameWalk(M, N, r, u, w)
       \/ K[d] = 1 /\ Reaches(M, r, u, w) /\ Third(M, r, u, w) = d /\ w[3] = i

LEMMA FillWalks ==
    ASSUME NEW K, NEW m \in Machines, NEW r \in Roots, NEW lk, Tidy(K, m, r, lk),
           NEW d \in Pages, NEW i \in Index, NEW p \in Pages, NEW flags, NEW N,
           K[d] \in 1 .. 3, ~m.mem[d][i].v, K[p] = 4,
           N = [m.mem EXCEPT ![d][i] = Entry(p, flags)],
           NEW u \in Tables, NEW w \in VirtualPages
    PROVE  FillsWalk(K, m.mem, N, r, d, i, u, w)
<1> DEFINE M == m.mem
<1>1. w[1] \in Index /\ w[2] \in Index /\ w[3] \in Index
    BY DEF VirtualPages
<1>2. /\ N[d][i].v /\ N[d][i].page = p
      /\ \A e \in Pages, j \in Index : e # d \/ j # i => N[e][j] = M[e][j]
    BY DEF Entry, Machines, Memories
<1>3. \A j \in Index : ~N[p][j].v
    <2>1. Clean(M, p) /\ p # d
        BY DEF Tidy, Trees, CleanPages
    <2> QED BY <1>2, <2>1 DEF Clean
<1>4. /\ r[u] # NoPage => r[u] \in Pages
      /\ Enters(M, r, u, w) => Second(M, r, u, w) \in Pages
      /\ Reaches(M, r, u, w) => Third(M, r, u, w) \in Pages /\ K[Third(M, r, u, w)] = 1
    BY WayDown DEF M
<1>5. ~M[d][i].v
    OBVIOUS
<1> HIDE DEF M
<1>6. Enters(M, r, u, w) => Enters(N, r, u, w) /\ Second(N, r, u, w) = Second(M, r, u, w)
    BY <1>1, <1>2, <1>4, <1>5 DEF Enters, Second
<1>7. Reaches(M, r, u, w) => Reaches(N, r, u, w) /\ Third(N, r, u, w) = Third(M, r, u, w)
    <2> SUFFICES ASSUME Reaches(M, r, u, w)
                 PROVE  Reaches(N, r, u, w) /\ Third(N, r, u, w) = Third(M, r, u, w)
        OBVIOUS
    <2>1. Enters(M, r, u, w) /\ M[Second(M, r, u, w)][w[2]].v
        BY DEF Reaches
    <2>2. N[Second(M, r, u, w)][w[2]] = M[Second(M, r, u, w)][w[2]]
        BY <1>1, <1>2, <1>4, <1>5, <2>1
    <2> QED BY <1>6, <2>1, <2>2 DEF Reaches, Third
<1>8. Walks(M, r, u, w) => Walks(N, r, u, w) /\ Last(N, r, u, w) = Last(M, r, u, w)
    <2> SUFFICES ASSUME Walks(M, r, u, w)
                 PROVE  Walks(N, r, u, w) /\ Last(N, r, u, w) = Last(M, r, u, w)
        OBVIOUS
    <2>1. Reaches(M, r, u, w) /\ M[Third(M, r, u, w)][w[3]].v
        BY DEF Walks
    <2>2. N[Third(M, r, u, w)][w[3]] = M[Third(M, r, u, w)][w[3]]
        BY <1>1, <1>2, <1>4, <1>5, <2>1
    <2> QED BY <1>7, <2>1, <2>2 DEF Walks, Last
<1>9. ASSUME Walks(N, r, u, w), ~Walks(M, r, u, w)
      PROVE  K[d] = 1 /\ Reaches(M, r, u, w) /\ Third(M, r, u, w) = d /\ w[3] = i
    <2>1. /\ r[u] \in Pages /\ N[r[u]][w[1]].v
          /\ N[Second(N, r, u, w)][w[2]].v /\ N[Third(N, r, u, w)][w[3]].v
        BY <1>4, <1>9 DEF Walks, Reaches, Enters
    <2>2. Second(N, r, u, w) # p /\ Third(N, r, u, w) # p
        BY <1>1, <1>3, <2>1
    <2>3. r[u] # d \/ w[1] # i
        BY <1>2, <2>2 DEF Second
    <2>4. N[r[u]][w[1]] = M[r[u]][w[1]]
        BY <1>1, <1>2, <2>1, <2>3
    <2>5. Enters(M, r, u, w)
        BY <1>9, <2>1, <2>4 DEF Walks, Reaches, Enters
    <2>6. Second(N, r, u, w) = Second(M, r, u, w) /\ Second(M, r, u, w) \in Pages
        BY <1>4, <1>6, <2>5
    <2>7. Second(M, r, u, w) # d \/ w[2] # i
        BY <1>2, <2>2, <2>6 DEF Third
    <2>8. N[Second(M, r, u, w)][w[2]] = M[Second(M, r, u, w)][w[2]]
        BY <1>1, <1>2, <2>6, <2>7
    <2>9. Reaches(M, r, u, w)
        BY <2>1, <2>5, <2>6, <2>8 DEF Reaches
    <2>10. /\ Third(N, r, u, w) = Third(M, r, u, w) /\ Third(M, r, u, w) \in Pages
           /\ K[Third(M, r, u, w)] = 1
        BY <1>4, <1>7, <2>9
    <2>11. ~M[Third(M, r, u, w)][w[3]].v
        BY <1>9, <2>9 DEF Walks
    <2>12. Third(M, r, u, w) = d /\ w[3] = i
        BY <1>1, <1>2, <2>1, <2>10, <2>11
    <2> QED BY <2>9, <2>10, <2>12
<1> QED BY <1>6, <1>7, <1>8, <1>9 DEF SameWalk, M, FillsWalk

(* The upper levels of mapVirtualPage add none.                            *)
Widens(m, n, r, lk, d, i) ==
    /\ n \in Machines
    /\ \A u \in Tables, w \in VirtualPages : SameWalk(m.mem, n.mem, r, u, w)
    /\ ~n.err =>
         /\ n.mem[d][i].v /\ Range(n.free) \subseteq Range(m.free)
         /\ \E J : Tidy(J, n, r, lk)
         /\ \A u \in Tables, w \in VirtualPages : Enters(m.mem, r, u, w) =>
                Enters(n.mem, r, u, w) /\ Second(n.mem, r, u, w) = Second(m.mem, r, u, w)

LEMMA UpperFill ==
    ASSUME NEW K, NEW m \in Machines, NEW r \in Roots, NEW lk, Tidy(K, m, r, lk),
           NEW d \in Pages, NEW i \in Index, K[d] \in 2 .. 3
    PROVE  Widens(m, Filled(m, d, i, {"R"}), r, lk, d, i)
<1> DEFINE n == Filled(m, d, i, {"R"})
<1>1. {"R"} \in Flags
    BY DEF Flags
<1>2. n \in Machines /\ (~n.err => n.mem[d][i].v)
    BY <1>1, FilledTyped
<1>3. \/ n.err /\ n.mem = m.mem
      \/ n = m /\ m.mem[d][i].v
      \/ /\ ~n.err /\ ~m.mem[d][i].v /\ Range(n.free) \subseteq Range(m.free)
         /\ \E p \in Pages :
               /\ K[p] = 4
               /\ n.mem = [m.mem EXCEPT ![d][i] = Entry(p, {"R"})]
               /\ Tidy([K EXCEPT ![p] = K[d] - 1], n, r, lk)
    <2>1. K[d] \in 1 .. 3
        OBVIOUS
    <2>2. Fills(K, m, n, r, lk, d, i, {"R"})
        BY <1>1, <2>1, FilledTidy
    <2> HIDE DEF n
    <2> QED BY <2>2 DEF Fills
<1> HIDE DEF n
<1>4. ASSUME n.err, n.mem = m.mem
      PROVE  Widens(m, n, r, lk, d, i)
    BY <1>2, <1>4 DEF SameWalk, Widens
<1>5. ASSUME n = m, m.mem[d][i].v
      PROVE  Widens(m, n, r, lk, d, i)
    BY <1>2, <1>5 DEF SameWalk, Widens
<1>6. ASSUME ~n.err, ~m.mem[d][i].v, NEW p \in Pages, K[p] = 4,
             n.mem = [m.mem EXCEPT ![d][i] = Entry(p, {"R"})],
             Tidy([K EXCEPT ![p] = K[d] - 1], n, r, lk)
      PROVE  /\ \A u \in Tables, w \in VirtualPages : SameWalk(m.mem, n.mem, r, u, w)
             /\ \E J : Tidy(J, n, r, lk)
             /\ \A u \in Tables, w \in VirtualPages : Enters(m.mem, r, u, w) =>
                    Enters(n.mem, r, u, w) /\ Second(n.mem, r, u, w) = Second(m.mem, r, u, w)
    <2>1. ASSUME NEW u \in Tables, NEW w \in VirtualPages
          PROVE  /\ SameWalk(m.mem, n.mem, r, u, w)
                 /\ Enters(m.mem, r, u, w) =>
                       Enters(n.mem, r, u, w) /\ Second(n.mem, r, u, w) = Second(m.mem, r, u, w)
        <3>1. FillsWalk(K, m.mem, n.mem, r, d, i, u, w)
            BY <1>6, FillWalks
        <3>2. K[d] # 1
            OBVIOUS
        <3> QED BY <3>1, <3>2 DEF FillsWalk
    <2> QED BY <1>6, <2>1
<1>7. Widens(m, n, r, lk, d, i)
    BY <1>2, <1>3, <1>4, <1>5, <1>6 DEF Widens
<1> QED BY <1>7 DEF n

(* mapVirtualPage of a virtual page that is not mapped: no translation     *)
(* changes but this one, whose page no translation had.                    *)
LEMMA MappedTidy ==
    ASSUME NEW K, NEW m \in Machines, root \in Roots, NEW lk, Tidy(K, m, root, lk),
           NEW t \in Tables, root[t] # NoPage, NEW v \in VirtualPages,
           ~Walks(m.mem, root, t, v), NEW flags \in Flags
    PROVE  LET n == Mapped(m, t, v, flags) IN
           \/ n.err /\ \A u \in Tables, w \in VirtualPages : SameWalk(m.mem, n.mem, root, u, w)
           \/ /\ ~n.err /\ \E J : Tidy(J, n, root, lk)
              /\ Walks(n.mem, root, t, v) /\ Last(n.mem, root, t, v).flags = flags
              /\ Last(n.mem, root, t, v).page \in Range(m.free)
              /\ \A u \in Tables, w \in VirtualPages :
                    /\ u # t \/ w # v => SameWalk(m.mem, n.mem, root, u, w)
                    /\ Walks(m.mem, root, u, w) =>
                          Last(m.mem, root, u, w).page # Last(n.mem, root, t, v).page
<1> DEFINE m2 == Filled(m, root[t], v[1], {"R"})
           l1 == m2.mem[root[t]][v[1]].page
           m1 == Filled(m2, l1, v[2], {"R"})
           l0 == m1.mem[l1][v[2]].page
           m0 == Filled(m1, l0, v[3], flags)
<1>1. v[1] \in Index /\ v[2] \in Index /\ v[3] \in Index
    BY DEF VirtualPages
<1>2. root[t] \in Pages /\ K[root[t]] = 3
    BY WayDown
<1>3. /\ m2 \in Machines
      /\ \A u \in Tables, w \in VirtualPages : SameWalk(m.mem, m2.mem, root, u, w)
      /\ ~m2.err => /\ m2.mem[root[t]][v[1]].v /\ \E J : Tidy(J, m2, root, lk)
                    /\ Range(m2.free) \subseteq Range(m.free)
    <2>1. K[root[t]] \in 2 .. 3
        BY <1>2
    <2>2. Widens(m, m2, root, lk, root[t], v[1])
        BY <1>1, <1>2, <2>1, UpperFill
    <2> HIDE DEF m2
    <2> QED BY <2>2 DEF Widens
<1>4. Mapped(m, t, v, flags) = IF m2.err THEN m2 ELSE IF m1.err THEN m1 ELSE m0
    BY DEF Mapped
<1>5. CASE m2.err
    <2> HIDE DEF m2
    <2> QED BY <1>3, <1>4, <1>5
<1>6. CASE ~m2.err
    <2>1. PICK J2 : Tidy(J2, m2, root, lk)
        BY <1>3, <1>6
    <2>2. Enters(m2.mem, root, t, v) /\ Second(m2.mem, root, t, v) = l1
        BY <1>3, <1>6 DEF Enters, Second
    <2> HIDE DEF m2
    <2>3. l1 \in Pages /\ J2[l1] = 2
        BY <1>3, <2>1, <2>2, WayDown
    <2> HIDE DEF l1
    <2>4. /\ m1 \in Machines
          /\ \A u \in Tables, w \in VirtualPages : SameWalk(m2.mem, m1.mem, root, u, w)
          /\ ~m1.err => /\ m1.mem[l1][v[2]].v /\ \E J : Tidy(J, m1, root, lk)
                        /\ Enters(m1.mem, root, t, v) /\ Second(m1.mem, root, t, v) = l1
                        /\ Range(m1.free) \subseteq Range(m2.free)
        <3>1. J2[l1] \in 2 .. 3
            BY <2>3
        <3>2. Widens(m2, m1, root, lk, l1, v[2])
            BY <1>1, <1>3, <2>1, <2>3, <3>1, UpperFill
        <3> HIDE DEF m1
        <3> QED BY <2>2, <3>2 DEF Widens
    <2>5. \A u \in Tables, w \in VirtualPages : SameWalk(m.mem, m1.mem, root, u, w)
        BY <1>3, <2>4 DEF SameWalk
    <2>6. CASE m1.err
        <3> HIDE DEF m1
        <3> QED BY <1>4, <1>6, <2>5, <2>6
    <2>7. CASE ~m1.err
        <3>1. PICK J : Tidy(J, m1, root, lk)
            BY <2>4, <2>7
        <3>2. Reaches(m1.mem, root, t, v) /\ Third(m1.mem, root, t, v) = l0
            BY <2>4, <2>7 DEF Reaches, Third
        <3> HIDE DEF m1
        <3>3. l0 \in Pages /\ J[l0] = 1
            BY <2>4, <3>1, <3>2, WayDown
        <3> HIDE DEF l0
        <3>4. ~Walks(m1.mem, root, t, v) /\ ~m1.mem[l0][v[3]].v
            BY <2>5, <3>2 DEF SameWalk, Walks
        <3>5. \/ m0.err /\ m0.mem = m1.mem
              \/ /\ ~m0.err
                 /\ \E p \in Pages :
                       /\ J[p] = 4
                       /\ m0.mem = [m1.mem EXCEPT ![l0][v[3]] = Entry(p, flags)]
                       /\ Tidy([J EXCEPT ![p] = J[l0] - 1], m0, root, lk)
            <4>1. J[l0] \in 1 .. 3
                BY <3>3
            <4>2. Fills(J, m1, m0, root, lk, l0, v[3], flags)
                BY <1>1, <2>4, <3>1, <3>3, <4>1, FilledTidy
            <4> HIDE DEF m0
            <4>3. m0 # m1 \/ ~m1.mem[l0][v[3]].v
                BY <3>4
            <4> QED BY <3>4, <4>2, <4>3 DEF Fills
        <3>6. Mapped(m, t, v, flags) = m0
            BY <1>4, <1>6, <2>7
        <3> HIDE DEF m0
        <3>7. CASE m0.err /\ m0.mem = m1.mem
            BY <2>5, <3>6, <3>7
        <3>8. ASSUME ~m0.err, NEW p \in Pages, J[p] = 4,
                     m0.mem = [m1.mem EXCEPT ![l0][v[3]] = Entry(p, flags)],
                     Tidy([J EXCEPT ![p] = J[l0] - 1], m0, root, lk)
              PROVE  /\ ~m0.err /\ \E H : Tidy(H, m0, root, lk)
                     /\ Walks(m0.mem, root, t, v) /\ Last(m0.mem, root, t, v).flags = flags
                     /\ Last(m0.mem, root, t, v).page \in Range(m.free)
                     /\ \A u \in Tables, w \in VirtualPages :
                           /\ u # t \/ w # v => SameWalk(m.mem, m0.mem, root, u, w)
                           /\ Walks(m.mem, root, u, w) =>
                                 Last(m.mem, root, u, w).page # Last(m0.mem, root, t, v).page
            <4>1. ASSUME NEW u \in Tables, NEW w \in VirtualPages
                  PROVE  /\ Reaches(m1.mem, root, u, w) =>
                              /\ Reaches(m0.mem, root, u, w)
                              /\ Third(m0.mem, root, u, w) = Third(m1.mem, root, u, w)
                         /\ \/ SameWalk(m1.mem, m0.mem, root, u, w)
                            \/ /\ Reaches(m1.mem, root, u, w)
                               /\ Third(m1.mem, root, u, w) = l0 /\ w[3] = v[3]
                <5>1. J[l0] \in 1 .. 3
                    BY <3>3
                <5>2. FillsWalk(J, m1.mem, m0.mem, root, l0, v[3], u, w)
                    BY <1>1, <2>4, <3>1, <3>3, <3>4, <3>8, <5>1, FillWalks
                <5> QED BY <5>2 DEF FillsWalk
            <4>2. m0.mem[l0][v[3]] = Entry(p, flags)
                <5>1. m1.mem \in Memories
                    BY <2>4 DEF Machines
                <5> QED BY <1>1, <3>3, <3>8, <5>1 DEF Memories
            <4>3. /\ Walks(m0.mem, root, t, v)
                  /\ Last(m0.mem, root, t, v).flags = flags
                  /\ Last(m0.mem, root, t, v).page = p
                BY <3>2, <4>1, <4>2 DEF Walks, Last, Entry
            <4>4. ASSUME NEW u \in Tables, NEW w \in VirtualPages, u # t \/ w # v
                  PROVE  SameWalk(m.mem, m0.mem, root, u, w)
                <5>1. CASE SameWalk(m1.mem, m0.mem, root, u, w)
                    BY <2>5, <5>1 DEF SameWalk
                <5>2. CASE /\ Reaches(m1.mem, root, u, w)
                           /\ Third(m1.mem, root, u, w) = l0 /\ w[3] = v[3]
                    <6>1. u = t /\ w[1] = v[1] /\ w[2] = v[2]
                        BY <2>4, <3>1, <3>2, <5>2, OneWay
                    <6>2. w = v
                        BY <5>2, <6>1 DEF VirtualPages
                    <6> QED BY <4>4, <6>1, <6>2
                <5> QED BY <4>1, <5>1, <5>2
            <4>5. ASSUME NEW u \in Tables, NEW w \in VirtualPages, Walks(m.mem, root, u, w)
                  PROVE  Last(m.mem, root, u, w).page # p
                <5>1. /\ Walks(m1.mem, root, u, w)
                      /\ Last(m1.mem, root, u, w) = Last(m.mem, root, u, w)
                    BY <2>5, <4>5 DEF SameWalk
                <5>2. J[Last(m1.mem, root, u, w).page] = 0
                    BY <2>4, <3>1, <5>1, WayDown
                <5> QED BY <3>8, <5>1, <5>2
            <4>6. p \in Range(m.free)
                BY <1>3, <1>6, <2>4, <2>7, <3>1, <3>8 DEF Tidy, PoolIs
            <4> QED BY <3>8, <4>3, <4>4, <4>5, <4>6
        <3> QED BY <3>5, <3>6, <3>7, <3>8
    <2> QED BY <2>6, <2>7
<1> QED BY <1>5, <1>6

-----------------------------------------------------------------------------
(***************************************************************************)
(* The inductive invariant, and what each call does to the translations.   *)
(***************************************************************************)
Typed ==
    /\ mem \in Memories /\ free \in Pools /\ root \in Roots
    /\ errorOccurred \in BOOLEAN /\ leaked \subseteq Pages

Sound == ~errorOccurred => \E K : Tidy(K, Now, root, leaked)

TablesInv == Typed /\ Sound

KeepsWalk(u, w) ==
    /\ Walks(mem', root', u, w) <=> Walks(mem, root, u, w)
    /\ Walks(mem, root, u, w) => Last(mem', root', u, w) = Last(mem, root, u, w)

KeepsWalks == \A u \in Tables, w \in VirtualPages : KeepsWalk(u, w)

LEMMA NowTyped == ASSUME Typed PROVE Now \in Machines
BY DEF Typed, Now, Machines

LEMMA BecomeNow ==
    ASSUME NEW m \in Machines, Become(m)
    PROVE  /\ Now' = m
           /\ mem' = m.mem /\ free' = m.free /\ errorOccurred' = m.err
           /\ mem' \in Memories /\ free' \in Pools /\ errorOccurred' \in BOOLEAN
BY DEF Become, Now, Machines

(* error() stops the kernel and changes nothing else.                      *)
LEMMA ErrorStops ==
    ASSUME TablesInv, Become(Error(Now)), UNCHANGED <<root, leaked>>
    PROVE  TablesInv' /\ errorOccurred' = TRUE /\ KeepsWalks
<1>1. mem' = mem /\ free' = free /\ errorOccurred' = TRUE
    BY DEF Become, Error, Now
<1> QED BY <1>1 DEF TablesInv, Typed, Sound, KeepsWalks, KeepsWalk

(* A translation depends on nothing but the pages on its way.              *)
Closed(S, K, M, r, u) ==
    /\ r[u] # NoPage => r[u] \in S
    /\ \A d \in Pages, i \in Index :
          d \in S /\ K[d] \in 2 .. 3 /\ M[d][i].v => M[d][i].page \in S

SameWays(M, r, N, s, u, w) ==
    /\ Walks(N, s, u, w) <=> Walks(M, r, u, w)
    /\ Walks(M, r, u, w) => Last(N, s, u, w) = Last(M, r, u, w)

Agree(S, M, N) == \A e \in Pages : e \in S => N[e] = M[e]

LEMMA SameWay ==
    ASSUME NEW K, NEW m \in Machines, NEW r \in Roots, NEW lk, Tidy(K, m, r, lk),
           NEW N, NEW s, NEW S, NEW u \in Tables, NEW w \in VirtualPages, s[u] = r[u],
           Closed(S, K, m.mem, r, u), Agree(S, m.mem, N)
    PROVE  SameWays(m.mem, r, N, s, u, w)
<1> DEFINE M == m.mem
<1>1. w[1] \in Index /\ w[2] \in Index /\ w[3] \in Index
    BY DEF VirtualPages
<1>2. /\ r[u] # NoPage => r[u] \in Pages /\ K[r[u]] = 3
      /\ Enters(M, r, u, w) => Second(M, r, u, w) \in Pages /\ K[Second(M, r, u, w)] = 2
      /\ Reaches(M, r, u, w) => Third(M, r, u, w) \in Pages
    BY WayDown DEF M
<1> HIDE DEF M
<1>3. r[u] # NoPage => N[r[u]] = M[r[u]]
    BY <1>2 DEF M, Closed, Agree
<1>4. /\ Enters(N, s, u, w) <=> Enters(M, r, u, w)
      /\ Enters(M, r, u, w) => Second(N, s, u, w) = Second(M, r, u, w)
    BY <1>3 DEF Enters, Second
<1>5. ASSUME Enters(M, r, u, w)
      PROVE  Second(M, r, u, w) \in S /\ N[Second(M, r, u, w)] = M[Second(M, r, u, w)]
    <2>1. Second(M, r, u, w) \in S
        BY <1>1, <1>2, <1>5 DEF Enters, Second, M, Closed
    <2> QED BY <1>2, <1>5, <2>1 DEF M, Agree
<1>6. /\ Reaches(N, s, u, w) <=> Reaches(M, r, u, w)
      /\ Reaches(M, r, u, w) => Third(N, s, u, w) = Third(M, r, u, w)
    BY <1>4, <1>5 DEF Reaches, Third
<1>7. ASSUME Reaches(M, r, u, w) PROVE N[Third(M, r, u, w)] = M[Third(M, r, u, w)]
    <2>1. Third(M, r, u, w) \in S
        BY <1>1, <1>2, <1>5, <1>7 DEF Reaches, Third, M, Closed
    <2> QED BY <1>2, <1>7, <2>1 DEF M, Agree
<1> QED BY <1>6, <1>7 DEF SameWays, Walks, Last, M

(* allocatePageTable: the new root leads nowhere.                          *)
LEMMA AllocatePageTableKeeps ==
    ASSUME TablesInv, NEW t \in Tables, AllocatePageTable(t)
    PROVE  /\ TablesInv' /\ KeepsWalks
           /\ \/ errorOccurred' = TRUE /\ root' = root
              \/ /\ ~errorOccurred'
                 /\ \E p \in Pages : root' = [root EXCEPT ![t] = p]
<1>1. ~errorOccurred /\ root[t] = NoPage /\ leaked' = leaked
    BY DEF AllocatePageTable
<1>2. CASE free = << >>
    <2>1. Become(Error(Now)) /\ UNCHANGED <<root, leaked>>
        BY <1>2 DEF AllocatePageTable
    <2> QED BY <2>1, ErrorStops
<1>3. CASE free # << >>
    <2> DEFINE p == Head(free)
               row == [i \in Index |-> [mem[p][i] EXCEPT !.v = FALSE]]
               N == [mem EXCEPT ![p] = row]
               s == [root EXCEPT ![t] = p]
    <2>1. PICK K : Tidy(K, Now, root, leaked)
        BY <1>1 DEF TablesInv, Sound
    <2>2. Now \in Machines /\ Now.mem = mem /\ Now.free = free /\ Now.err = errorOccurred
        BY NowTyped DEF TablesInv, Now
    <2>3. mem \in Memories /\ free \in Pools /\ root \in Roots /\ leaked \subseteq Pages
        BY DEF TablesInv, Typed
    <2>4. /\ mem' = N /\ free' = Tail(free) /\ errorOccurred' = errorOccurred
          /\ root' = s
        BY <1>3 DEF AllocatePageTable, Become, Taken, Now
    <2>5. /\ K \in [Pages -> 0 .. 5] /\ Trees(K, mem) /\ PoolIs(K, free)
          /\ RootsAre(K, root) /\ LostAre(K, leaked)
        BY <2>1, <2>2 DEF Tidy
    <2>6. Distinct(free)
        BY <2>5 DEF PoolIs
    <2>7. /\ p \in Pages /\ p \in Range(free) /\ Tail(free) \in Pools /\ Distinct(Tail(free))
          /\ Range(Tail(free)) = Range(free) \ {p}
        BY <1>3, <2>3, <2>6, PoolTail
    <2>8. K[p] = 4
        BY <2>5, <2>7 DEF PoolIs
    <2> HIDE DEF p
    <2>9. row \in [Index -> GoodEntries] /\ \A i \in Index : ~row[i].v
        <3>1. ASSUME NEW i \in Index
              PROVE  [mem[p][i] EXCEPT !.v = FALSE] \in GoodEntries
                     /\ ~[mem[p][i] EXCEPT !.v = FALSE].v
            <4>1. mem[p][i] \in Entries
                BY <2>3, <2>7 DEF Memories, GoodEntries
            <4> QED BY <4>1 DEF GoodEntries, Entries
        <3> QED BY <3>1
    <2> HIDE DEF row
    <2>10. /\ N \in Memories /\ Clean(N, p)
           /\ \A e \in Pages : e # p => N[e] = mem[e]
        BY <2>3, <2>7, <2>9 DEF Memories, Clean
    <2>11. s \in Roots /\ s[t] = p /\ \A u \in Tables : u # t => s[u] = root[u]
        BY <2>3, <2>7 DEF Roots
    <2> DEFINE J == [K EXCEPT ![p] = 3]
    <2>12. Trees(J, N)
        <3>1. \A j \in Index : ~Leads(K, mem, p, j)
            BY <2>8 DEF Leads
        <3>2. 3 \in 0 .. 5 /\ ~(K[p] \in 0 .. 2 \/ 3 \in 0 .. 2)
            BY <2>8
        <3> HIDE DEF N
        <3> QED BY <2>3, <2>5, <2>7, <2>10, <3>1, <3>2, MoveTrees
    <2>13. J \in [Pages -> 0 .. 5] /\ J[p] = 3 /\ \A q \in Pages : q # p => J[q] = K[q]
        BY <2>5, <2>7
    <2> HIDE DEF J, N, s
    <2>14. PoolIs(J, Tail(free))
        BY <2>5, <2>7, <2>13 DEF PoolIs
    <2>15. RootsAre(J, s)
        <3>1. \A u \in Tables : root[u] # p
            BY <2>5, <2>7, <2>8 DEF RootsAre
        <3>2. p # NoPage
            BY <2>7 DEF Pages, NoPage
        <3>3. ASSUME NEW q \in Pages PROVE J[q] = 3 <=> \E u \in Tables : s[u] = q
            <4>1. CASE q = p
                BY <2>11, <2>13, <4>1
            <4>2. CASE q # p
                <5>1. \A u \in Tables : s[u] = q <=> root[u] = q
                    BY <1>1, <2>11, <4>2 DEF Pages, NoPage
                <5> QED BY <2>5, <2>13, <4>2, <5>1 DEF RootsAre
            <4> QED BY <4>1, <4>2
        <3>4. \A u, x \in Tables : s[u] # NoPage /\ s[u] = s[x] => u = x
            BY <2>5, <2>11, <3>1 DEF RootsAre
        <3> QED BY <3>3, <3>4 DEF RootsAre
    <2>16. LostAre(J, leaked)
        BY <2>5, <2>8, <2>13 DEF LostAre
    <2>17. Tidy(J, Now', root', leaked')
        <3>1. Now'.mem = N /\ Now'.free = Tail(free) /\ Now'.err = errorOccurred
            BY <2>4 DEF Now
        <3> QED BY <1>1, <2>4, <2>12, <2>13, <2>14, <2>15, <2>16, <3>1 DEF Tidy
    <2>18. TablesInv'
        BY <1>1, <2>3, <2>4, <2>7, <2>10, <2>11, <2>17 DEF TablesInv, Typed, Sound
    <2>19. ASSUME NEW u \in Tables, NEW w \in VirtualPages PROVE KeepsWalk(u, w)
        <3>1. CASE u = t
            <4>1. ~Walks(mem, root, u, w)
                BY <1>1, <3>1 DEF Walks, Reaches, Enters
            <4>2. ~Walks(N, s, u, w)
                <5>1. w[1] \in Index
                    BY DEF VirtualPages
                <5> QED BY <2>10, <2>11, <3>1, <5>1 DEF Walks, Reaches, Enters, Clean
            <4> QED BY <2>4, <4>1, <4>2 DEF KeepsWalk
        <3>2. CASE u # t
            <4> DEFINE S == {e \in Pages : K[e] \in 1 .. 3}
            <4>1. s[u] = root[u] /\ (root[u] # NoPage => root[u] \in S)
                BY <2>3, <2>5, <2>11, <3>2 DEF RootsAre, Roots
            <4>2. ASSUME NEW d \in Pages, NEW i \in Index, K[d] \in 2 .. 3, mem[d][i].v
                  PROVE  mem[d][i].page \in S
                <5>1. Leads(K, mem, d, i) /\ mem[d][i].page \in Pages
                    BY <2>3, <4>2 DEF Leads, Memories, GoodEntries
                <5>2. K[mem[d][i].page] = K[d] - 1
                    BY <2>5, <5>1 DEF Trees, Levels
                <5> QED BY <4>2, <5>1, <5>2
            <4>3. \A e \in Pages : e \in S => N[e] = mem[e]
                BY <2>8, <2>10
            <4> HIDE DEF S
            <4>4. /\ Walks(N, s, u, w) <=> Walks(mem, root, u, w)
                  /\ Walks(mem, root, u, w) => Last(N, s, u, w) = Last(mem, root, u, w)
                <5>1. Closed(S, K, Now.mem, root, u)
                    BY <2>2, <4>1, <4>2 DEF Closed
                <5>2. Agree(S, Now.mem, N)
                    BY <2>2, <4>3 DEF Agree
                <5>3. SameWays(Now.mem, root, N, s, u, w)
                    <6>1. Now \in Machines /\ root \in Roots /\ s[u] = root[u]
                        BY <2>2, <2>3, <4>1
                    <6> QED BY <2>1, <5>1, <5>2, <6>1, SameWay
                <5> QED BY <2>2, <5>3 DEF SameWays
            <4> QED BY <2>4, <4>4 DEF KeepsWalk
        <3> QED BY <3>1, <3>2
    <2>20. root' = [root EXCEPT ![t] = p] /\ ~errorOccurred'
        BY <1>1, <2>4 DEF s
    <2>21. KeepsWalks
        BY <2>19 DEF KeepsWalks
    <2> QED BY <2>7, <2>18, <2>20, <2>21
<1> QED BY <1>2, <1>3

LEMMA AllocatedWalks ==
    ASSUME NEW t \in Tables, root[t] # NoPage, NEW v
    PROVE  /\ IsVirtualPageAllocated(t, v) <=> Walks(mem, root, t, v)
           /\ VirtualToPhysical(t, v) = Last(mem, root, t, v).page
BY DEF IsVirtualPageAllocated, VirtualToPhysical, FinalEntry, Walks, Reaches, Enters, Last,
       Third, Second

(* allocateVirtualPage: the page it takes first is lost.                   *)
LEMMA TakenTidy ==
    ASSUME TablesInv, NEW K, Tidy(K, Now, root, leaked), free # << >>
    PROVE  /\ Taken(Now) \in Machines /\ Taken(Now).mem = mem /\ ~Taken(Now).err
           /\ Head(free) \in Pages /\ Range(Taken(Now).free) \subseteq Range(free)
           /\ \E J : Tidy(J, Taken(Now), root, leaked \cup {Head(free)})
<1> DEFINE p == Head(free)
           m == [mem |-> mem, free |-> Tail(free), err |-> errorOccurred]
           J == [K EXCEPT ![p] = 5]
<1>1. Taken(Now) = m
    BY DEF Taken, Now
<1>2. /\ mem \in Memories /\ free \in Pools /\ leaked \subseteq Pages /\ errorOccurred \in BOOLEAN
    BY DEF TablesInv, Typed
<1>3. /\ K \in [Pages -> 0 .. 5] /\ Trees(K, mem) /\ PoolIs(K, free)
      /\ RootsAre(K, root) /\ LostAre(K, leaked) /\ ~errorOccurred
    BY DEF Tidy, Now
<1>4. Distinct(free)
    BY <1>3 DEF PoolIs
<1>5. /\ p \in Pages /\ p \in Range(free) /\ Tail(free) \in Pools /\ Distinct(Tail(free))
      /\ Range(Tail(free)) = Range(free) \ {p}
    BY <1>2, <1>4, PoolTail
<1>6. K[p] = 4
    BY <1>3, <1>5 DEF PoolIs
<1> HIDE DEF p
<1>7. m \in Machines
    BY <1>2, <1>5 DEF Machines
<1>8. J \in [Pages -> 0 .. 5] /\ J[p] = 5 /\ \A q \in Pages : q # p => J[q] = K[q]
    BY <1>3, <1>5
<1>9. Trees(J, mem)
    <2>1. \A j \in Index : ~Leads(K, mem, p, j)
        BY <1>6 DEF Leads
    <2>2. Clean(mem, p)
        BY <1>3, <1>5, <1>6 DEF Trees, CleanPages
    <2>3. 5 \in 0 .. 5 /\ ~(K[p] \in 0 .. 2 \/ 5 \in 0 .. 2)
        BY <1>6
    <2> QED BY <1>2, <1>3, <1>5, <2>1, <2>2, <2>3, MoveTrees
<1> HIDE DEF J
<1>10. PoolIs(J, Tail(free))
    BY <1>3, <1>5, <1>8 DEF PoolIs
<1>11. RootsAre(J, root)
    BY <1>3, <1>5, <1>6, <1>8 DEF RootsAre
<1>12. LostAre(J, leaked \cup {p})
    BY <1>3, <1>5, <1>8 DEF LostAre
<1>13. Tidy(J, m, root, leaked \cup {p})
    BY <1>3, <1>8, <1>9, <1>10, <1>11, <1>12 DEF Tidy
<1>14. m.mem = mem /\ ~m.err /\ Range(m.free) \subseteq Range(free)
    BY <1>3, <1>5
<1> HIDE DEF m
<1> QED BY <1>1, <1>5, <1>7, <1>13, <1>14 DEF p

MapsOnly(t, v, flags) ==
    /\ ~errorOccurred' /\ root[t] # NoPage /\ ~Walks(mem, root, t, v)
    /\ Walks(mem', root', t, v) /\ Last(mem', root', t, v).flags = flags
    /\ Last(mem', root', t, v).page \in Range(free)
    /\ \A u \in Tables, w \in VirtualPages :
          /\ u # t \/ w # v => KeepsWalk(u, w)
          /\ Walks(mem, root, u, w) =>
                Last(mem, root, u, w).page # Last(mem', root', t, v).page

LEMMA AllocateVirtualPageKeeps ==
    ASSUME TablesInv, NEW t \in Tables, NEW v \in Asked, NEW flags \in Permissions,
           AllocateVirtualPage(t, v, flags)
    PROVE  /\ TablesInv' /\ root' = root
           /\ \/ errorOccurred' = TRUE /\ KeepsWalks
              \/ MapsOnly(t, v, flags)
<1>1. /\ ~errorOccurred /\ root[t] # NoPage /\ root' = root
      /\ v \in VirtualPages /\ flags \in Flags
    BY AskedAssumption, PermissionsAssumption DEF AllocateVirtualPage, Flags
<1>2. CASE IsVirtualPageAllocated(t, v)
    <2>1. Become(Error(Now)) /\ UNCHANGED <<root, leaked>>
        BY <1>2 DEF AllocateVirtualPage
    <2> QED BY <2>1, ErrorStops
<1>3. CASE ~IsVirtualPageAllocated(t, v) /\ free = << >>
    <2>1. Taken(Now) = Error(Now) /\ Error(Now).err
        BY <1>3 DEF Taken, Error, Now
    <2>2. Become(Error(Now)) /\ UNCHANGED <<root, leaked>>
        BY <1>3, <2>1 DEF AllocateVirtualPage
    <2> QED BY <2>2, ErrorStops
<1>4. CASE ~IsVirtualPageAllocated(t, v) /\ free # << >>
    <2> DEFINE m == Taken(Now)
               n == Mapped(m, t, v, flags)
               lk == leaked \cup {Head(free)}
    <2>1. PICK K : Tidy(K, Now, root, leaked)
        BY <1>1 DEF TablesInv, Sound
    <2>2. /\ m \in Machines /\ m.mem = mem /\ ~m.err /\ Head(free) \in Pages
          /\ Range(m.free) \subseteq Range(free)
          /\ \E J : Tidy(J, m, root, lk)
        BY <1>4, <2>1, TakenTidy
    <2>3. PICK J : Tidy(J, m, root, lk)
        BY <2>2
    <2>4. ~Walks(m.mem, root, t, v)
        BY <1>1, <1>4, <2>2, AllocatedWalks
    <2>5. Become(n) /\ leaked' = lk
        BY <1>4, <2>2 DEF AllocateVirtualPage, Now
    <2> HIDE DEF m, lk
    <2>6. root \in Roots /\ root[t] \in Pages /\ leaked \subseteq Pages
        BY <1>1 DEF TablesInv, Typed, Roots
    <2>7. n \in Machines
        BY <1>1, <2>2, <2>6, MappedTyped
    <2>8. \/ n.err /\ \A u \in Tables, w \in VirtualPages : SameWalk(m.mem, n.mem, root, u, w)
          \/ /\ ~n.err /\ \E H : Tidy(H, n, root, lk)
             /\ Walks(n.mem, root, t, v) /\ Last(n.mem, root, t, v).flags = flags
             /\ Last(n.mem, root, t, v).page \in Range(m.free)
             /\ \A u \in Tables, w \in VirtualPages :
                   /\ u # t \/ w # v => SameWalk(m.mem, n.mem, root, u, w)
                   /\ Walks(m.mem, root, u, w) =>
                         Last(m.mem, root, u, w).page # Last(n.mem, root, t, v).page
        BY <1>1, <2>2, <2>3, <2>4, <2>6, MappedTidy
    <2> HIDE DEF n
    <2>9. /\ Now' = n /\ mem' = n.mem /\ errorOccurred' = n.err
          /\ mem' \in Memories /\ free' \in Pools /\ errorOccurred' \in BOOLEAN
        BY <2>5, <2>7, BecomeNow
    <2>10. Typed'
        BY <1>1, <2>2, <2>5, <2>6, <2>9 DEF Typed, lk
    <2>11. CASE n.err /\ \A u \in Tables, w \in VirtualPages :
                            SameWalk(m.mem, n.mem, root, u, w)
        <3>1. KeepsWalks
            BY <1>1, <2>2, <2>9, <2>11 DEF KeepsWalks, KeepsWalk, SameWalk
        <3>2. TablesInv' /\ errorOccurred' = TRUE
            BY <2>9, <2>10, <2>11 DEF TablesInv, Sound
        <3> QED BY <1>1, <3>1, <3>2
    <2>12. CASE /\ ~n.err /\ \E H : Tidy(H, n, root, lk)
                /\ Walks(n.mem, root, t, v) /\ Last(n.mem, root, t, v).flags = flags
                /\ Last(n.mem, root, t, v).page \in Range(m.free)
             /\ Last(n.mem, root, t, v).page \in Range(m.free)
                /\ \A u \in Tables, w \in VirtualPages :
                      /\ u # t \/ w # v => SameWalk(m.mem, n.mem, root, u, w)
                      /\ Walks(m.mem, root, u, w) =>
                            Last(m.mem, root, u, w).page # Last(n.mem, root, t, v).page
        <3>1. TablesInv'
            BY <1>1, <2>5, <2>9, <2>10, <2>12 DEF TablesInv, Sound
        <3>2. \A u \in Tables, w \in VirtualPages :
                 /\ u # t \/ w # v => KeepsWalk(u, w)
                 /\ Walks(mem, root, u, w) =>
                       Last(mem, root, u, w).page # Last(mem', root', t, v).page
            BY <1>1, <2>2, <2>9, <2>12 DEF KeepsWalk, SameWalk
        <3>3. MapsOnly(t, v, flags)
            BY <1>1, <2>2, <2>4, <2>9, <2>12, <3>2 DEF MapsOnly
        <3> QED BY <1>1, <3>1, <3>3
    <2> QED BY <2>8, <2>11, <2>12
<1> QED BY <1>1, <1>2, <1>3, <1>4

(***************************************************************************)
(* What the proofs need of the system: not both that tables are given back *)
(* and that the pages of a process may hold what looks like an entry.      *)
(***************************************************************************)
NoStaleEntries == ~(Deallocates /\ StoresEntries)

(* Pages that agree on the directories agree on the translations.          *)
LEMMA DirectoriesKeep ==
    ASSUME TablesInv, NEW K, Tidy(K, Now, root, leaked), root' = root,
           \A e \in Pages : K[e] \in 1 .. 3 => mem'[e] = mem[e]
    PROVE  KeepsWalks
<1> SUFFICES ASSUME NEW u \in Tables, NEW w \in VirtualPages
             PROVE  KeepsWalk(u, w)
    BY DEF KeepsWalks
<1> DEFINE S == {e \in Pages : K[e] \in 1 .. 3}
<1>1. Now \in Machines /\ Now.mem = mem /\ mem \in Memories /\ root \in Roots
    BY NowTyped DEF TablesInv, Typed, Now
<1>2. root[u] # NoPage => root[u] \in S
    BY <1>1 DEF Tidy, RootsAre, Roots
<1>3. ASSUME NEW d \in Pages, NEW i \in Index, K[d] \in 2 .. 3, mem[d][i].v
      PROVE  mem[d][i].page \in S
    <2>1. Leads(K, mem, d, i) /\ mem[d][i].page \in Pages
        BY <1>1, <1>3 DEF Leads, Memories, GoodEntries
    <2>2. K[mem[d][i].page] = K[d] - 1
        BY <1>1, <2>1 DEF Tidy, Trees, Levels
    <2> QED BY <1>3, <2>1, <2>2
<1>4. \A e \in Pages : e \in S => mem'[e] = mem[e]
    OBVIOUS
<1> HIDE DEF S
<1>5. Closed(S, K, Now.mem, root, u)
    BY <1>1, <1>2, <1>3 DEF Closed
<1>6. Agree(S, Now.mem, mem')
    BY <1>1, <1>4 DEF Agree
<1>7. root'[u] = root[u]
    OBVIOUS
<1>8. SameWays(Now.mem, root, mem', root', u, w)
    BY <1>1, <1>5, <1>6, <1>7, SameWay
<1> QED BY <1>1, <1>8 DEF SameWays, KeepsWalk

(* A store through a virtual address changes a page that is mapped.        *)
LEMMA StoreKeeps ==
    ASSUME NoStaleEntries, TablesInv, NEW t \in Tables, NEW v \in Asked, NEW s \in Stores,
           Store(t, v, s[1], s[2])
    PROVE  TablesInv' /\ root' = root /\ KeepsWalks /\ errorOccurred' \in BOOLEAN
<1> DEFINE i == s[1]
           c == s[2]
<1>1. /\ ~errorOccurred /\ root[t] # NoPage /\ root' = root /\ leaked' = leaked
      /\ v \in VirtualPages
    BY AskedAssumption DEF Store
<1>2. CASE ~IsVirtualPageAllocated(t, v)
    <2>1. Become(Error(Now)) /\ UNCHANGED <<root, leaked>>
        BY <1>2 DEF Store
    <2> QED BY <1>1, <2>1, ErrorStops
<1>3. CASE IsVirtualPageAllocated(t, v)
    <2> DEFINE q == VirtualToPhysical(t, v)
               N == [mem EXCEPT ![q][i] = c]
               m == [mem |-> N, free |-> free, err |-> errorOccurred]
    <2>1. PICK K : Tidy(K, Now, root, leaked)
        BY <1>1 DEF TablesInv, Sound
    <2>2. /\ Now \in Machines /\ Now.mem = mem /\ mem \in Memories /\ free \in Pools
          /\ root \in Roots /\ leaked \subseteq Pages /\ errorOccurred \in BOOLEAN
        BY NowTyped DEF TablesInv, Typed, Now
    <2>3. /\ K \in [Pages -> 0 .. 5] /\ Trees(K, mem) /\ PoolIs(K, free)
          /\ RootsAre(K, root) /\ LostAre(K, leaked)
        BY <2>1 DEF Tidy, Now
    <2>4. q \in Pages /\ K[q] = 0
        <3>1. Walks(Now.mem, root, t, v) /\ q = Last(Now.mem, root, t, v).page
            BY <1>1, <1>3, <2>2, AllocatedWalks
        <3> HIDE DEF q
        <3>2. Last(Now.mem, root, t, v).page \in Pages /\ K[Last(Now.mem, root, t, v).page] = 0
            BY <1>1, <2>1, <2>2, <3>1, WayDown
        <3> QED BY <3>1, <3>2
    <2>5. i \in Index /\ c \in GoodEntries /\ (~StoresEntries => ~c.v)
        <3>1. CASE StoresEntries
            <4>1. s \in Index \X {Entry(p, {"R", "W", "X"}) : p \in Pages}
                BY <3>1 DEF Stores
            <4>2. i \in Index /\ \E p \in Pages : c = Entry(p, {"R", "W", "X"})
                BY <4>1
            <4> HIDE DEF i, c
            <4>3. \A p \in Pages : Entry(p, {"R", "W", "X"}) \in GoodEntries
                BY DEF Entry, GoodEntries, Entries
            <4> QED BY <3>1, <4>2, <4>3
        <3>2. CASE ~StoresEntries
            <4>1. s = <<0, ZeroEntry>>
                BY <3>2 DEF Stores
            <4>2. i = 0 /\ c = ZeroEntry
                BY <4>1
            <4> HIDE DEF i, c
            <4> QED BY <4>2 DEF ZeroEntry, GoodEntries, Entries, Index
        <3> QED BY <3>1, <3>2
    <2>6. mem' = N /\ free' = free /\ errorOccurred' = errorOccurred
        BY <1>3 DEF Store, Become, Now
    <2> HIDE DEF q, i, c
    <2>7. /\ N \in Memories /\ N[q][i] = c
          /\ \A j \in Index : j # i => N[q][j] = mem[q][j]
          /\ \A e \in Pages : e # q => N[e] = mem[e]
        BY <2>2, <2>4, <2>5 DEF Memories
    <2>8. ~Deallocates \/ Clean(N, q)
        <3> SUFFICES ASSUME Deallocates PROVE Clean(N, q)
            OBVIOUS
        <3>1. Clean(mem, q)
            BY <2>3, <2>4 DEF Trees, CleanPages
        <3>2. ~c.v
            BY <2>5 DEF NoStaleEntries
        <3> QED BY <2>7, <3>1, <3>2 DEF Clean
    <2> HIDE DEF N
    <2>9. [K EXCEPT ![q] = 0] = K
        BY <2>3, <2>4
    <2>10. Trees(K, N)
        <3>1. \A j \in Index : ~Leads(K, mem, q, j)
            BY <2>4 DEF Leads
        <3>2. 0 \in 0 .. 5 /\ ((0 = 0 /\ ~Deallocates) \/ Clean(N, q))
            BY <2>8
        <3>3. Trees([K EXCEPT ![q] = 0], N)
            <4>1. K \in [Pages -> 0 .. 5] /\ N \in Memories /\ q \in Pages /\ mem \in Memories
                BY <2>2, <2>3, <2>4, <2>7
            <4>2. \A e \in Pages : e # q => N[e] = mem[e]
                BY <2>7
            <4> QED BY <2>3, <2>4, <3>1, <3>2, <4>1, <4>2, MoveTrees
        <3> QED BY <2>9, <3>3
    <2>11. Tidy(K, Now', root', leaked')
        <3>1. Now'.mem = N /\ Now'.free = free /\ Now'.err = errorOccurred
            BY <2>6 DEF Now
        <3> QED BY <1>1, <2>3, <2>10, <3>1 DEF Tidy
    <2>12. TablesInv'
        BY <1>1, <2>2, <2>6, <2>7, <2>11 DEF TablesInv, Typed, Sound
    <2>13. KeepsWalks
        <3>1. \A e \in Pages : K[e] \in 1 .. 3 => mem'[e] = mem[e]
            BY <2>4, <2>6, <2>7
        <3> QED BY <1>1, <2>1, <3>1, DirectoriesKeep
    <2> QED BY <1>1, <2>2, <2>6, <2>12, <2>13
<1> QED BY <1>2, <1>3

(* Every page of a tidy state below the roots belongs to one table.        *)
LEMMA HeirsExist ==
    ASSUME NEW K, NEW m \in Machines, NEW r \in Roots, NEW lk, Tidy(K, m, r, lk)
    PROVE  \E O : /\ Heirs(O, K, m.mem)
                  /\ \A u \in Tables : r[u] # NoPage => O[r[u]] = u
<1> DEFINE M == m.mem
           up == [p \in Pages |->
                     CHOOSE d \in Pages : \E i \in Index : Leads(K, M, d, i) /\ M[d][i].page = p]
           table == [p \in Pages |-> CHOOSE u \in Tables : r[u] = p]
           O == [p \in Pages |->
                    IF K[p] = 3 THEN table[p]
                    ELSE IF K[p] = 2 THEN table[up[p]]
                    ELSE IF K[p] = 1 THEN table[up[up[p]]]
                    ELSE table[up[up[up[p]]]]]
<1>1. /\ M \in Memories /\ Levels(K, M) /\ OneParent(K, M) /\ RootsAre(K, r)
      /\ K \in [Pages -> 0 .. 5]
    BY DEF Machines, Tidy, Trees
<1> HIDE DEF M
<1>2. ASSUME NEW d \in Pages, NEW i \in Index, Leads(K, M, d, i)
      PROVE  /\ M[d][i].page \in Pages /\ K[M[d][i].page] = K[d] - 1 /\ K[d] \in 1 .. 3
             /\ up[M[d][i].page] = d
    <2>1. M[d][i].page \in Pages /\ K[M[d][i].page] = K[d] - 1 /\ K[d] \in 1 .. 3
        BY <1>1, <1>2 DEF Memories, GoodEntries, Levels, Leads
    <2>2. \A e \in Pages, j \in Index :
              Leads(K, M, e, j) /\ M[e][j].page = M[d][i].page => e = d
        BY <1>1, <1>2 DEF OneParent
    <2>3. up[M[d][i].page] = d
        <3> DEFINE p == M[d][i].page
                   Parent(e) == \E j \in Index : Leads(K, M, e, j) /\ M[e][j].page = p
        <3>1. up[p] = CHOOSE e \in Pages : Parent(e)
            BY <2>1
        <3>2. Parent(d) /\ \A e \in Pages : Parent(e) => e = d
            BY <1>2, <2>2
        <3> HIDE DEF up, p, Parent
        <3> QED BY <3>1, <3>2 DEF p
    <2> QED BY <2>1, <2>3
<1> HIDE DEF up
<1>3. ASSUME NEW u \in Tables, r[u] # NoPage PROVE r[u] \in Pages /\ K[r[u]] = 3 /\ table[r[u]] = u
    <2>1. r[u] \in Pages /\ K[r[u]] = 3
        BY <1>1, <1>3 DEF Roots, RootsAre
    <2>2. \A x \in Tables : r[x] = r[u] => x = u
        BY <1>1, <1>3 DEF RootsAre
    <2> QED BY <2>1, <2>2
<1> HIDE DEF table
<1>4. \A u \in Tables : r[u] # NoPage => O[r[u]] = u
    BY <1>3
<1>5. ASSUME NEW d \in Pages, NEW i \in Index, Leads(K, M, d, i)
      PROVE  O[M[d][i].page] = O[d]
    <2> DEFINE p == M[d][i].page
    <2>1. p \in Pages /\ K[p] = K[d] - 1 /\ K[d] \in 1 .. 3 /\ up[p] = d
        BY <1>2, <1>5
    <2> HIDE DEF p
    <2>2. CASE K[d] = 3
        <3>1. K[p] = 2
            BY <2>1, <2>2
        <3>2. O[p] = table[up[p]] /\ O[d] = table[d]
            BY <2>1, <2>2, <3>1
        <3>3. up[p] = d
            BY <2>1
        <3> QED BY <3>2, <3>3 DEF p
    <2>3. CASE K[d] = 2
        <3>1. K[p] = 1
            BY <2>1, <2>3
        <3>2. O[p] = table[up[up[p]]] /\ O[d] = table[up[d]]
            BY <2>1, <2>3, <3>1
        <3>3. up[p] = d
            BY <2>1
        <3> QED BY <3>2, <3>3 DEF p
    <2>4. CASE K[d] = 1
        <3>1. K[p] = 0
            BY <2>1, <2>4
        <3>2. O[p] = table[up[up[up[p]]]] /\ O[d] = table[up[up[d]]]
            BY <2>1, <2>4, <3>1
        <3>3. up[p] = d
            BY <2>1
        <3> QED BY <3>2, <3>3 DEF p
    <2>5. K[d] = 1 \/ K[d] = 2 \/ K[d] = 3
        BY <2>1
    <2> QED BY <2>2, <2>3, <2>4, <2>5 DEF p
<1> HIDE DEF O
<1>6. Heirs(O, K, M)
    BY <1>5 DEF Heirs
<1> QED BY <1>4, <1>6 DEF M

(* deallocatePageTable: the other tables keep what they have.              *)
LEMMA DeallocatePageTableKeeps ==
    ASSUME Deallocates, TablesInv, NEW t \in Tables, DeallocatePageTable(t)
    PROVE  /\ TablesInv' /\ ~errorOccurred' /\ root[t] # NoPage
           /\ root' = [root EXCEPT ![t] = NoPage]
           /\ \A u \in Tables, w \in VirtualPages : u # t => KeepsWalk(u, w)
<1> DEFINE d == root[t]
           m == DropL2(Now, d)
           n == [mem |-> m.mem, free |-> <<d>> \o m.free, err |-> m.err]
           s == [root EXCEPT ![t] = NoPage]
<1>1. ~errorOccurred /\ root[t] # NoPage /\ leaked' = leaked /\ root' = s
    BY DEF DeallocatePageTable
<1>2. PICK K : Tidy(K, Now, root, leaked)
    BY <1>1 DEF TablesInv, Sound
<1>3. /\ Now \in Machines /\ Now.mem = mem /\ mem \in Memories
      /\ root \in Roots /\ leaked \subseteq Pages
    BY NowTyped DEF TablesInv, Typed, Now
<1>4. PICK O : Heirs(O, K, Now.mem) /\ \A u \in Tables : root[u] # NoPage => O[root[u]] = u
    BY <1>2, <1>3, HeirsExist
<1>5. d \in Pages /\ K[d] = 3 /\ O[d] = t
    <2>1. d \in Pages
        BY <1>1, <1>3 DEF Roots
    <2>2. K[d] = 3
        BY <1>2, <2>1 DEF Tidy, RootsAre
    <2> QED BY <1>1, <1>4, <2>1, <2>2
<1>6. Emptied(3, K, O, Now, d, root, leaked, m)
    <2>1. Empties(3, root, leaked)
        BY DropEmpties
    <2>2. Dropped(3, Now, d) = m
        BY DEF Dropped
    <2> HIDE DEF d, m
    <2> QED BY <1>2, <1>3, <1>4, <1>5, <2>1, <2>2 DEF Empties
<1> HIDE DEF m
<1>7. PICK J : Tidy(J, m, root, leaked) /\ Stays(3, K, J, O, Now, m, d)
    BY <1>6 DEF Emptied, Left
<1>8. /\ m \in Machines /\ Clean(m.mem, d) /\ m.mem \in Memories /\ m.free \in Pools
      /\ m.err \in BOOLEAN
    BY <1>6 DEF Emptied, Left, Machines
<1>9. /\ J \in [Pages -> 0 .. 5] /\ Trees(J, m.mem) /\ PoolIs(J, m.free)
      /\ RootsAre(J, root) /\ LostAre(J, leaked) /\ ~m.err
    BY <1>7 DEF Tidy
<1>10. J[d] = 3 /\ d \notin Range(m.free) /\ Distinct(m.free)
    <2>1. J[d] = 3
        BY <1>5, <1>9 DEF RootsAre
    <2> QED BY <1>5, <1>9, <2>1 DEF PoolIs
<1>11. /\ Len(m.free) # NumPages /\ <<d>> \o m.free \in Pools
       /\ Distinct(<<d>> \o m.free) /\ Range(<<d>> \o m.free) = Range(m.free) \cup {d}
    <2> HIDE DEF d
    <2> QED BY <1>5, <1>8, <1>10, PoolPush
<1>12. n \in Machines /\ Freed(m, d) = n
    <2> HIDE DEF d
    <2>1. Freed(m, d) = n
        BY <1>8, <1>9, <1>11 DEF Freed, Machines
    <2> QED BY <1>8, <1>11, <2>1 DEF Machines
<1>13. Become(n)
    BY <1>12 DEF DeallocatePageTable, m
<1> DEFINE H == [J EXCEPT ![d] = 4]
<1>14. H \in [Pages -> 0 .. 5] /\ H[d] = 4 /\ \A q \in Pages : q # d => H[q] = J[q]
    BY <1>5, <1>9
<1>15. Trees(H, m.mem)
    <2>1. \A j \in Index : ~Leads(J, m.mem, d, j)
        BY <1>8 DEF Leads, Clean
    <2>2. 4 \in 0 .. 5 /\ ~(J[d] \in 0 .. 2 \/ 4 \in 0 .. 2)
        BY <1>10
    <2> HIDE DEF d
    <2> QED BY <1>5, <1>8, <1>9, <2>1, <2>2, MoveTrees
<1> HIDE DEF H
<1>16. PoolIs(H, <<d>> \o m.free)
    BY <1>5, <1>9, <1>11, <1>14 DEF PoolIs
<1>17. s \in Roots /\ s[t] = NoPage /\ \A u \in Tables : u # t => s[u] = root[u]
    BY <1>3 DEF Roots
<1>18. RootsAre(H, s)
    <2>1. \A u \in Tables : u # t => root[u] # d
        BY <1>1, <1>9 DEF RootsAre
    <2>2. \A u, x \in Tables : s[u] # NoPage /\ s[u] = s[x] => u = x
        BY <1>9, <1>17 DEF RootsAre
    <2>3. ASSUME NEW q \in Pages PROVE H[q] = 3 <=> \E u \in Tables : s[u] = q
        <3>1. CASE q = d
            <4>1. \A u \in Tables : s[u] # d
                BY <1>1, <1>17, <2>1
            <4> QED BY <1>14, <3>1, <4>1
        <3>2. CASE q # d
            <4>1. q # NoPage
                BY DEF Pages, NoPage
            <4>2. \A u \in Tables : s[u] = q <=> root[u] = q
                BY <1>17, <3>2, <4>1
            <4> QED BY <1>9, <1>14, <3>2, <4>2 DEF RootsAre
        <3> QED BY <3>1, <3>2
    <2> HIDE DEF s
    <2> QED BY <2>2, <2>3 DEF RootsAre
<1>19. LostAre(H, leaked)
    BY <1>5, <1>9, <1>10, <1>14 DEF LostAre
<1> HIDE DEF s
<1>20. Tidy(H, n, s, leaked)
    BY <1>9, <1>14, <1>15, <1>16, <1>18, <1>19 DEF Tidy
<1>21. n.mem = m.mem /\ ~n.err
    BY <1>9
<1> HIDE DEF n, d
<1>22. /\ Now' = n /\ mem' = m.mem /\ errorOccurred' = n.err
       /\ mem' \in Memories /\ free' \in Pools /\ errorOccurred' \in BOOLEAN
    BY <1>12, <1>13, <1>21, BecomeNow
<1>23. TablesInv'
    BY <1>1, <1>3, <1>17, <1>20, <1>22 DEF TablesInv, Typed, Sound
<1>24. ASSUME NEW u \in Tables, NEW w \in VirtualPages, u # t PROVE KeepsWalk(u, w)
    <2> DEFINE S == {e \in Pages : O[e] = u}
    <2>1. root[u] # NoPage => root[u] \in S
        BY <1>3, <1>4 DEF Roots
    <2>2. ASSUME NEW e \in Pages, NEW i \in Index, e \in S, K[e] \in 2 .. 3, Now.mem[e][i].v
          PROVE  Now.mem[e][i].page \in S
        <3>1. Leads(K, Now.mem, e, i) /\ Now.mem[e][i].page \in Pages
            BY <1>3, <2>2 DEF Leads, Memories, GoodEntries
        <3> QED BY <1>4, <2>2, <3>1 DEF Heirs
    <2>3. Closed(S, K, Now.mem, root, u)
        <3> HIDE DEF S
        <3> QED BY <2>1, <2>2 DEF Closed
    <2>4. Agree(S, Now.mem, m.mem)
        BY <1>5, <1>7, <1>24 DEF Agree, Stays
    <2>5. s[u] = root[u]
        BY <1>17, <1>24
    <2> HIDE DEF S
    <2>6. SameWays(Now.mem, root, m.mem, s, u, w)
        BY <1>2, <1>3, <2>3, <2>4, <2>5, SameWay
    <2> QED BY <1>1, <1>3, <1>22, <2>6 DEF SameWays, KeepsWalk
<1> QED BY <1>1, <1>21, <1>22, <1>23, <1>24 DEF s

-----------------------------------------------------------------------------
(***************************************************************************)
(* The invariant holds in every state.                                     *)
(***************************************************************************)
LEMMA InitTablesInv ==
    ASSUME Init
    PROVE  TablesInv
<1> DEFINE K == [p \in Pages |-> 4]
<1>1. /\ free = [i \in 1 .. NumPages |-> i] /\ mem = [p \in Pages |-> [i \in Index |-> ZeroEntry]]
      /\ root = [t \in Tables |-> NoPage] /\ errorOccurred = FALSE /\ leaked = {}
    BY DEF Init, Pages
<1>2. free \in Seq(Pages) /\ Len(free) = NumPages
    BY <1>1 DEF Pages
<1>3. free \in Pools
    BY <1>2 DEF Pools
<1>4. ZeroEntry \in GoodEntries /\ ~ZeroEntry.v
    BY DEF ZeroEntry, GoodEntries, Entries
<1>5. mem \in Memories /\ \A p \in Pages : Clean(mem, p)
    <2> HIDE DEF ZeroEntry
    <2> QED BY <1>1, <1>4 DEF Memories, Clean
<1>6. Typed
    BY <1>1, <1>3, <1>5 DEF Typed, Roots
<1>7. K \in [Pages -> 0 .. 5] /\ \A p \in Pages : K[p] = 4
    OBVIOUS
<1> HIDE DEF K
<1>8. Trees(K, mem)
    BY <1>5, <1>7 DEF Trees, CleanPages, Levels, OneParent, Parented, Leads
<1>9. PoolIs(K, free)
    <2>1. Distinct(free)
        BY <1>1, <1>2 DEF Distinct
    <2>2. \A p \in Pages : p \in Range(free)
        BY <1>1 DEF Range, Pages
    <2> QED BY <1>7, <2>1, <2>2 DEF PoolIs
<1>10. RootsAre(K, root) /\ LostAre(K, leaked)
    BY <1>1, <1>7 DEF RootsAre, LostAre, Pages, NoPage
<1>11. Tidy(K, Now, root, leaked)
    <2>1. Now.mem = mem /\ Now.free = free /\ ~Now.err
        BY <1>1 DEF Now
    <2> QED BY <1>7, <1>8, <1>9, <1>10, <2>1 DEF Tidy
<1> QED BY <1>6, <1>11 DEF TablesInv, Sound

LEMMA NextTablesInv ==
    ASSUME NoStaleEntries, TablesInv, [Next]_vars
    PROVE  TablesInv'
<1>1. CASE UNCHANGED vars
    BY <1>1 DEF vars, TablesInv, Typed, Sound, Now
<1>2. ASSUME NEW t \in Tables, AllocatePageTable(t) PROVE TablesInv'
    BY <1>2, AllocatePageTableKeeps
<1>3. ASSUME NEW t \in Tables, NEW v \in Asked, NEW flags \in Permissions,
             AllocateVirtualPage(t, v, flags)
      PROVE  TablesInv'
    BY <1>3, AllocateVirtualPageKeeps
<1>4. ASSUME NEW t \in Tables, NEW v \in Asked, NEW s \in Stores, Store(t, v, s[1], s[2])
      PROVE  TablesInv'
    BY <1>4, StoreKeeps
<1>5. ASSUME NEW t \in Tables, Deallocates, DeallocatePageTable(t) PROVE TablesInv'
    BY <1>5, DeallocatePageTableKeeps
<1> QED BY <1>1, <1>2, <1>3, <1>4, <1>5 DEF Next

THEOREM TablesInvariant == ASSUME NoStaleEntries PROVE Spec => []TablesInv
<1>1. Init => TablesInv
    BY InitTablesInv
<1>2. TablesInv /\ [Next]_vars => TablesInv'
    BY NextTablesInv
<1> QED BY <1>1, <1>2, PTL DEF Spec

(* The types: no entry or pool ever has a number that is not of a page.    *)
THEOREM TypeCorrect == ASSUME NoStaleEntries PROVE Spec => []TypeOK
<1>1. TablesInv => TypeOK
    <2> SUFFICES ASSUME Typed PROVE TypeOK
        BY DEF TablesInv
    <2>1. Range(free) \subseteq Pages /\ Len(free) <= NumPages
        BY DEF Typed, Pools, Range
    <2>2. mem \in [Pages -> [Index -> Entries]]
        BY DEF Typed, Memories, GoodEntries
    <2> QED BY <2>1, <2>2 DEF TypeOK, Typed, Roots
<1> QED BY <1>1, TablesInvariant, PTL

-----------------------------------------------------------------------------
(***************************************************************************)
(* Every page is in one place.                                             *)
(***************************************************************************)
LEMMA OwnersAre ==
    ASSUME TablesInv, NEW K, Tidy(K, Now, root, leaked), NEW o
    PROVE  o \in Owners <=> \/ \E d \in Pages, i \in Index : Leads(K, mem, d, i) /\ o = <<d, i>>
                            \/ \E t \in Existing : o = <<root[t], t>>
<1> DEFINE Level(k) == {d \in Pages : K[d] = k}
           Entry1(k) == {e \in Pages \X Index : Leads(K, mem, e[1], e[2]) /\ K[e[1]] = k}
<1>1. /\ mem \in Memories /\ root \in Roots /\ Levels(K, mem) /\ Parented(K, mem)
      /\ RootsAre(K, root) /\ K \in [Pages -> 0 .. 5]
    BY DEF TablesInv, Typed, Tidy, Trees, Now
<1>2. \A t \in Existing : t \in Tables /\ root[t] \in Level(3)
    BY <1>1 DEF Existing, Roots, RootsAre
<1>3. \A d \in Level(3) : \E t \in Existing : root[t] = d
    BY <1>1 DEF Existing, RootsAre, Pages, NoPage
<1>4. ASSUME NEW k \in 1 .. 3, NEW D, D \subseteq Level(k)
      PROVE  /\ ValidIn(D) \subseteq Entry1(k)
             /\ \A d \in D, i \in Index : Leads(K, mem, d, i) => <<d, i>> \in ValidIn(D)
             /\ Below(ValidIn(D)) \subseteq Level(k - 1)
             /\ \A d \in D, i \in Index :
                   Leads(K, mem, d, i) => mem[d][i].page \in Below(ValidIn(D))
    <2>1. ValidIn(D) \subseteq Entry1(k)
        BY <1>4 DEF ValidIn, Leads
    <2>2. \A d \in D, i \in Index : Leads(K, mem, d, i) => <<d, i>> \in ValidIn(D)
        BY <1>4 DEF ValidIn, Leads
    <2>3. \A e \in Entry1(k) : mem[e[1]][e[2]].page \in Level(k - 1)
        <3> SUFFICES ASSUME NEW d \in Pages, NEW i \in Index, Leads(K, mem, d, i), K[d] = k
                     PROVE  mem[d][i].page \in Level(k - 1)
            OBVIOUS
        <3>1. mem[d][i].page \in Pages
            BY <1>1 DEF Memories, GoodEntries, Leads
        <3> QED BY <1>1, <3>1 DEF Levels
    <2>4. Below(ValidIn(D)) \subseteq Level(k - 1)
        BY <2>1, <2>3 DEF Below
    <2>5. \A d \in D, i \in Index :
             Leads(K, mem, d, i) => mem[d][i].page \in Below(ValidIn(D))
        <3> SUFFICES ASSUME NEW d \in D, NEW i \in Index, Leads(K, mem, d, i)
                     PROVE  mem[d][i].page \in Below(ValidIn(D))
            OBVIOUS
        <3>1. <<d, i>> \in ValidIn(D)
            BY <2>2
        <3> HIDE DEF Level, Entry1
        <3> QED BY <3>1 DEF Below
    <2> QED BY <2>1, <2>2, <2>4, <2>5
<1>5. ASSUME NEW d \in Pages, K[d] \in 0 .. 2
      PROVE  \E e \in Level(K[d] + 1), j \in Index : Leads(K, mem, e, j) /\ mem[e][j].page = d
    <2>1. PICK e \in Pages, j \in Index : Leads(K, mem, e, j) /\ mem[e][j].page = d
        BY <1>1, <1>5 DEF Parented
    <2>2. K[d] = K[e] - 1
        BY <1>1, <2>1 DEF Levels
    <2>3. K[e] = K[d] + 1
        BY <1>1, <2>2
    <2> QED BY <2>1, <2>3
<1>6. ASSUME NEW t \in Existing
      PROVE  LET e2 == ValidIn({root[t]})
                 e1 == ValidIn(Below(e2))
                 e0 == ValidIn(Below(e1))
             IN /\ e2 \subseteq Entry1(3) /\ e1 \subseteq Entry1(2) /\ e0 \subseteq Entry1(1)
                /\ Below(e2) \subseteq Level(2) /\ Below(e1) \subseteq Level(1)
    <2> DEFINE e2 == ValidIn({root[t]})
               e1 == ValidIn(Below(e2))
               e0 == ValidIn(Below(e1))
    <2> HIDE DEF Entry1, Level
    <2>1. {root[t]} \subseteq Level(3)
        BY <1>2, <1>6
    <2>2. e2 \subseteq Entry1(3) /\ Below(e2) \subseteq Level(2)
        <3>1. 3 \in 1 .. 3 /\ 3 - 1 = 2
            OBVIOUS
        <3> QED BY <1>4, <2>1, <3>1
    <2> HIDE DEF e2
    <2>3. e1 \subseteq Entry1(2) /\ Below(e1) \subseteq Level(1)
        <3>1. 2 \in 1 .. 3 /\ 2 - 1 = 1
            OBVIOUS
        <3> QED BY <1>4, <2>2, <3>1
    <2> HIDE DEF e1
    <2>4. e0 \subseteq Entry1(1)
        <3>1. 1 \in 1 .. 3
            OBVIOUS
        <3> QED BY <1>4, <2>3, <3>1
    <2> HIDE DEF e0
    <2> QED BY <2>2, <2>3, <2>4 DEF e2, e1, e0
<1>7. ASSUME NEW d \in Pages, NEW i \in Index, Leads(K, mem, d, i)
      PROVE  \E t \in Existing : <<d, i>> \in TreeEntries(t)
    <2>1. K[d] = 1 \/ K[d] = 2 \/ K[d] = 3
        BY <1>7 DEF Leads
    <2>2. CASE K[d] = 3
        <3>1. PICK t \in Existing : root[t] = d
            BY <1>3, <2>2
        <3>2. <<d, i>> \in ValidIn({root[t]})
            BY <1>7, <3>1 DEF ValidIn, Leads
        <3> QED BY <3>2 DEF TreeEntries
    <2>3. CASE K[d] = 2
        <3>1. PICK e \in Level(3), j \in Index : Leads(K, mem, e, j) /\ mem[e][j].page = d
            BY <1>5, <2>3
        <3>2. PICK t \in Existing : root[t] = e
            BY <1>3
        <3>3. <<e, j>> \in ValidIn({root[t]})
            BY <3>1, <3>2 DEF ValidIn, Leads
        <3>4. d \in Below(ValidIn({root[t]}))
            BY <3>1, <3>3 DEF Below
        <3>5. <<d, i>> \in ValidIn(Below(ValidIn({root[t]})))
            BY <1>7, <3>4 DEF ValidIn, Leads
        <3> QED BY <3>5 DEF TreeEntries
    <2>4. CASE K[d] = 1
        <3>1. PICK c \in Level(2), k \in Index : Leads(K, mem, c, k) /\ mem[c][k].page = d
            BY <1>5, <2>4
        <3>2. PICK e \in Level(3), j \in Index : Leads(K, mem, e, j) /\ mem[e][j].page = c
            BY <1>5, <3>1
        <3>3. PICK t \in Existing : root[t] = e
            BY <1>3
        <3>4. <<e, j>> \in ValidIn({root[t]})
            BY <3>2, <3>3 DEF ValidIn, Leads
        <3>5. c \in Below(ValidIn({root[t]}))
            BY <3>2, <3>4 DEF Below
        <3>6. <<c, k>> \in ValidIn(Below(ValidIn({root[t]})))
            BY <3>1, <3>5 DEF ValidIn, Leads
        <3>7. d \in Below(ValidIn(Below(ValidIn({root[t]}))))
            <4> DEFINE X == ValidIn(Below(ValidIn({root[t]})))
            <4>1. <<c, k>> \in X /\ mem[c][k].page = d
                BY <3>1, <3>6
            <4> HIDE DEF X
            <4>2. d \in Below(X)
                BY <4>1 DEF Below
            <4> QED BY <4>2 DEF X
        <3>8. <<d, i>> \in ValidIn(Below(ValidIn(Below(ValidIn({root[t]})))))
            BY <1>7, <3>7 DEF ValidIn, Leads
        <3> QED BY <3>8 DEF TreeEntries
    <2> QED BY <2>1, <2>2, <2>3, <2>4
<1>8. ASSUME NEW t \in Existing, o \in TreeEntries(t)
      PROVE  \E d \in Pages, i \in Index : Leads(K, mem, d, i) /\ o = <<d, i>>
    <2>1. o \in Entry1(3) \cup Entry1(2) \cup Entry1(1)
        <3> HIDE DEF Entry1, Level
        <3> QED BY <1>6, <1>8 DEF TreeEntries
    <2> QED BY <2>1
<1>9. o \in Owners <=> \/ \E t \in Existing : o \in TreeEntries(t)
                        \/ \E u \in Existing : o = <<root[u], u>>
    <2> DEFINE A == UNION {TreeEntries(t) : t \in Existing}
               B == {<<root[t], t>> : t \in Existing}
    <2>1. Owners = A \cup B
        BY DEF Owners
    <2>2. (o \in A) <=> \E t \in Existing : o \in TreeEntries(t)
        OBVIOUS
    <2>3. (o \in B) <=> \E t \in Existing : o = <<root[t], t>>
        OBVIOUS
    <2> HIDE DEF A, B
    <2> QED BY <2>1, <2>2, <2>3
<1> HIDE DEF Level, Entry1
<1> QED BY <1>7, <1>8, <1>9

(* Every page is in the pool, once, or at one place of one tree, or lost.  *)
THEOREM PagesAccounted == ASSUME NoStaleEntries PROVE Spec => []EveryPageAccounted
<1>1. TablesInv => EveryPageAccounted
    <2> SUFFICES ASSUME TablesInv, ~errorOccurred PROVE EveryPageAccounted
        BY DEF EveryPageAccounted
    <2>1. PICK K : Tidy(K, Now, root, leaked)
        BY DEF TablesInv, Sound
    <2>2. /\ mem \in Memories /\ free \in Pools /\ root \in Roots /\ leaked \subseteq Pages
          /\ K \in [Pages -> 0 .. 5]
          /\ Levels(K, mem) /\ OneParent(K, mem) /\ Parented(K, mem)
          /\ PoolIs(K, free) /\ RootsAre(K, root) /\ LostAre(K, leaked)
        BY <2>1 DEF TablesInv, Typed, Tidy, Trees, Now
    <2>3. \A o : o \in Owners <=> \/ \E d \in Pages, i \in Index : Leads(K, mem, d, i) /\ o = <<d, i>>
                                  \/ \E t \in Existing : o = <<root[t], t>>
        BY <2>1, OwnersAre
    <2>4. ASSUME NEW d \in Pages, NEW i \in Index, Leads(K, mem, d, i)
          PROVE  /\ Owned(<<d, i>>) = mem[d][i].page /\ Owned(<<d, i>>) \in Pages
                 /\ K[Owned(<<d, i>>)] \in 0 .. 2
        <3>1. Owned(<<d, i>>) = mem[d][i].page
            BY DEF Owned
        <3>2. mem[d][i].page \in Pages /\ K[mem[d][i].page] = K[d] - 1
            BY <2>2, <2>4 DEF Memories, GoodEntries, Leads, Levels
        <3>3. K[mem[d][i].page] \in 0 .. 2
            BY <2>4, <3>2 DEF Leads
        <3> QED BY <3>1, <3>2, <3>3
    <2>5. ASSUME NEW t \in Existing
          PROVE  /\ Owned(<<root[t], t>>) = root[t] /\ root[t] \in Pages /\ K[root[t]] = 3
                 /\ t \in Tables /\ root[t] # NoPage
        <3>1. t \in Tables /\ t \notin Index /\ root[t] # NoPage
            BY TablesAssumption DEF Existing, Index
        <3>2. Owned(<<root[t], t>>) = root[t]
            BY <3>1 DEF Owned
        <3> QED BY <2>2, <3>1, <3>2 DEF Roots, RootsAre
    <2>6. Range(free) \subseteq Pages
        BY <2>2 DEF Pools, Range
    <2>7. \A i, j \in 1 .. Len(free) : free[i] = free[j] => i = j
        BY <2>2 DEF PoolIs, Distinct
    <2>8. ASSUME NEW o \in Owners, NEW q \in Owners, Owned(o) = Owned(q) PROVE o = q
        <3>1. CASE /\ \E d \in Pages, i \in Index : Leads(K, mem, d, i) /\ o = <<d, i>>
                   /\ \E d \in Pages, i \in Index : Leads(K, mem, d, i) /\ q = <<d, i>>
            <4>1. PICK d \in Pages, i \in Index : Leads(K, mem, d, i) /\ o = <<d, i>>
                BY <3>1
            <4>2. PICK e \in Pages, j \in Index : Leads(K, mem, e, j) /\ q = <<e, j>>
                BY <3>1
            <4>3. mem[d][i].page = mem[e][j].page
                BY <2>4, <2>8, <4>1, <4>2
            <4>4. d = e /\ i = j
                BY <2>2, <4>1, <4>2, <4>3 DEF OneParent
            <4> QED BY <4>1, <4>2, <4>4
        <3>2. CASE /\ \E t \in Existing : o = <<root[t], t>>
                   /\ \E t \in Existing : q = <<root[t], t>>
            <4>1. PICK t \in Existing : o = <<root[t], t>>
                BY <3>2
            <4>2. PICK u \in Existing : q = <<root[u], u>>
                BY <3>2
            <4>3. root[t] = root[u]
                BY <2>5, <2>8, <4>1, <4>2
            <4>4. t = u
                BY <2>2, <2>5, <4>3 DEF RootsAre
            <4> QED BY <4>1, <4>2, <4>4
        <3>3. ASSUME NEW x, NEW y,
                     \E d \in Pages, i \in Index : Leads(K, mem, d, i) /\ x = <<d, i>>,
                     \E t \in Existing : y = <<root[t], t>>
              PROVE  Owned(x) # Owned(y)
            <4>1. K[Owned(x)] \in 0 .. 2
                BY <2>4, <3>3
            <4>2. K[Owned(y)] = 3
                BY <2>5, <3>3
            <4> QED BY <4>1, <4>2
        <3> QED BY <2>3, <2>8, <3>1, <3>2, <3>3
    <2>9. ASSUME NEW o \in Owners PROVE Owned(o) \in Pages /\ K[Owned(o)] \in 0 .. 3
        <3>1. CASE \E d \in Pages, i \in Index : Leads(K, mem, d, i) /\ o = <<d, i>>
            <4>1. Owned(o) \in Pages /\ K[Owned(o)] \in 0 .. 2
                BY <2>4, <3>1
            <4> QED BY <4>1
        <3>2. CASE \E t \in Existing : o = <<root[t], t>>
            <4>1. Owned(o) \in Pages /\ K[Owned(o)] = 3
                BY <2>5, <3>2
            <4> QED BY <4>1
        <3> QED BY <2>3, <3>1, <3>2
    <2>10. \A o \in Owners : Owned(o) \notin Range(free) \cup leaked
        <3> SUFFICES ASSUME NEW o \in Owners PROVE Owned(o) \notin Range(free) \cup leaked
            OBVIOUS
        <3>1. Owned(o) \in Pages /\ K[Owned(o)] # 4 /\ K[Owned(o)] # 5
            BY <2>9
        <3> QED BY <2>2, <3>1 DEF PoolIs, LostAre
    <2>11. Range(free) \cap leaked = {}
        BY <2>2, <2>6 DEF PoolIs, LostAre
    <2>12. ASSUME NEW p \in Pages
           PROVE  p \in Range(free) \cup leaked \cup {Owned(o) : o \in Owners}
        <3>1. K[p] \in 0 .. 2 \/ K[p] = 3 \/ K[p] = 4 \/ K[p] = 5
            <4>1. K[p] \in 0 .. 5
                BY <2>2
            <4> QED BY <4>1
        <3>2. CASE K[p] \in 0 .. 2
            <4>1. PICK d \in Pages, i \in Index : Leads(K, mem, d, i) /\ mem[d][i].page = p
                BY <2>2, <3>2 DEF Parented
            <4>2. <<d, i>> \in Owners /\ Owned(<<d, i>>) = p
                BY <2>3, <2>4, <4>1
            <4> QED BY <4>2
        <3>3. CASE K[p] = 3
            <4>1. PICK t \in Tables : root[t] = p
                BY <2>2, <3>3 DEF RootsAre
            <4>2. t \in Existing
                BY <4>1 DEF Existing, Pages, NoPage
            <4>3. <<root[t], t>> \in Owners /\ Owned(<<root[t], t>>) = p
                BY <2>3, <2>5, <4>1, <4>2
            <4> QED BY <4>3
        <3> QED BY <2>2, <3>1, <3>2, <3>3 DEF PoolIs, LostAre
    <2>13. {Owned(o) : o \in Owners} \subseteq Pages
        BY <2>9
    <2>14. Range(free) \cup leaked \cup {Owned(o) : o \in Owners} = Pages
        BY <2>2, <2>6, <2>12, <2>13
    <2>15. \A o, q \in Owners : Owned(o) = Owned(q) => o = q
        BY <2>8
    <2> QED BY <2>7, <2>10, <2>11, <2>14, <2>15 DEF EveryPageAccounted
<1> QED BY <1>1, TablesInvariant, PTL

-----------------------------------------------------------------------------
(***************************************************************************)
(* The trees implement the maps of AddressSpaces.                          *)
(***************************************************************************)
Mapping(M, r, u, w) ==
    [table |-> u, virtual |-> w, page |-> Last(M, r, u, w).page,
     flags |-> Last(M, r, u, w).flags]

LEMMA MappingsAre ==
    \A x : x \in Mappings <=> \E u \in Tables, w \in VirtualPages :
                                 Walks(mem, root, u, w) /\ x = Mapping(mem, root, u, w)
<1> DEFINE rec(n) == [table |-> n[1], virtual |-> n[2],
                      page |-> FinalEntry(n[1], n[2]).page, flags |-> FinalEntry(n[1], n[2]).flags]
           D == {n \in Existing \X VirtualPages : IsVirtualPageAllocated(n[1], n[2])}
<1>1. Mappings = {rec(n) : n \in D}
    BY DEF Mappings
<1>2. \A n : n \in D => /\ n[1] \in Tables /\ n[2] \in VirtualPages
                        /\ Walks(mem, root, n[1], n[2]) /\ rec(n) = Mapping(mem, root, n[1], n[2])
    <2> SUFFICES ASSUME NEW u \in Existing, NEW w \in VirtualPages, IsVirtualPageAllocated(u, w)
                 PROVE  u \in Tables /\ Walks(mem, root, u, w)
                        /\ rec(<<u, w>>) = Mapping(mem, root, u, w)
        OBVIOUS
    <2>1. u \in Tables /\ root[u] # NoPage
        BY DEF Existing
    <2>2. Walks(mem, root, u, w)
        BY <2>1, AllocatedWalks
    <2>3. FinalEntry(u, w) = Last(mem, root, u, w)
        BY DEF FinalEntry, Last, Third, Second
    <2> QED BY <2>1, <2>2, <2>3 DEF Mapping
<1>3. \A u \in Tables, w \in VirtualPages : Walks(mem, root, u, w) =>
         <<u, w>> \in D /\ rec(<<u, w>>) = Mapping(mem, root, u, w)
    <2> SUFFICES ASSUME NEW u \in Tables, NEW w \in VirtualPages, Walks(mem, root, u, w)
                 PROVE  <<u, w>> \in D /\ rec(<<u, w>>) = Mapping(mem, root, u, w)
        OBVIOUS
    <2>1. root[u] # NoPage /\ u \in Existing
        BY DEF Walks, Reaches, Enters, Existing
    <2>2. IsVirtualPageAllocated(u, w)
        BY <2>1, AllocatedWalks
    <2>3. FinalEntry(u, w) = Last(mem, root, u, w)
        BY DEF FinalEntry, Last, Third, Second
    <2> QED BY <2>1, <2>2, <2>3 DEF Mapping
<1> HIDE DEF rec, D
<1> TAKE x
<1>4. ASSUME x \in Mappings
      PROVE  \E u \in Tables, w \in VirtualPages :
                Walks(mem, root, u, w) /\ x = Mapping(mem, root, u, w)
    BY <1>1, <1>2, <1>4
<1>5. ASSUME NEW u \in Tables, NEW w \in VirtualPages,
             Walks(mem, root, u, w), x = Mapping(mem, root, u, w)
      PROVE  x \in Mappings
    BY <1>1, <1>3, <1>5
<1> QED BY <1>4, <1>5

LEMMA MappingsAreNext ==
    (\A x : x \in Mappings <=> \E u \in Tables, w \in VirtualPages :
                                 Walks(mem, root, u, w) /\ x = Mapping(mem, root, u, w))'
BY MappingsAre, PTL

LEMMA KeptMapping ==
    ASSUME NEW u, NEW w, KeepsWalk(u, w), Walks(mem, root, u, w)
    PROVE  Mapping(mem', root', u, w) = Mapping(mem, root, u, w)
BY DEF KeepsWalk, Mapping

LEMMA KeptMappings ==
    ASSUME KeepsWalks
    PROVE  Mappings' = Mappings
<1>1. ASSUME NEW u \in Tables, NEW w \in VirtualPages
      PROVE  /\ Walks(mem', root', u, w) <=> Walks(mem, root, u, w)
             /\ Walks(mem, root, u, w) => Mapping(mem', root', u, w) = Mapping(mem, root, u, w)
    BY KeptMapping DEF KeepsWalks, KeepsWalk
<1>2. \A x : x \in Mappings' <=> \E u \in Tables, w \in VirtualPages :
                Walks(mem', root', u, w) /\ x = Mapping(mem', root', u, w)
    BY MappingsAreNext
<1>3. \A x : x \in Mappings' <=> x \in Mappings
    BY <1>1, <1>2, MappingsAre
<1> QED BY <1>3

SpacesStep == Spaces!Next \/ UNCHANGED <<Existing, Mappings, errorOccurred>>

LEMMA ErrorIsStop ==
    ASSUME ~errorOccurred, TablesInv, errorOccurred' = TRUE, root' = root, KeepsWalks
    PROVE  SpacesStep
<1>1. Mappings' = Mappings /\ Existing' = Existing
    BY KeptMappings DEF Existing
<1> QED BY <1>1 DEF SpacesStep, Spaces!Next, Spaces!Stop

LEMMA CreateStep ==
    ASSUME TablesInv, NEW t \in Tables, AllocatePageTable(t)
    PROVE  SpacesStep
<1>1. ~errorOccurred /\ root[t] = NoPage /\ errorOccurred \in BOOLEAN /\ root \in Roots
    BY DEF AllocatePageTable, TablesInv, Typed
<1>2. TablesInv' /\ KeepsWalks
    BY AllocatePageTableKeeps
<1>3. CASE errorOccurred' = TRUE /\ root' = root
    BY <1>1, <1>2, <1>3, ErrorIsStop
<1>4. ASSUME ~errorOccurred', NEW p \in Pages, root' = [root EXCEPT ![t] = p]
      PROVE  SpacesStep
    <2>1. Mappings' = Mappings
        BY <1>2, KeptMappings
    <2>2. root'[t] = p /\ p # NoPage /\ \A u \in Tables : u # t => root'[u] = root[u]
        BY <1>1, <1>4 DEF Roots, Pages, NoPage
    <2>3. t \notin Existing /\ Existing' = Existing \cup {t}
        <3>1. Existing' = {u \in Tables : root'[u] # NoPage}
            BY DEF Existing
        <3>2. \A u \in Tables : root'[u] # NoPage <=> root[u] # NoPage \/ u = t
            BY <2>2
        <3> QED BY <1>1, <3>1, <3>2 DEF Existing
    <2>4. errorOccurred' = errorOccurred
        BY <1>1, <1>2, <1>4 DEF TablesInv, Typed
    <2> QED BY <1>1, <2>1, <2>3, <2>4 DEF SpacesStep, Spaces!Next, Spaces!Create
<1> QED BY <1>3, <1>4, AllocatePageTableKeeps

LEMMA MapStep ==
    ASSUME TablesInv, NEW t \in Tables, NEW v \in Asked, NEW flags \in Permissions,
           AllocateVirtualPage(t, v, flags)
    PROVE  SpacesStep
<1>1. ~errorOccurred /\ v \in VirtualPages /\ errorOccurred \in BOOLEAN
    BY AskedAssumption DEF AllocateVirtualPage, TablesInv, Typed
<1>2. TablesInv' /\ root' = root
    BY AllocateVirtualPageKeeps
<1>3. CASE errorOccurred' = TRUE /\ KeepsWalks
    BY <1>1, <1>2, <1>3, ErrorIsStop
<1>4. CASE MapsOnly(t, v, flags)
    <2>0. /\ ~errorOccurred' /\ root[t] # NoPage /\ ~Walks(mem, root, t, v)
          /\ Walks(mem', root', t, v) /\ Last(mem', root', t, v).flags = flags
          /\ \A u \in Tables, w \in VirtualPages :
                /\ u # t \/ w # v => KeepsWalk(u, w)
                /\ Walks(mem, root, u, w) =>
                      Last(mem, root, u, w).page # Last(mem', root', t, v).page
        BY <1>4 DEF MapsOnly
    <2> DEFINE p == Last(mem', root', t, v).page
               new == [table |-> t, virtual |-> v, page |-> p, flags |-> flags]
    <2>1. Mapping(mem', root', t, v) = new
        BY <2>0 DEF Mapping
    <2>2. p \in Pages
        <3>1. Now' \in Machines /\ Now'.mem = mem' /\ root' \in Roots
            BY <1>2, <2>0 DEF TablesInv, Typed, Machines, Now
        <3>2. PICK K : Tidy(K, Now', root', leaked')
            BY <1>2, <2>0 DEF TablesInv, Sound
        <3> QED BY <1>1, <2>0, <3>1, <3>2, WayDown
    <2> HIDE DEF p
    <2>3. ASSUME NEW u \in Tables, NEW w \in VirtualPages
          PROVE  /\ Walks(mem', root', u, w) <=> Walks(mem, root, u, w) \/ (u = t /\ w = v)
                 /\ Walks(mem, root, u, w) =>
                       /\ Mapping(mem', root', u, w) = Mapping(mem, root, u, w)
                       /\ Mapping(mem, root, u, w).page # p
        <3>1. CASE u = t /\ w = v
            BY <2>0, <3>1
        <3>2. CASE u # t \/ w # v
            <4>1. KeepsWalk(u, w)
                BY <2>0, <3>2
            <4>2. Walks(mem, root, u, w) =>
                     Mapping(mem', root', u, w) = Mapping(mem, root, u, w)
                BY <4>1, KeptMapping
            <4> QED BY <2>0, <3>2, <4>1, <4>2 DEF KeepsWalk, Mapping, p
        <3> QED BY <3>1, <3>2
    <2> HIDE DEF new
    <2>4. \A x : x \in Mappings' <=> \E u \in Tables, w \in VirtualPages :
                    Walks(mem', root', u, w) /\ x = Mapping(mem', root', u, w)
        BY MappingsAreNext
    <2>5. \A x : x \in Mappings' <=> x \in Mappings \/ x = new
        BY <1>1, <2>1, <2>3, <2>4, MappingsAre
    <2>6. Mappings' = Mappings \cup {new}
        BY <2>5
    <2>7. \A m \in Mappings : m.page # p /\ ~(m.table = t /\ m.virtual = v)
        <3> SUFFICES ASSUME NEW m \in Mappings PROVE m.page # p /\ ~(m.table = t /\ m.virtual = v)
            OBVIOUS
        <3>1. PICK u \in Tables, w \in VirtualPages :
                 Walks(mem, root, u, w) /\ m = Mapping(mem, root, u, w)
            BY MappingsAre
        <3>2. m.page # p
            BY <2>3, <3>1
        <3>3. m.table = u /\ m.virtual = w
            BY <3>1 DEF Mapping
        <3> QED BY <2>0, <3>1, <3>2, <3>3
    <2>8. t \in Existing /\ Existing' = Existing
        BY <1>2, <2>0 DEF Existing
    <2>9. errorOccurred' = errorOccurred
        BY <1>1, <1>2, <2>0 DEF TablesInv, Typed
    <2>10. p \in Pages \ {m.page : m \in Mappings}
        BY <2>2, <2>7
    <2>11. Spaces!Map(t, v, flags)
        BY <1>1, <2>6, <2>7, <2>8, <2>9, <2>10 DEF Spaces!Map, new
    <2>12. \E w \in Asked, f \in Permissions : Spaces!Map(t, w, f)
        BY <2>11
    <2> QED BY <2>12 DEF SpacesStep, Spaces!Next
<1> QED BY <1>3, <1>4, AllocateVirtualPageKeeps

LEMMA DestroyStep ==
    ASSUME Deallocates, TablesInv, NEW t \in Tables, DeallocatePageTable(t)
    PROVE  SpacesStep
<1>1. ~errorOccurred /\ errorOccurred \in BOOLEAN /\ root \in Roots
    BY DEF DeallocatePageTable, TablesInv, Typed
<1>2. /\ TablesInv' /\ ~errorOccurred' /\ root[t] # NoPage
      /\ root' = [root EXCEPT ![t] = NoPage]
      /\ \A u \in Tables, w \in VirtualPages : u # t => KeepsWalk(u, w)
    BY DeallocatePageTableKeeps
<1>3. root'[t] = NoPage /\ \A u \in Tables : u # t => root'[u] = root[u]
    BY <1>1, <1>2 DEF Roots
<1>4. t \in Existing /\ Existing' = Existing \ {t}
    <2>1. Existing' = {u \in Tables : root'[u] # NoPage}
        BY DEF Existing
    <2>2. \A u \in Tables : root'[u] # NoPage <=> root[u] # NoPage /\ u # t
        BY <1>3
    <2> QED BY <1>2, <2>1, <2>2 DEF Existing
<1>5. ASSUME NEW u \in Tables, NEW w \in VirtualPages
      PROVE  /\ Walks(mem', root', u, w) <=> Walks(mem, root, u, w) /\ u # t
             /\ Walks(mem, root, u, w) /\ u # t =>
                   Mapping(mem', root', u, w) = Mapping(mem, root, u, w)
             /\ Mapping(mem, root, u, w).table = u
    <2>1. CASE u = t
        BY <1>3, <2>1 DEF Walks, Reaches, Enters, Mapping
    <2>2. CASE u # t
        BY <1>2, <2>2, KeptMapping DEF KeepsWalk, Mapping
    <2> QED BY <2>1, <2>2
<1>6. \A x : x \in Mappings' <=> \E u \in Tables, w \in VirtualPages :
                Walks(mem', root', u, w) /\ x = Mapping(mem', root', u, w)
    BY MappingsAreNext
<1>7. \A x : x \in Mappings' <=> x \in Mappings /\ x.table # t
    BY <1>5, <1>6, MappingsAre
<1>8. Mappings' = {m \in Mappings : m.table # t}
    BY <1>7
<1>9. errorOccurred' = errorOccurred
    BY <1>1, <1>2 DEF TablesInv, Typed
<1>10. Spaces!Destroy(t)
    BY <1>1, <1>4, <1>8, <1>9 DEF Spaces!Destroy
<1> QED BY <1>10 DEF SpacesStep, Spaces!Next

(* A store maps nothing: where a process keeps its data, there is no       *)
(* directory of any table.                                                 *)
LEMMA StoreStep ==
    ASSUME NoStaleEntries, TablesInv, NEW t \in Tables, NEW v \in Asked, NEW s \in Stores,
           Store(t, v, s[1], s[2])
    PROVE  SpacesStep
<1>1. ~errorOccurred /\ errorOccurred \in BOOLEAN
    BY DEF Store, TablesInv, Typed
<1>2. TablesInv' /\ root' = root /\ KeepsWalks /\ errorOccurred' \in BOOLEAN
    BY StoreKeeps
<1>3. CASE errorOccurred'
    <2>1. errorOccurred' = TRUE
        BY <1>2, <1>3
    <2> QED BY <1>1, <1>2, <2>1, ErrorIsStop
<1>4. CASE ~errorOccurred'
    <2>1. errorOccurred' = errorOccurred
        BY <1>1, <1>2, <1>4
    <2>2. Mappings' = Mappings /\ Existing' = Existing
        BY <1>2, KeptMappings DEF Existing
    <2> QED BY <2>1, <2>2 DEF SpacesStep
<1> QED BY <1>3, <1>4

(* The refinement: every call is a step of AddressSpaces or changes none   *)
(* of its state.                                                           *)
THEOREM TablesImplementSpaces == ASSUME NoStaleEntries PROVE Spec => ImplementsAddressSpaces
<1>1. Init => Spaces!Init
    <2> SUFFICES ASSUME Init PROVE Spaces!Init
        OBVIOUS
    <2>1. \A u \in Tables : root[u] = NoPage
        BY DEF Init
    <2>2. Existing = {}
        BY <2>1 DEF Existing
    <2>3. \A x : x \notin Mappings
        BY <2>1, MappingsAre DEF Walks, Reaches, Enters
    <2> QED BY <2>2, <2>3 DEF Init, Spaces!Init
<1>2. TablesInv /\ [Next]_vars => [Spaces!Next]_Spaces!spaceVars
    <2> SUFFICES ASSUME TablesInv, [Next]_vars PROVE SpacesStep
        BY DEF SpacesStep, Spaces!spaceVars
    <2>1. CASE UNCHANGED vars
        <3>1. Existing' = Existing /\ errorOccurred' = errorOccurred
            BY <2>1 DEF vars, Existing
        <3>2. KeepsWalks
            BY <2>1 DEF vars, KeepsWalks, KeepsWalk
        <3> QED BY <3>1, <3>2, KeptMappings DEF SpacesStep
    <2>2. ASSUME NEW t \in Tables, AllocatePageTable(t) PROVE SpacesStep
        BY <2>2, CreateStep
    <2>3. ASSUME NEW t \in Tables, NEW v \in Asked, NEW flags \in Permissions,
                 AllocateVirtualPage(t, v, flags)
          PROVE  SpacesStep
        BY <2>3, MapStep
    <2>4. ASSUME NEW t \in Tables, NEW v \in Asked, NEW s \in Stores, Store(t, v, s[1], s[2])
          PROVE  SpacesStep
        BY <2>4, StoreStep
    <2>5. ASSUME NEW t \in Tables, Deallocates, DeallocatePageTable(t) PROVE SpacesStep
        BY <2>5, DestroyStep
    <2> QED BY <2>1, <2>2, <2>3, <2>4, <2>5 DEF Next
<1> QED BY <1>1, <1>2, TablesInvariant, PTL DEF Spec, Spaces!Spec, ImplementsAddressSpaces

(* Translation, in terms of the way down.                                  *)
LEMMA TranslationIs ==
    ASSUME NEW u \in Tables, NEW w \in VirtualPages
    PROVE  /\ Translation(u, w) = IF Walks(mem, root, u, w) THEN Last(mem, root, u, w).page
                                  ELSE NoPage
           /\ Translation(u, w)' = IF Walks(mem', root', u, w) THEN Last(mem', root', u, w).page
                                   ELSE NoPage
<1>1. Translation(u, w) = IF Walks(mem, root, u, w) THEN Last(mem, root, u, w).page ELSE NoPage
    BY AllocatedWalks DEF Translation, Walks, Reaches, Enters
<1>2. Translation(u, w)' = IF Walks(mem', root', u, w) THEN Last(mem', root', u, w).page
                           ELSE NoPage
    BY DEF Translation, Walks, Reaches, Enters, IsVirtualPageAllocated, VirtualToPhysical,
           FinalEntry, Last, Third, Second
<1> QED BY <1>1, <1>2

(* A virtual page changes its translation only by getting a page of the    *)
(* pool, with its table staying, or by losing its table.                   *)
THEOREM TranslationsFresh == ASSUME NoStaleEntries PROVE Spec => MappingsAreFresh
<1> DEFINE Fresh(u, w) == \/ Translation(u, w)' = Translation(u, w)
                          \/ Translation(u, w)' \in Range(free) \cup {NoPage}
<1>1. ASSUME NEW u \in Tables, NEW w \in VirtualPages, KeepsWalk(u, w) PROVE Fresh(u, w)
    BY <1>1, TranslationIs DEF KeepsWalk
<1>2. TablesInv /\ [Next]_vars => \A u \in Tables, w \in VirtualPages : Fresh(u, w)
    <2> SUFFICES ASSUME TablesInv, [Next]_vars, NEW u \in Tables, NEW w \in VirtualPages
                 PROVE  Fresh(u, w)
        OBVIOUS
    <2>1. CASE UNCHANGED vars
        BY <1>1, <2>1 DEF vars, KeepsWalk
    <2>2. ASSUME NEW t \in Tables, AllocatePageTable(t) PROVE Fresh(u, w)
        <3>1. KeepsWalk(u, w)
            BY <2>2, AllocatePageTableKeeps DEF KeepsWalks
        <3> QED BY <1>1, <3>1
    <2>3. ASSUME NEW t \in Tables, NEW v \in Asked, NEW flags \in Permissions,
                 AllocateVirtualPage(t, v, flags)
          PROVE  Fresh(u, w)
        <3>1. CASE KeepsWalk(u, w)
            BY <1>1, <3>1
        <3>2. CASE ~KeepsWalk(u, w)
            <4>1. MapsOnly(t, v, flags)
                BY <2>3, <3>2, AllocateVirtualPageKeeps DEF KeepsWalks
            <4>2. u = t /\ w = v
                BY <3>2, <4>1 DEF MapsOnly
            <4>3. Walks(mem', root', u, w) /\ Last(mem', root', u, w).page \in Range(free)
                BY <4>1, <4>2 DEF MapsOnly
            <4> QED BY <4>3, TranslationIs
        <3> QED BY <3>1, <3>2
    <2>4. ASSUME NEW t \in Tables, NEW v \in Asked, NEW s \in Stores, Store(t, v, s[1], s[2])
          PROVE  Fresh(u, w)
        <3>1. KeepsWalk(u, w)
            BY <2>4, StoreKeeps DEF KeepsWalks
        <3> QED BY <1>1, <3>1
    <2>5. ASSUME NEW t \in Tables, Deallocates, DeallocatePageTable(t) PROVE Fresh(u, w)
        <3>1. CASE u # t
            BY <1>1, <2>5, <3>1, DeallocatePageTableKeeps
        <3>2. CASE u = t
            <4>1. root'[u] = NoPage
                BY <2>5, <3>2, DeallocatePageTableKeeps DEF TablesInv, Typed, Roots
            <4>2. ~Walks(mem', root', u, w)
                BY <4>1 DEF Walks, Reaches, Enters
            <4> QED BY <4>2, TranslationIs
        <3> QED BY <3>1, <3>2
    <2> QED BY <2>1, <2>2, <2>3, <2>4, <2>5 DEF Next
<1>3. TablesInv /\ [Next]_vars =>
         [\A t \in Tables, v \in VirtualPages :
             \/ Translation(t, v)' = Translation(t, v)
             \/ Translation(t, v)' \in Range(free) \cup {NoPage}]_vars
    BY <1>2
<1> QED BY <1>3, TablesInvariant, PTL DEF Spec, MappingsAreFresh
=============================================================================
