------------------------------- MODULE VmeProofs ------------------------------
(***************************************************************************)
(* Proofs about Vme: trees of tables and what map, ptwalk and teardown do  *)
(* to them, the inductive invariant IInv with one lemma for each action    *)
(* (Keeps...), the safety properties, and the refinement of AddressSpace,  *)
(* with one lemma for each step that changes what the processors find      *)
(* (Sees...).                                                              *)
(***************************************************************************)
EXTENDS Vme, FiniteSetTheorems, SequenceTheorems, TLAPS

\* The assumptions, one by one.
LEMMA Basics ==
  /\ None \notin Frame /\ Kpt \notin Frame /\ None \notin Page /\ Kpt # None
  /\ Frame \cap Page = {}
  /\ Levels \in Nat /\ Levels >= 1 /\ LastIndex \in Nat
  /\ Kernel \subseteq Index
  /\ \A va \in Va : va \in [1 .. Levels -> Index] /\ va[1] \notin Kernel
BY VmeAssumption DEF Index

\* Every nonempty set of numbers has a least one: the intervals from 0 are well
\* founded.
LEMMA Least ==
  ASSUME NEW S \in SUBSET Nat, S # {}
  PROVE  \E m \in S : \A n \in S : m <= n
<1> DEFINE T == {0 .. n : n \in S}
<1>1. T \subseteq FiniteSubsetsOf(Nat)
  <2>1. \A n \in Nat : IsFiniteSet(0 .. n) /\ 0 .. n \in SUBSET Nat
    BY FS_Interval
  <2>. QED BY <2>1 DEF FiniteSubsetsOf
<1>2. T # {}
  OBVIOUS
<1> HIDE DEF T
<1>3. PICK x \in T : \A y \in T : ~ (<<y, x>> \in StrictSubsetOrdering(Nat))
  BY <1>1, <1>2, FS_StrictSubsetOrderingWellFounded, WFMin
<1>4. PICK m \in S : x = 0 .. m
  BY DEF T
<1>5. ASSUME NEW n \in S, n < m PROVE FALSE
  <2>1. 0 .. n \in T
    BY DEF T
  <2>2. 0 .. n \subseteq 0 .. m /\ 0 .. n \subseteq Nat /\ 0 .. m \subseteq Nat
    BY <1>5
  <2>3. m \in 0 .. m /\ m \notin 0 .. n
    BY <1>5
  <2>4. <<0 .. n, 0 .. m>> \in StrictSubsetOrdering(Nat)
    BY <2>2, <2>3 DEF StrictSubsetOrdering
  <2>. QED BY <1>3, <1>4, <2>1, <2>4
<1>. QED BY <1>5

\* Induction up to n, for a set of numbers.
LEMMA Upto ==
  ASSUME NEW n \in Nat, NEW P, 0 \in P, \A k \in 0 .. n - 1 : k \in P => k + 1 \in P
  PROVE  0 .. n \subseteq P
<1> DEFINE S == (0 .. n) \ P
<1>1. SUFFICES ASSUME S # {} PROVE FALSE
  OBVIOUS
<1>2. PICK m \in S : \A k \in S : m <= k
  <2>1. S \in SUBSET Nat
    OBVIOUS
  <2> HIDE DEF S
  <2>. QED BY <1>1, <2>1, Least
<1>3. m # 0 /\ m - 1 \in 0 .. n - 1 /\ m - 1 \notin S
  BY <1>2
<1>4. m - 1 \in P /\ (m - 1) + 1 = m
  BY <1>3
<1>. QED BY <1>2, <1>3, <1>4

\* What it means to be the least number of a set.
LEMMA MinIs ==
  ASSUME NEW S \in SUBSET Nat, S # {}
  PROVE  Min(S) \in S /\ \A n \in S : Min(S) <= n
<1>1. \E m \in S : \A n \in S : m <= n
  BY Least
<1>. QED BY <1>1 DEF Min

------------------------------------------------------------------------------
(* Trees of tables *)

KernelEntry == [to |-> Kpt, flags |-> {"P", "W"}]

Levelled == [Frame -> Nat]
Kinship == [Frame -> Frame]
Numbers == [Frame -> Nat]

\* What entry i of table f of the tree T may be.  lev says at which level a
\* table is, par and idx which entry of which table leads to it.
Slot(e, f, i, T, lev, par, idx) ==
  IF lev[f] = 1 /\ i \in Kernel THEN e = KernelEntry
  ELSE \/ e = Absent
       \/ lev[f] = Levels /\ e.to \in Page /\ {"P", "U"} \subseteq e.flags
       \/ /\ lev[f] < Levels /\ e.flags = Flag
          /\ e.to \in T /\ lev[e.to] = lev[f] + 1 /\ par[e.to] = f /\ idx[e.to] = i

\* A table but the root hangs on the entry that leads to it.
Hangs(f, T, tb, lev, par, idx) ==
  /\ lev[f] > 1 /\ par[f] \in T /\ lev[par[f]] = lev[f] - 1 /\ idx[f] \in Index
  /\ tb[par[f]][idx[f]] = [to |-> f, flags |-> Flag]

\* T is the tree of tables under root.
Whole(T, root, tb, lev, par, idx) ==
  /\ root \in T /\ lev[root] = 1
  /\ \A f \in T : lev[f] \in 1 .. Levels
  /\ \A f \in T : f # root => Hangs(f, T, tb, lev, par, idx)
  /\ \A f \in T, i \in Index : Slot(tb[f][i], f, i, T, lev, par, idx)

\* The tree that is left of T when teardown is where path says: the entries that
\* are still to be visited are in order, and so are those that lead to tables
\* that are not on the path.
Left(T, path, tb, lev, par, idx) ==
  /\ Len(path) >= 1
  /\ \A k \in 1 .. Len(path) : /\ path[k].table \in T /\ lev[path[k].table] = k
                               /\ path[k].index \in 0 .. LastIndex + 1
  /\ \A k \in 1 .. Len(path) - 1 : /\ par[path[k + 1].table] = path[k].table
                                   /\ idx[path[k + 1].table] < path[k].index
  /\ \A f \in T : lev[f] \in 1 .. Levels
  /\ \A f \in T : (\A k \in 1 .. Len(path) : f # path[k].table) =>
        /\ Hangs(f, T, tb, lev, par, idx)
        /\ \A k \in 1 .. Len(path) : par[f] = path[k].table => path[k].index <= idx[f]
  /\ \A f \in T, i \in Index :
        (\A k \in 1 .. Len(path) : f = path[k].table => path[k].index <= i)
           => Slot(tb[f][i], f, i, T, lev, par, idx)

\* Other tables do not matter.
LEMMA WholeFrame ==
  ASSUME NEW T \in SUBSET Frame, NEW root, NEW tb, NEW tc, NEW lev, NEW par, NEW idx,
         Whole(T, root, tb, lev, par, idx), \A f \in T : tc[f] = tb[f]
  PROVE  Whole(T, root, tc, lev, par, idx)
<1>1. \A f \in T : f # root => Hangs(f, T, tc, lev, par, idx)
  BY DEF Whole, Hangs
<1>2. \A f \in T, i \in Index : Slot(tc[f][i], f, i, T, lev, par, idx)
  BY DEF Whole
<1>. QED BY <1>1, <1>2 DEF Whole

LEMMA LeftFrame ==
  ASSUME NEW T \in SUBSET Frame, NEW path, NEW tb, NEW tc, NEW lev, NEW par, NEW idx,
         Left(T, path, tb, lev, par, idx), \A f \in T : tc[f] = tb[f]
  PROVE  Left(T, path, tc, lev, par, idx)
<1>1. \A f \in T : (\A k \in 1 .. Len(path) : f # path[k].table) =>
        /\ Hangs(f, T, tc, lev, par, idx)
        /\ \A k \in 1 .. Len(path) : par[f] = path[k].table => path[k].index <= idx[f]
  BY DEF Left, Hangs
<1>2. \A f \in T, i \in Index :
        (\A k \in 1 .. Len(path) : f = path[k].table => path[k].index <= i)
           => Slot(tc[f][i], f, i, T, lev, par, idx)
  BY DEF Left
<1>. QED BY <1>1, <1>2 DEF Left
------------------------------------------------------------------------------
(* Walks *)

\* Entries, of any content of the tables and any as->ptr.
Walk(tb, p, va) ==
    LET E[n \in 0 .. Levels] ==
          IF n = 0 THEN p
          ELSE IF "P" \in E[n - 1].flags THEN tb[E[n - 1].to][va[n]] ELSE Absent
    IN E

\* Its recursion has a solution: one up to each level.
LEMMA WalkIs ==
  ASSUME NEW tb, NEW p, NEW va
  PROVE  /\ Walk(tb, p, va)[0] = p
         /\ \A n \in 1 .. Levels : Walk(tb, p, va)[n] =
              IF "P" \in Walk(tb, p, va)[n - 1].flags
              THEN tb[Walk(tb, p, va)[n - 1].to][va[n]] ELSE Absent
<1> DEFINE Next1(e, n) == IF "P" \in e.flags THEN tb[e.to][va[n]] ELSE Absent
           Is(g, m) == g[0] = p /\ \A n \in 1 .. m : g[n] = Next1(g[n - 1], n)
           Q == {m \in 0 .. Levels : \E g : Is(g, m)}
<1> HIDE DEF Next1
<1>1. 0 \in Q
  <2> DEFINE g == [n \in 0 .. 0 |-> p]
  <2>1. Is(g, 0)
    OBVIOUS
  <2> HIDE DEF g, Is
  <2>. QED BY <2>1, Basics
<1>2. ASSUME NEW m \in 0 .. Levels - 1, m \in Q PROVE m + 1 \in Q
  <2>1. PICK g : Is(g, m)
    BY <1>2
  <2> DEFINE h == [n \in 0 .. m + 1 |-> IF n = m + 1 THEN Next1(g[m], n) ELSE g[n]]
  <2>2. h[0] = p
    BY <2>1
  <2>3. ASSUME NEW n \in 1 .. m + 1 PROVE h[n] = Next1(h[n - 1], n)
    <3>1. n - 1 \in 0 .. m /\ n - 1 # m + 1 /\ n \in 0 .. m + 1
      OBVIOUS
    <3>2. h[n - 1] = g[n - 1]
      BY <3>1
    <3>3. CASE n = m + 1
      BY <3>1, <3>2, <3>3
    <3>4. CASE n # m + 1
      <4>1. n \in 1 .. m
        BY <3>4
      <4>. QED BY <2>1, <3>1, <3>2, <3>4, <4>1
    <3>. QED BY <3>3, <3>4
  <2> HIDE DEF h
  <2>4. Is(h, m + 1)
    BY <2>2, <2>3
  <2>. QED BY <2>4, Basics
<1>3. Levels \in Q
  <2> HIDE DEF Q
  <2>1. Levels \in Nat /\ Levels \in 0 .. Levels
    BY Basics
  <2>2. 0 .. Levels \subseteq Q
    BY <1>1, <1>2, <2>1, Upto
  <2>. QED BY <2>1, <2>2
<1>4. PICK g0 : Is(g0, Levels)
  BY <1>3
<1> DEFINE F(f) == [n \in 0 .. Levels |-> IF n = 0 THEN p
                     ELSE IF "P" \in f[n - 1].flags THEN tb[f[n - 1].to][va[n]] ELSE Absent]
           g == [n \in 0 .. Levels |-> g0[n]]
           E == CHOOSE f : f = F(f)
<1>5. g = F(g)
  <2>1. ASSUME NEW n \in 0 .. Levels
        PROVE  g[n] = IF n = 0 THEN p
                     ELSE IF "P" \in g[n - 1].flags THEN tb[g[n - 1].to][va[n]] ELSE Absent
    <3>1. CASE n = 0
      BY <1>4, <3>1
    <3>2. CASE n # 0
      <4>1. n \in 1 .. Levels /\ n - 1 \in 0 .. Levels
        BY <3>2, Basics
      <4>2. g[n] = Next1(g[n - 1], n)
        BY <1>4, <4>1
      <4>. QED BY <3>2, <4>2 DEF Next1
    <3>. QED BY <3>1, <3>2
  <2> HIDE DEF g
  <2>2. g = [n \in 0 .. Levels |-> g[n]]
    BY DEF g
  <2>. QED BY <2>1, <2>2
<1>6. Walk(tb, p, va) = E
  BY DEF Walk
<1> HIDE DEF g, F, E
<1>7. E = F(E)
  BY <1>5 DEF E
<1>8. \A n \in 0 .. Levels : E[n] = IF n = 0 THEN p
                     ELSE IF "P" \in E[n - 1].flags THEN tb[E[n - 1].to][va[n]] ELSE Absent
  BY <1>7 DEF F
<1>9. 0 \in 0 .. Levels /\ \A n \in 1 .. Levels : n \in 0 .. Levels /\ n # 0
  BY Basics
<1>. QED BY <1>6, <1>8, <1>9

\* A present entry on a walk through a tree leads one level down.
Descends(W, va, T, lev, par, idx) ==
  \A n \in 0 .. Levels : "P" \in W[n].flags =>
     /\ {"P", "U"} \subseteq W[n].flags
     /\ n >= 1 => "P" \in W[n - 1].flags
     /\ n < Levels => W[n].to \in T /\ lev[W[n].to] = n + 1
     /\ n >= 1 /\ n < Levels => /\ W[n].flags = Flag /\ par[W[n].to] = W[n - 1].to
                                /\ idx[W[n].to] = va[n]
     /\ n = Levels => W[n].to \in Page

LEMMA WalkIn ==
  ASSUME NEW T \in SUBSET Frame, NEW root, NEW tb, NEW lev, NEW par, NEW idx,
         Whole(T, root, tb, lev, par, idx), NEW va \in Va,
         NEW p, p = [to |-> root, flags |-> {"P", "U"}],
         NEW W, W = Walk(tb, p, va)
  PROVE  Descends(W, va, T, lev, par, idx)
<1> DEFINE Good(n) ==
           /\ {"P", "U"} \subseteq W[n].flags
           /\ n >= 1 => "P" \in W[n - 1].flags
           /\ n < Levels => W[n].to \in T /\ lev[W[n].to] = n + 1
           /\ n >= 1 /\ n < Levels => /\ W[n].flags = Flag /\ par[W[n].to] = W[n - 1].to
                                      /\ idx[W[n].to] = va[n]
           /\ n = Levels => W[n].to \in Page
           Q == {n \in 0 .. Levels : "P" \in W[n].flags => Good(n)}
<1>1. /\ W[0] = p
      /\ \A n \in 1 .. Levels : W[n] = IF "P" \in W[n - 1].flags
                                       THEN tb[W[n - 1].to][va[n]] ELSE Absent
  BY WalkIs
<1>2. 0 \in Q
  <2>1. 0 \in 0 .. Levels /\ 0 # Levels /\ ~ (0 >= 1)
    BY Basics
  <2>2. W[0].to = root /\ W[0].flags = {"P", "U"}
    BY <1>1
  <2>3. root \in T /\ lev[root] = 1
    BY DEF Whole
  <2>. QED BY <2>1, <2>2, <2>3
<1>3. ASSUME NEW m \in 0 .. Levels - 1, m \in Q PROVE m + 1 \in Q
  <2> DEFINE n == m + 1
  <2>1. /\ n \in 1 .. Levels /\ n \in 0 .. Levels /\ n - 1 = m /\ m < Levels /\ n >= 1
        /\ Levels \in Nat /\ m \in 0 .. Levels /\ n \in Nat /\ n = m + 1
    BY Basics
  <2> SUFFICES ASSUME "P" \in W[n].flags PROVE Good(n)
    BY <2>1
  <2> HIDE DEF n
  <2>2. "P" \in W[m].flags /\ W[n] = tb[W[m].to][va[n]]
    <3>1. W[n] = IF "P" \in W[m].flags THEN tb[W[m].to][va[n]] ELSE Absent
      BY <1>1, <2>1
    <3>. QED BY <3>1 DEF Absent
  <2> DEFINE f == W[m].to
             i == va[n]
             e == W[n]
  <2>3. f \in T /\ lev[f] = m + 1
    BY <1>3, <2>1, <2>2
  <2>4. i \in Index /\ va[1] \notin Kernel
    BY <2>1, Basics
  <2>5. Slot(e, f, i, T, lev, par, idx)
    BY <2>2, <2>3, <2>4 DEF Whole
  <2>6. ~ (lev[f] = 1 /\ i \in Kernel)
    BY <2>1, <2>3, <2>4
  <2> HIDE DEF f, i
  <2>7. e # Absent
    BY DEF Absent
  <2>8. \/ lev[f] = Levels /\ e.to \in Page /\ {"P", "U"} \subseteq e.flags
        \/ /\ lev[f] < Levels /\ e.flags = Flag
           /\ e.to \in T /\ lev[e.to] = lev[f] + 1 /\ par[e.to] = f /\ idx[e.to] = i
    BY <2>5, <2>6, <2>7 DEF Slot
  <2>9. /\ {"P", "U"} \subseteq e.flags /\ "P" \in W[n - 1].flags
        /\ lev[f] = n /\ W[n - 1].to = f /\ va[n] = i
    <3>1. {"P", "U"} \subseteq e.flags
      BY <2>8 DEF Flag
    <3>2. lev[f] = n /\ va[n] = i
      BY <2>1, <2>3 DEF f, i
    <3>3. W[n - 1].to = f /\ "P" \in W[n - 1].flags
      BY <2>1, <2>2 DEF f
    <3>. QED BY <3>1, <3>2, <3>3
  <2>10. CASE lev[f] = Levels /\ e.to \in Page
    BY <2>1, <2>9, <2>10
  <2>11. CASE /\ lev[f] < Levels /\ e.flags = Flag
              /\ e.to \in T /\ lev[e.to] = lev[f] + 1 /\ par[e.to] = f /\ idx[e.to] = i
    BY <2>1, <2>9, <2>11
  <2>. QED BY <2>8, <2>10, <2>11
<1>4. 0 .. Levels \subseteq Q
  <2> HIDE DEF Q
  <2>. QED BY <1>2, <1>3, Basics, Upto
<1>. QED BY <1>4 DEF Descends

\* A walk is the same if the entries on it are.
LEMMA WalkSame ==
  ASSUME NEW tb, NEW tc, NEW p, NEW va, NEW W, W = Walk(tb, p, va), NEW l \in 0 .. Levels,
         \A n \in 1 .. l : "P" \in W[n - 1].flags =>
                              tc[W[n - 1].to][va[n]] = tb[W[n - 1].to][va[n]]
  PROVE  \A n \in 0 .. l : Walk(tc, p, va)[n] = W[n]
<1> DEFINE X == Walk(tc, p, va)
           Q == {n \in 0 .. l : X[n] = W[n]}
<1>1. /\ W[0] = p
      /\ \A n \in 1 .. Levels : W[n] = IF "P" \in W[n - 1].flags
                                       THEN tb[W[n - 1].to][va[n]] ELSE Absent
  BY WalkIs
<1>2. /\ X[0] = p
      /\ \A n \in 1 .. Levels : X[n] = IF "P" \in X[n - 1].flags
                                       THEN tc[X[n - 1].to][va[n]] ELSE Absent
  BY WalkIs
<1> HIDE DEF X
<1>3. l \in Nat /\ l <= Levels /\ Levels \in Nat
  BY Basics
<1>4. 0 \in Q
  BY <1>1, <1>2, <1>3
<1>5. ASSUME NEW m \in 0 .. l - 1, m \in Q PROVE m + 1 \in Q
  <2>1. m + 1 \in 1 .. l /\ m + 1 \in 1 .. Levels /\ (m + 1) - 1 = m /\ m + 1 \in 0 .. l
    BY <1>3
  <2>2. X[m] = W[m]
    BY <1>5
  <2>3. X[m + 1] = IF "P" \in X[m].flags THEN tc[X[m].to][va[m + 1]] ELSE Absent
    BY <1>2, <2>1
  <2>4. W[m + 1] = IF "P" \in W[m].flags THEN tb[W[m].to][va[m + 1]] ELSE Absent
    BY <1>1, <2>1
  <2>5. "P" \in W[m].flags => tc[W[m].to][va[m + 1]] = tb[W[m].to][va[m + 1]]
    BY <2>1
  <2>. QED BY <2>1, <2>2, <2>3, <2>4, <2>5
<1>6. 0 .. l \subseteq Q
  <2> HIDE DEF Q
  <2>. QED BY <1>3, <1>4, <1>5, Upto
<1>. QED BY <1>6 DEF X

\* Two walks that meet in a table have come the same way.
LEMMA WalksMeet ==
  ASSUME NEW T \in SUBSET Frame, NEW root, NEW tb, NEW lev, NEW par, NEW idx,
         Whole(T, root, tb, lev, par, idx), NEW va \in Va, NEW vb \in Va,
         NEW p, p = [to |-> root, flags |-> {"P", "U"}],
         NEW W, W = Walk(tb, p, va), NEW X, X = Walk(tb, p, vb),
         NEW l \in 0 .. Levels - 1, "P" \in W[l].flags, "P" \in X[l].flags, W[l].to = X[l].to
  PROVE  \A n \in 1 .. l : va[n] = vb[n]
<1> DEFINE Meet(n) == "P" \in W[n].flags /\ "P" \in X[n].flags /\ W[n].to = X[n].to
           Q == {m \in 0 .. l : Meet(l - m) /\ \A n \in l - m + 1 .. l : va[n] = vb[n]}
<1>0. Descends(W, va, T, lev, par, idx) /\ Descends(X, vb, T, lev, par, idx)
  BY WalkIn
<1>1. Levels \in Nat /\ l \in Nat /\ l < Levels
  BY Basics
<1>2. 0 \in Q
  <2>1. l - 0 = l /\ 0 \in 0 .. l /\ \A n \in l + 1 .. l : FALSE
    BY <1>1
  <2>. QED BY <2>1
<1>3. ASSUME NEW m \in 0 .. l - 1, m \in Q PROVE m + 1 \in Q
  <2> DEFINE n == l - m
  <2>1. /\ n \in 0 .. Levels /\ n >= 1 /\ n < Levels /\ m + 1 \in 0 .. l
        /\ n \in Nat /\ n - 1 = l - (m + 1)
    BY <1>1
  <2>2. Meet(n) /\ \A k \in n + 1 .. l : va[k] = vb[k]
    BY <1>3
  <2> HIDE DEF n
  <2>3. "P" \in W[n - 1].flags /\ par[W[n].to] = W[n - 1].to /\ idx[W[n].to] = va[n]
    BY <1>0, <2>1, <2>2 DEF Descends
  <2>4. "P" \in X[n - 1].flags /\ par[X[n].to] = X[n - 1].to /\ idx[X[n].to] = vb[n]
    BY <1>0, <2>1, <2>2 DEF Descends
  <2>5. Meet(n - 1) /\ va[n] = vb[n]
    BY <2>2, <2>3, <2>4
  <2>6. \A k \in n .. l : k = n \/ k \in n + 1 .. l
    BY <1>1, <2>1
  <2>7. \A k \in n .. l : va[k] = vb[k]
    BY <2>2, <2>5, <2>6
  <2>8. l - (m + 1) + 1 = n
    BY <1>1, <2>1
  <2> HIDE DEF Meet
  <2>. QED BY <2>1, <2>5, <2>7, <2>8
<1>4. 0 .. l \subseteq Q
  <2> HIDE DEF Q
  <2>. QED BY <1>1, <1>2, <1>3, Upto
<1>5. l \in Q
  <2> HIDE DEF Q
  <2>. QED BY <1>1, <1>4
<1>6. l - l + 1 = 1
  BY <1>1
<1>. QED BY <1>5, <1>6

\* An entry that is absent ends a walk.
LEMMA WalkEnds ==
  ASSUME NEW tb, NEW p, NEW va, NEW W, W = Walk(tb, p, va),
         NEW l \in 0 .. Levels, "P" \notin W[l].flags
  PROVE  "P" \notin W[Levels].flags
<1> DEFINE Q == {m \in 0 .. Levels - l : "P" \notin W[l + m].flags}
<1>1. Levels \in Nat /\ l \in Nat /\ Levels - l \in Nat /\ l + 0 = l /\ l + (Levels - l) = Levels
  BY Basics
<1>2. 0 \in Q
  BY <1>1
<1>3. ASSUME NEW m \in 0 .. Levels - l - 1, m \in Q PROVE m + 1 \in Q
  <2> DEFINE n == l + m + 1
  <2>1. n \in 1 .. Levels /\ n - 1 = l + m /\ m + 1 \in 0 .. Levels - l /\ n = l + (m + 1)
    BY <1>1
  <2> HIDE DEF n
  <2>2. W[n] = IF "P" \in W[n - 1].flags THEN tb[W[n - 1].to][va[n]] ELSE Absent
    BY <2>1, WalkIs
  <2>3. "P" \notin W[n].flags
    BY <1>3, <2>1, <2>2 DEF Absent
  <2>. QED BY <2>1, <2>3
<1>4. 0 .. Levels - l \subseteq Q
  <2> HIDE DEF Q
  <2>. QED BY <1>1, <1>2, <1>3, Upto
<1>5. Levels - l \in Q
  BY <1>1, <1>4
<1>. QED BY <1>1, <1>5

\* What the last entry of a walk means.
Meaning(e) == IF "P" \in e.flags THEN [page |-> e.to, write |-> "W" \in e.flags] ELSE None

\* Translate, of a walk.
Found(E) ==
    IF \E n \in 0 .. Levels : ~({"P", "U"} \subseteq E[n].flags) THEN None
    ELSE [page |-> E[Levels].to, write |-> \A n \in 1 .. Levels : "W" \in E[n].flags]

\* The tables give every right: the last entry decides.
LEMMA FoundIs ==
  ASSUME NEW T \in SUBSET Frame, NEW root, NEW tb, NEW lev, NEW par, NEW idx,
         Whole(T, root, tb, lev, par, idx), NEW va \in Va,
         NEW p, p = [to |-> root, flags |-> {"P", "U"}],
         NEW W, W = Walk(tb, p, va)
  PROVE  /\ Found(W) = Meaning(W[Levels])
         /\ "P" \in W[Levels].flags => W[Levels].to \in Page
<1>1. Levels \in Nat /\ Levels >= 1 /\ Levels \in 0 .. Levels /\ Levels \in 1 .. Levels
  BY Basics
<1>0. Descends(W, va, T, lev, par, idx)
  BY WalkIn
<1>2. "P" \in W[Levels].flags => W[Levels].to \in Page
  BY <1>0, <1>1 DEF Descends
<1>3. CASE "P" \notin W[Levels].flags
  <2>1. \E n \in 0 .. Levels : ~({"P", "U"} \subseteq W[n].flags)
    BY <1>1, <1>3
  <2>. QED BY <1>2, <1>3, <2>1 DEF Found, Meaning
<1>4. CASE "P" \in W[Levels].flags
  <2>1. \A n \in 0 .. Levels : "P" \in W[n].flags
    BY <1>4, WalkEnds
  <2>2. \A n \in 0 .. Levels : {"P", "U"} \subseteq W[n].flags
    BY <1>0, <2>1 DEF Descends
  <2>3. ASSUME NEW n \in 1 .. Levels, n # Levels PROVE "W" \in W[n].flags
    <3>1. n \in 0 .. Levels /\ n >= 1 /\ n < Levels
      BY <1>1, <2>3
    <3>2. W[n].flags = Flag
      BY <1>0, <2>1, <3>1 DEF Descends
    <3>. QED BY <3>2 DEF Flag
  <2>4. (\A n \in 1 .. Levels : "W" \in W[n].flags) <=> "W" \in W[Levels].flags
    BY <1>1, <2>3
  <2>5. (\A n \in 1 .. Levels : "W" \in W[n].flags) = ("W" \in W[Levels].flags)
    <3> DEFINE A == \A n \in 1 .. Levels : "W" \in W[n].flags
               B == "W" \in W[Levels].flags
    <3>1. A \in BOOLEAN /\ B \in BOOLEAN
      OBVIOUS
    <3>2. A <=> B
      BY <2>4
    <3> HIDE DEF A, B
    <3>3. A = B
      BY <3>1, <3>2
    <3>. QED BY <3>3 DEF A, B
  <2>6. Found(W) = [page |-> W[Levels].to, write |-> \A n \in 1 .. Levels : "W" \in W[n].flags]
    BY <2>2 DEF Found
  <2>. QED BY <1>2, <1>4, <2>5, <2>6 DEF Meaning
<1>. QED BY <1>3, <1>4
------------------------------------------------------------------------------
(* Trees that change *)

\* A fresh table, with the kernel's part.
LEMMA NewTree ==
  ASSUME NEW f \in Frame, NEW tb,
         \A i \in Index : tb[f][i] = IF i \in Kernel THEN KernelEntry ELSE Absent
  PROVE  \E lev \in Levelled, par \in Kinship, idx \in Numbers :
            Whole({f}, f, tb, lev, par, idx)
<1> DEFINE lev == [g \in Frame |-> 1]
           par == [g \in Frame |-> f]
           idx == [g \in Frame |-> 0]
<1>1. lev \in Levelled /\ par \in Kinship /\ idx \in Numbers
  BY DEF Levelled, Kinship, Numbers
<1>2. lev[f] = 1 /\ 1 \in 1 .. Levels
  BY Basics
<1>3. \A i \in Index : Slot(tb[f][i], f, i, {f}, lev, par, idx)
  BY <1>2 DEF Slot
<1>4. Whole({f}, f, tb, lev, par, idx)
  BY <1>2, <1>3 DEF Whole
<1>. QED BY <1>1, <1>4

\* In tc, entry i of table at is e; the other entries of T are those of tb.
Put(tc, tb, T, at, i, e) ==
  \A f \in T, k \in Index : tc[f][k] = IF f = at /\ k = i THEN e ELSE tb[f][k]

\* What the last level may hold.
Final(e) == e = Absent \/ (e.to \in Page /\ {"P", "U"} \subseteq e.flags)

\* An entry of the last level changes.
LEMMA EnterTree ==
  ASSUME NEW T \in SUBSET Frame, NEW root, NEW tb, NEW lev, NEW par, NEW idx,
         Whole(T, root, tb, lev, par, idx),
         NEW at \in T, NEW i \in Index, lev[at] = Levels, ~ (lev[at] = 1 /\ i \in Kernel),
         NEW e, Final(e), NEW tc, Put(tc, tb, T, at, i, e)
  PROVE  Whole(T, root, tc, lev, par, idx)
<1>1. \A f \in T, k \in Index : Slot(tc[f][k], f, k, T, lev, par, idx)
  <2> SUFFICES ASSUME NEW f \in T, NEW k \in Index PROVE Slot(tc[f][k], f, k, T, lev, par, idx)
    OBVIOUS
  <2>1. CASE f = at /\ k = i
    <3>1. tc[f][k] = e
      BY <2>1 DEF Put
    <3>. QED BY <2>1, <3>1 DEF Slot, Final
  <2>2. CASE ~ (f = at /\ k = i)
    <3>1. tc[f][k] = tb[f][k]
      BY <2>2 DEF Put
    <3>. QED BY <3>1 DEF Whole
  <2>. QED BY <2>1, <2>2
<1>2. ASSUME NEW f \in T, f # root PROVE Hangs(f, T, tc, lev, par, idx)
  <2>1. Hangs(f, T, tb, lev, par, idx) /\ lev[f] \in 1 .. Levels
    BY <1>2 DEF Whole
  <2>2. par[f] # at
    BY <2>1, Basics DEF Hangs
  <2>3. tc[par[f]][idx[f]] = tb[par[f]][idx[f]]
    BY <2>1, <2>2 DEF Hangs, Put
  <2>. QED BY <2>1, <2>3 DEF Hangs
<1>. QED BY <1>1, <1>2 DEF Whole

\* A table of zeros is linked to an entry that was absent.
LEMMA LinkTree ==
  ASSUME NEW T \in SUBSET Frame, NEW root, NEW tb,
         NEW lev \in Levelled, NEW par \in Kinship, NEW idx \in Numbers,
         Whole(T, root, tb, lev, par, idx),
         NEW at \in T, NEW i \in Index, lev[at] < Levels, ~ (lev[at] = 1 /\ i \in Kernel),
         tb[at][i] = Absent, NEW g \in Frame, g \notin T,
         NEW tc, Put(tc, tb, T, at, i, [to |-> g, flags |-> Flag]),
         \A k \in Index : tc[g][k] = Absent
  PROVE  \E lev2 \in Levelled, par2 \in Kinship, idx2 \in Numbers :
            Whole(T \cup {g}, root, tc, lev2, par2, idx2)
<1> DEFINE S == T \cup {g}
           lev2 == [lev EXCEPT ![g] = lev[at] + 1]
           par2 == [par EXCEPT ![g] = at]
           idx2 == [idx EXCEPT ![g] = i]
<1>1. /\ lev[at] \in 1 .. Levels /\ lev[at] \in Nat /\ Levels \in Nat
      /\ i \in Nat /\ at \in Frame
  BY Basics DEF Whole, Index
<1>2. lev2 \in Levelled /\ par2 \in Kinship /\ idx2 \in Numbers
  BY <1>1 DEF Levelled, Kinship, Numbers
<1>3. /\ lev2[g] = lev[at] + 1 /\ par2[g] = at /\ idx2[g] = i
      /\ \A f \in T : lev2[f] = lev[f] /\ par2[f] = par[f] /\ idx2[f] = idx[f]
  BY DEF Levelled, Kinship, Numbers
<1> HIDE DEF lev2, par2, idx2
<1>4. \A f \in S : lev2[f] \in 1 .. Levels
  BY <1>1, <1>3 DEF Whole
<1>5. ASSUME NEW f \in S, NEW k \in Index PROVE Slot(tc[f][k], f, k, S, lev2, par2, idx2)
  <2>1. CASE f = g
    <3>1. lev2[g] # 1 /\ tc[g][k] = Absent
      BY <1>1, <1>3
    <3>. QED BY <2>1, <3>1 DEF Slot
  <2>2. CASE f = at /\ k = i
    <3>1. /\ tc[f][k] = [to |-> g, flags |-> Flag]
          /\ lev2[f] = lev[at] /\ lev2[g] = lev2[f] + 1 /\ par2[g] = f /\ idx2[g] = k
      BY <1>3, <2>2 DEF Put
    <3>. QED BY <2>2, <3>1 DEF Slot
  <2>3. CASE f \in T /\ ~ (f = at /\ k = i)
    <3>1. tc[f][k] = tb[f][k] /\ lev2[f] = lev[f]
      BY <1>3, <2>3 DEF Put
    <3>2. Slot(tb[f][k], f, k, T, lev, par, idx)
      BY <2>3 DEF Whole
    <3> DEFINE e == tb[f][k]
    <3> HIDE DEF e
    <3>3. Slot(e, f, k, T, lev, par, idx) => Slot(e, f, k, S, lev2, par2, idx2)
      BY <1>3, <3>1 DEF Slot
    <3>. QED BY <3>1, <3>2, <3>3 DEF e
  <2>. QED BY <2>1, <2>2, <2>3
<1>6. ASSUME NEW f \in S, f # root PROVE Hangs(f, S, tc, lev2, par2, idx2)
  <2>1. CASE f = g
    <3>1. lev2[g] > 1 /\ lev2[at] = lev2[g] - 1 /\ tc[at][i] = [to |-> g, flags |-> Flag]
      BY <1>1, <1>3 DEF Put
    <3>. QED BY <1>3, <2>1, <3>1 DEF Hangs
  <2>2. CASE f \in T
    <3>1. Hangs(f, T, tb, lev, par, idx)
      BY <1>6, <2>2 DEF Whole
    <3>2. tb[par[f]][idx[f]] # Absent
      BY <3>1 DEF Hangs, Absent, Flag
    <3>3. tc[par[f]][idx[f]] = tb[par[f]][idx[f]]
      BY <3>1, <3>2 DEF Hangs, Put
    <3>. QED BY <1>3, <2>2, <3>1, <3>3 DEF Hangs
  <2>. QED BY <2>1, <2>2
<1>7. Whole(S, root, tc, lev2, par2, idx2)
  <2>1. root \in S /\ lev2[root] = 1
    BY <1>3 DEF Whole
  <2>. QED BY <1>4, <1>5, <1>6, <2>1 DEF Whole
<1>. QED BY <1>2, <1>7

\* unprotect starts at the root.
LEMMA LeftWhole ==
  ASSUME NEW T \in SUBSET Frame, NEW root, NEW tb,
         NEW lev \in Levelled, NEW par \in Kinship, NEW idx \in Numbers,
         Whole(T, root, tb, lev, par, idx)
  PROVE  Left(T, <<[table |-> root, index |-> 0]>>, tb, lev, par, idx)
<1> DEFINE path == <<[table |-> root, index |-> 0]>>
<1>1. Len(path) = 1 /\ path[1].table = root /\ path[1].index = 0 /\ 0 \in 0 .. LastIndex + 1
  BY Basics
<1> HIDE DEF path
<1>2. \A k \in 1 .. Len(path) : k = 1
  BY <1>1
<1>3. \A k \in 1 .. Len(path) - 1 : FALSE
  BY <1>1
<1>4. \A f \in T : f # root => Hangs(f, T, tb, lev, par, idx)
  BY DEF Whole
<1>5. \A f \in T : f # root => 0 <= idx[f]
  BY DEF Numbers
<1>6. \A f \in T, i \in Index : Slot(tb[f][i], f, i, T, lev, par, idx)
  BY DEF Whole
<1>7. root \in T /\ lev[root] = 1 /\ \A f \in T : lev[f] \in 1 .. Levels
  BY DEF Whole
<1>8. Left(T, path, tb, lev, par, idx)
  <2>1. Len(path) >= 1
    BY <1>1
  <2>2. \A k \in 1 .. Len(path) : /\ path[k].table \in T /\ lev[path[k].table] = k
                                  /\ path[k].index \in 0 .. LastIndex + 1
    BY <1>1, <1>2, <1>7
  <2>3. ASSUME NEW f \in T, \A k \in 1 .. Len(path) : f # path[k].table
        PROVE  /\ Hangs(f, T, tb, lev, par, idx)
               /\ \A k \in 1 .. Len(path) : par[f] = path[k].table => path[k].index <= idx[f]
    <3>1. f # root
      BY <1>1, <2>3
    <3>. QED BY <1>1, <1>2, <1>4, <1>5, <3>1
  <2>. QED BY <1>3, <1>6, <1>7, <2>1, <2>2, <2>3 DEF Left
<1>. QED BY <1>8 DEF path

Paths == Seq([table : Frame, index : 0 .. LastIndex + 1])

\* The path after a visit of entry i, which leads to table g.
Deeper(path, i, g) ==
  Append([path EXCEPT ![Len(path)].index = i + 1], [table |-> g, index |-> 0])

\* What there is then.
Deepened(path2, path, i, g) ==
  /\ Len(path2) = Len(path) + 1
  /\ \A k \in 1 .. Len(path) : path2[k].table = path[k].table
  /\ \A k \in 1 .. Len(path) - 1 : path2[k].index = path[k].index
  /\ path2[Len(path)].index = i + 1
  /\ path2[Len(path) + 1].table = g /\ path2[Len(path) + 1].index = 0

LEMMA Deepens ==
  ASSUME NEW path \in Paths, Len(path) >= 1, NEW i \in Index, NEW g \in Frame
  PROVE  Deeper(path, i, g) \in Paths /\ Deepened(Deeper(path, i, g), path, i, g)
<1> DEFINE n == Len(path)
           R == [table : Frame, index : 0 .. LastIndex + 1]
           s == [path[n] EXCEPT !.index = i + 1]
           p == [path EXCEPT ![n].index = i + 1]
           r == [table |-> g, index |-> 0]
           q == Append(p, r)
<1>1. path \in Seq(R) /\ n \in Nat /\ n \in 1 .. Len(path) /\ n - 1 \in Nat
  BY DEF Paths
<1>2. i + 1 \in 0 .. LastIndex + 1 /\ r \in R
  BY Basics DEF Index
<1>3. path[n] \in R
  <2> HIDE DEF R
  <2>. QED BY <1>1, ElementOfSeq
<1>4. s \in R /\ s.table = path[n].table /\ s.index = i + 1
  BY <1>2, <1>3
<1>5. p = [path EXCEPT ![n] = s]
  OBVIOUS
<1>6. q = Deeper(path, i, g) /\ r.table = g /\ r.index = 0
  BY DEF Deeper
<1> HIDE DEF R, s, p, r
<1>7. /\ p \in Seq(R) /\ Len(p) = n
      /\ \A k \in 1 .. n : p[k] = IF k = n THEN s ELSE path[k]
  BY <1>1, <1>4, <1>5, ExceptSeq
<1> HIDE DEF n
<1>8. /\ q \in Seq(R) /\ Len(q) = n + 1 /\ q[n + 1] = r
      /\ \A k \in 1 .. n : q[k] = p[k]
  BY <1>2, <1>7, AppendProperties
<1> HIDE DEF q
<1>9. /\ \A k \in 1 .. n : q[k].table = path[k].table
      /\ \A k \in 1 .. n - 1 : q[k].index = path[k].index
      /\ q[n].index = i + 1
  <2>1. \A k \in 1 .. n - 1 : k \in 1 .. n /\ k # n
    BY <1>1
  <2>2. n \in 1 .. n /\ q[n] = s
    BY <1>1, <1>7, <1>8
  <2>3. \A k \in 1 .. n - 1 : q[k] = path[k]
    BY <1>7, <1>8, <2>1
  <2>4. \A k \in 1 .. n : k \in 1 .. n - 1 \/ k = n
    BY <1>1
  <2>. QED BY <1>4, <2>2, <2>3, <2>4
<1>10. q \in Paths
  BY <1>8 DEF R, Paths
<1>11. Deepened(q, path, i, g)
  BY <1>6, <1>8, <1>9 DEF Deepened, n
<1>. QED BY <1>6, <1>10, <1>11

\* An entry that is visited leads to a table that is left.
LEMMA VisitedIn ==
  ASSUME NEW T \in SUBSET Frame, NEW path \in Paths, NEW tb,
         NEW lev \in Levelled, NEW par \in Kinship, NEW idx \in Numbers,
         Left(T, path, tb, lev, par, idx),
         NEW n, n = Len(path), NEW d, d = path[n],
         NEW i \in Index, d.index <= i, Visited(tb[d.table][i], n),
         NEW g, g = tb[d.table][i].to
  PROVE  /\ g \in T /\ lev[g] = n + 1 /\ par[g] = d.table /\ idx[g] = i
<1>1. n \in 1 .. Len(path) /\ d.table \in T /\ lev[d.table] = n
  BY DEF Left, Paths
<1>2. n < Levels /\ {"P", "U"} \subseteq tb[d.table][i].flags
  BY DEF Visited
<1>3. \A k \in 1 .. Len(path) : path[k].table = d.table => k = n
  BY <1>1 DEF Left
<1> DEFINE e == tb[d.table][i]
<1>4. Slot(e, d.table, i, T, lev, par, idx)
  BY <1>1, <1>3 DEF Left
<1>5. {"P", "U"} \subseteq e.flags /\ e.to = g
  BY <1>2
<1> HIDE DEF e
<1>6. e # KernelEntry
  BY <1>5 DEF KernelEntry
<1>7. e # Absent
  BY <1>5 DEF Absent
<1> DEFINE f == d.table
<1>8. lev[f] # Levels /\ lev[f] = n
  BY <1>1, <1>2
<1>9. Slot(e, f, i, T, lev, par, idx)
  BY <1>4
<1> HIDE DEF f
<1>10. e.to \in T /\ lev[e.to] = lev[f] + 1 /\ par[e.to] = f /\ idx[e.to] = i
  BY <1>6, <1>7, <1>8, <1>9 DEF Slot
<1>. QED BY <1>5, <1>8, <1>10 DEF f

\* The path goes one table deeper.
LEMMA EntersTree ==
  ASSUME NEW T \in SUBSET Frame, NEW path \in Paths, NEW tb,
         NEW lev \in Levelled, NEW par \in Kinship, NEW idx \in Numbers,
         Left(T, path, tb, lev, par, idx),
         NEW n, n = Len(path), NEW d, d = path[n],
         NEW i \in Index, d.index <= i, Visited(tb[d.table][i], n),
         \A k \in Index : d.index <= k /\ k < i => ~ Visited(tb[d.table][k], n),
         NEW g \in T, tb[d.table][i].to = g, lev[g] = n + 1, par[g] = d.table, idx[g] = i,
         NEW path2, Deepened(path2, path, i, g)
  PROVE  Left(T, path2, tb, lev, par, idx)
<1>1. /\ n \in Nat /\ n >= 1 /\ n \in 1 .. Len(path) /\ d.table \in T /\ lev[d.table] = n
      /\ d.index \in 0 .. LastIndex + 1 /\ d.table \in Frame
  BY DEF Left, Paths
<1>2. n < Levels /\ {"P", "U"} \subseteq tb[d.table][i].flags
  BY DEF Visited
<1>3. i \in Nat /\ LastIndex \in Nat /\ i <= LastIndex /\ Levels \in Nat
  BY Basics DEF Index
<1>4. \A k \in 1 .. Len(path) : path[k].table = d.table => k = n
  BY <1>1 DEF Left
<1>5. /\ g \in T /\ lev[g] = n + 1 /\ par[g] = d.table /\ idx[g] = i
  OBVIOUS
<1>6. /\ Len(path2) = n + 1
      /\ \A k \in 1 .. n : path2[k].table = path[k].table
      /\ \A k \in 1 .. n - 1 : path2[k].index = path[k].index
      /\ path2[n].index = i + 1 /\ path2[n + 1].table = g /\ path2[n + 1].index = 0
  BY DEF Deepened
<1>7. \A k \in 1 .. n + 1 : k \in 1 .. n - 1 \/ k = n \/ k = n + 1
  BY <1>1
<1>8. \A k \in 1 .. n - 1 : k \in 1 .. Len(path) /\ k \in 1 .. n
  BY <1>1
<1>9. Left(T, path2, tb, lev, par, idx)
  <2>1. \A k \in 1 .. Len(path2) : /\ path2[k].table \in T /\ lev[path2[k].table] = k
                                   /\ path2[k].index \in 0 .. LastIndex + 1
    <3>1. \A k \in 1 .. n - 1 : /\ path2[k].table \in T /\ lev[path2[k].table] = k
                                /\ path2[k].index \in 0 .. LastIndex + 1
      <4>1. \A k \in 1 .. n - 1 : /\ path[k].table \in T /\ lev[path[k].table] = k
                                  /\ path[k].index \in 0 .. LastIndex + 1
        BY <1>8 DEF Left
      <4> SUFFICES ASSUME NEW k \in 1 .. n - 1
                   PROVE  /\ path2[k].table \in T /\ lev[path2[k].table] = k
                          /\ path2[k].index \in 0 .. LastIndex + 1
        OBVIOUS
      <4>2. path2[k].table = path[k].table /\ path2[k].index = path[k].index
        BY <1>6, <1>8
      <4>. QED BY <4>1, <4>2
    <3>2. /\ path2[n].table \in T /\ lev[path2[n].table] = n
          /\ path2[n].index \in 0 .. LastIndex + 1
      BY <1>1, <1>3, <1>6
    <3>3. path2[n + 1].table = g /\ path2[n + 1].index = 0 /\ 0 \in 0 .. LastIndex + 1
      BY <1>3, <1>6
    <3>4. /\ path2[n + 1].table \in T /\ lev[path2[n + 1].table] = n + 1
          /\ path2[n + 1].index \in 0 .. LastIndex + 1
      BY <1>5, <3>3
    <3>5. \A k \in 1 .. Len(path2) : k \in 1 .. n - 1 \/ k = n \/ k = n + 1
      BY <1>6, <1>7
    <3>. QED BY <3>1, <3>2, <3>4, <3>5
  <2>2. \A k \in 1 .. Len(path2) - 1 : /\ par[path2[k + 1].table] = path2[k].table
                                       /\ idx[path2[k + 1].table] < path2[k].index
    <3>1. ASSUME NEW k \in 1 .. n - 1
          PROVE  /\ par[path2[k + 1].table] = path2[k].table
                 /\ idx[path2[k + 1].table] < path2[k].index
      <4>1. k + 1 \in 1 .. n /\ k \in 1 .. Len(path) - 1
        BY <1>1
      <4>. QED BY <1>6, <1>8, <4>1 DEF Left
    <3>2. par[path2[n + 1].table] = path2[n].table /\ idx[path2[n + 1].table] < path2[n].index
      <4>1. path2[n + 1].table = g /\ path2[n].table = d.table /\ path2[n].index = i + 1
        BY <1>1, <1>6
      <4>2. i < i + 1
        BY <1>3
      <4>. QED BY <1>5, <4>1, <4>2
    <3>3. Len(path2) - 1 = n
      BY <1>1, <1>6
    <3>4. \A k \in 1 .. n : k \in 1 .. n - 1 \/ k = n
      BY <1>1
    <3> DEFINE C(k) == /\ par[path2[k + 1].table] = path2[k].table
                       /\ idx[path2[k + 1].table] < path2[k].index
    <3>5. C(n)
      BY <3>2
    <3>6. \A k \in 1 .. n - 1 : C(k)
      BY <3>1
    <3> HIDE DEF C
    <3>7. \A k \in 1 .. Len(path2) - 1 : C(k)
      BY <3>3, <3>4, <3>5, <3>6
    <3>. QED BY <3>7 DEF C
  <2>3. ASSUME NEW f \in T, \A k \in 1 .. Len(path2) : f # path2[k].table
        PROVE  /\ Hangs(f, T, tb, lev, par, idx)
               /\ \A k \in 1 .. Len(path2) : par[f] = path2[k].table => path2[k].index <= idx[f]
    <3>1. \A k \in 1 .. n : k \in 1 .. Len(path2)
      BY <1>1, <1>6
    <3>2. \A k \in 1 .. Len(path) : f # path[k].table
      BY <1>6, <2>3, <3>1
    <3>3. /\ Hangs(f, T, tb, lev, par, idx)
          /\ \A k \in 1 .. Len(path) : par[f] = path[k].table => path[k].index <= idx[f]
      BY <3>2 DEF Left
    <3>4. idx[f] \in Nat /\ f # g
      <4>1. n + 1 \in 1 .. Len(path2) /\ path2[n + 1].table = g
        BY <1>1, <1>6
      <4>. QED BY <2>3, <4>1 DEF Numbers
    <3>5. ASSUME par[f] = d.table PROVE i + 1 <= idx[f]
      <4>1. d.index <= idx[f] /\ idx[f] \in Index
        BY <1>1, <3>3, <3>5 DEF Hangs
      <4>2. tb[d.table][idx[f]] = [to |-> f, flags |-> Flag]
        BY <3>3, <3>5 DEF Hangs
      <4>3. Visited(tb[d.table][idx[f]], n)
        BY <1>2, <4>2 DEF Visited, Flag
      <4>4. ~ (idx[f] < i)
        BY <4>1, <4>3
      <4>5. idx[f] # i
        BY <3>4, <4>2
      <4>. QED BY <1>3, <3>4, <4>4, <4>5
    <3>6. \A k \in 1 .. n - 1 : par[f] = path2[k].table => path2[k].index <= idx[f]
      BY <1>6, <1>8, <3>3
    <3>7. par[f] = path2[n].table => path2[n].index <= idx[f]
      BY <1>1, <1>6, <3>5
    <3>8. path2[n + 1].index <= idx[f]
      BY <1>6, <3>4
    <3>. QED BY <1>6, <1>7, <3>3, <3>6, <3>7, <3>8
  <2>4. ASSUME NEW f \in T, NEW m \in Index,
               \A k \in 1 .. Len(path2) : f = path2[k].table => path2[k].index <= m
        PROVE  Slot(tb[f][m], f, m, T, lev, par, idx)
    <3>1. \A k \in 1 .. n - 1 : f = path[k].table => path[k].index <= m
      <4>1. \A k \in 1 .. n - 1 : k \in 1 .. Len(path2)
        BY <1>1, <1>6
      <4>. QED BY <1>6, <1>8, <2>4, <4>1
    <3>2. f = path[n].table => path[n].index <= m
      <4>1. n \in 1 .. Len(path2) /\ path2[n].table = path[n].table /\ path2[n].index = i + 1
        BY <1>1, <1>6
      <4>2. m \in Nat /\ d.index \in Nat
        BY <1>1, <1>3 DEF Index
      <4>. QED BY <1>3, <2>4, <4>1, <4>2
    <3>3. \A k \in 1 .. Len(path) : k \in 1 .. n - 1 \/ k = n
      BY <1>1
    <3>. QED BY <3>1, <3>2, <3>3 DEF Left
  <2>5. Len(path2) >= 1 /\ \A f \in T : lev[f] \in 1 .. Levels
    BY <1>1, <1>6 DEF Left
  <2>. QED BY <2>1, <2>2, <2>3, <2>4, <2>5 DEF Left
<1>. QED BY <1>6, <1>9

\* The deepest table is done: it is free, and what is left is a tree.
LEMMA FreesTree ==
  ASSUME NEW T \in SUBSET Frame, NEW path \in Paths, NEW tb,
         NEW lev \in Levelled, NEW par \in Kinship, NEW idx \in Numbers,
         Left(T, path, tb, lev, par, idx),
         NEW n, n = Len(path), n # 1, NEW d, d = path[n],
         \A k \in Index : d.index <= k => ~ Visited(tb[d.table][k], n),
         NEW path2, path2 = SubSeq(path, 1, n - 1)
  PROVE  path2 \in Paths /\ Left(T \ {d.table}, path2, tb, lev, par, idx)
<1> DEFINE U == T \ {d.table}
<1>1. /\ n \in Nat /\ n > 1 /\ n \in 1 .. Len(path) /\ d.table \in T /\ lev[d.table] = n
      /\ \A k \in 1 .. n - 1 : k \in 1 .. Len(path) /\ k \in 1 .. n
      /\ \A k \in 1 .. n : k \in 1 .. n - 1 \/ k = n
  BY DEF Left, Paths
<1>2. path2 \in Paths /\ Len(path2) = n - 1 /\ \A k \in 1 .. n - 1 : path2[k] = path[k]
  <2> DEFINE R == [table : Frame, index : 0 .. LastIndex + 1]
  <2>1. path \in Seq(R) /\ 1 <= 1 /\ n - 1 \in 1 .. Len(path)
    BY <1>1 DEF Paths
  <2>2. /\ SubSeq(path, 1, n - 1) \in Seq(R)
        /\ Len(SubSeq(path, 1, n - 1)) = n - 1
        /\ \A k \in 1 .. n - 1 : SubSeq(path, 1, n - 1)[k] = path[k]
    <3> HIDE DEF R
    <3>. QED BY <1>1, <2>1
  <2>. QED BY <2>2 DEF Paths
<1>3. \A k \in 1 .. n - 1 : path[k].table # d.table
  BY <1>1 DEF Left
<1>4. ASSUME NEW f \in T, \A k \in 1 .. n : f # path[k].table PROVE par[f] # d.table
  <2> SUFFICES ASSUME par[f] = d.table PROVE FALSE
    OBVIOUS
  <2>1. /\ Hangs(f, T, tb, lev, par, idx) /\ d.index <= idx[f]
        /\ lev[f] \in 1 .. Levels
    BY <1>1, <1>4 DEF Left
  <2>2. lev[f] = n + 1 /\ n < Levels
    BY <1>1, <2>1, Basics DEF Hangs
  <2>3. idx[f] \in Index /\ tb[d.table][idx[f]] = [to |-> f, flags |-> Flag]
    BY <2>1 DEF Hangs
  <2>4. Visited(tb[d.table][idx[f]], n)
    BY <2>2, <2>3 DEF Visited, Flag
  <2>. QED BY <2>1, <2>3, <2>4
<1>5. par[d.table] = path[n - 1].table /\ idx[d.table] < path[n - 1].index
  <2>1. n - 1 \in 1 .. Len(path) - 1 /\ (n - 1) + 1 = n
    BY <1>1
  <2>. QED BY <2>1 DEF Left
<1>6. Left(U, path2, tb, lev, par, idx)
  <2>1. \A k \in 1 .. Len(path2) : /\ path2[k].table \in U /\ lev[path2[k].table] = k
                                   /\ path2[k].index \in 0 .. LastIndex + 1
    <3>1. \A k \in 1 .. n - 1 : /\ path[k].table \in T /\ lev[path[k].table] = k
                                /\ path[k].index \in 0 .. LastIndex + 1
      BY <1>1 DEF Left
    <3>2. \A k \in 1 .. n - 1 : /\ path[k].table \in U /\ lev[path[k].table] = k
                                /\ path[k].index \in 0 .. LastIndex + 1
      BY <1>3, <3>1
    <3> HIDE DEF U
    <3>. QED BY <1>2, <3>2
  <2>2. \A k \in 1 .. Len(path2) - 1 : /\ par[path2[k + 1].table] = path2[k].table
                                       /\ idx[path2[k + 1].table] < path2[k].index
    <3>1. \A k \in 1 .. Len(path2) - 1 : /\ k \in 1 .. Len(path) - 1
                                         /\ k \in 1 .. n - 1 /\ k + 1 \in 1 .. n - 1
      BY <1>1, <1>2
    <3>. QED BY <1>2, <3>1 DEF Left
  <2>3. ASSUME NEW f \in U, \A k \in 1 .. Len(path2) : f # path2[k].table
        PROVE  /\ Hangs(f, U, tb, lev, par, idx)
               /\ \A k \in 1 .. Len(path2) : par[f] = path2[k].table => path2[k].index <= idx[f]
    <3>1. \A k \in 1 .. n : f # path[k].table
      BY <1>1, <1>2, <2>3
    <3>2. /\ Hangs(f, T, tb, lev, par, idx)
          /\ \A k \in 1 .. n : par[f] = path[k].table => path[k].index <= idx[f]
      BY <3>1 DEF Left
    <3>3. par[f] # d.table
      BY <1>4, <3>1
    <3>4. Hangs(f, U, tb, lev, par, idx)
      BY <3>2, <3>3 DEF Hangs
    <3>5. \A k \in 1 .. n - 1 : par[f] = path2[k].table => path2[k].index <= idx[f]
      BY <1>1, <1>2, <3>2
    <3>. QED BY <1>2, <3>4, <3>5
  <2>4. ASSUME NEW f \in U, NEW i \in Index,
               \A k \in 1 .. Len(path2) : f = path2[k].table => path2[k].index <= i
        PROVE  Slot(tb[f][i], f, i, U, lev, par, idx)
    <3>1. \A k \in 1 .. n - 1 : f = path[k].table => path[k].index <= i
      BY <1>2, <2>4
    <3>2. f # path[n].table
      OBVIOUS
    <3>3. \A k \in 1 .. Len(path) : f = path[k].table => path[k].index <= i
      BY <1>1, <3>1, <3>2
    <3>4. Slot(tb[f][i], f, i, T, lev, par, idx)
      BY <3>3 DEF Left
    <3> DEFINE e == tb[f][i]
    <3> HIDE DEF e
    <3>5. ~ (e.to = d.table /\ par[e.to] = f /\ idx[e.to] = i)
      <4>1. SUFFICES ASSUME par[d.table] = f, idx[d.table] = i PROVE FALSE
        OBVIOUS
      <4>2. n - 1 \in 1 .. n - 1
        BY <1>1
      <4>3. path[n - 1].index <= i /\ i < path[n - 1].index
        BY <1>5, <3>1, <4>1, <4>2
      <4>4. i \in Int /\ path[n - 1].index \in Int
        <5>1. path[n - 1].index \in 0 .. LastIndex + 1
          BY <1>1, <4>2 DEF Left
        <5>. QED BY <5>1, Basics DEF Index
      <4>. QED BY <4>3, <4>4
    <3>6. Slot(e, f, i, T, lev, par, idx) => Slot(e, f, i, U, lev, par, idx)
      BY <3>5 DEF Slot
    <3>. QED BY <3>4, <3>6 DEF e
  <2>5. Len(path2) >= 1 /\ \A f \in U : lev[f] \in 1 .. Levels
    BY <1>1, <1>2 DEF Left
  <2> HIDE DEF U
  <2>. QED BY <2>1, <2>2, <2>3, <2>4, <2>5 DEF Left
<1>. QED BY <1>2, <1>6

\* The last table that is left is the root.
LEMMA RootAlone ==
  ASSUME NEW T \in SUBSET Frame, NEW path \in Paths, NEW tb,
         NEW lev \in Levelled, NEW par \in Kinship, NEW idx \in Numbers,
         Left(T, path, tb, lev, par, idx), Len(path) = 1,
         NEW d, d = path[1],
         \A k \in Index : d.index <= k => ~ Visited(tb[d.table][k], 1)
  PROVE  T = {d.table}
<1> DEFINE Q == {m \in 0 .. Levels : \A f \in T : lev[f] = m => f = d.table}
<1>1. /\ d.table \in T /\ \A f \in T : lev[f] \in 1 .. Levels
      /\ 1 \in 1 .. Len(path) /\ \A k \in 1 .. Len(path) : k = 1
  BY DEF Left
<1>2. ASSUME NEW f \in T, f # d.table
      PROVE  /\ Hangs(f, T, tb, lev, par, idx)
             /\ par[f] = d.table => d.index <= idx[f]
  <2>1. \A k \in 1 .. Len(path) : f # path[k].table
    BY <1>1, <1>2
  <2>. QED BY <1>1, <2>1 DEF Left
<1>3. 0 \in Q
  BY <1>1, Basics
<1>4. ASSUME NEW m \in 0 .. Levels - 1, m \in Q PROVE m + 1 \in Q
  <2> SUFFICES ASSUME NEW f \in T, lev[f] = m + 1, f # d.table PROVE FALSE
    BY Basics
  <2>1. /\ Hangs(f, T, tb, lev, par, idx)
        /\ par[f] = d.table => d.index <= idx[f]
    BY <1>2
  <2>2. par[f] \in T /\ lev[par[f]] = m /\ m > 0
    BY <2>1 DEF Hangs
  <2>3. par[f] = d.table
    BY <1>4, <2>2
  <2>4. m = 1
    BY <1>1, <2>2, <2>3 DEF Left
  <2>5. idx[f] \in Index /\ tb[d.table][idx[f]] = [to |-> f, flags |-> Flag]
    BY <2>1, <2>3 DEF Hangs
  <2>6. Visited(tb[d.table][idx[f]], 1)
    BY <2>4, <2>5, Basics DEF Visited, Flag
  <2>. QED BY <2>1, <2>3, <2>5, <2>6
<1>5. 0 .. Levels \subseteq Q
  <2> HIDE DEF Q
  <2>. QED BY <1>3, <1>4, Basics, Upto
<1>. QED BY <1>1, <1>5, Basics

\* A tree has the tables that Tables finds.
LEMMA TablesAre ==
  ASSUME NEW a, NEW T \in SUBSET Frame,
         NEW lev \in Levelled, NEW par \in Kinship, NEW idx \in Numbers,
         Whole(T, ptr[a].to, tbl, lev, par, idx)
  PROVE  Tables(a) = T
<1> DEFINE root == ptr[a].to
           Below(S) == {tbl[x[1]][x[2]].to :
                          x \in {y \in S \X Index : {"P", "U"} \subseteq tbl[y[1]][y[2]].flags}}
           At(n) == {f \in T : lev[f] = n}
           F(f) == [n \in 1 .. Levels |-> IF n = 1 THEN {root} ELSE Below(f[n - 1])]
           g == [n \in 1 .. Levels |-> At(n)]
           E == CHOOSE f : f = F(f)
<1>1. /\ root \in T /\ lev[root] = 1
      /\ \A f \in T : lev[f] \in 1 .. Levels
      /\ \A f \in T : f # root => Hangs(f, T, tbl, lev, par, idx)
      /\ \A f \in T, i \in Index : Slot(tbl[f][i], f, i, T, lev, par, idx)
  BY DEF Whole
<1>2. At(1) = {root}
  <2>1. ASSUME NEW f \in T, f # root PROVE lev[f] # 1
    <3>1. lev[f] > 1
      BY <1>1, <2>1 DEF Hangs
    <3>. QED BY <3>1
  <2>2. root \in T /\ lev[root] = 1
    BY <1>1
  <2> HIDE DEF root
  <2>. QED BY <2>1, <2>2
<1>3. ASSUME NEW n \in 1 .. Levels, n # 1 PROVE At(n) = Below(At(n - 1))
  <2>1. n \in Nat /\ n - 1 < Levels /\ Levels \in Nat
    BY Basics
  <2>2. ASSUME NEW f \in At(n) PROVE f \in Below(At(n - 1))
    <3>1. f \in T /\ lev[f] = n /\ Hangs(f, T, tbl, lev, par, idx)
      BY <1>1, <1>3, <2>2
    <3>2. par[f] \in At(n - 1) /\ idx[f] \in Index /\ tbl[par[f]][idx[f]] = [to |-> f, flags |-> Flag]
      BY <3>1 DEF Hangs
    <3> DEFINE x == <<par[f], idx[f]>>
    <3>3. x \in At(n - 1) \X Index /\ tbl[x[1]][x[2]].to = f
          /\ {"P", "U"} \subseteq tbl[x[1]][x[2]].flags
      BY <3>2 DEF Flag
    <3> HIDE DEF x
    <3>. QED BY <3>3
  <2>3. ASSUME NEW x \in At(n - 1) \X Index, {"P", "U"} \subseteq tbl[x[1]][x[2]].flags
        PROVE  tbl[x[1]][x[2]].to \in At(n)
    <3> DEFINE f == x[1]
               i == x[2]
               e == tbl[f][i]
    <3>1. f \in T /\ lev[f] = n - 1 /\ i \in Index
      OBVIOUS
    <3>2. Slot(e, f, i, T, lev, par, idx) /\ {"P", "U"} \subseteq e.flags
      BY <1>1, <2>3, <3>1
    <3> HIDE DEF f, i, e
    <3>3. e # KernelEntry /\ e # Absent
      BY <3>2 DEF KernelEntry, Absent
    <3>4. e.to \in T /\ lev[e.to] = n
      BY <2>1, <3>1, <3>2, <3>3 DEF Slot
    <3>. QED BY <3>4 DEF e, f, i
  <2> HIDE DEF At
  <2>. QED BY <2>2, <2>3
<1> HIDE DEF At, Below, root
<1>4. g = F(g)
  <2>1. ASSUME NEW n \in 1 .. Levels
        PROVE  g[n] = IF n = 1 THEN {root} ELSE Below(g[n - 1])
    <3>1. CASE n = 1
      BY <1>2, <3>1
    <3>2. CASE n # 1
      <4>1. n - 1 \in 1 .. Levels
        BY <3>2, Basics
      <4>. QED BY <1>3, <3>2, <4>1
    <3>. QED BY <3>1, <3>2
  <2> HIDE DEF g
  <2>2. g = [n \in 1 .. Levels |-> g[n]]
    BY DEF g
  <2>. QED BY <2>1, <2>2
<1>5. Tables(a) = UNION {E[n] : n \in 1 .. Levels}
  BY DEF Tables, Below, root
<1> HIDE DEF g, F, E
<1>6. E = F(E)
  BY <1>4 DEF E
<1>7. \A n \in 1 .. Levels : E[n] = IF n = 1 THEN {root} ELSE Below(E[n - 1])
  BY <1>6 DEF F
<1>8. \A n \in 1 .. Levels : E[n] = At(n)
  <2> DEFINE Q == {m \in 0 .. Levels - 1 : E[m + 1] = At(m + 1)}
  <2>1. Levels \in Nat /\ Levels >= 1
    BY Basics
  <2>2. 0 \in Q
    <3>1. 0 + 1 = 1 /\ 1 \in 1 .. Levels /\ 0 \in 0 .. Levels - 1
      BY <2>1
    <3>. QED BY <1>2, <1>7, <3>1
  <2>3. ASSUME NEW m \in 0 .. Levels - 1 - 1, m \in Q PROVE m + 1 \in Q
    <3> DEFINE n == m + 1 + 1
    <3>1. n \in 1 .. Levels /\ n # 1 /\ n - 1 = m + 1 /\ m + 1 \in 0 .. Levels - 1 /\ n = (m + 1) + 1
      BY <2>1
    <3> HIDE DEF n
    <3>2. E[n - 1] = At(n - 1)
      BY <2>3, <3>1
    <3>3. E[n] = Below(E[n - 1]) /\ At(n) = Below(At(n - 1))
      BY <1>3, <1>7, <3>1
    <3>4. E[n] = At(n)
      BY <3>2, <3>3
    <3>. QED BY <3>1, <3>4
  <2>4. 0 .. Levels - 1 \subseteq Q
    <3> HIDE DEF Q
    <3>1. Levels - 1 \in Nat
      BY <2>1
    <3>. QED BY <2>2, <2>3, <3>1, Upto
  <2>5. ASSUME NEW n \in 1 .. Levels PROVE E[n] = At(n)
    <3>1. n - 1 \in 0 .. Levels - 1 /\ (n - 1) + 1 = n
      BY <2>1
    <3>. QED BY <2>4, <3>1
  <2>. QED BY <2>5
<1>. QED BY <1>1, <1>5, <1>8 DEF At
------------------------------------------------------------------------------
(* The inductive invariant *)

Job == [op : Op, va : Va \cup {None}, new : Entry, level : 0 .. Levels, at : Frame \cup {None},
        frame : Frame \cup {None}, zero : BOOLEAN, path : Paths]

TypeInv == /\ tbl \in [Frame \cup {Kpt} -> [Index -> Entry]]
           /\ ptr \in [As -> Entry]
           /\ live \in SUBSET As
           /\ free \in SUBSET Frame
           /\ job \in [As -> Job]
           /\ owned \in [As -> SUBSET Frame]
           /\ stopped \in BOOLEAN

\* Nobody writes the table at PML4_ADDR.
KptInv == tbl[Kpt] = [i \in Index |-> IF i \in Kernel THEN KernelEntry ELSE Absent]

\* A frame is free, or one address space has it.
Share == /\ \A a, b \in As : a # b => owned[a] \cap owned[b] = {}
         /\ free = Frame \ UNION {owned[a] : a \in As}

\* A call that has a frame has taken it, and has zeroed it if it says so.
Sound(j, tb, O) == /\ j.op = "idle" => j = Idle
                   /\ j.frame # None => j.frame \in O
                   /\ j.zero => j.frame # None /\ tb[j.frame] = Zeros

\* The call is where its walk leads; a frame it has is for the entry it is at.
Walks(j, W) ==
  /\ j.va \in Va
  /\ j.level >= 1 => "P" \in W[j.level - 1].flags /\ j.at = W[j.level - 1].to
  /\ j.frame # None => j.level \in 1 .. Levels - 1 /\ "P" \notin W[j.level].flags
  /\ j.op = "map" => j.new.to \in Page /\ {"P", "U"} \subseteq j.new.flags
  /\ j.op = "unmap" => j.new = Absent

Tree(T, root, tb) == \E lev \in Levelled, par \in Kinship, idx \in Numbers :
                        Whole(T, root, tb, lev, par, idx)
Rest(T, path, tb) == \E lev \in Levelled, par \in Kinship, idx \in Numbers :
                        Left(T, path, tb, lev, par, idx)

\* An address space that is there owns its tree, and the frame it is to grow by.
Living(j, tb, p, O) ==
  /\ j.op \in {"idle", "map", "unmap", "again"}
  /\ p = [to |-> p.to, flags |-> {"P", "U"}]
  /\ j.op # "idle" => Walks(j, Walk(tb, p, j.va))
  /\ Tree(O \ {j.frame}, p.to, tb)

\* One that is not owns what unprotect has left, or what protect has taken.
Dead(j, tb, O) ==
  \/ j.op = "teardown" /\ j.frame = None /\ ~ j.zero /\ Rest(O, j.path, tb)
  \/ j.op \in {"idle", "protect"} /\ O = IF j.frame = None THEN {} ELSE {j.frame}

SpaceInv(a) == /\ Sound(job[a], tbl, owned[a])
               /\ IF a \in live THEN Living(job[a], tbl, ptr[a], owned[a])
                                ELSE Dead(job[a], tbl, owned[a])

IInv == TypeInv /\ KptInv /\ Share /\ \A a \in As : SpaceInv(a)

\* as->ptr of an address space that is there.
Rooted(p) == p = [to |-> p.to, flags |-> {"P", "U"}]

\* A walk does not depend on tables of others.
LEMMA WalkFrame ==
  ASSUME NEW T \in SUBSET Frame, NEW tb, NEW tc, NEW p, Rooted(p),
         Tree(T, p.to, tb), \A f \in T : tc[f] = tb[f], NEW va \in Va
  PROVE  \A n \in 0 .. Levels : Walk(tc, p, va)[n] = Walk(tb, p, va)[n]
<1>1. PICK lev \in Levelled, par \in Kinship, idx \in Numbers :
         Whole(T, p.to, tb, lev, par, idx)
  BY DEF Tree
<1> DEFINE W == Walk(tb, p, va)
<1>2. Descends(W, va, T, lev, par, idx)
  BY <1>1, WalkIn DEF Rooted
<1> HIDE DEF W
<1>3. \A n \in 1 .. Levels : "P" \in W[n - 1].flags => W[n - 1].to \in T
  <2>1. \A n \in 1 .. Levels : n - 1 \in 0 .. Levels /\ n - 1 < Levels
    BY Basics
  <2>. QED BY <1>2, <2>1 DEF Descends
<1>4. Levels \in 0 .. Levels
  BY Basics
<1>5. \A n \in 0 .. Levels : Walk(tc, p, va)[n] = W[n]
  BY <1>3, <1>4, WalkSame DEF W
<1>. QED BY <1>5 DEF W

\* Nor does the invariant of an address space.
LEMMA LivingFrame ==
  ASSUME NEW O \in SUBSET Frame, NEW tb, NEW tc, NEW p, NEW j \in Job,
         Living(j, tb, p, O), \A f \in O : tc[f] = tb[f]
  PROVE  Living(j, tc, p, O)
<1> DEFINE T == O \ {j.frame}
<1>1. Tree(T, p.to, tb) /\ \A f \in T : tc[f] = tb[f]
  BY DEF Living
<1>2. Tree(T, p.to, tc)
  <2>1. PICK lev \in Levelled, par \in Kinship, idx \in Numbers :
           Whole(T, p.to, tb, lev, par, idx)
    BY <1>1 DEF Tree
  <2> HIDE DEF T
  <2>2. Whole(T, p.to, tc, lev, par, idx)
    BY <1>1, <2>1, WholeFrame DEF T
  <2>. QED BY <2>2 DEF Tree
<1>3. ASSUME j.op # "idle" PROVE Walks(j, Walk(tc, p, j.va))
  <2>1. Walks(j, Walk(tb, p, j.va))
    BY <1>3 DEF Living
  <2>2. Rooted(p)
    BY DEF Living, Rooted
  <2>3. \A n \in 0 .. Levels : Walk(tc, p, j.va)[n] = Walk(tb, p, j.va)[n]
    <3> DEFINE va == j.va
    <3>1. T \in SUBSET Frame
      OBVIOUS
    <3>2. va \in Va
      BY <2>1 DEF Walks
    <3> HIDE DEF T, va
    <3>3. \A n \in 0 .. Levels : Walk(tc, p, va)[n] = Walk(tb, p, va)[n]
      BY <1>1, <2>2, <3>1, <3>2, WalkFrame
    <3>. QED BY <3>3 DEF va
  <2> DEFINE W == Walk(tb, p, j.va)
             X == Walk(tc, p, j.va)
  <2>4. \A n \in 0 .. Levels : X[n] = W[n]
    BY <2>3
  <2>5. Walks(j, W)
    BY <2>1
  <2> HIDE DEF W, X
  <2>6. /\ j.level \in 0 .. Levels /\ Levels \in Nat
        /\ j.level >= 1 => j.level - 1 \in 0 .. Levels
    BY Basics DEF Job
  <2>7. Walks(j, X)
    BY <2>4, <2>5, <2>6 DEF Walks
  <2>. QED BY <2>7 DEF X
<1>. QED BY <1>2, <1>3 DEF Living

LEMMA DeadFrame ==
  ASSUME NEW O \in SUBSET Frame, NEW tb, NEW tc, NEW j,
         Dead(j, tb, O), \A f \in O : tc[f] = tb[f]
  PROVE  Dead(j, tc, O)
<1>1. ASSUME Rest(O, j.path, tb) PROVE Rest(O, j.path, tc)
  <2>1. PICK lev \in Levelled, par \in Kinship, idx \in Numbers :
           Left(O, j.path, tb, lev, par, idx)
    BY <1>1 DEF Rest
  <2>2. Left(O, j.path, tc, lev, par, idx)
    BY <2>1, LeftFrame
  <2>. QED BY <2>2 DEF Rest
<1>. QED BY <1>1 DEF Dead

LEMMA SoundFrame ==
  ASSUME NEW O \in SUBSET Frame, NEW tb, NEW tc, NEW j,
         Sound(j, tb, O), \A f \in O : tc[f] = tb[f]
  PROVE  Sound(j, tc, O)
BY DEF Sound

\* What one address space does leaves the others in order.
LEMMA Others ==
  ASSUME IInv, NEW a \in As, TypeInv', Share', SpaceInv(a)',
         \A f \in Frame \cup {Kpt} : f \notin owned[a] => tbl'[f] = tbl[f],
         \A b \in As \ {a} : /\ ptr'[b] = ptr[b] /\ job'[b] = job[b] /\ owned'[b] = owned[b]
                             /\ b \in live' <=> b \in live
  PROVE  IInv'
<1>1. KptInv'
  <2>1. Kpt \notin owned[a]
    BY Basics DEF IInv, TypeInv
  <2>. QED BY <2>1 DEF IInv, KptInv
<1>2. ASSUME NEW b \in As \ {a} PROVE SpaceInv(b)'
  <2>1. owned[b] \in SUBSET Frame /\ job[b] \in Job
    BY DEF IInv, TypeInv
  <2>2. \A f \in owned[b] : tbl'[f] = tbl[f]
    <3>1. owned[b] \cap owned[a] = {}
      BY DEF IInv, Share
    <3>. QED BY <2>1, <3>1
  <2>3. SpaceInv(b)
    BY DEF IInv
  <2>4. Sound(job[b], tbl', owned[b])
    BY <2>1, <2>2, <2>3, SoundFrame DEF SpaceInv
  <2>5. CASE b \in live
    <3>1. Living(job[b], tbl', ptr[b], owned[b])
      BY <2>1, <2>2, <2>3, <2>5, LivingFrame DEF SpaceInv
    <3>. QED BY <2>4, <2>5, <3>1 DEF SpaceInv
  <2>6. CASE b \notin live
    <3>1. Dead(job[b], tbl', owned[b])
      BY <2>1, <2>2, <2>3, <2>6, DeadFrame DEF SpaceInv
    <3>. QED BY <2>4, <2>6, <3>1 DEF SpaceInv
  <2>. QED BY <2>5, <2>6
<1>3. \A b \in As : SpaceInv(b)'
  BY <1>2
<1>. QED BY <1>1, <1>3 DEF IInv

\* A step that changes the calls only.
LEMMA CallsOnly ==
  ASSUME IInv, NEW a \in As, NEW k \in Job, Do(a, k),
         UNCHANGED <<tbl, ptr, live, free, owned, stopped>>,
         Sound(k, tbl, owned[a]),
         IF a \in live THEN Living(k, tbl, ptr[a], owned[a]) ELSE Dead(k, tbl, owned[a])
  PROVE  IInv'
<1>1. TypeInv'
  BY DEF IInv, TypeInv, Do
<1>2. Share'
  BY DEF IInv, Share
<1>3. job'[a] = k /\ \A b \in As \ {a} : job'[b] = job[b]
  BY DEF IInv, TypeInv, Do
<1>4. SpaceInv(a)'
  BY <1>3 DEF SpaceInv
<1>. QED BY <1>1, <1>2, <1>3, <1>4, Others

\* Of an address space and its call.
LEMMA Mine ==
  ASSUME IInv, NEW a \in As
  PROVE  /\ job[a] \in Job /\ owned[a] \in SUBSET Frame /\ Sound(job[a], tbl, owned[a])
         /\ None \notin owned[a] /\ Kpt \notin owned[a]
         /\ tbl \in [Frame \cup {Kpt} -> [Index -> Entry]]
         /\ a \in live => Living(job[a], tbl, ptr[a], owned[a])
         /\ a \notin live => Dead(job[a], tbl, owned[a])
BY Basics DEF IInv, TypeInv, SpaceInv

LEMMA IdleIs ==
  /\ Idle \in Job
  /\ Idle.op = "idle" /\ Idle.frame = None /\ ~ Idle.zero /\ Idle.level = 0
  /\ Idle.va = None /\ Idle.new = Absent /\ Idle.at = None /\ Idle.path = <<>>
<1>1. Absent \in Entry
  BY DEF Absent, Entry
<1>2. <<>> \in Paths
  BY DEF Paths
<1>3. 0 \in 0 .. Levels
  BY Basics
<1>. QED BY <1>1, <1>2, <1>3 DEF Idle, Job, Op
------------------------------------------------------------------------------
(* The steps that change the calls only *)

LEMMA KeepsProtect ==
  ASSUME IInv, NEW a \in As, Protect(a)
  PROVE  IInv'
<1> DEFINE k == [Idle EXCEPT !.op = "protect"]
<1>1. /\ k \in Job /\ k.op = "protect" /\ k.frame = None /\ ~ k.zero
  BY IdleIs DEF Job, Op
<1> HIDE DEF k
<1>2. /\ Do(a, k) /\ UNCHANGED <<tbl, ptr, live, free, owned, stopped>>
      /\ a \notin live /\ job[a] = Idle
  BY DEF Protect, k
<1>3. owned[a] = {}
  BY <1>2, Mine, IdleIs DEF Dead
<1>. QED BY <1>1, <1>2, <1>3, CallsOnly DEF Sound, Dead

LEMMA KeepsCall ==
  ASSUME IInv, NEW a \in As, NEW op \in {"map", "unmap"}, NEW va \in Va, NEW new \in Entry,
         op = "map" => new.to \in Page /\ {"P", "U"} \subseteq new.flags,
         op = "unmap" => new = Absent,
         Call(a, op, va, new)
  PROVE  IInv'
<1> DEFINE k == [Idle EXCEPT !.op = op, !.va = va, !.new = new]
<1>1. /\ k \in Job /\ k.op = op /\ k.va = va /\ k.new = new
      /\ k.frame = None /\ ~ k.zero /\ k.level = 0
  BY IdleIs DEF Job, Op
<1> HIDE DEF k
<1>2. /\ Do(a, k) /\ UNCHANGED <<tbl, ptr, live, free, owned, stopped>>
      /\ a \in live /\ job[a] = Idle
  BY DEF Call, k
<1>3. Living(Idle, tbl, ptr[a], owned[a])
  BY <1>2, Mine
<1>4. Walks(k, Walk(tbl, ptr[a], va))
  BY <1>1 DEF Walks
<1>5. Living(k, tbl, ptr[a], owned[a])
  BY <1>1, <1>3, <1>4, IdleIs DEF Living
<1>6. Sound(k, tbl, owned[a])
  BY <1>1 DEF Sound
<1>. QED BY <1>1, <1>2, <1>5, <1>6, CallsOnly

LEMMA KeepsMap ==
  ASSUME IInv, NEW a \in As, Map(a)
  PROVE  IInv'
<1>1. PICK va \in Va, page \in Page : \E write \in Prot(va) :
        Call(a, "map", va, [to |-> page, flags |-> {"P", "U"} \cup IF write THEN {"W"} ELSE {}])
  BY DEF Map
<1>2. PICK write \in Prot(va) :
        Call(a, "map", va, [to |-> page, flags |-> {"P", "U"} \cup IF write THEN {"W"} ELSE {}])
  BY <1>1
<1> DEFINE new == [to |-> page, flags |-> {"P", "U"} \cup IF write THEN {"W"} ELSE {}]
<1>3. new \in Entry /\ new.to \in Page /\ {"P", "U"} \subseteq new.flags
  BY DEF Entry, Flag
<1>4. Call(a, "map", va, new)
  BY <1>2
<1> HIDE DEF new
<1>. QED BY <1>3, <1>4, KeepsCall

LEMMA KeepsUnmap ==
  ASSUME IInv, NEW a \in As, Unmap(a)
  PROVE  IInv'
<1>1. PICK va \in Va : Call(a, "unmap", va, Absent)
  BY DEF Unmap
<1>2. Absent \in Entry
  BY DEF Absent, Entry
<1>. QED BY <1>1, <1>2, KeepsCall

\* What a call of map has in hand.
Calls(j, p, O, W, a) ==
  /\ a \in live /\ j \in Job /\ p = [to |-> p.to, flags |-> {"P", "U"}] /\ p \in Entry
  /\ j.va \in Va /\ Walks(j, W) /\ Living(j, tbl, p, O) /\ O \in SUBSET Frame
  /\ Tree(O \ {j.frame}, p.to, tbl)
  /\ Here(a) = W[j.level]
  /\ j.level \in 0 .. Levels /\ "P" \in W[0].flags

LEMMA Calling ==
  ASSUME IInv, NEW a \in As, NEW j, j = job[a], j.op \in {"map", "unmap", "again"},
         NEW p, p = ptr[a], NEW O, O = owned[a], NEW W, W = Walk(tbl, p, j.va)
  PROVE  Calls(j, p, O, W, a)
<1>1. j \in Job /\ p \in Entry /\ O \in SUBSET Frame
  BY DEF IInv, TypeInv
<1>2. a \in live /\ Living(j, tbl, p, O)
  BY Mine DEF Dead
<1>3. /\ p = [to |-> p.to, flags |-> {"P", "U"}] /\ Walks(j, W) /\ j.va \in Va
      /\ Tree(O \ {j.frame}, p.to, tbl)
  BY <1>2 DEF Living, Walks
<1>4. j.level \in 0 .. Levels
  BY <1>1 DEF Job
<1>5. /\ W[0] = p
      /\ \A n \in 1 .. Levels : W[n] = IF "P" \in W[n - 1].flags
                                       THEN tbl[W[n - 1].to][j.va[n]] ELSE Absent
  BY WalkIs
<1>6. Here(a) = W[j.level]
  <2>1. CASE j.level = 0
    BY <1>5, <2>1 DEF Here
  <2>2. CASE j.level # 0
    <3>1. j.level \in 1 .. Levels /\ j.level >= 1
      BY <1>4, <2>2, Basics
    <3>2. "P" \in W[j.level - 1].flags /\ j.at = W[j.level - 1].to
      BY <1>3, <3>1 DEF Walks
    <3>3. W[j.level] = tbl[j.at][j.va[j.level]]
      <4> DEFINE l == j.level
      <4>1. W[l] = IF "P" \in W[l - 1].flags THEN tbl[W[l - 1].to][j.va[l]] ELSE Absent
        BY <1>5, <3>1
      <4>. QED BY <3>2, <4>1
    <3>. QED BY <2>2, <3>3 DEF Here
  <2>. QED BY <2>1, <2>2
<1>7. "P" \in W[0].flags
  BY <1>3, <1>5
<1>. QED BY <1>1, <1>2, <1>3, <1>4, <1>6, <1>7 DEF Calls

LEMMA KeepsDown ==
  ASSUME IInv, NEW a \in As, Down(a)
  PROVE  IInv'
<1> DEFINE j == job[a]
           p == ptr[a]
           O == owned[a]
           W == Walk(tbl, p, j.va)
           k == [j EXCEPT !.level = @ + 1, !.at = Here(a).to]
<1>1. /\ j.op \in {"map", "unmap", "again"} /\ j.level < Levels /\ "P" \in Here(a).flags
      /\ Do(a, k) /\ UNCHANGED <<tbl, ptr, live, free, owned, stopped>>
  BY DEF Down, Walking
<1> HIDE DEF k
<1>2. Calls(j, p, O, W, a)
  BY <1>1, Calling
<1>2a. /\ j.level \in 0 .. Levels /\ j.level \in Nat /\ Levels \in Nat
       /\ j.level + 1 \in 0 .. Levels /\ (j.level + 1) - 1 = j.level
  BY <1>1, <1>2, Basics DEF Calls
<1> HIDE DEF j, p, O, W
<1>3. "P" \in W[j.level].flags /\ Here(a) = W[j.level]
  BY <1>1, <1>2 DEF Calls
<1>4. j.frame = None
  BY <1>2, <1>3 DEF Calls, Walks
<1>5. W[j.level].to \in Frame
  <2>1. PICK lev \in Levelled, par \in Kinship, idx \in Numbers :
           Whole(O \ {j.frame}, p.to, tbl, lev, par, idx)
    BY <1>2 DEF Calls, Tree
  <2> DEFINE T == O \ {j.frame}
  <2>2. T \in SUBSET Frame /\ T \subseteq O
    BY <1>2 DEF Calls
  <2>3. Whole(T, p.to, tbl, lev, par, idx)
    BY <2>1
  <2> HIDE DEF T
  <2>4. p = [to |-> p.to, flags |-> {"P", "U"}] /\ j.va \in Va
    BY <1>2 DEF Calls
  <2>5. Descends(W, j.va, T, lev, par, idx)
    BY <2>2, <2>3, <2>4, WalkIn DEF W
  <2>. QED BY <1>1, <1>2a, <1>3, <2>2, <2>5 DEF Descends
<1>6. /\ k \in Job /\ k.level = j.level + 1 /\ k.at = W[j.level].to
      /\ k.op = j.op /\ k.va = j.va /\ k.new = j.new /\ k.frame = None /\ k.zero = j.zero
  <2>1. j \in Job
    BY <1>2 DEF Calls
  <2>. QED BY <1>2a, <1>3, <1>4, <1>5, <2>1 DEF k, Job
<1>7. Walks(k, W)
  BY <1>2, <1>2a, <1>3, <1>6 DEF Calls, Walks
<1>8. Living(k, tbl, p, O)
  BY <1>2, <1>4, <1>6, <1>7 DEF Calls, Living, W
<1>9. Sound(k, tbl, O)
  <2>1. Sound(j, tbl, O)
    BY Mine DEF j, O
  <2>2. k.op # "idle"
    BY <1>1, <1>6 DEF j
  <2>. QED BY <1>4, <1>6, <2>1, <2>2 DEF Sound
<1>10. a \in live
  BY <1>2 DEF Calls
<1>. QED BY <1>1, <1>6, <1>8, <1>9, <1>10, CallsOnly DEF p, O

LEMMA KeepsReturn ==
  ASSUME IInv, NEW a \in As, Return(a)
  PROVE  IInv'
<1> DEFINE j == job[a]
           p == ptr[a]
           O == owned[a]
           W == Walk(tbl, p, j.va)
<1>1. /\ j.op = "again" /\ j.level = Levels /\ Do(a, Idle)
      /\ UNCHANGED <<tbl, ptr, live, free, owned, stopped>>
  BY DEF Return
<1>2. Calls(j, p, O, W, a)
  BY <1>1, Calling
<1> HIDE DEF j, p, O, W
<1>3. j.frame = None
  BY <1>1, <1>2, Basics DEF Calls, Walks
<1>4. Living(Idle, tbl, p, O)
  BY <1>2, <1>3, IdleIs DEF Calls, Living
<1>5. Sound(Idle, tbl, O)
  BY IdleIs DEF Sound
<1>6. a \in live
  BY <1>2 DEF Calls
<1>. QED BY <1>1, <1>4, <1>5, <1>6, IdleIs, CallsOnly DEF p, O
------------------------------------------------------------------------------
(* unprotect *)

LEMMA KeepsUnprotect ==
  ASSUME IInv, NEW a \in As, Unprotect(a)
  PROVE  IInv'
<1> DEFINE root == ptr[a].to
           path == <<[table |-> root, index |-> 0]>>
           k == [Idle EXCEPT !.op = "teardown", !.path = path]
           O == owned[a]
<1>1. job[a] = Idle /\ a \in live /\ live' = live \ {a} /\ Do(a, k)
      /\ UNCHANGED <<tbl, ptr, free, owned, stopped>>
  BY DEF Unprotect
<1>2. Living(Idle, tbl, ptr[a], O) /\ O \in SUBSET Frame /\ None \notin O
  BY <1>1, Mine
<1> HIDE DEF O
<1>3. Tree(O, root, tbl)
  <2>1. O \ {Idle.frame} = O
    BY <1>2, IdleIs
  <2>. QED BY <1>2, <2>1 DEF Living
<1> HIDE DEF root, path
<1>4. root \in Frame /\ path \in Paths /\ Rest(O, path, tbl)
  <2>1. PICK lev \in Levelled, par \in Kinship, idx \in Numbers :
           Whole(O, root, tbl, lev, par, idx)
    BY <1>3 DEF Tree
  <2>2. root \in Frame
    BY <1>2, <2>1 DEF Whole
  <2>3. [table |-> root, index |-> 0] \in [table : Frame, index : 0 .. LastIndex + 1]
    BY <2>2, Basics
  <2>4. path \in Paths
    BY <2>3 DEF path, Paths
  <2>5. Left(O, path, tbl, lev, par, idx)
    BY <1>2, <2>1, LeftWhole DEF path
  <2>. QED BY <2>2, <2>4, <2>5 DEF Rest
<1>5. k \in Job /\ k.op = "teardown" /\ k.frame = None /\ ~ k.zero /\ k.path = path
  BY <1>4, IdleIs DEF Job, Op
<1> HIDE DEF k
<1>6. TypeInv'
  BY <1>1, <1>5 DEF IInv, TypeInv, Do
<1>7. Share'
  BY <1>1 DEF IInv, Share
<1>8. job'[a] = k /\ \A b \in As \ {a} : job'[b] = job[b]
  BY <1>1 DEF IInv, TypeInv, Do
<1>9. SpaceInv(a)'
  <2>1. Sound(k, tbl, O) /\ Dead(k, tbl, O)
    BY <1>4, <1>5 DEF Sound, Dead
  <2>2. a \notin live'
    BY <1>1
  <2>. QED BY <1>1, <1>8, <2>1, <2>2 DEF SpaceInv, O
<1>. QED BY <1>1, <1>6, <1>7, <1>8, <1>9, Others

\* NextVisit is the first entry to visit, or there is none.
LEMMA VisitIs ==
  ASSUME NEW a, NEW d, d = Deepest(a), d.index \in 0 .. LastIndex + 1,
         NEW n, n = Len(job[a].path), NEW i, i = NextVisit(a)
  PROVE  IF i \in Index
         THEN /\ d.index <= i /\ Visited(tbl[d.table][i], n)
              /\ \A k \in Index : d.index <= k /\ k < i => ~ Visited(tbl[d.table][k], n)
         ELSE \A k \in Index : d.index <= k => ~ Visited(tbl[d.table][k], n)
<1> DEFINE left == {k \in d.index .. LastIndex : Visited(tbl[d.table][k], n)}
           S == left \cup {LastIndex + 1}
<1>1. LastIndex \in Nat /\ d.index \in Nat
  BY Basics
<1>2. i = Min(S)
  BY DEF NextVisit
<1>3. S \in SUBSET Nat /\ S # {} /\ LastIndex + 1 \notin Index
  BY <1>1 DEF Index
<1>4. \A k \in Index : d.index <= k /\ Visited(tbl[d.table][k], n) => k \in S
  BY <1>1 DEF Index
<1>5. \A k \in S : k # LastIndex + 1 => d.index <= k /\ k \in Index /\ Visited(tbl[d.table][k], n)
  BY <1>1 DEF Index
<1> HIDE DEF S
<1>6. i \in S /\ \A k \in S : i <= k
  BY <1>2, <1>3, MinIs
<1>7. \A k \in S : k \in Nat
  BY <1>3
<1>8. CASE i \in Index
  BY <1>3, <1>4, <1>5, <1>6, <1>7, <1>8
<1>9. CASE i \notin Index
  <2>1. i = LastIndex + 1
    BY <1>5, <1>6, <1>9
  <2>2. \A k \in Index : k \in Nat /\ k < LastIndex + 1
    BY <1>1 DEF Index
  <2>3. ASSUME NEW k \in Index, d.index <= k, Visited(tbl[d.table][k], n) PROVE FALSE
    <3>1. i <= k
      BY <1>4, <1>6, <2>3
    <3>. QED BY <1>1, <2>1, <2>2, <3>1
  <2>. QED BY <1>9, <2>3
<1>. QED BY <1>8, <1>9

\* What teardown has in hand.
Tears(a) ==
  LET j == job[a] n == Len(j.path) d == Deepest(a)
  IN /\ a \notin live /\ j \in Job /\ j.path \in Paths /\ owned[a] \in SUBSET Frame
     /\ j.frame = None /\ ~ j.zero /\ Rest(owned[a], j.path, tbl)
     /\ d = j.path[n] /\ d.index \in 0 .. LastIndex + 1 /\ d.table \in owned[a]
     /\ n \in Nat /\ n >= 1

LEMMA Tearing ==
  ASSUME IInv, NEW a \in As, job[a].op = "teardown"
  PROVE  Tears(a)
<1> DEFINE j == job[a]
           O == owned[a]
           n == Len(j.path)
           d == Deepest(a)
<1>1. j \in Job /\ O \in SUBSET Frame /\ a \notin live /\ Dead(j, tbl, O)
  BY Mine DEF Living
<1>2. j.path \in Paths
  BY <1>1 DEF Job
<1>3. j.frame = None /\ ~ j.zero /\ Rest(O, j.path, tbl)
  BY <1>1 DEF Dead
<1>4. PICK lev \in Levelled, par \in Kinship, idx \in Numbers : Left(O, j.path, tbl, lev, par, idx)
  BY <1>3 DEF Rest
<1>5. n \in Nat /\ n >= 1 /\ n \in 1 .. Len(j.path)
  BY <1>2, <1>4 DEF Left, Paths
<1>6. d = j.path[n]
  BY DEF Deepest
<1>7. d.index \in 0 .. LastIndex + 1 /\ d.table \in O
  BY <1>4, <1>5, <1>6 DEF Left
<1>. QED BY <1>1, <1>2, <1>3, <1>5, <1>6, <1>7 DEF Tears

LEMMA KeepsEnters ==
  ASSUME IInv, NEW a \in As, Enters(a)
  PROVE  IInv'
<1> DEFINE j == job[a]
           O == owned[a]
           n == Len(j.path)
           d == Deepest(a)
           i == NextVisit(a)
           path2 == Append([j.path EXCEPT ![n].index = i + 1],
                           [table |-> tbl[d.table][i].to, index |-> 0])
           k == [j EXCEPT !.path = path2]
<1>1. j.op = "teardown" /\ i \in Index /\ Do(a, k)
      /\ UNCHANGED <<tbl, ptr, live, free, owned, stopped>>
  BY DEF Enters
<1> HIDE DEF k
<1>2. /\ a \notin live /\ j \in Job /\ j.path \in Paths /\ O \in SUBSET Frame
      /\ j.frame = None /\ ~ j.zero /\ Rest(O, j.path, tbl)
      /\ d = j.path[n] /\ d.index \in 0 .. LastIndex + 1 /\ d.table \in O
      /\ n \in Nat /\ n >= 1
  BY <1>1, Tearing DEF Tears
<1>3. /\ d.index <= i /\ Visited(tbl[d.table][i], n)
      /\ \A m \in Index : d.index <= m /\ m < i => ~ Visited(tbl[d.table][m], n)
  BY <1>1, <1>2, VisitIs
<1> DEFINE path == j.path
<1> HIDE DEF j, O, d, i
<1>4. PICK lev \in Levelled, par \in Kinship, idx \in Numbers : Left(O, path, tbl, lev, par, idx)
  BY <1>2 DEF Rest
<1>5. path2 \in Paths /\ Left(O, path2, tbl, lev, par, idx)
  <2> DEFINE g == tbl[d.table][i].to
  <2>1. path \in Paths /\ n = Len(path) /\ d = path[n] /\ n >= 1
    BY <1>2
  <2>2. path2 = Deeper(path, i, g)
    BY DEF Deeper
  <2>3. /\ O \in SUBSET Frame /\ i \in Index /\ g = tbl[d.table][i].to
        /\ d.index <= i /\ Visited(tbl[d.table][i], n)
        /\ \A m \in Index : d.index <= m /\ m < i => ~ Visited(tbl[d.table][m], n)
    BY <1>1, <1>2, <1>3
  <2> HIDE DEF path, n, path2, g
  <2>4. g \in O /\ lev[g] = n + 1 /\ par[g] = d.table /\ idx[g] = i
    BY <1>4, <2>1, <2>3, VisitedIn
  <2>5. path2 \in Paths /\ Deepened(path2, path, i, g)
    BY <2>1, <2>2, <2>3, <2>4, Deepens
  <2>. QED BY <1>4, <2>1, <2>3, <2>4, <2>5, EntersTree
<1> HIDE DEF path2
<1>6. /\ k \in Job /\ k.op = "teardown" /\ k.frame = None /\ ~ k.zero /\ k.path = path2
  BY <1>1, <1>2, <1>5 DEF k, Job
<1>7. Dead(k, tbl, O) /\ Sound(k, tbl, O)
  BY <1>5, <1>6 DEF Dead, Rest, Sound
<1>. QED BY <1>1, <1>2, <1>6, <1>7, CallsOnly DEF O

LEMMA KeepsFrees ==
  ASSUME IInv, NEW a \in As, Frees(a)
  PROVE  IInv'
<1> DEFINE j == job[a]
           O == owned[a]
           n == Len(j.path)
           d == Deepest(a)
           f == d.table
           i == NextVisit(a)
           path2 == SubSeq(j.path, 1, n - 1)
           k == IF n = 1 THEN Idle ELSE [j EXCEPT !.path = path2]
<1>1. /\ j.op = "teardown" /\ i \notin Index /\ Do(a, k)
      /\ free' = free \cup {f} /\ owned' = [owned EXCEPT ![a] = @ \ {f}]
      /\ UNCHANGED <<tbl, ptr, live, stopped>>
  BY DEF Frees
<1> HIDE DEF k
<1>2. /\ a \notin live /\ j \in Job /\ j.path \in Paths /\ O \in SUBSET Frame
      /\ j.frame = None /\ ~ j.zero /\ Rest(O, j.path, tbl)
      /\ d = j.path[n] /\ d.index \in 0 .. LastIndex + 1 /\ d.table \in O
      /\ n \in Nat /\ n >= 1
  BY <1>1, Tearing DEF Tears
<1>3. \A m \in Index : d.index <= m => ~ Visited(tbl[d.table][m], n)
  BY <1>1, <1>2, VisitIs
<1>4. PICK lev \in Levelled, par \in Kinship, idx \in Numbers : Left(O, j.path, tbl, lev, par, idx)
  BY <1>2 DEF Rest
<1> DEFINE U == O \ {f}
<1>5. k \in Job /\ Sound(k, tbl, U) /\ Dead(k, tbl, U)
  <2>1. CASE n = 1
    <3>1. O = {f}
      <4> DEFINE path == j.path
      <4>1. path \in Paths /\ Len(path) = 1 /\ d = path[1] /\ Left(O, path, tbl, lev, par, idx)
        BY <1>2, <1>4, <2>1
      <4>2. \A m \in Index : d.index <= m => ~ Visited(tbl[d.table][m], 1)
        BY <1>3, <2>1
      <4> HIDE DEF path, d, O
      <4>. QED BY <1>2, <4>1, <4>2, RootAlone
    <3>2. k = Idle
      BY <2>1 DEF k
    <3>. QED BY <3>1, <3>2, IdleIs DEF Sound, Dead
  <2>2. CASE n # 1
    <3>1. path2 \in Paths /\ Left(U, path2, tbl, lev, par, idx)
      <4> DEFINE path == j.path
      <4>1. path \in Paths /\ n = Len(path) /\ d = path[n] /\ Left(O, path, tbl, lev, par, idx)
        BY <1>2, <1>4
      <4>2. path2 = SubSeq(path, 1, n - 1)
        OBVIOUS
      <4> HIDE DEF path, d, O, n, path2
      <4>. QED BY <1>2, <1>3, <2>2, <4>1, <4>2, FreesTree
    <3> HIDE DEF path2
    <3>2. k = [j EXCEPT !.path = path2]
      BY <2>2 DEF k
    <3> HIDE DEF j, U
    <3>3. k \in Job /\ k.op = "teardown" /\ k.frame = None /\ ~ k.zero /\ k.path = path2
      BY <1>1, <1>2, <3>1, <3>2 DEF Job
    <3>. QED BY <3>1, <3>3 DEF Sound, Dead, Rest
  <2>. QED BY <2>1, <2>2
<1> HIDE DEF d, n, j
<1>6. /\ owned' \in [As -> SUBSET Frame] /\ owned'[a] = U
      /\ \A b \in As \ {a} : owned'[b] = owned[b]
  BY <1>1 DEF IInv, TypeInv
<1>7. TypeInv'
  BY <1>1, <1>2, <1>5, <1>6 DEF IInv, TypeInv, Do
<1>8. Share'
  <2>1. \A b \in As \ {a} : f \notin owned[b]
    BY <1>2 DEF IInv, Share
  <2>2. \A b \in As : owned'[b] \subseteq owned[b]
    BY <1>6
  <2>3. \A b, c \in As : b # c => owned'[b] \cap owned'[c] = {}
    BY <2>2 DEF IInv, Share
  <2>4. ASSUME NEW g PROVE g \in free' <=> g \in Frame /\ \A b \in As : g \notin owned'[b]
    <3>1. g \in free <=> g \in Frame /\ \A b \in As : g \notin owned[b]
      BY DEF IInv, Share
    <3>2. CASE g = f
      <4>1. f \in Frame /\ f \in free' /\ \A b \in As : f \notin owned'[b]
        BY <1>1, <1>2, <1>6, <2>1
      <4>. QED BY <3>2, <4>1
    <3>3. CASE g # f
      <4>1. g \in free' <=> g \in free
        BY <1>1, <3>3
      <4>2. \A b \in As : g \in owned'[b] <=> g \in owned[b]
        BY <1>6, <3>3
      <4>. QED BY <3>1, <4>1, <4>2
    <3>. QED BY <3>2, <3>3
  <2>5. free' = Frame \ UNION {owned'[b] : b \in As}
    BY <2>4
  <2>. QED BY <2>3, <2>5 DEF Share
<1>9. job'[a] = k /\ \A b \in As \ {a} : job'[b] = job[b]
  BY <1>1 DEF IInv, TypeInv, Do
<1>10. SpaceInv(a)'
  BY <1>1, <1>2, <1>5, <1>6, <1>9 DEF SpaceInv
<1>. QED BY <1>1, <1>6, <1>7, <1>8, <1>9, <1>10, Others
------------------------------------------------------------------------------
(* The allocator and the new tables *)

\* A frame changes hands: it was free.
LEMMA Takes ==
  ASSUME IInv, NEW a \in As, NEW f \in free, NEW k, k = [job[a] EXCEPT !.frame = f],
         free' = free \ {f}, owned' = [owned EXCEPT ![a] = @ \cup {f}], Do(a, k),
         UNCHANGED <<tbl, ptr, live, stopped>>,
         job[a].frame = None, job[a].op # "idle",
         IF a \in live THEN Living(k, tbl, ptr[a], owned[a] \cup {f})
                       ELSE Dead(k, tbl, owned[a] \cup {f})
  PROVE  IInv'
<1>1. f \in Frame /\ \A b \in As : f \notin owned[b]
  BY DEF IInv, TypeInv, Share
<1>2. /\ owned' \in [As -> SUBSET Frame] /\ owned'[a] = owned[a] \cup {f}
      /\ \A b \in As \ {a} : owned'[b] = owned[b]
  BY <1>1 DEF IInv, TypeInv
<1>3. /\ k \in Job /\ k.op = job[a].op /\ k.frame = f /\ k.zero = job[a].zero
  BY <1>1, Mine DEF Job
<1>4. TypeInv'
  BY <1>2, <1>3 DEF IInv, TypeInv, Do
<1>5. Share'
  <2>1. \A b, c \in As : b # c => owned[b] \cap owned[c] = {}
    BY DEF IInv, Share
  <2>2. \A b, c \in As : b # c => owned'[b] \cap owned'[c] = {}
    BY <1>1, <1>2, <2>1
  <2>3. ASSUME NEW g PROVE g \in free' <=> g \in Frame /\ \A b \in As : g \notin owned'[b]
    <3>1. g \in free <=> g \in Frame /\ \A b \in As : g \notin owned[b]
      BY DEF IInv, Share
    <3>2. (\A b \in As : g \notin owned'[b]) <=> g # f /\ \A b \in As : g \notin owned[b]
      BY <1>2
    <3>. QED BY <3>1, <3>2
  <2>4. free' = Frame \ UNION {owned'[b] : b \in As}
    BY <2>3
  <2>. QED BY <2>2, <2>4 DEF Share
<1>6. job'[a] = k /\ \A b \in As \ {a} : job'[b] = job[b]
  BY DEF IInv, TypeInv, Do
<1>7. Sound(k, tbl, owned[a] \cup {f})
  <2>1. ~ job[a].zero
    BY Mine DEF Sound
  <2>. QED BY <1>3, <2>1 DEF Sound
<1>8. SpaceInv(a)'
  BY <1>2, <1>6, <1>7 DEF SpaceInv
<1>. QED BY <1>2, <1>4, <1>5, <1>6, <1>8, Others

LEMMA Stops ==
  ASSUME IInv, Panic
  PROVE  IInv'
BY DEF IInv, TypeInv, KptInv, Share, SpaceInv, Panic

LEMMA KeepsRoot ==
  ASSUME IInv, NEW a \in As, Root(a)
  PROVE  IInv'
<1>1. job[a].op = "protect" /\ job[a].frame = None /\ Alloc(a)
  BY DEF Root
<1>2. CASE free = {} /\ Panic
  BY <1>2, Stops
<1>3. ASSUME NEW f \in free, free' = free \ {f},
             owned' = [owned EXCEPT ![a] = @ \cup {f}],
             Do(a, [job[a] EXCEPT !.frame = f]), UNCHANGED <<tbl, ptr, live, stopped>>
      PROVE  IInv'
  <2> DEFINE k == [job[a] EXCEPT !.frame = f]
  <2>1. a \notin live /\ owned[a] = {}
    BY <1>1, Mine DEF Living, Dead
  <2>2. k.op = "protect" /\ k.frame = f
    BY <1>1, Mine DEF Job
  <2>3. f # None
    BY Basics DEF IInv, TypeInv
  <2> HIDE DEF k
  <2>4. Dead(k, tbl, owned[a] \cup {f})
    BY <2>1, <2>2, <2>3 DEF Dead
  <2>5. k = [job[a] EXCEPT !.frame = f] /\ Do(a, k) /\ job[a].op # "idle"
    BY <1>1, <1>3 DEF k
  <2>. QED BY <1>1, <1>3, <2>1, <2>4, <2>5, Takes
<1>. QED BY <1>1, <1>2, <1>3 DEF Alloc

LEMMA KeepsNewTable ==
  ASSUME IInv, NEW a \in As, NewTable(a)
  PROVE  IInv'
<1> DEFINE j == job[a]
           p == ptr[a]
           O == owned[a]
           W == Walk(tbl, p, j.va)
<1>1. /\ j.op \in {"map", "unmap", "again"} /\ j.level < Levels
      /\ "P" \notin Here(a).flags /\ j.frame = None /\ Alloc(a)
  BY DEF NewTable, Walking
<1>2. Calls(j, p, O, W, a)
  BY <1>1, Calling
<1>3. CASE free = {} /\ Panic
  BY <1>3, Stops
<1>4. ASSUME NEW f \in free, free' = free \ {f},
             owned' = [owned EXCEPT ![a] = @ \cup {f}],
             Do(a, [j EXCEPT !.frame = f]), UNCHANGED <<tbl, ptr, live, stopped>>
      PROVE  IInv'
  <2> DEFINE k == [j EXCEPT !.frame = f]
  <2>1. f \notin O /\ f \in Frame /\ None \notin O
    BY Mine DEF IInv, Share, TypeInv
  <2> HIDE DEF p, W
  <2>2. /\ k.op = j.op /\ k.frame = f /\ k.va = j.va /\ k.level = j.level
        /\ k.at = j.at /\ k.new = j.new
    BY Mine DEF Job
  <2>3. k = [job[a] EXCEPT !.frame = f] /\ Do(a, k) /\ job[a].op # "idle"
    BY <1>1, <1>4
  <2>4. a \in live
    BY <1>2 DEF Calls
  <2> HIDE DEF j, O, k
  <2>5. (O \cup {f}) \ {k.frame} = O /\ O \ {j.frame} = O
    BY <1>1, <2>1, <2>2
  <2>6. Walks(k, W)
    <3>1. "P" \notin W[j.level].flags /\ j.level # 0 /\ j.level \in 0 .. Levels
      BY <1>1, <1>2 DEF Calls
    <3>2. j.level \in 1 .. Levels - 1
      BY <1>1, <3>1, Basics
    <3>3. Walks(j, W)
      BY <1>2 DEF Calls
    <3>. QED BY <2>2, <3>1, <3>2, <3>3 DEF Walks
  <2>7. Living(k, tbl, p, O \cup {f})
    <3>1. Living(j, tbl, p, O) /\ W = Walk(tbl, p, k.va)
      BY <1>2, <2>2 DEF Calls, W
    <3>. QED BY <1>1, <2>2, <2>5, <2>6, <3>1 DEF Living
  <2>. QED BY <1>1, <1>4, <2>3, <2>4, <2>7, Takes DEF p, O, j
<1>. QED BY <1>1, <1>3, <1>4 DEF Alloc

LEMMA KeepsZero ==
  ASSUME IInv, NEW a \in As, Zero(a)
  PROVE  IInv'
<1> DEFINE j == job[a]
           f == j.frame
           O == owned[a]
           k == [j EXCEPT !.zero = TRUE]
<1>1. /\ f # None /\ ~ j.zero /\ tbl' = [tbl EXCEPT ![f] = Zeros] /\ Do(a, k)
      /\ UNCHANGED <<ptr, live, free, owned, stopped>>
  BY DEF Zero
<1>2. j \in Job /\ O \in SUBSET Frame /\ Sound(j, tbl, O) /\ f \in O
  BY <1>1, Mine DEF Sound
<1>3. Zeros \in [Index -> Entry]
  BY DEF Zeros, Absent, Entry
<1>4. /\ tbl' \in [Frame \cup {Kpt} -> [Index -> Entry]] /\ tbl'[f] = Zeros
      /\ \A g \in Frame \cup {Kpt} : g # f => tbl'[g] = tbl[g]
  BY <1>1, <1>2, <1>3 DEF IInv, TypeInv
<1>5. /\ k \in Job /\ k.op = j.op /\ k.frame = f /\ k.va = j.va /\ k.level = j.level
      /\ k.at = j.at /\ k.new = j.new /\ k.path = j.path
  BY <1>2 DEF Job
<1> HIDE DEF k
<1>6. TypeInv'
  BY <1>1, <1>4, <1>5 DEF IInv, TypeInv, Do
<1>7. Share'
  BY <1>1 DEF IInv, Share
<1>8. job'[a] = k /\ \A b \in As \ {a} : job'[b] = job[b]
  BY <1>1 DEF IInv, TypeInv, Do
<1>9. Sound(k, tbl', O)
  <2>1. k.op # "idle"
    BY <1>1, <1>2, <1>5, IdleIs DEF Sound
  <2> HIDE DEF f, j, O
  <2>. QED BY <1>1, <1>2, <1>4, <1>5, <2>1 DEF Sound
<1>10. ASSUME a \in live PROVE Living(k, tbl', ptr[a], O)
  <2> DEFINE T == O \ {f}
             p == ptr[a]
             X == Walk(tbl', p, k.va)
  <2>1. Living(j, tbl, p, O)
    BY <1>10, Mine
  <2> HIDE DEF j, p, f, O
  <2>2. T \in SUBSET Frame /\ \A g \in T : tbl'[g] = tbl[g]
    BY <1>2, <1>4
  <2>3. Tree(T, p.to, tbl) /\ Rooted(p)
    BY <2>1 DEF Living, Rooted, f
  <2>4. Tree(T, p.to, tbl')
    <3>1. PICK lev \in Levelled, par \in Kinship, idx \in Numbers :
             Whole(T, p.to, tbl, lev, par, idx)
      BY <2>3 DEF Tree
    <3> HIDE DEF T
    <3>2. Whole(T, p.to, tbl', lev, par, idx)
      BY <2>2, <3>1, WholeFrame
    <3>. QED BY <3>2 DEF Tree
  <2>5. ASSUME j.op # "idle" PROVE Walks(k, X)
    <3> DEFINE W == Walk(tbl, p, j.va)
    <3>1. Walks(j, W) /\ j.va \in Va
      BY <2>1, <2>5 DEF Living, Walks
    <3> HIDE DEF T
    <3>2. \A n \in 0 .. Levels : Walk(tbl', p, j.va)[n] = Walk(tbl, p, j.va)[n]
      <4> HIDE DEF W
      <4>. QED BY <2>2, <2>3, <3>1, WalkFrame
    <3>3. \A n \in 0 .. Levels : X[n] = W[n]
      BY <1>5, <3>2
    <3> HIDE DEF X, W
    <3>4. /\ j.level \in 0 .. Levels /\ Levels \in Nat
          /\ j.level >= 1 => j.level - 1 \in 0 .. Levels
      BY <1>2, Basics DEF Job
    <3>. QED BY <1>5, <3>1, <3>3, <3>4 DEF Walks, f
  <2> HIDE DEF T, X
  <2>6. Tree(O \ {k.frame}, p.to, tbl')
    BY <1>5, <2>4 DEF T
  <2>. QED BY <1>5, <2>1, <2>3, <2>5, <2>6 DEF Living, Rooted, X, p
<1>11. ASSUME a \notin live PROVE Dead(k, tbl', O)
  <2>1. Dead(j, tbl, O)
    BY <1>11, Mine
  <2>. QED BY <1>1, <1>5, <2>1 DEF Dead
<1> HIDE DEF f, j, O
<1>12. SpaceInv(a)'
  BY <1>1, <1>8, <1>9, <1>10, <1>11 DEF SpaceInv, O
<1>13. \A g \in Frame \cup {Kpt} : g \notin owned[a] => tbl'[g] = tbl[g]
  BY <1>2, <1>4 DEF O
<1>. QED BY <1>1, <1>6, <1>7, <1>8, <1>12, <1>13, Others

LEMMA KeepsFill ==
  ASSUME IInv, NEW a \in As, Fill(a)
  PROVE  IInv'
<1> DEFINE j == job[a]
           f == j.frame
           O == owned[a]
           p == [to |-> f, flags |-> {"P", "U"}]
           t == [i \in Index |-> IF i \in Kernel THEN tbl[Kpt][i] ELSE tbl[f][i]]
<1>1. /\ j.op = "protect" /\ j.zero /\ tbl' = [tbl EXCEPT ![f] = t]
      /\ ptr' = [ptr EXCEPT ![a] = p] /\ live' = live \cup {a} /\ Do(a, Idle)
      /\ UNCHANGED <<free, owned, stopped>>
  BY DEF Fill
<1>2. /\ j \in Job /\ O \in SUBSET Frame /\ f \in O /\ f # None /\ f \in Frame /\ tbl[f] = Zeros
      /\ O = {f} /\ a \notin live
  BY <1>1, Mine DEF Sound, Dead, Living
<1>3. \A i \in Index : t[i] = IF i \in Kernel THEN KernelEntry ELSE Absent
  BY <1>2 DEF IInv, KptInv, Zeros
<1>4. t \in [Index -> Entry] /\ p \in Entry
  <2>1. tbl[Kpt] \in [Index -> Entry] /\ tbl[f] \in [Index -> Entry]
    BY <1>2 DEF IInv, TypeInv
  <2>2. p \in Entry
    BY <1>2 DEF Entry, Flag
  <2>. QED BY <2>1, <2>2
<1> HIDE DEF t
<1>5. /\ tbl' \in [Frame \cup {Kpt} -> [Index -> Entry]] /\ tbl'[f] = t
      /\ \A g \in Frame \cup {Kpt} : g # f => tbl'[g] = tbl[g]
  BY <1>1, <1>2, <1>4 DEF IInv, TypeInv
<1>6. ptr' \in [As -> Entry] /\ ptr'[a] = p /\ \A b \in As \ {a} : ptr'[b] = ptr[b]
  BY <1>1, <1>4 DEF IInv, TypeInv
<1> HIDE DEF p
<1>7. TypeInv'
  BY <1>1, <1>5, <1>6, IdleIs DEF IInv, TypeInv, Do
<1>8. Share'
  BY <1>1 DEF IInv, Share
<1>9. job'[a] = Idle /\ \A b \in As \ {a} : job'[b] = job[b]
  BY <1>1 DEF IInv, TypeInv, Do
<1>10. Tree({f}, f, tbl')
  BY <1>2, <1>3, <1>5, NewTree DEF Tree
<1>11. Living(Idle, tbl', p, {f})
  <2>1. {f} \ {Idle.frame} = {f}
    BY <1>2, IdleIs
  <2>2. p.to = f /\ p = [to |-> f, flags |-> {"P", "U"}]
    BY DEF p
  <2> HIDE DEF f
  <2>. QED BY <1>10, <2>1, <2>2, IdleIs DEF Living
<1>12. Sound(Idle, tbl', {f})
  BY IdleIs DEF Sound
<1>13. SpaceInv(a)'
  BY <1>1, <1>2, <1>6, <1>9, <1>11, <1>12 DEF SpaceInv
<1>14. \A g \in Frame \cup {Kpt} : g \notin owned[a] => tbl'[g] = tbl[g]
  BY <1>2, <1>5
<1>. QED BY <1>1, <1>6, <1>7, <1>8, <1>9, <1>13, <1>14, Others
------------------------------------------------------------------------------
(* Entries that change *)

\* The entry a call of map is at, in its tree.
Stands(j, T, lev, W, a) ==
  LET i == j.va[j.level]
  IN /\ j.at \in T /\ lev[j.at] = j.level /\ i \in Index
     /\ ~ (lev[j.at] = 1 /\ i \in Kernel)
     /\ "P" \in W[j.level - 1].flags /\ j.at = W[j.level - 1].to
     /\ tbl[j.at][i] = W[j.level] /\ Here(a) = W[j.level]

LEMMA Standing ==
  ASSUME NEW j, NEW p, NEW O, NEW W, NEW a, Calls(j, p, O, W, a), W = Walk(tbl, p, j.va),
         j.level >= 1,
         NEW T, T = O \ {j.frame}, NEW lev, NEW par, NEW idx,
         Whole(T, p.to, tbl, lev, par, idx)
  PROVE  Stands(j, T, lev, W, a)
<1> DEFINE l == j.level
<1>1. /\ l \in 1 .. Levels /\ l - 1 \in 0 .. Levels /\ l - 1 < Levels /\ (l - 1) + 1 = l
      /\ l \in 0 .. Levels
  BY Basics DEF Calls
<1>2. "P" \in W[l - 1].flags /\ j.at = W[l - 1].to /\ Here(a) = W[l] /\ j.va \in Va
  BY DEF Calls, Walks
<1>3. W[l] = tbl[j.at][j.va[l]]
  <2>1. W[l] = IF "P" \in W[l - 1].flags THEN tbl[W[l - 1].to][j.va[l]] ELSE Absent
    BY <1>1, WalkIs
  <2>. QED BY <1>2, <2>1
<1>4. Descends(W, j.va, T, lev, par, idx)
  <2>1. T \in SUBSET Frame /\ p = [to |-> p.to, flags |-> {"P", "U"}]
    BY DEF Calls
  <2>. QED BY <1>2, <2>1, WalkIn
<1>5. j.at \in T /\ lev[j.at] = l
  BY <1>1, <1>2, <1>4 DEF Descends
<1>6. j.va[l] \in Index /\ (l = 1 => j.va[l] \notin Kernel)
  BY <1>1, <1>2, Basics
<1>. QED BY <1>2, <1>3, <1>5, <1>6 DEF Stands

\* One entry of one table is written.
Written(f, i, e) ==
  /\ tbl' \in [Frame \cup {Kpt} -> [Index -> Entry]]
  /\ \A g \in Frame \cup {Kpt} : g # f => tbl'[g] = tbl[g]
  /\ \A g \in Frame, k \in Index : tbl'[g][k] = IF g = f /\ k = i THEN e ELSE tbl[g][k]

LEMMA Writing ==
  ASSUME tbl \in [Frame \cup {Kpt} -> [Index -> Entry]], NEW f \in Frame, NEW i \in Index,
         NEW e \in Entry, tbl' = [tbl EXCEPT ![f][i] = e]
  PROVE  Written(f, i, e)
<1> DEFINE t == [tbl[f] EXCEPT ![i] = e]
<1>1. tbl' = [tbl EXCEPT ![f] = t]
  OBVIOUS
<1>2. tbl[f] \in [Index -> Entry]
  OBVIOUS
<1>3. t \in [Index -> Entry] /\ \A k \in Index : t[k] = IF k = i THEN e ELSE tbl[f][k]
  BY <1>2
<1> HIDE DEF t
<1>4. /\ tbl' \in [Frame \cup {Kpt} -> [Index -> Entry]] /\ tbl'[f] = t
      /\ \A g \in Frame \cup {Kpt} : g # f => tbl'[g] = tbl[g]
  BY <1>1, <1>3
<1>5. ASSUME NEW g \in Frame, NEW k \in Index
      PROVE  tbl'[g][k] = IF g = f /\ k = i THEN e ELSE tbl[g][k]
  BY <1>3, <1>4
<1>. QED BY <1>4, <1>5 DEF Written

\* A call of map writes one entry of its tree.
LEMMA WritesOne ==
  ASSUME IInv, NEW a \in As, NEW f \in owned[a], NEW i \in Index, NEW e \in Entry, NEW k \in Job,
         Written(f, i, e), Do(a, k), UNCHANGED <<ptr, live, free, owned, stopped>>,
         a \in live, Sound(k, tbl', owned[a]), Living(k, tbl', ptr[a], owned[a])
  PROVE  IInv'
<1>1. TypeInv'
  BY DEF IInv, TypeInv, Do, Written
<1>2. Share'
  BY DEF IInv, Share
<1>3. job'[a] = k /\ \A b \in As \ {a} : job'[b] = job[b]
  BY DEF IInv, TypeInv, Do
<1>4. SpaceInv(a)'
  BY <1>3 DEF SpaceInv
<1>5. \A g \in Frame \cup {Kpt} : g \notin owned[a] => tbl'[g] = tbl[g]
  BY DEF Written
<1>. QED BY <1>1, <1>2, <1>3, <1>4, <1>5, Others

LEMMA KeepsEnter ==
  ASSUME IInv, NEW a \in As, Enter(a)
  PROVE  IInv'
<1> DEFINE j == job[a]
           p == ptr[a]
           O == owned[a]
           W == Walk(tbl, p, j.va)
           at == j.at
           i == j.va[j.level]
           k == [Idle EXCEPT !.op = "again", !.va = j.va]
<1>1. j.op \in {"map", "unmap"} /\ j.level = Levels
  BY DEF Enter
<1>2. CASE Panic
  BY <1>2, Stops
<1>3. CASE /\ tbl' = [tbl EXCEPT ![at][i] = j.new] /\ Do(a, k)
           /\ UNCHANGED <<ptr, live, free, owned, stopped>>
  <2>1. Calls(j, p, O, W, a)
    BY <1>1, Calling
  <2>2. k \in Job /\ k.op = "again" /\ k.va = j.va /\ k.frame = None /\ ~ k.zero /\ k.level = 0
    <3>1. j.va \in Va \cup {None}
      BY <2>1 DEF Calls
    <3>. QED BY <3>1, IdleIs DEF Job, Op
  <2> HIDE DEF j, p, O, W, k
  <2>3. j.frame = None /\ O \ {j.frame} = O
    <3>1. j.frame = None
      BY <1>1, <2>1, Basics DEF Calls, Walks, j
    <3>. QED BY <3>1, Mine DEF O
  <2>4. PICK lev \in Levelled, par \in Kinship, idx \in Numbers : Whole(O, p.to, tbl, lev, par, idx)
    <3>1. Tree(O, p.to, tbl)
      BY <2>1, <2>3 DEF Calls
    <3>. QED BY <3>1 DEF Tree
  <2>5. Stands(j, O, lev, W, a)
    BY <1>1, <2>1, <2>3, <2>4, Standing, Basics DEF j, W
  <2>6. /\ at \in O /\ lev[at] = Levels /\ i \in Index /\ ~ (lev[at] = 1 /\ i \in Kernel)
        /\ O \in SUBSET Frame /\ p = [to |-> p.to, flags |-> {"P", "U"}] /\ a \in live
        /\ j \in Job /\ Walks(j, W)
    BY <1>1, <2>1, <2>5 DEF Stands, Calls, j
  <2>7. j.new \in Entry /\ (j.new = Absent \/ (j.new.to \in Page /\ {"P", "U"} \subseteq j.new.flags))
    BY <1>1, <2>6 DEF Job, Walks, j
  <2> HIDE DEF at, i
  <2>8. Written(at, i, j.new)
    BY <1>3, <2>6, <2>7, Mine, Writing
  <2>9. Whole(O, p.to, tbl', lev, par, idx)
    <3>1. Put(tbl', tbl, O, at, i, j.new)
      BY <2>6, <2>8 DEF Written, Put
    <3>2. /\ at \in O /\ lev[at] = Levels /\ i \in Index /\ ~ (lev[at] = 1 /\ i \in Kernel)
          /\ O \in SUBSET Frame
      BY <2>6
    <3> DEFINE e == j.new
    <3>3. Final(e) /\ Put(tbl', tbl, O, at, i, e)
      BY <2>7, <3>1 DEF Final
    <3> HIDE DEF e
    <3>. QED BY <2>4, <3>2, <3>3, EnterTree
  <2>10. Tree(O \ {k.frame}, p.to, tbl')
    BY <2>2, <2>3, <2>9 DEF Tree
  <2>11. Walks(k, Walk(tbl', p, k.va))
    <3>1. k.va \in Va
      BY <2>1, <2>2 DEF Calls
    <3>. QED BY <2>2, <3>1 DEF Walks
  <2>12. Living(k, tbl', p, O)
    BY <2>2, <2>6, <2>10, <2>11 DEF Living
  <2>13. Sound(k, tbl', O)
    BY <2>2 DEF Sound
  <2>. QED BY <1>3, <2>2, <2>6, <2>7, <2>8, <2>12, <2>13, WritesOne DEF p, O
<1>. QED BY <1>2, <1>3 DEF Enter

LEMMA KeepsLink ==
  ASSUME IInv, NEW a \in As, Link(a)
  PROVE  IInv'
<1> DEFINE j == job[a]
           p == ptr[a]
           O == owned[a]
           W == Walk(tbl, p, j.va)
           at == j.at
           l == j.level
           i == j.va[l]
           g == j.frame
           e == [to |-> g, flags |-> Flag]
           k == [j EXCEPT !.level = @ + 1, !.at = j.frame, !.frame = None, !.zero = FALSE]
<1>1. /\ j.op \in {"map", "unmap", "again"} /\ l < Levels /\ j.zero
      /\ tbl' = [tbl EXCEPT ![at][i] = e] /\ Do(a, k)
      /\ UNCHANGED <<ptr, live, free, owned, stopped>>
  BY DEF Link, Walking
<1>2. Calls(j, p, O, W, a) /\ Sound(j, tbl, O)
  BY <1>1, Calling, Mine
<1> HIDE DEF k
<1>3. /\ g # None /\ g \in O /\ tbl[g] = Zeros /\ l \in 1 .. Levels - 1 /\ "P" \notin W[l].flags
      /\ g \in Frame /\ l \in Nat /\ l >= 1 /\ l + 1 \in 0 .. Levels /\ (l + 1) - 1 = l
      /\ l + 1 \in Nat
  <2>1. g # None /\ g \in O /\ tbl[g] = Zeros
    BY <1>1, <1>2 DEF Sound
  <2>2. Walks(j, W) /\ O \in SUBSET Frame
    BY <1>2 DEF Calls
  <2> HIDE DEF j, O, W
  <2>3. l \in 1 .. Levels - 1 /\ "P" \notin W[l].flags
    BY <2>1, <2>2 DEF Walks
  <2> HIDE DEF l, g
  <2>4. l \in Nat /\ l >= 1 /\ l + 1 \in 0 .. Levels /\ (l + 1) - 1 = l /\ l + 1 \in Nat
    BY <2>3, Basics
  <2>. QED BY <2>1, <2>2, <2>3, <2>4
<1>4. /\ k \in Job /\ k.op = j.op /\ k.va = j.va /\ k.frame = None /\ ~ k.zero
      /\ k.level = l + 1 /\ k.at = g /\ k.new = j.new
  <2>1. j \in Job
    BY <1>2 DEF Calls
  <2>. QED BY <1>3, <2>1 DEF k, Job
<1> DEFINE T == O \ {g}
<1>5. PICK lev \in Levelled, par \in Kinship, idx \in Numbers : Whole(T, p.to, tbl, lev, par, idx)
  BY <1>2 DEF Calls, Tree
<1>6. Stands(j, T, lev, W, a)
  <2>1. Calls(j, p, O, W, a) /\ W = Walk(tbl, p, j.va) /\ j.level >= 1 /\ T = O \ {j.frame}
    BY <1>2, <1>3
  <2> HIDE DEF T, W, j, p, O
  <2>. QED BY <1>5, <2>1, Standing
<1>7. /\ O \in SUBSET Frame /\ p = [to |-> p.to, flags |-> {"P", "U"}] /\ a \in live
      /\ j.va \in Va /\ Walks(j, W) /\ None \notin O
  BY <1>2, Mine DEF Calls
<1>8. /\ at \in T /\ lev[at] = l /\ lev[at] < Levels /\ i \in Index
      /\ ~ (lev[at] = 1 /\ i \in Kernel) /\ tbl[at][i] = W[l]
      /\ "P" \in W[l - 1].flags /\ at = W[l - 1].to
  BY <1>1, <1>6 DEF Stands
<1> HIDE DEF j, p, O, W, at, l, i, g
<1>9. T \in SUBSET Frame /\ at \in Frame /\ at # g /\ g \notin T
  BY <1>7, <1>8
<1>10. tbl[at][i] = Absent
  <2>1. Slot(tbl[at][i], at, i, T, lev, par, idx)
    BY <1>5, <1>8 DEF Whole
  <2>2. "P" \notin tbl[at][i].flags
    BY <1>3, <1>8
  <2> DEFINE s == tbl[at][i]
  <2> HIDE DEF s, T
  <2>3. Slot(s, at, i, T, lev, par, idx) /\ "P" \notin s.flags
    BY <2>1, <2>2 DEF s
  <2>4. s = Absent
    BY <1>8, <2>3 DEF Slot, Flag
  <2>. QED BY <2>4 DEF s
<1>11. e \in Entry
  BY <1>3 DEF Entry, Flag
<1> HIDE DEF e
<1>12. Written(at, i, e)
  BY <1>1, <1>8, <1>9, <1>11, Mine, Writing
<1>13. Tree(O \ {k.frame}, p.to, tbl')
  <2>1. Put(tbl', tbl, T, at, i, [to |-> g, flags |-> Flag])
    BY <1>9, <1>12 DEF Written, Put, e
  <2>2. \A m \in Index : tbl'[g][m] = Absent
    BY <1>3, <1>9, <1>12 DEF Written, Zeros
  <2>3. T \cup {g} = O /\ O \ {k.frame} = O
    BY <1>3, <1>4, <1>7
  <2> HIDE DEF T
  <2>4. \E lev2 \in Levelled, par2 \in Kinship, idx2 \in Numbers :
            Whole(T \cup {g}, p.to, tbl', lev2, par2, idx2)
    <3>1. /\ T \in SUBSET Frame /\ at \in T /\ i \in Index /\ lev[at] < Levels
          /\ ~ (lev[at] = 1 /\ i \in Kernel) /\ g \in Frame /\ g \notin T
      BY <1>3, <1>8, <1>9
    <3>. QED BY <1>5, <1>10, <2>1, <2>2, <3>1, LinkTree
  <2>. QED BY <2>3, <2>4 DEF Tree
<1> DEFINE X == Walk(tbl', p, j.va)
<1>14. "P" \in X[l].flags /\ X[l].to = g
  <2>1. Descends(W, j.va, T, lev, par, idx)
    <3> HIDE DEF T
    <3>. QED BY <1>5, <1>7, <1>9, WalkIn DEF W
  <2>2. ASSUME NEW n \in 1 .. l - 1, "P" \in W[n - 1].flags
        PROVE  tbl'[W[n - 1].to][j.va[n]] = tbl[W[n - 1].to][j.va[n]]
    <3>1. /\ n - 1 \in 0 .. Levels /\ n - 1 < Levels /\ (n - 1) + 1 = n /\ n # l
      BY <1>3, Basics
    <3>2. W[n - 1].to \in T /\ lev[W[n - 1].to] = n
      BY <2>1, <2>2, <3>1 DEF Descends
    <3>3. W[n - 1].to # at /\ W[n - 1].to \in Frame
      BY <1>8, <1>9, <3>1, <3>2
    <3>. QED BY <1>12, <3>3 DEF Written
  <2>3. l - 1 \in 0 .. Levels /\ l - 1 \in 0 .. l - 1 /\ l \in 1 .. Levels
    BY <1>3, Basics
  <2>4. X[l - 1] = W[l - 1]
    <3>1. \A n \in 0 .. l - 1 : Walk(tbl', p, j.va)[n] = W[n]
      BY <2>2, <2>3, WalkSame DEF W
    <3>. QED BY <2>3, <3>1
  <2>5. X[l] = IF "P" \in X[l - 1].flags THEN tbl'[X[l - 1].to][j.va[l]] ELSE Absent
    BY <2>3, WalkIs
  <2> HIDE DEF X
  <2>6. X[l] = tbl'[at][i]
    BY <1>8, <2>4, <2>5 DEF i
  <2>7. tbl'[at][i] = e
    BY <1>8, <1>9, <1>12 DEF Written
  <2>. QED BY <2>6, <2>7 DEF e, Flag
<1> HIDE DEF X
<1>15. Walks(k, X)
  BY <1>3, <1>4, <1>7, <1>14 DEF Walks, j, l
<1>16. Living(k, tbl', p, O)
  <2>1. k.op \in {"idle", "map", "unmap", "again"} /\ X = Walk(tbl', p, k.va)
    BY <1>1, <1>4 DEF X, j
  <2>. QED BY <1>7, <1>13, <1>15, <2>1 DEF Living
<1>17. Sound(k, tbl', O)
  BY <1>1, <1>4 DEF Sound, j
<1>18. at \in O
  BY <1>8
<1>. QED BY <1>1, <1>4, <1>7, <1>8, <1>11, <1>12, <1>16, <1>17, <1>18, WritesOne DEF p, O
------------------------------------------------------------------------------
LEMMA Starts ==
  ASSUME Init
  PROVE  IInv
<1>1. Absent \in Entry /\ KernelEntry \in Entry /\ Idle \in Job
  BY IdleIs DEF Absent, KernelEntry, Entry, Flag
<1>2. TypeInv
  <2>1. tbl \in [Frame \cup {Kpt} -> [Index -> Entry]]
    BY <1>1 DEF Init, KernelEntry, Entry
  <2>. QED BY <1>1, <2>1 DEF Init, TypeInv
<1>3. KptInv
  BY DEF Init, KptInv, KernelEntry
<1>4. Share
  BY DEF Init, Share
<1>5. ASSUME NEW a \in As PROVE SpaceInv(a)
  <2>1. job[a] = Idle /\ owned[a] = {} /\ a \notin live
    BY <1>5 DEF Init
  <2>. QED BY <2>1, IdleIs DEF SpaceInv, Sound, Dead
<1>. QED BY <1>2, <1>3, <1>4, <1>5 DEF IInv

LEMMA Keeps ==
  ASSUME IInv, [Next]_vars
  PROVE  IInv'
<1>1. CASE UNCHANGED vars
  BY <1>1 DEF IInv, TypeInv, KptInv, Share, SpaceInv, vars
<1>2. ASSUME NEW a \in As, Step(a) PROVE IInv'
  <2>1. CASE Protect(a)
    BY <2>1, KeepsProtect
  <2>2. CASE Root(a)
    BY <2>2, KeepsRoot
  <2>3. CASE Zero(a)
    BY <2>3, KeepsZero
  <2>4. CASE Fill(a)
    BY <2>4, KeepsFill
  <2>5. CASE Map(a)
    BY <2>5, KeepsMap
  <2>6. CASE Unmap(a)
    BY <2>6, KeepsUnmap
  <2>7. CASE Down(a)
    BY <2>7, KeepsDown
  <2>8. CASE NewTable(a)
    BY <2>8, KeepsNewTable
  <2>9. CASE Link(a)
    BY <2>9, KeepsLink
  <2>10. CASE Enter(a)
    BY <2>10, KeepsEnter
  <2>11. CASE Return(a)
    BY <2>11, KeepsReturn
  <2>12. CASE Unprotect(a)
    BY <2>12, KeepsUnprotect
  <2>13. CASE Enters(a)
    BY <2>13, KeepsEnters
  <2>14. CASE Frees(a)
    BY <2>14, KeepsFrees
  <2>. QED BY <1>2, <2>1, <2>2, <2>3, <2>4, <2>5, <2>6, <2>7, <2>8, <2>9, <2>10, <2>11, <2>12,
              <2>13, <2>14 DEF Step
<1>. QED BY <1>1, <1>2 DEF Next

\* The trees of tables are in order at every moment: whatever a call has got to
\* with its walk (ptwalk), its new tables or its teardown, an address space owns
\* the tables under its root and nothing else.
THEOREM Inductive == Spec => []IInv
<1>1. Init => IInv
  BY Starts
<1>2. IInv /\ [Next]_vars => IInv'
  BY Keeps
<1>. QED BY <1>1, <1>2, PTL DEF Spec

LEMMA SafeIs ==
  ASSUME IInv
  PROVE  VmeSafe
<1>1. TypeOK
  BY DEF IInv, TypeInv, TypeOK, Job
<1>2. ASSUME NEW a \in As, job[a] = Idle
      PROVE  owned[a] = IF a \in live THEN Tables(a) ELSE {}
  <2> DEFINE O == owned[a]
  <2>1. O \in SUBSET Frame /\ None \notin O
    BY Mine
  <2>2. CASE a \in live
    <3>1. Living(Idle, tbl, ptr[a], O)
      BY <1>2, <2>2, Mine
    <3> HIDE DEF O
    <3>2. Tree(O, ptr[a].to, tbl)
      <4>1. O \ {Idle.frame} = O
        BY <2>1, IdleIs
      <4>. QED BY <3>1, <4>1 DEF Living
    <3>3. PICK lev \in Levelled, par \in Kinship, idx \in Numbers :
             Whole(O, ptr[a].to, tbl, lev, par, idx)
      BY <3>2 DEF Tree
    <3>4. Tables(a) = O
      BY <2>1, <3>3, TablesAre
    <3>. QED BY <2>2, <3>4 DEF O
  <2>3. CASE a \notin live
    <3>1. Dead(Idle, tbl, O)
      BY <1>2, <2>3, Mine
    <3>. QED BY <2>3, <3>1, IdleIs DEF Dead
  <2>. QED BY <2>2, <2>3
<1>3. TablesKept
  BY <1>2 DEF TablesKept, IInv, Share
<1>4. ASSUME NEW a \in live, NEW i \in Kernel
      PROVE  tbl[ptr[a].to][i] = tbl[Kpt][i] /\ "U" \notin tbl[ptr[a].to][i].flags
  <2> DEFINE root == ptr[a].to
             T == owned[a] \ {job[a].frame}
  <2>1. a \in As /\ i \in Index
    BY <1>4, Basics DEF IInv, TypeInv
  <2>2. Tree(T, root, tbl)
    BY <2>1, Mine DEF Living
  <2> HIDE DEF T, root
  <2>3. PICK lev \in Levelled, par \in Kinship, idx \in Numbers : Whole(T, root, tbl, lev, par, idx)
    BY <2>2 DEF Tree
  <2>4. lev[root] = 1 /\ Slot(tbl[root][i], root, i, T, lev, par, idx)
    BY <2>1, <2>3 DEF Whole
  <2>5. tbl[root][i] = KernelEntry
    BY <2>4 DEF Slot
  <2>6. tbl[Kpt][i] = KernelEntry
    BY <2>1 DEF IInv, KptInv
  <2>. QED BY <2>5, <2>6 DEF KernelEntry, root
<1>5. KernelShared
  BY <1>4 DEF KernelShared
<1>. QED BY <1>1, <1>3, <1>5 DEF VmeSafe

\* protect, map and unprotect never lose a table, share one or free one twice,
\* and the kernel's entries stay in every address space, out of the user's reach.
THEOREM Safe == Spec => []VmeSafe
<1>1. IInv => VmeSafe
  BY SafeIs
<1>. QED BY <1>1, Inductive, PTL
------------------------------------------------------------------------------
(* Refinement of AddressSpace *)

\* What a user program sees of the tables.
View(tb, p) == [va \in Va |-> Found(Walk(tb, p, va))]

Mapping == [page : Page, write : BOOLEAN]

LEMMA SpaceIs ==
  Space = [a \in As |-> IF a \in live THEN View(tbl, ptr[a]) ELSE None]
<1>1. ASSUME NEW a, NEW va PROVE Translate(a, va) = Found(Walk(tbl, ptr[a], va))
  <2>1. Entries(a, va) = Walk(tbl, ptr[a], va)
    BY DEF Entries, Walk
  <2>2. Translate(a, va) = Found(Entries(a, va))
    BY DEF Translate, Found
  <2>. QED BY <2>1, <2>2
<1>. QED BY <1>1 DEF Space, View

LEMMA SpaceNext ==
  Space' = [a \in As |-> IF a \in live' THEN View(tbl', ptr'[a]) ELSE None]
<1>1. (Space = [a \in As |-> IF a \in live THEN View(tbl, ptr[a]) ELSE None])'
  BY SpaceIs, PTL
<1>. QED BY <1>1

\* The last entry of a walk decides.
LEMMA ViewIs ==
  ASSUME NEW T \in SUBSET Frame, NEW tb, NEW p, Rooted(p), Tree(T, p.to, tb)
  PROVE  /\ \A va \in Va : View(tb, p)[va] = Meaning(Walk(tb, p, va)[Levels])
         /\ View(tb, p) \in [Va -> Mapping \cup {None}]
         /\ View(tb, p) # None
<1>1. PICK lev \in Levelled, par \in Kinship, idx \in Numbers : Whole(T, p.to, tb, lev, par, idx)
  BY DEF Tree
<1>2. ASSUME NEW va \in Va
      PROVE  /\ Found(Walk(tb, p, va)) = Meaning(Walk(tb, p, va)[Levels])
             /\ Found(Walk(tb, p, va)) \in Mapping \cup {None}
  <2> DEFINE W == Walk(tb, p, va)
  <2>1. /\ Found(W) = Meaning(W[Levels])
        /\ "P" \in W[Levels].flags => W[Levels].to \in Page
    BY <1>1, FoundIs DEF Rooted
  <2> HIDE DEF W
  <2>2. Found(W) \in Mapping \cup {None}
    BY <2>1 DEF Meaning, Mapping
  <2>. QED BY <2>1, <2>2 DEF W
<1>3. View(tb, p) \in [Va -> Mapping \cup {None}]
  BY <1>2 DEF View
<1>4. None \notin [Va -> Mapping \cup {None}]
  BY NoneAssumption DEF Mapping
<1>. QED BY <1>2, <1>3, <1>4 DEF View

LEMMA ViewFrame ==
  ASSUME NEW T \in SUBSET Frame, NEW tb, NEW tc, NEW p, Rooted(p), Tree(T, p.to, tb),
         \A f \in T : tc[f] = tb[f]
  PROVE  View(tc, p) = View(tb, p)
<1>1. ASSUME NEW va \in Va PROVE Found(Walk(tc, p, va)) = Found(Walk(tb, p, va))
  <2> DEFINE W == Walk(tb, p, va)
             X == Walk(tc, p, va)
  <2>1. \A n \in 0 .. Levels : X[n] = W[n]
    BY WalkFrame
  <2>2. Levels \in 0 .. Levels /\ \A n \in 1 .. Levels : n \in 0 .. Levels
    BY Basics
  <2> HIDE DEF W, X
  <2>3. (\E n \in 0 .. Levels : ~({"P", "U"} \subseteq X[n].flags))
          <=> \E n \in 0 .. Levels : ~({"P", "U"} \subseteq W[n].flags)
    BY <2>1
  <2> DEFINE A == \A n \in 1 .. Levels : "W" \in X[n].flags
             B == \A n \in 1 .. Levels : "W" \in W[n].flags
  <2>4. A \in BOOLEAN /\ B \in BOOLEAN /\ (A <=> B)
    BY <2>1, <2>2
  <2>5. A = B
    <3> HIDE DEF A, B
    <3>. QED BY <2>4
  <2>6. X[Levels] = W[Levels]
    BY <2>1, <2>2
  <2>7. Found(X) = Found(W)
    BY <2>3, <2>5, <2>6 DEF Found
  <2>. QED BY <2>7 DEF W, X
<1>. QED BY <1>1 DEF View

\* An address space that is there, seen from above.
LEMMA Seen ==
  ASSUME IInv, NEW a \in live
  PROVE  /\ Space[a] = View(tbl, ptr[a]) /\ Rooted(ptr[a]) /\ a \in As
         /\ Tree(owned[a] \ {job[a].frame}, ptr[a].to, tbl)
         /\ owned[a] \ {job[a].frame} \in SUBSET Frame
<1>1. a \in As /\ owned[a] \in SUBSET Frame
  BY DEF IInv, TypeInv
<1>2. Living(job[a], tbl, ptr[a], owned[a])
  BY <1>1, Mine
<1>. QED BY <1>1, <1>2, SpaceIs DEF Living, Rooted

\* What one address space does, the others do not see.
LEMMA OthersSee ==
  ASSUME IInv, NEW a \in As, NEW b \in As \ {a},
         \A f \in Frame \cup {Kpt} : f \notin owned[a] => tbl'[f] = tbl[f],
         ptr'[b] = ptr[b], b \in live' <=> b \in live
  PROVE  Space'[b] = Space[b]
<1>1. CASE b \in live
  <2> DEFINE T == owned[b] \ {job[b].frame}
  <2>1. /\ Space[b] = View(tbl, ptr[b]) /\ Rooted(ptr[b])
        /\ Tree(T, ptr[b].to, tbl) /\ T \in SUBSET Frame
    BY <1>1, Seen
  <2>2. \A f \in T : tbl'[f] = tbl[f]
    BY <2>1 DEF IInv, Share
  <2> HIDE DEF T
  <2>3. View(tbl', ptr[b]) = View(tbl, ptr[b])
    BY <2>1, <2>2, ViewFrame
  <2>. QED BY <1>1, <2>1, <2>3, SpaceNext
<1>2. CASE b \notin live
  BY <1>2, SpaceIs, SpaceNext
<1>. QED BY <1>1, <1>2

\* A walk that does not pass the entry that is written.
LEMMA Passes ==
  ASSUME NEW p, NEW va \in Va, NEW f, NEW i, NEW e, Written(f, i, e), NEW W, W = Walk(tbl, p, va),
         NEW l \in 0 .. Levels,
         \A n \in 1 .. l : "P" \in W[n - 1].flags =>
            W[n - 1].to \in Frame /\ ~ (W[n - 1].to = f /\ va[n] = i)
  PROVE  \A n \in 0 .. l : Walk(tbl', p, va)[n] = W[n]
<1>1. \A n \in 1 .. l : "P" \in W[n - 1].flags =>
                           tbl'[W[n - 1].to][va[n]] = tbl[W[n - 1].to][va[n]]
  <2>1. \A n \in 1 .. l : va[n] \in Index
    BY Basics
  <2>. QED BY <2>1 DEF Written
<1>. QED BY <1>1, WalkSame

LEMMA SeenNext ==
  IInv' => \A a \in live' :
     /\ Space'[a] = View(tbl', ptr'[a]) /\ Rooted(ptr'[a])
     /\ Tree(owned'[a] \ {job'[a].frame}, ptr'[a].to, tbl')
     /\ owned'[a] \ {job'[a].frame} \in SUBSET Frame
<1> DEFINE Sees == IInv => \A a \in live :
     /\ Space[a] = View(tbl, ptr[a]) /\ Rooted(ptr[a])
     /\ Tree(owned[a] \ {job[a].frame}, ptr[a].to, tbl)
     /\ owned[a] \ {job[a].frame} \in SUBSET Frame
<1>1. Sees
  BY Seen
<1>2. Sees'
  BY <1>1, PTL
<1>. QED BY <1>2

\* A walk passes the entry that is written, or ends as before.
Alters(W, X, va, at, l, i, e) ==
  IF "P" \in W[l - 1].flags /\ W[l - 1].to = at /\ va[l] = i
  THEN W[l] = tbl[at][i] /\ X[l] = e
  ELSE X[Levels] = W[Levels]

LEMMA Rewritten ==
  ASSUME NEW T \in SUBSET Frame, NEW lev, NEW par, NEW idx, NEW p, Rooted(p),
         Whole(T, p.to, tbl, lev, par, idx), NEW va \in Va,
         NEW at \in T, NEW l \in 1 .. Levels, lev[at] = l, NEW i \in Index, NEW e,
         Written(at, i, e)
  PROVE  Alters(Walk(tbl, p, va), Walk(tbl', p, va), va, at, l, i, e)
<1> DEFINE W == Walk(tbl, p, va)
           X == Walk(tbl', p, va)
<1>1. Descends(W, va, T, lev, par, idx)
  BY WalkIn DEF Rooted
<1>1a. /\ \A n \in 1 .. Levels : W[n] = IF "P" \in W[n - 1].flags
                                         THEN tbl[W[n - 1].to][va[n]] ELSE Absent
       /\ \A n \in 1 .. Levels : X[n] = IF "P" \in X[n - 1].flags
                                         THEN tbl'[X[n - 1].to][va[n]] ELSE Absent
  BY WalkIs
<1>1b. W = Walk(tbl, p, va) /\ X = Walk(tbl', p, va)
  OBVIOUS
<1> SUFFICES Alters(W, X, va, at, l, i, e)
  OBVIOUS
<1> HIDE DEF W, X
<1>2. /\ l \in Nat /\ Levels \in Nat /\ l - 1 \in 0 .. Levels /\ Levels \in 0 .. Levels
      /\ l \in 0 .. Levels
  BY Basics
<1>3. ASSUME NEW n \in 1 .. Levels, "P" \in W[n - 1].flags
      PROVE  W[n - 1].to \in Frame /\ (W[n - 1].to = at => n = l)
  <2>1. n - 1 \in 0 .. Levels /\ n - 1 < Levels /\ (n - 1) + 1 = n
    BY <1>2
  <2>2. W[n - 1].to \in T /\ lev[W[n - 1].to] = n
    BY <1>1, <1>3, <2>1 DEF Descends
  <2>. QED BY <2>2
<1>4. CASE "P" \in W[l - 1].flags /\ W[l - 1].to = at /\ va[l] = i
  <2>1. \A n \in 1 .. l - 1 : n \in 1 .. Levels /\ n # l
    BY <1>2
  <2>2. \A n \in 0 .. l - 1 : X[n] = W[n]
    BY <1>1b, <1>2, <1>3, <2>1, Passes
  <2>3. l - 1 \in 0 .. l - 1
    BY <1>2
  <2>4. X[l - 1] = W[l - 1]
    BY <2>2, <2>3
  <2>5. W[l] = tbl[at][i]
    BY <1>1a, <1>4
  <2>6. X[l] = tbl'[at][i]
    BY <1>1a, <1>4, <2>4
  <2>7. tbl'[at][i] = e
    BY DEF Written
  <2>. QED BY <1>4, <2>5, <2>6, <2>7 DEF Alters
<1>5. CASE ~ ("P" \in W[l - 1].flags /\ W[l - 1].to = at /\ va[l] = i)
  <2>1. \A n \in 0 .. Levels : X[n] = W[n]
    BY <1>1b, <1>2, <1>3, <1>5, Passes
  <2>. QED BY <1>2, <1>5, <2>1 DEF Alters
<1>. QED BY <1>4, <1>5

\* Where a call of map is, in the tree that its address space has.
Placed(a, T, lev, par, idx) ==
  LET j == job[a]
  IN /\ a \in live /\ T \in SUBSET Frame /\ T = owned[a] \ {j.frame}
     /\ Rooted(ptr[a]) /\ Whole(T, ptr[a].to, tbl, lev, par, idx)
     /\ j.va \in Va /\ j.at \in T /\ lev[j.at] = j.level /\ j.va[j.level] \in Index
     /\ tbl[j.at][j.va[j.level]] = Here(a)
     /\ "P" \in Walk(tbl, ptr[a], j.va)[j.level - 1].flags
     /\ j.at = Walk(tbl, ptr[a], j.va)[j.level - 1].to

LEMMA Placing ==
  ASSUME IInv, NEW a \in As, job[a].op \in {"map", "unmap", "again"}, job[a].level >= 1
  PROVE  \E T, lev, par, idx : Placed(a, T, lev, par, idx)
<1> DEFINE j == job[a]
           p == ptr[a]
           O == owned[a]
           W == Walk(tbl, p, j.va)
           T == O \ {j.frame}
<1>1. Calls(j, p, O, W, a) /\ W = Walk(tbl, p, j.va) /\ j.level >= 1 /\ T = O \ {j.frame}
  BY Calling
<1>2. PICK lev \in Levelled, par \in Kinship, idx \in Numbers : Whole(T, p.to, tbl, lev, par, idx)
  BY <1>1 DEF Calls, Tree
<1>3. Stands(j, T, lev, W, a)
  <2> HIDE DEF T, W, j, p, O
  <2>. QED BY <1>1, <1>2, Standing
<1>4. a \in live /\ T \in SUBSET Frame /\ Rooted(p) /\ j.va \in Va
  BY <1>1 DEF Calls, Rooted
<1>5. Placed(a, T, lev, par, idx)
  BY <1>2, <1>3, <1>4 DEF Placed, Stands
<1>. QED BY <1>5

\* A table of zeros, linked, changes nothing that a program sees.
LEMMA SeesLink ==
  ASSUME IInv, IInv', NEW a \in As, Link(a)
  PROVE  Space'[a] = Space[a]
<1> DEFINE j == job[a]
           p == ptr[a]
           at == j.at
           l == j.level
           i == j.va[l]
           g == j.frame
           e == [to |-> g, flags |-> Flag]
<1>1. /\ j.op \in {"map", "unmap", "again"} /\ j.zero /\ tbl' = [tbl EXCEPT ![at][i] = e]
      /\ UNCHANGED <<ptr, live>>
  BY DEF Link, Walking
<1>2. /\ g \in owned[a] /\ g \in Frame /\ tbl[g] = Zeros
      /\ l \in 1 .. Levels - 1 /\ l >= 1 /\ "P" \notin Here(a).flags
  <2> DEFINE W == Walk(tbl, p, j.va)
             O == owned[a]
  <2>1. Calls(j, p, O, W, a) /\ Sound(j, tbl, O) /\ O \in SUBSET Frame
    BY <1>1, Calling, Mine
  <2> HIDE DEF W, p, j, O
  <2>2. g # None /\ g \in O /\ g \in Frame /\ tbl[g] = Zeros
    BY <1>1, <2>1 DEF Sound
  <2>3. Walks(j, W) /\ Here(a) = W[l]
    BY <2>1 DEF Calls
  <2>4. l \in 1 .. Levels - 1 /\ "P" \notin W[l].flags
    BY <2>2, <2>3 DEF Walks
  <2> HIDE DEF l
  <2>5. l >= 1
    BY <2>4
  <2>. QED BY <2>2, <2>3, <2>4, <2>5 DEF O
<1>3. PICK T, lev, par, idx : Placed(a, T, lev, par, idx)
  BY <1>1, <1>2, Placing
<1>4. /\ a \in live /\ T \in SUBSET Frame /\ g \notin T /\ at \in T /\ lev[at] = l /\ i \in Index
      /\ Rooted(p) /\ Whole(T, p.to, tbl, lev, par, idx) /\ tbl[at][i] = Here(a)
  BY <1>3 DEF Placed
<1>5. Space[a] = View(tbl, p) /\ Tree(owned[a] \ {j.frame}, p.to, tbl) /\ owned[a] \ {j.frame} \in SUBSET Frame
  BY <1>4, Seen
<1>6. a \in live' /\ ptr'[a] = p
  BY <1>1, <1>4
<1>7. /\ Space'[a] = View(tbl', p)
      /\ Tree(owned'[a] \ {job'[a].frame}, p.to, tbl')
      /\ owned'[a] \ {job'[a].frame} \in SUBSET Frame
  BY <1>6, SeenNext
<1> HIDE DEF j, p, at, l, i, g
<1>8. l \in 1 .. Levels /\ l \in 0 .. Levels /\ l + 1 \in 0 .. Levels
      /\ l + 1 \in 1 .. Levels /\ (l + 1) - 1 = l
  BY <1>2, Basics
<1>9. Written(at, i, e)
  <2>1. e \in Entry /\ at \in Frame
    BY <1>2, <1>4 DEF Entry, Flag
  <2> HIDE DEF e
  <2>. QED BY <1>1, <1>4, <2>1, Mine, Writing
<1>10. ASSUME NEW va \in Va PROVE View(tbl', p)[va] = View(tbl, p)[va]
  <2> DEFINE W == Walk(tbl, p, va)
             X == Walk(tbl', p, va)
  <2>1. View(tbl, p)[va] = Meaning(W[Levels])
    <3> DEFINE S == owned[a] \ {j.frame}
    <3>1. S \in SUBSET Frame /\ Tree(S, p.to, tbl) /\ Rooted(p)
      BY <1>4, <1>5
    <3> HIDE DEF S
    <3>. QED BY <3>1, ViewIs
  <2>2. View(tbl', p)[va] = Meaning(X[Levels])
    <3> DEFINE S == owned'[a] \ {job'[a].frame}
    <3>1. S \in SUBSET Frame /\ Tree(S, p.to, tbl') /\ Rooted(p)
      BY <1>4, <1>7
    <3> HIDE DEF S
    <3>. QED BY <3>1, ViewIs
  <2>3. Alters(W, X, va, at, l, i, e)
    <3>1. /\ T \in SUBSET Frame /\ at \in T /\ lev[at] = l /\ i \in Index
          /\ Rooted(p) /\ Whole(T, p.to, tbl, lev, par, idx) /\ l \in 1 .. Levels
      BY <1>4, <1>8
    <3> HIDE DEF e
    <3>. QED BY <1>9, <3>1, Rewritten
  <2>4. CASE X[Levels] = W[Levels]
    BY <2>1, <2>2, <2>4
  <2>5. CASE W[l] = tbl[at][i] /\ X[l] = e
    <3>1. "P" \notin W[Levels].flags
      <4>1. "P" \notin W[l].flags
        BY <1>2, <1>4, <2>5
      <4>. QED BY <1>8, <4>1, WalkEnds
    <3>2. X[l + 1] = tbl'[g][va[l + 1]]
      <4>1. X[l + 1] = IF "P" \in X[l].flags THEN tbl'[X[l].to][va[l + 1]] ELSE Absent
        BY <1>8, WalkIs
      <4> HIDE DEF X
      <4>. QED BY <2>5, <4>1 DEF Flag
    <3>3. tbl'[g][va[l + 1]] = Absent
      <4>1. va[l + 1] \in Index /\ g # at
        BY <1>4, <1>8, Basics
      <4>2. tbl'[g] = tbl[g]
        BY <1>2, <1>9, <4>1 DEF Written
      <4>. QED BY <1>2, <4>1, <4>2 DEF Zeros
    <3>4. "P" \notin X[Levels].flags
      <4>1. "P" \notin X[l + 1].flags
        BY <3>2, <3>3 DEF Absent
      <4>. QED BY <1>8, <4>1, WalkEnds
    <3>. QED BY <2>1, <2>2, <3>1, <3>4 DEF Meaning
  <2>. QED BY <2>3, <2>4, <2>5 DEF Alters
<1>11. View(tbl', p) = View(tbl, p)
  BY <1>10 DEF View
<1>. QED BY <1>5, <1>7, <1>11

\* An entry of the last level, written, changes one address.
LEMMA SeesEnter ==
  ASSUME IInv, IInv', NEW a \in As, Enter(a), ~ Panic
  PROVE  /\ \/ \E va \in Va : Abstract!Map(Space[a], Space'[a], va)
            \/ \E va \in Va : Abstract!Unmap(Space[a], Space'[a], va)
         /\ Space'[a] # Space[a]
<1> DEFINE j == job[a]
           p == ptr[a]
           at == j.at
           l == j.level
           va == j.va
           i == va[l]
           e == j.new
<1>1. /\ j.op \in {"map", "unmap"} /\ l = Levels
      /\ (j.op = "map" => "P" \notin Here(a).flags)
      /\ (j.op = "unmap" => "P" \in Here(a).flags)
      /\ tbl' = [tbl EXCEPT ![at][i] = e] /\ UNCHANGED <<ptr, live>>
  BY DEF Enter
<1>2. l \in 1 .. Levels /\ l >= 1 /\ l \in Nat /\ l \in 0 .. Levels
  BY <1>1, Basics
<1>3. /\ e \in Entry /\ (j.op = "map" => e.to \in Page /\ {"P", "U"} \subseteq e.flags)
      /\ (j.op = "unmap" => e = Absent)
  <2> DEFINE W == Walk(tbl, p, j.va)
             O == owned[a]
  <2>1. Calls(j, p, O, W, a)
    BY <1>1, Calling
  <2> HIDE DEF W, O, p, j
  <2>2. Walks(j, W) /\ j \in Job
    BY <2>1 DEF Calls
  <2>. QED BY <2>2 DEF Walks, Job
<1>4. PICK T, lev, par, idx : Placed(a, T, lev, par, idx)
  BY <1>1, <1>2, Placing
<1>5. /\ a \in live /\ T \in SUBSET Frame /\ at \in T /\ lev[at] = l /\ i \in Index
      /\ Rooted(p) /\ Whole(T, p.to, tbl, lev, par, idx) /\ tbl[at][i] = Here(a) /\ va \in Va
      /\ "P" \in Walk(tbl, p, va)[l - 1].flags /\ at = Walk(tbl, p, va)[l - 1].to
  BY <1>4 DEF Placed
<1>6. /\ Space[a] = View(tbl, p)
      /\ Tree(owned[a] \ {j.frame}, p.to, tbl) /\ owned[a] \ {j.frame} \in SUBSET Frame
  BY <1>5, Seen
<1>7. /\ Space'[a] = View(tbl', p)
      /\ Tree(owned'[a] \ {job'[a].frame}, p.to, tbl')
      /\ owned'[a] \ {job'[a].frame} \in SUBSET Frame
  <2>1. a \in live' /\ ptr'[a] = p
    BY <1>1, <1>5
  <2>. QED BY <2>1, SeenNext
<1> HIDE DEF j, p, at, l, va, i, e
<1>8. Written(at, i, e)
  <2>1. at \in Frame
    BY <1>5
  <2>. QED BY <1>1, <1>3, <1>5, <2>1, Mine, Writing
<1> DEFINE old == View(tbl, p)
           new == View(tbl', p)
<1>9. /\ old \in [Va -> Mapping \cup {None}] /\ old # None
      /\ \A vb \in Va : old[vb] = Meaning(Walk(tbl, p, vb)[Levels])
  <2> DEFINE S == owned[a] \ {j.frame}
  <2>1. S \in SUBSET Frame /\ Tree(S, p.to, tbl) /\ Rooted(p)
    BY <1>5, <1>6
  <2> HIDE DEF S
  <2>. QED BY <2>1, ViewIs
<1>10. /\ new \in [Va -> Mapping \cup {None}] /\ new # None
       /\ \A vb \in Va : new[vb] = Meaning(Walk(tbl', p, vb)[Levels])
  <2> DEFINE S == owned'[a] \ {job'[a].frame}
  <2>1. S \in SUBSET Frame /\ Tree(S, p.to, tbl') /\ Rooted(p)
    BY <1>5, <1>7
  <2> HIDE DEF S
  <2>. QED BY <2>1, ViewIs
<1>11. ASSUME NEW vb \in Va
       PROVE  Alters(Walk(tbl, p, vb), Walk(tbl', p, vb), vb, at, l, i, e)
  BY <1>2, <1>5, <1>8, Rewritten
<1>12. /\ old[va] = Meaning(Here(a)) /\ new[va] = Meaning(e)
  <2> DEFINE W == Walk(tbl, p, va)
             X == Walk(tbl', p, va)
  <2>1. Alters(W, X, va, at, l, i, e) /\ "P" \in W[l - 1].flags /\ at = W[l - 1].to
    BY <1>5, <1>11
  <2>2. old[va] = Meaning(W[Levels]) /\ new[va] = Meaning(X[Levels])
    BY <1>5, <1>9, <1>10
  <2> HIDE DEF W, X, old, new
  <2>3. W[l] = tbl[at][i] /\ X[l] = e
    BY <2>1 DEF Alters, i
  <2>. QED BY <1>1, <1>5, <2>2, <2>3
<1>13. ASSUME NEW vb \in Va, vb # va PROVE new[vb] = old[vb]
  <2> DEFINE W == Walk(tbl, p, vb)
             X == Walk(tbl', p, vb)
             V == Walk(tbl, p, va)
  <2>1. old[vb] = Meaning(W[Levels]) /\ new[vb] = Meaning(X[Levels])
    BY <1>9, <1>10
  <2>2. Alters(W, X, vb, at, l, i, e) /\ "P" \in V[l - 1].flags /\ at = V[l - 1].to
    BY <1>5, <1>11
  <2>3. ~ ("P" \in W[l - 1].flags /\ W[l - 1].to = at /\ vb[l] = i)
    <3> SUFFICES ASSUME "P" \in W[l - 1].flags, W[l - 1].to = at, vb[l] = i PROVE FALSE
      OBVIOUS
    <3>1. \A n \in 1 .. l - 1 : va[n] = vb[n]
      <4>1. l - 1 \in 0 .. Levels - 1
        BY <1>1, <1>2, Basics
      <4>2. p = [to |-> p.to, flags |-> {"P", "U"}]
        BY <1>5 DEF Rooted
      <4>3. V = Walk(tbl, p, va) /\ W = Walk(tbl, p, vb) /\ W[l - 1].to = V[l - 1].to
        BY <2>2
      <4> DEFINE m == l - 1
      <4>4. m \in 0 .. Levels - 1 /\ "P" \in V[m].flags /\ "P" \in W[m].flags /\ V[m].to = W[m].to
        BY <2>2, <4>1, <4>3
      <4> DEFINE r == p.to
      <4>5. Whole(T, r, tbl, lev, par, idx) /\ p = [to |-> r, flags |-> {"P", "U"}]
            /\ T \in SUBSET Frame /\ va \in Va
        BY <1>5, <4>2
      <4> HIDE DEF V, W, m, r
      <4>6. \A n \in 1 .. m : va[n] = vb[n]
        BY <4>3, <4>4, <4>5, WalksMeet
      <4>. QED BY <4>6 DEF m
    <3>2. \A n \in 1 .. Levels : n \in 1 .. l - 1 \/ n = l
      BY <1>1, <1>2
    <3>3. va \in [1 .. Levels -> Index] /\ vb \in [1 .. Levels -> Index]
      BY <1>5, Basics
    <3>4. \A n \in 1 .. Levels : va[n] = vb[n]
      BY <3>1, <3>2 DEF i
    <3>5. va = vb
      <4>1. va = [n \in 1 .. Levels |-> va[n]] /\ vb = [n \in 1 .. Levels |-> vb[n]]
        BY <3>3
      <4>2. [n \in 1 .. Levels |-> va[n]] = [n \in 1 .. Levels |-> vb[n]]
        BY <3>4
      <4>. QED BY <4>1, <4>2
    <3>. QED BY <1>13, <3>5
  <2> HIDE DEF W, X, old, new
  <2>4. X[Levels] = W[Levels]
    BY <2>2, <2>3 DEF Alters
  <2>. QED BY <2>1, <2>4
<1> HIDE DEF old, new
<1>14. \A x : new[va] = x => new = [old EXCEPT ![va] = x]
  BY <1>9, <1>10, <1>13
<1>15. CASE j.op = "map"
  <2>1. old[va] = None
    BY <1>1, <1>12, <1>15 DEF Meaning
  <2> DEFINE w == "W" \in e.flags
  <2>2. new[va] = [page |-> e.to, write |-> w] /\ e.to \in Page /\ w \in BOOLEAN
    BY <1>3, <1>12, <1>15 DEF Meaning
  <2> HIDE DEF w
  <2>3. new = [old EXCEPT ![va] = [page |-> e.to, write |-> w]]
    BY <1>14, <2>2
  <2>4. Abstract!Map(old, new, va)
    BY <1>9, <1>10, <2>1, <2>2, <2>3 DEF Abstract!Map
  <2>5. old # new
    <3>1. new[va] \in Mapping
      BY <2>2 DEF Mapping
    <3>. QED BY <2>1, <3>1, NoneAssumption DEF Mapping
  <2>. QED BY <1>5, <1>6, <1>7, <2>4, <2>5 DEF old, new
<1>16. CASE j.op = "unmap"
  <2>1. old[va] # None
    <3>1. old[va] = [page |-> Here(a).to, write |-> "W" \in Here(a).flags]
      BY <1>1, <1>12, <1>16 DEF Meaning
    <3>2. old[va] \in Mapping \cup {None}
      BY <1>5, <1>9
    <3> DEFINE w == "W" \in Here(a).flags
    <3>3. Here(a).to \in Page /\ w \in BOOLEAN
      <4> DEFINE h == Here(a)
      <4>1. h = Walk(tbl, p, va)[Levels]
        <5>1. Alters(Walk(tbl, p, va), Walk(tbl', p, va), va, at, l, i, e)
          BY <1>5, <1>11
        <5>. QED BY <1>1, <1>5, <5>1 DEF Alters, i
      <4>2. "P" \in h.flags
        BY <1>1, <1>16
      <4>3. h.to \in Page
        <5>1. p = [to |-> p.to, flags |-> {"P", "U"}]
          BY <1>5 DEF Rooted
        <5> DEFINE r == p.to
                   W == Walk(tbl, p, va)
        <5>2. Whole(T, r, tbl, lev, par, idx) /\ p = [to |-> r, flags |-> {"P", "U"}]
              /\ T \in SUBSET Frame /\ va \in Va /\ W = Walk(tbl, p, va)
              /\ "P" \in W[Levels].flags /\ h = W[Levels]
          BY <1>5, <4>1, <4>2, <5>1
        <5> HIDE DEF r, W, h
        <5>. QED BY <5>2, FoundIs
      <4>. QED BY <4>3
    <3> HIDE DEF w
    <3>4. [page |-> Here(a).to, write |-> w] \in Mapping
      BY <3>3 DEF Mapping
    <3>. QED BY <3>1, <3>4, NoneAssumption DEF Mapping, w
  <2>2. new[va] = None
    BY <1>3, <1>12, <1>16 DEF Meaning, Absent
  <2>3. new = [old EXCEPT ![va] = None]
    BY <1>14, <2>2
  <2>4. Abstract!Unmap(old, new, va)
    BY <1>9, <1>10, <2>1, <2>3 DEF Abstract!Unmap
  <2>5. old # new
    BY <2>1, <2>2
  <2>. QED BY <1>5, <1>6, <1>7, <2>4, <2>5 DEF old, new
<1>. QED BY <1>1, <1>15, <1>16

\* A new address space is empty.
LEMMA SeesFill ==
  ASSUME IInv, IInv', NEW a \in As, Fill(a)
  PROVE  Abstract!Protect(Space[a], Space'[a]) /\ Space'[a] # None
<1> DEFINE f == job[a].frame
           p == [to |-> f, flags |-> {"P", "U"}]
           S == owned'[a] \ {job'[a].frame}
<1>1. /\ job[a].op = "protect" /\ live' = live \cup {a} /\ ptr' = [ptr EXCEPT ![a] = p]
      /\ job[a].zero
      /\ tbl' = [tbl EXCEPT ![f] = [i \in Index |-> IF i \in Kernel THEN tbl[Kpt][i]
                                                                      ELSE tbl[f][i]]]
  BY DEF Fill
<1>2. a \notin live /\ f \in Frame /\ tbl[f] = Zeros
  BY <1>1, Mine DEF Living, Sound
<1>3. ptr'[a] = p /\ \A i \in Index \ Kernel : tbl'[f][i] = Absent
  BY <1>1, <1>2 DEF IInv, TypeInv, Zeros
<1>4. Space[a] = None
  BY <1>2, SpaceIs
<1>5. /\ Space'[a] = View(tbl', p) /\ Rooted(p) /\ Tree(S, p.to, tbl') /\ S \in SUBSET Frame
  <2>1. a \in live'
    BY <1>1
  <2>. QED BY <1>3, <2>1, SeenNext
<1> HIDE DEF p, S
<1>6. /\ \A va \in Va : View(tbl', p)[va] = Meaning(Walk(tbl', p, va)[Levels])
      /\ View(tbl', p) # None
  BY <1>5, ViewIs
<1>7. ASSUME NEW va \in Va PROVE View(tbl', p)[va] = None
  <2> DEFINE W == Walk(tbl', p, va)
  <2>1. 1 \in 1 .. Levels /\ 1 \in 0 .. Levels /\ 1 - 1 = 0 /\ va[1] \in Index \ Kernel
    BY Basics
  <2>2. W[1] = IF "P" \in W[0].flags THEN tbl'[W[0].to][va[1]] ELSE Absent
    BY <2>1, WalkIs
  <2>3. W[0] = p
    BY WalkIs
  <2> HIDE DEF W
  <2>4. W[1] = Absent
    BY <1>3, <2>1, <2>2, <2>3 DEF p
  <2>5. "P" \notin W[Levels].flags
    <3>1. "P" \notin W[1].flags
      BY <2>4 DEF Absent
    <3>. QED BY <2>1, <3>1, WalkEnds DEF W
  <2>. QED BY <1>6, <2>5 DEF Meaning, W
<1>8. View(tbl', p) = [va \in Va |-> None]
  BY <1>7 DEF View
<1>. QED BY <1>4, <1>5, <1>6, <1>8 DEF Abstract!Protect, Abstract!Unmapped

\* The frame that is zeroed is not linked yet.
LEMMA SeesZero ==
  ASSUME IInv, NEW a \in As, Zero(a)
  PROVE  Space'[a] = Space[a]
<1>1. tbl' = [tbl EXCEPT ![job[a].frame] = Zeros] /\ UNCHANGED <<ptr, live>>
  BY DEF Zero
<1>2. CASE a \in live
  <2> DEFINE T == owned[a] \ {job[a].frame}
  <2>1. Space[a] = View(tbl, ptr[a]) /\ Rooted(ptr[a]) /\ Tree(T, ptr[a].to, tbl) /\ T \in SUBSET Frame
    BY <1>2, Seen
  <2>2. \A f \in T : tbl'[f] = tbl[f]
    BY <1>1, <2>1 DEF IInv, TypeInv
  <2> HIDE DEF T
  <2>3. View(tbl', ptr[a]) = View(tbl, ptr[a])
    BY <2>1, <2>2, ViewFrame
  <2>. QED BY <1>1, <1>2, <2>1, <2>3, SpaceNext
<1>3. CASE a \notin live
  BY <1>1, <1>3, SpaceIs, SpaceNext
<1>. QED BY <1>2, <1>3

LEMMA Same ==
  ASSUME UNCHANGED <<tbl, ptr, live>>
  PROVE  Space' = Space
BY SpaceIs, SpaceNext

\* The address spaces are all as before.
LEMMA NoneSees ==
  ASSUME NEW a \in As, Space'[a] = Space[a], \A b \in As \ {a} : Space'[b] = Space[b]
  PROVE  Space' = Space
<1>1. \A b \in As : Space'[b] = Space[b]
  OBVIOUS
<1>2. Space = [b \in As |-> Space[b]] /\ Space' = [b \in As |-> Space'[b]]
  BY SpaceIs, SpaceNext
<1> DEFINE A == [b \in As |-> Space[b]]
           B == [b \in As |-> Space'[b]]
<1>3. A = B
  BY <1>1
<1> HIDE DEF A, B
<1>4. Space = A /\ Space' = B
  BY <1>2 DEF A, B
<1>. QED BY <1>3, <1>4

\* One address space changes as a call changes it.
LEMMA OneSees ==
  ASSUME NEW a \in As, ~ stopped, UNCHANGED stopped,
         Abstract!Call(Space[a], Space'[a]), Space'[a] # Space[a],
         \A b \in As \ {a} : Space'[b] = Space[b]
  PROVE  Abstract!Next
<1>1. Space # Space'
  OBVIOUS
<1>. QED BY <1>1 DEF Abstract!Next, Abstract!Change

\* The steps that write a table, as->ptr or live.
LEMMA StepSees ==
  ASSUME IInv, IInv', ~ stopped, NEW a \in As,
         Zero(a) \/ Fill(a) \/ Link(a) \/ (Enter(a) /\ ~ Panic) \/ Unprotect(a)
  PROVE  Abstract!Next \/ UNCHANGED <<Space, stopped>>
<1>1. ASSUME NEW b \in As \ {a} PROVE Space'[b] = Space[b]
  <2>1. ptr'[b] = ptr[b] /\ (b \in live' <=> b \in live)
    BY DEF Zero, Fill, Link, Enter, Unprotect, IInv, TypeInv
  <2>2. \A f \in Frame \cup {Kpt} : f \notin owned[a] => tbl'[f] = tbl[f]
    <3>1. CASE Zero(a)
      <4>1. job[a].frame \in owned[a]
        BY <3>1, Mine DEF Zero, Sound
      <4>. QED BY <3>1, <4>1 DEF Zero, IInv, TypeInv
    <3>2. CASE Fill(a)
      <4>1. job[a].frame \in owned[a]
        BY <3>2, Mine DEF Fill, Sound
      <4>. QED BY <3>2, <4>1 DEF Fill, IInv, TypeInv
    <3>3. CASE Unprotect(a)
      BY <3>3 DEF Unprotect
    <3>4. CASE Link(a) \/ (Enter(a) /\ ~ Panic)
      <4> DEFINE j == job[a]
      <4>1. j.op \in {"map", "unmap", "again"} /\ j.level >= 1
        <5>1. CASE Enter(a)
          BY <5>1, Basics DEF Enter
        <5>2. CASE Link(a)
          <6> DEFINE W == Walk(tbl, ptr[a], j.va)
                     O == owned[a]
          <6>1. j.op \in {"map", "unmap", "again"} /\ j.zero
            BY <5>2 DEF Link, Walking
          <6>2. Calls(j, ptr[a], O, W, a) /\ Sound(j, tbl, O)
            BY <6>1, Calling, Mine
          <6> HIDE DEF W, O, j
          <6>3. j.level \in 1 .. Levels - 1
            BY <6>1, <6>2 DEF Calls, Walks, Sound
          <6>. QED BY <6>1, <6>3
        <5>. QED BY <3>4, <5>1, <5>2
      <4>2. PICK T, lev, par, idx : Placed(a, T, lev, par, idx)
        BY <4>1, Placing
      <4>3. j.at \in owned[a]
        BY <4>2 DEF Placed
      <4>4. PICK e : tbl' = [tbl EXCEPT ![j.at] = [@ EXCEPT ![j.va[j.level]] = e]]
        BY <3>4 DEF Link, Enter
      <4>. QED BY <4>3, <4>4 DEF IInv, TypeInv
    <3>. QED BY <3>1, <3>2, <3>3, <3>4
  <2>. QED BY <2>1, <2>2, OthersSee
<1>2. UNCHANGED stopped
  BY DEF Zero, Fill, Link, Enter, Unprotect
<1>3. CASE Zero(a) \/ Link(a)
  <2>1. Space'[a] = Space[a]
    BY <1>3, SeesZero, SeesLink
  <2>. QED BY <1>1, <1>2, <2>1, NoneSees
<1>4. CASE Fill(a)
  <2>1. Abstract!Protect(Space[a], Space'[a]) /\ Space'[a] # None
    BY <1>4, SeesFill
  <2>2. Space'[a] # Space[a] /\ Abstract!Call(Space[a], Space'[a])
    BY <2>1 DEF Abstract!Protect, Abstract!Call
  <2>. QED BY <1>1, <1>2, <2>2, OneSees
<1>5. CASE Enter(a) /\ ~ Panic
  <2>1. \/ \E va \in Va : Abstract!Map(Space[a], Space'[a], va)
        \/ \E va \in Va : Abstract!Unmap(Space[a], Space'[a], va)
    BY <1>5, SeesEnter
  <2>2. Space'[a] # Space[a]
    BY <1>5, SeesEnter
  <2>3. Abstract!Call(Space[a], Space'[a])
    BY <2>1 DEF Abstract!Call
  <2>. QED BY <1>1, <1>2, <2>2, <2>3, OneSees
<1>6. CASE Unprotect(a)
  <2>1. a \in live /\ a \notin live'
    BY <1>6 DEF Unprotect
  <2>2. Space'[a] = None
    BY <2>1, SpaceNext
  <2>3. Space[a] # None
    <3> DEFINE T == owned[a] \ {job[a].frame}
               p == ptr[a]
    <3>1. Space[a] = View(tbl, p) /\ Rooted(p) /\ Tree(T, p.to, tbl) /\ T \in SUBSET Frame
      BY <2>1, Seen
    <3> HIDE DEF T, p
    <3>2. View(tbl, p) # None
      BY <3>1, ViewIs
    <3>. QED BY <3>1, <3>2
  <2>4. Abstract!Call(Space[a], Space'[a])
    BY <2>2, <2>3 DEF Abstract!Unprotect, Abstract!Call
  <2>. QED BY <1>1, <1>2, <2>2, <2>3, <2>4, OneSees
<1>. QED BY <1>3, <1>4, <1>5, <1>6

\* Every step of the tables is one of the address spaces, or nothing.
LEMMA StepRefines ==
  ASSUME IInv, IInv', [Next]_vars
  PROVE  [Abstract!Next]_<<Space, stopped>>
<1>1. ASSUME UNCHANGED <<tbl, ptr, live, stopped>> PROVE UNCHANGED <<Space, stopped>>
  BY <1>1, Same
<1>2. ASSUME Panic PROVE Abstract!Next
  <2>1. Space' = Space
    BY <1>2, Same DEF Panic
  <2>. QED BY <1>2, <2>1 DEF Panic, Abstract!Next, Abstract!Stop
<1>3. CASE UNCHANGED vars
  BY <1>1, <1>3 DEF vars
<1>4. ASSUME ~ stopped, NEW a \in As, Step(a) PROVE Abstract!Next \/ UNCHANGED <<Space, stopped>>
  <2>1. CASE Zero(a) \/ Fill(a) \/ Link(a) \/ (Enter(a) /\ ~ Panic) \/ Unprotect(a)
    BY <1>4, <2>1, StepSees
  <2>2. CASE Panic
    BY <1>2, <2>2
  <2>3. CASE Root(a) \/ NewTable(a)
    <3>1. Panic \/ UNCHANGED <<tbl, ptr, live, stopped>>
      BY <2>3 DEF Root, NewTable, Alloc
    <3>. QED BY <1>1, <1>2, <3>1
  <2>4. CASE Protect(a) \/ Map(a) \/ Unmap(a) \/ Down(a) \/ Return(a) \/ Enters(a) \/ Frees(a)
    <3>1. UNCHANGED <<tbl, ptr, live, stopped>>
      BY <2>4 DEF Protect, Map, Unmap, Call, Down, Return, Enters, Frees
    <3>. QED BY <1>1, <3>1
  <2>. QED BY <1>4, <2>1, <2>2, <2>3, <2>4 DEF Step
<1>. QED BY <1>3, <1>4 DEF Next

\* The page tables implement the address spaces of am.h: map, however many
\* tables it has to make on the way and whatever others do in the meantime,
\* changes one address at once, protect and unprotect an address space as a whole.
THEOREM Refinement == Spec => ImplementsAddressSpace
<1>1. Init => Abstract!Init
  <2>1. ASSUME Init PROVE Space = [a \in As |-> None]
    BY <2>1, SpaceIs DEF Init
  <2>. QED BY <2>1 DEF Init, Abstract!Init
<1>2. IInv /\ IInv' /\ [Next]_vars => [Abstract!Next]_<<Space, stopped>>
  BY StepRefines
<1>. QED BY <1>1, <1>2, Inductive, PTL DEF Spec, ImplementsAddressSpace, Abstract!Spec
==============================================================================
