--------------------------- MODULE DetectionProofs ---------------------------
(***************************************************************************)
(* What analyze() finds, for any thresholds and any events: the window     *)
(* that is moved over the accesses of a group finds a window with the most *)
(* files there is, and what is found of it is true of the events.          *)
(***************************************************************************)
EXTENDS Detection, FiniteSetTheorems, WellFoundedInduction, TLAPS

----------------------------------------------------------------------------
(* Numbers. *)

LessThan == {p \in Nat \X Nat : p[1] < p[2]}

\* Numbers have a least, as the library's well-founded order on them says.
LEMMA NatHasLeast ==
  ASSUME NEW T, T \subseteq Nat, T # {}
  PROVE  \E n \in T : \A m \in T : n <= m
<1>1. IsWellFoundedOn(LessThan, Nat)
  BY NatLessThanWellFounded DEF OpToRel, LessThan
<1>2. PICK n \in T : \A m \in T : <<m, n>> \notin LessThan
  BY <1>1, WFMin
<1>3. \A m \in T : m < n => <<m, n>> \in LessThan
  BY DEF LessThan
<1>4. \A m \in T : ~(m < n)
  BY <1>2, <1>3
<1> QED BY <1>4

\* A set of integers with a bound has a greatest one.
LEMMA MaxIsGreatest ==
  ASSUME NEW S \in SUBSET Int, S # {}, NEW b \in Int, \A x \in S : x <= b
  PROVE  Max(S) \in S /\ \A x \in S : x <= Max(S)
<1> DEFINE Below == {b - x : x \in S}
<1>1. \A x \in S : x \in Int /\ b - x \in Nat
  OBVIOUS
<1>2. Below \subseteq Nat /\ Below # {}
  BY <1>1
<1>3. PICK n \in Below : \A m \in Below : n <= m
  <2> HIDE DEF Below
  <2> QED BY <1>2, NatHasLeast
<1>4. PICK x \in S : n = b - x
  OBVIOUS
<1>5. \A y \in S : x >= y
  <2> SUFFICES ASSUME NEW y \in S PROVE x >= y
    OBVIOUS
  <2> QED BY <1>3, <1>4
<1> QED BY <1>5 DEF Max

\* And a least one.
LEMMA MinIsLeast ==
  ASSUME NEW S \in SUBSET Int, S # {}, NEW b \in Int, \A x \in S : b <= x
  PROVE  Min(S) \in S /\ \A x \in S : Min(S) <= x
<1> DEFINE Above == {x - b : x \in S}
<1>1. \A x \in S : x \in Int /\ x - b \in Nat
  OBVIOUS
<1>2. Above \subseteq Nat /\ Above # {}
  BY <1>1
<1>3. PICK n \in Above : \A m \in Above : n <= m
  <2> HIDE DEF Above
  <2> QED BY <1>2, NatHasLeast
<1>4. PICK x \in S : n = x - b
  OBVIOUS
<1>5. \A y \in S : x <= y
  <2> SUFFICES ASSUME NEW y \in S PROVE x <= y
    OBVIOUS
  <2> QED BY <1>3, <1>4
<1> QED BY <1>5 DEF Min

----------------------------------------------------------------------------
(* The loop. *)

Begin == [first |-> 1, best |-> {}]

\* The loop's states up to a position: each is the last one slid by one access.
IsSlid(g, s, n) ==
  g = [i \in 0..n |-> IF i = 0 THEN Begin ELSE Slide(g[i - 1], s, i)]

\* The states of the loop exist, from one number of accesses to the next.
LEMMA SlidExists ==
  ASSUME NEW s, NEW n \in Nat
  PROVE  \E g : IsSlid(g, s, n)
<1> DEFINE Without == {m \in Nat : ~\E g : IsSlid(g, s, m)}
<1> SUFFICES ASSUME Without # {} PROVE FALSE
  OBVIOUS
<1>1. PICK m \in Without : \A k \in Without : m <= k
  <2>1. Without \subseteq Nat
    OBVIOUS
  <2> HIDE DEF Without
  <2> QED BY <2>1, NatHasLeast
<1>2. m \in Nat /\ ~\E g : IsSlid(g, s, m)
  OBVIOUS
<1>3. CASE m = 0
  <2> DEFINE g == [i \in 0..0 |-> Begin]
  <2>1. IsSlid(g, s, 0)
    BY DEF IsSlid
  <2> QED BY <2>1, <1>2, <1>3
<1>4. CASE m # 0
  <2>1. m - 1 \in Nat /\ m - 1 \notin Without
    BY <1>1, <1>2, <1>4
  <2>2. PICK g : IsSlid(g, s, m - 1)
    BY <2>1
  <2>3. \A i \in 0..m - 1 : g[i] = IF i = 0 THEN Begin ELSE Slide(g[i - 1], s, i)
    BY <2>2 DEF IsSlid
  <2> DEFINE h == [i \in 0..m |-> IF i = 0 THEN Begin ELSE Slide(g[i - 1], s, i)]
  <2>4. \A i \in 0..m - 1 : h[i] = g[i]
    BY <2>3, <1>2
  <2>5. \A i \in 0..m : i # 0 => i - 1 \in 0..m - 1
    BY <1>2
  <2>6. \A i \in 0..m : h[i] = IF i = 0 THEN Begin ELSE Slide(h[i - 1], s, i)
    BY <2>4, <2>5
  <2>7. IsSlid(h, s, m)
    BY <2>6 DEF IsSlid
  <2> QED BY <2>7, <1>2
<1> QED BY <1>3, <1>4

\* So the loop computes them.
LEMMA SweepIsSlid ==
  ASSUME NEW s, NEW n \in Nat
  PROVE  \E g : IsSlid(g, s, n) /\ Sweep(s, n) = g[n]
<1> DEFINE slid == CHOOSE g : IsSlid(g, s, n)
<1>1. IsSlid(slid, s, n)
  BY SlidExists
<1>2. Sweep(s, n) = slid[n]
  BY DEF Sweep, IsSlid, Begin
<1> QED BY <1>1, <1>2

----------------------------------------------------------------------------
(* The windows. *)

\* Accesses in the order of their times.
Sorted(s, n) ==
  /\ DOMAIN s = 1..n
  /\ \A i \in 1..n : s[i].at \in Int
  /\ \A i, j \in 1..n : i < j => s[i].at <= s[j].at

\* The accesses up to a position that are not too old for it, and how many files they are of.
WindowAt(s, i) == {s[j] : j \in {j \in 1..i : s[i].at - s[j].at <= Config.window_seconds}}
Density(window) == Cardinality(Files(window))

\* Of finitely many accesses there are finitely many files.
LEMMA FilesAreFinite ==
  ASSUME NEW s, NEW n \in Nat, NEW window, \A e \in window : \E j \in 1..n : e = s[j]
  PROVE  IsFiniteSet(Files(window)) /\ Density(window) \in Nat
<1> DEFINE all == {s[j].file : j \in 1..n}
           file == [j \in 1..n |-> s[j].file]
<1>1. file \in Surjection(1..n, all)
  BY DEF Surjection
<1>2. IsFiniteSet(all)
  <2> HIDE DEF file, all
  <2> QED BY <1>1, FS_Interval, FS_Surjection
<1>3. Files(window) \in SUBSET all
  BY DEF Files
<1>4. IsFiniteSet(Files(window))
  <2> HIDE DEF all
  <2> QED BY <1>2, <1>3, FS_Subset
<1> QED BY <1>4, FS_CardinalityType DEF Density

LEMMA NothingIsSparse == Density({}) = 0
  BY FS_EmptySet DEF Density, Files

\* Sliding by s[i]: the window is the one at i, and the best is replaced by a denser one only.
LEMMA SlideWindow ==
  ASSUME NEW s, NEW n \in Nat, Sorted(s, n), NEW i \in 1..n, NEW acc,
         acc.first \in 1..i,
         \A j \in 1..acc.first - 1 : s[i].at - s[j].at > Config.window_seconds
  PROVE  LET slid == Slide(acc, s, i)
         IN /\ slid.first \in 1..i
            /\ \A j \in 1..slid.first - 1 : s[i].at - s[j].at > Config.window_seconds
            /\ slid.best = IF Density(WindowAt(s, i)) > Density(acc.best)
                           THEN WindowAt(s, i) ELSE acc.best
<1> DEFINE young == {j \in acc.first..i : s[i].at - s[j].at <= Config.window_seconds}
           first == Min(young)
           window == {s[j] : j \in first..i}
           slid == Slide(acc, s, i)
<1>0. Config.window_seconds \in Int /\ Config.window_seconds > 0
  BY DetectionAssumption DEF FromMapping
<1>1. i \in young /\ young \subseteq 1..i
  BY <1>0 DEF Sorted
<1>2. first \in young /\ \A j \in young : first <= j
  <2> HIDE DEF young
  <2>1. young \in SUBSET Int /\ young # {} /\ 1 \in Int /\ \A j \in young : 1 <= j
    BY <1>1
  <2> QED BY <2>1, MinIsLeast
<1>3. first \in 1..i /\ s[i].at - s[first].at <= Config.window_seconds
  BY <1>1, <1>2
<1>4. ASSUME NEW j \in 1..first - 1 PROVE s[i].at - s[j].at > Config.window_seconds
  <2>1. j \in 1..i /\ j < first /\ j \in 1..n
    BY <1>3
  <2>2. j \notin young
    BY <1>2, <2>1
  <2> QED BY <1>0, <2>1, <2>2 DEF Sorted
<1>5. ASSUME NEW j \in first..i PROVE s[i].at - s[j].at <= Config.window_seconds
  <2>1. first \in 1..n /\ j \in 1..n /\ first <= j
    BY <1>3
  <2>2. s[first].at <= s[j].at /\ s[first].at \in Int /\ s[j].at \in Int /\ s[i].at \in Int
    BY <2>1 DEF Sorted
  <2> QED BY <1>0, <1>3, <2>2
<1>6. window = WindowAt(s, i)
  <2>1. \A j \in first..i : j \in 1..i
    BY <1>3
  <2>2. \A j \in 1..i : s[i].at - s[j].at <= Config.window_seconds => j \in first..i
    <3> SUFFICES ASSUME NEW j \in 1..i, j \notin first..i
                 PROVE  ~(s[i].at - s[j].at <= Config.window_seconds)
      OBVIOUS
    <3>1. j \in 1..first - 1 /\ s[i].at \in Int /\ s[j].at \in Int
      BY <1>3 DEF Sorted
    <3> QED BY <1>0, <1>4, <3>1
  <2> HIDE DEF first
  <2> QED BY <1>5, <2>1, <2>2 DEF WindowAt
<1>7. slid = [first |-> first,
              best |-> IF Density(window) > Density(acc.best) THEN window ELSE acc.best]
  BY DEF Slide, Density
<1> HIDE DEF first, window
<1> QED BY <1>3, <1>4, <1>6, <1>7

\* What the loop has found at a position: one of the windows so far, and none of them has
\* more files.
Found(s, i, best) ==
  /\ best = {} \/ \E k \in 1..i : best = WindowAt(s, k)
  /\ \A k \in 1..i : Density(WindowAt(s, k)) <= Density(best)

LEMMA SweepFinds ==
  ASSUME NEW s, NEW n \in Nat, Sorted(s, n)
  PROVE  Found(s, n, Sweep(s, n).best)
<1>1. PICK g : IsSlid(g, s, n) /\ Sweep(s, n) = g[n]
  BY SweepIsSlid
<1>2. /\ g[0] = Begin
      /\ \A i \in 1..n : g[i] = Slide(g[i - 1], s, i)
  BY <1>1 DEF IsSlid
<1> DEFINE Good(i) ==
      /\ g[i].first \in 1..i + 1 /\ (i > 0 => g[i].first <= i)
      /\ i > 0 => \A j \in 1..g[i].first - 1 : s[i].at - s[j].at > Config.window_seconds
      /\ Found(s, i, g[i].best)
      Bad == {i \in 0..n : ~Good(i)}
<1> SUFFICES ASSUME Bad # {} PROVE FALSE
  <2>1. Good(n) => Found(s, n, Sweep(s, n).best)
    BY <1>1
  <2> QED BY <2>1
<1>3. PICK i \in Bad : \A k \in Bad : i <= k
  <2>1. Bad \subseteq Nat
    OBVIOUS
  <2> HIDE DEF Bad
  <2> QED BY <2>1, NatHasLeast
<1>4. i \in 0..n /\ ~Good(i)
  OBVIOUS
<1>5. CASE i = 0
  BY <1>2, <1>4, <1>5 DEF Begin, Found
<1>6. CASE i # 0
  <2>1. i \in 1..n /\ i - 1 \in 0..n /\ Good(i - 1)
    <3>1. i \in 1..n /\ i - 1 \in 0..n /\ i - 1 \notin Bad
      BY <1>3, <1>4, <1>6
    <3> QED BY <3>1
  <2> DEFINE acc == g[i - 1]
             window == WindowAt(s, i)
  <2>2. acc.first \in 1..i
    BY <2>1
  <2>3. \A j \in 1..acc.first - 1 : s[i].at - s[j].at > Config.window_seconds
    <3> SUFFICES ASSUME NEW j \in 1..acc.first - 1
                 PROVE  s[i].at - s[j].at > Config.window_seconds
      OBVIOUS
    <3>1. i - 1 \in 1..n /\ j \in 1..n /\ s[i - 1].at - s[j].at > Config.window_seconds
      BY <2>1, <2>2
    <3>2. s[i - 1].at <= s[i].at /\ s[i].at \in Int /\ s[i - 1].at \in Int /\ s[j].at \in Int
      BY <2>1, <3>1 DEF Sorted
    <3> QED BY <3>1, <3>2, DetectionAssumption DEF FromMapping
  <2>4. /\ g[i].first \in 1..i
        /\ \A j \in 1..g[i].first - 1 : s[i].at - s[j].at > Config.window_seconds
        /\ g[i].best = IF Density(window) > Density(acc.best) THEN window ELSE acc.best
    BY <1>2, <2>1, <2>2, <2>3, SlideWindow
  <2>5. Found(s, i - 1, acc.best)
    BY <2>1
  <2>6. \A k \in 1..n : Density(WindowAt(s, k)) \in Nat
    <3> SUFFICES ASSUME NEW k \in 1..n PROVE Density(WindowAt(s, k)) \in Nat
      OBVIOUS
    <3>1. \A e \in WindowAt(s, k) : \E j \in 1..n : e = s[j]
      BY DEF WindowAt
    <3> QED BY <3>1, FilesAreFinite
  <2>7. Density(acc.best) \in Nat
    <3> HIDE DEF acc
    <3>1. \A k \in 1..i - 1 : k \in 1..n
      BY <2>1
    <3>2. CASE acc.best = {}
      BY <3>2, NothingIsSparse
    <3>3. ASSUME NEW k \in 1..i - 1, acc.best = WindowAt(s, k) PROVE Density(acc.best) \in Nat
      BY <2>6, <3>1, <3>3, Zenon
    <3> QED BY <2>5, <3>2, <3>3, Zenon DEF Found
  <2>8. Found(s, i, g[i].best)
    <3> HIDE DEF acc, window
    <3>1. 1..i = (1..i - 1) \cup {i}
      BY <2>1
    <3>2. \A k \in 1..i - 1 : Density(WindowAt(s, k)) \in Nat
      BY <2>1, <2>6
    <3>3. Density(window) \in Nat
      BY <2>1, <2>6 DEF window
    <3> QED BY <2>4, <2>5, <2>7, <3>1, <3>2, <3>3 DEF Found, window
  <2> QED BY <1>4, <2>1, <2>4, <2>8
<1> QED BY <1>5, <1>6

----------------------------------------------------------------------------
(* The order of the accesses. *)

Timed(events) == \A e \in events : e.at \in Int

\* Of finitely many events one is the latest.
LEMMA LatestExists ==
  ASSUME NEW events, IsFiniteSet(events), Timed(events), events # {}
  PROVE  \E e \in events : \A o \in events : o.at <= e.at
<1> DEFINE HasLatest(S) == \E e \in S : \A o \in S : o.at <= e.at
           Sizes == {n \in Nat : \E S \in SUBSET events :
                       S # {} /\ Cardinality(S) = n /\ ~HasLatest(S)}
<1>0. \A S \in SUBSET events : IsFiniteSet(S) /\ Cardinality(S) \in Nat
  BY FS_Subset, FS_CardinalityType
<1> SUFFICES ASSUME Sizes # {} PROVE FALSE
  <2>1. ~HasLatest(events) => Cardinality(events) \in Sizes
    BY <1>0
  <2> QED BY <2>1
<1>1. PICK n \in Sizes : \A m \in Sizes : n <= m
  <2>1. Sizes \subseteq Nat
    OBVIOUS
  <2> HIDE DEF Sizes
  <2> QED BY <2>1, NatHasLeast
<1>2. PICK S \in SUBSET events : S # {} /\ Cardinality(S) = n /\ ~HasLatest(S)
  OBVIOUS
<1>3. PICK x \in S : TRUE
  BY <1>2
<1> DEFINE R == S \ {x}
<1>4. R \in SUBSET events /\ Cardinality(R) \in Nat /\ Cardinality(R) < n
  <2>1. Cardinality(R) = Cardinality(S) - 1
    BY <1>0, <1>2, <1>3, FS_RemoveElement
  <2>2. R \in SUBSET events
    OBVIOUS
  <2> QED BY <1>0, <1>2, <2>1, <2>2
<1>5. Cardinality(R) \notin Sizes
  <2> HIDE DEF R, Sizes
  <2>1. n \in Nat
    BY DEF Sizes
  <2> QED BY <1>1, <1>4, <2>1
<1>6. \A e \in S : e.at \in Int
  BY DEF Timed
<1>7. CASE R = {}
  <2>1. \A o \in S : o.at <= x.at
    BY <1>3, <1>6, <1>7
  <2> QED BY <1>2, <1>3, <2>1
<1>8. CASE R # {}
  <2>1. PICK y \in R : \A o \in R : o.at <= y.at
    <3> HIDE DEF R
    <3> QED BY <1>4, <1>5, <1>8
  <2>2. CASE x.at <= y.at
    BY <1>2, <2>1, <2>2
  <2>3. CASE y.at <= x.at
    <3>1. \A o \in S : o.at <= x.at
      BY <1>3, <1>6, <2>1, <2>3
    <3> QED BY <1>2, <1>3, <3>1
  <2> QED BY <1>3, <1>6, <2>1, <2>2, <2>3
<1> QED BY <1>7, <1>8

InOrderOf(s, events) ==
  /\ s \in Bijection(1..Cardinality(events), events)
  /\ \A i, j \in DOMAIN s : i < j => s[i].at <= s[j].at

\* The latest event comes after the others.
LEMMA AppendedInOrder ==
  ASSUME NEW events, IsFiniteSet(events), Timed(events),
         NEW x \in events, \A o \in events : o.at <= x.at,
         NEW s, InOrderOf(s, events \ {x})
  PROVE  \E t : InOrderOf(t, events)
<1> DEFINE R == events \ {x}
           n == Cardinality(events)
           t == [i \in 1..n |-> IF i = n THEN x ELSE s[i]]
<1>1. n \in Nat \ {0} /\ Cardinality(R) = n - 1
  BY FS_RemoveElement, FS_CardinalityType, FS_EmptySet
<1> HIDE DEF n
<1>2. /\ DOMAIN s = 1..n - 1 /\ \A i \in 1..n - 1 : s[i] \in R
      /\ \A i, j \in 1..n - 1 : s[i] = s[j] => i = j
      /\ \A e \in R : \E i \in 1..n - 1 : s[i] = e
      /\ \A i, j \in 1..n - 1 : i < j => s[i].at <= s[j].at
  BY <1>1 DEF InOrderOf, Bijection, Injection, Surjection, IsInjective
<1>3. /\ DOMAIN t = 1..n /\ t[n] = x
      /\ \A i \in 1..n - 1 : t[i] = s[i]
      /\ 1..n = (1..n - 1) \cup {n}
  BY <1>1
<1> HIDE DEF t, R
<1>4. \A e \in events : e \in R \/ e = x
  BY DEF R
<1>5. \A e \in R : e \in events /\ e # x /\ e.at <= x.at
  BY DEF R
<1>6. \A i \in 1..n : t[i] \in events
  BY <1>2, <1>3, <1>5
<1>7. \A i, j \in 1..n : t[i] = t[j] => i = j
  BY <1>2, <1>3, <1>5
<1>8. \A e \in events : \E i \in 1..n : t[i] = e
  BY <1>2, <1>3, <1>4
<1>9. \A i, j \in 1..n : i < j => t[i].at <= t[j].at
  <2> SUFFICES ASSUME NEW i \in 1..n, NEW j \in 1..n, i < j PROVE t[i].at <= t[j].at
    OBVIOUS
  <2>1. i \in 1..n - 1
    BY <1>1
  <2>2. CASE j = n
    BY <1>2, <1>3, <1>5, <2>1, <2>2
  <2>3. CASE j # n
    <3>1. j \in 1..n - 1
      BY <1>1, <2>3
    <3> QED BY <1>2, <1>3, <2>1, <3>1
  <2> QED BY <2>2, <2>3
<1>10. t = [i \in 1..n |-> t[i]]
  BY DEF t
<1>11. t \in [1..n -> events]
  BY <1>6, <1>10
<1>12. t \in Bijection(1..n, events)
  BY <1>3, <1>7, <1>8, <1>11 DEF Bijection, Injection, Surjection, IsInjective
<1> QED BY <1>3, <1>9, <1>12 DEF InOrderOf, n

\* Finitely many events can be put in the order of their times.
LEMMA OrderExists ==
  ASSUME NEW events, IsFiniteSet(events), Timed(events)
  PROVE  \E s : InOrderOf(s, events)
<1> DEFINE Sizes == {n \in Nat : \E S \in SUBSET events :
                       Cardinality(S) = n /\ ~\E s : InOrderOf(s, S)}
<1>0. \A S \in SUBSET events : IsFiniteSet(S) /\ Cardinality(S) \in Nat /\ Timed(S)
  BY FS_Subset, FS_CardinalityType DEF Timed
<1> SUFFICES ASSUME Sizes # {} PROVE FALSE
  BY <1>0
<1>1. PICK n \in Sizes : \A m \in Sizes : n <= m
  <2>1. Sizes \subseteq Nat
    OBVIOUS
  <2> HIDE DEF Sizes
  <2> QED BY <2>1, NatHasLeast
<1>2. PICK S \in SUBSET events : Cardinality(S) = n /\ ~\E s : InOrderOf(s, S)
  OBVIOUS
<1>3. CASE S = {}
  <2> DEFINE s == [i \in 1..0 |-> i]
  <2>1. s \in [1..0 -> {}] /\ 1..0 = {}
    OBVIOUS
  <2>2. s \in Bijection(1..0, {})
    BY <2>1 DEF Bijection, Injection, Surjection, IsInjective
  <2>3. InOrderOf(s, {})
    BY <2>1, <2>2, FS_EmptySet DEF InOrderOf
  <2> QED BY <1>2, <1>3, <2>3
<1>4. CASE S # {}
  <2>1. PICK x \in S : \A o \in S : o.at <= x.at
    BY <1>0, <1>4, LatestExists
  <2> DEFINE R == S \ {x}
  <2>2. R \in SUBSET events /\ Cardinality(R) \in Nat /\ Cardinality(R) < n
    <3>1. Cardinality(R) = Cardinality(S) - 1
      BY <1>0, <2>1, FS_RemoveElement
    <3>2. R \in SUBSET events
      OBVIOUS
    <3> QED BY <1>0, <1>2, <3>1, <3>2
  <2>3. Cardinality(R) \notin Sizes
    <3> HIDE DEF R, Sizes
    <3>1. n \in Nat
      BY DEF Sizes
    <3> QED BY <1>1, <2>2, <3>1
  <2>4. PICK s : InOrderOf(s, R)
    <3> HIDE DEF R
    <3> QED BY <2>2, <2>3
  <2> QED BY <1>0, <1>2, <2>1, <2>4, AppendedInOrder
<1> QED BY <1>3, <1>4

\* So the sort of the code is one of those orders.
LEMMA SortIsOrder ==
  ASSUME NEW reads, IsFiniteSet(reads), Timed(reads)
  PROVE  LET s == InOrder(reads)
             n == Cardinality(reads)
         IN /\ n \in Nat /\ Sorted(s, n)
            /\ \A i \in 1..n : s[i] \in reads
            /\ \A e \in reads : \E i \in 1..n : s[i] = e
<1> DEFINE s == InOrder(reads)
           n == Cardinality(reads)
<1>1. \E q \in Bijection(1..n, reads) : \A i, j \in DOMAIN q : i < j => q[i].at <= q[j].at
  BY OrderExists DEF InOrderOf
<1>2. InOrderOf(s, reads)
  <2> HIDE DEF n
  <2>1. InOrder(reads) = CHOOSE q \in Bijection(1..n, reads) :
                           \A i, j \in DOMAIN q : i < j => q[i].at <= q[j].at
    BY DEF InOrder, n
  <2> QED BY <1>1, <2>1 DEF InOrderOf, n
<1>3. n \in Nat
  BY FS_CardinalityType
<1> HIDE DEF n, s
<1>4. s \in Bijection(1..n, reads) /\ \A i, j \in DOMAIN s : i < j => s[i].at <= s[j].at
  BY <1>2 DEF InOrderOf, n
<1>5. /\ DOMAIN s = 1..n /\ \A i \in 1..n : s[i] \in reads
      /\ \A e \in reads : \E i \in 1..n : s[i] = e
  BY <1>4 DEF Bijection, Injection, Surjection
<1>6. Sorted(s, n)
  BY <1>4, <1>5 DEF Sorted, Timed
<1> QED BY <1>3, <1>5, <1>6 DEF n, s

----------------------------------------------------------------------------
(* The best window of a group. *)

\* Every window of the loop is one of the group, and every one of the group that is as
\* long as can be is one of the loop.
LEMMA WindowsOfLoop ==
  ASSUME NEW reads, NEW s, NEW n \in Nat, Sorted(s, n),
         \A i \in 1..n : s[i] \in reads, \A e \in reads : \E i \in 1..n : s[i] = e
  PROVE  /\ \A i \in 1..n : WindowAt(s, i) \subseteq WindowOf(reads, s[i])
         /\ \A e \in reads : \E i \in 1..n : WindowAt(s, i) = WindowOf(reads, e)
<1>0. Config.window_seconds \in Int /\ Config.window_seconds > 0
  BY DetectionAssumption DEF FromMapping
<1>1. ASSUME NEW i \in 1..n, NEW e \in WindowAt(s, i) PROVE e \in WindowOf(reads, s[i])
  <2>1. PICK j \in 1..i : e = s[j] /\ s[i].at - s[j].at <= Config.window_seconds
    BY DEF WindowAt
  <2>2. j \in 1..n /\ s[j].at \in Int /\ s[i].at \in Int /\ s[j].at <= s[i].at
    BY DEF Sorted
  <2> QED BY <1>0, <2>1, <2>2 DEF WindowOf
<1>2. ASSUME NEW e \in reads PROVE \E i \in 1..n : WindowAt(s, i) = WindowOf(reads, e)
  <2> DEFINE same == {i \in 1..n : s[i].at = e.at}
             m == Max(same)
  <2>1. m \in same /\ \A i \in same : i <= m
    <3>1. same \in SUBSET Int /\ same # {} /\ n \in Int /\ \A i \in same : i <= n
      OBVIOUS
    <3> HIDE DEF same
    <3> QED BY <3>1, MaxIsGreatest
  <2>2. m \in 1..n /\ s[m].at = e.at
    BY <2>1
  <2>3. \A j \in 1..n : s[j].at <= e.at => j <= m
    <3> HIDE DEF m
    <3> SUFFICES ASSUME NEW j \in 1..n, s[j].at <= e.at, m < j PROVE FALSE
      BY <2>2
    <3>1. s[j].at = e.at
      <4>1. s[m].at <= s[j].at /\ s[j].at \in Int /\ s[m].at \in Int
        BY <2>2 DEF Sorted
      <4> QED BY <2>2, <4>1
    <3>2. j \in same
      BY <3>1
    <3> HIDE DEF same
    <3> QED BY <2>1, <2>2, <3>2
  <2> HIDE DEF m
  <2>4. WindowAt(s, m) \subseteq WindowOf(reads, e)
    BY <1>1, <2>2 DEF WindowOf
  <2>5. ASSUME NEW o \in WindowOf(reads, e) PROVE o \in WindowAt(s, m)
    <3>1. PICK j \in 1..n : o = s[j]
      BY DEF WindowOf
    <3>2. s[j].at \in Int /\ e.at \in Int
      BY <2>2 DEF Sorted
    <3>3. s[j].at <= e.at /\ e.at - s[j].at <= Config.window_seconds
      BY <1>0, <3>1, <3>2 DEF WindowOf
    <3>4. j \in 1..m
      BY <2>2, <2>3, <3>3
    <3> QED BY <2>2, <3>1, <3>3, <3>4 DEF WindowAt
  <2>6. WindowAt(s, m) = WindowOf(reads, e)
    BY <2>4, <2>5
  <2> QED BY <2>2, <2>6
<1> QED BY <1>1, <1>2

\* The best window is of the group and no longer than window_seconds, and no other has more
\* files.
LEMMA BestIsDensest ==
  ASSUME NEW reads, IsFiniteSet(reads), Timed(reads)
  PROVE  LET best == Best(reads)
         IN /\ best = {} \/ \E e \in reads : best \subseteq WindowOf(reads, e)
            /\ \A e \in reads : Density(WindowOf(reads, e)) <= Density(best)
<1> DEFINE s == InOrder(reads)
           n == Cardinality(reads)
           best == Sweep(s, n).best
<1>0. Best(reads) = best
  BY DEF Best
<1>1. /\ n \in Nat /\ Sorted(s, n)
      /\ \A i \in 1..n : s[i] \in reads
      /\ \A e \in reads : \E i \in 1..n : s[i] = e
  BY SortIsOrder
<1> HIDE DEF s, n
<1>2. Found(s, n, best)
  BY <1>1, SweepFinds
<1> HIDE DEF best
<1>3. /\ \A i \in 1..n : WindowAt(s, i) \subseteq WindowOf(reads, s[i])
      /\ \A e \in reads : \E i \in 1..n : WindowAt(s, i) = WindowOf(reads, e)
  BY <1>1, WindowsOfLoop
<1>4. best = {} \/ \E e \in reads : best \subseteq WindowOf(reads, e)
  <2>1. ASSUME NEW k \in 1..n, best = WindowAt(s, k)
        PROVE  \E e \in reads : best \subseteq WindowOf(reads, e)
    <3>1. s[k] \in reads /\ best \subseteq WindowOf(reads, s[k])
      BY <1>1, <1>3, <2>1
    <3> QED BY <3>1
  <2> QED BY <1>2, <2>1, Zenon DEF Found
<1>5. \A e \in reads : Density(WindowOf(reads, e)) <= Density(best)
  BY <1>2, <1>3 DEF Found
<1> QED BY <1>0, <1>4, <1>5

\* Files of fewer accesses are no more.
LEMMA FewerFiles ==
  ASSUME NEW events, IsFiniteSet(events), NEW window, window \subseteq events
  PROVE  /\ IsFiniteSet(window) /\ IsFiniteSet(Files(window)) /\ Density(window) \in Nat
         /\ Density(window) <= Density(events)
<1>1. IsFiniteSet(Files(events))
  <2> DEFINE file == [e \in events |-> e.file]
  <2>1. file \in Surjection(events, Files(events))
    BY DEF Surjection, Files
  <2> HIDE DEF file
  <2> QED BY <2>1, FS_Surjection
<1>2. Files(window) \in SUBSET Files(events)
  BY DEF Files
<1>3. IsFiniteSet(Files(window)) /\ Density(window) <= Density(events)
  BY <1>1, <1>2, FS_Subset DEF Density
<1>4. IsFiniteSet(window)
  BY FS_Subset
<1> QED BY <1>3, <1>4, FS_CardinalityType DEF Density

----------------------------------------------------------------------------
(* What is found. *)

BestOf(snapshot, g) == Best(ReadsOf(snapshot, g))

\* The findings of one group, as analyze() makes them.
FindingsOf(snapshot, g) ==
  IF ~IsBulk(BestOf(snapshot, g)) THEN {}
  ELSE {Finding("AS-003", "P2", Ids(BestOf(snapshot, g)))}
       \cup Correlation(snapshot, g, BestOf(snapshot, g))

LEMMA WhatIsFound ==
  ASSUME NEW snapshot, NEW f \in Analyze(snapshot)
  PROVE  \/ f.rule \in {"AS-001", "AS-002", "AS-005"}
         \/ \E g \in Groups(snapshot) : f \in FindingsOf(snapshot, g)
<1> USE DEF Finding
<1>1. CASE f \in AssetFindings(snapshot)
  BY <1>1 DEF AssetFindings
<1>2. CASE f \in EventFindings(snapshot)
  <2>1. EventFindings(snapshot) =
          {Finding("AS-002", "P2", {e.id}) : e \in {e \in Logins(snapshot) : SuspiciousLogin(e)}}
          \cup UNION {FindingsOf(snapshot, g) : g \in Groups(snapshot)}
    BY DEF EventFindings, FindingsOf, BestOf
  <2> QED BY <1>2, <2>1
<1> QED BY <1>1, <1>2 DEF Analyze

\* A correlation names an alarm of its own rule.
LEMMA CorrelationIs ==
  ASSUME NEW snapshot, NEW g, NEW window, NEW f \in Correlation(snapshot, g, window)
  PROVE  LET eligible == Eligible(snapshot, g, window)
             login == LatestOf(eligible)
         IN /\ f.rule = "AS-004" /\ eligible # {}
            /\ \E a \in snapshot.assets :
                 /\ f.evidence = {AssetId(a), login.id} \cup Ids(window)
                 /\ SuspiciousLogin(login) /\ a.asset = login.asset /\ Exposed(a)
<1> DEFINE eligible == Eligible(snapshot, g, window)
           login == LatestOf(eligible)
<1>1. /\ eligible # {}
      /\ \E a \in Gateways(snapshot, login, window) :
           f = Finding("AS-004", "P1", {AssetId(a), login.id} \cup Ids(window))
  BY DEF Correlation
<1> HIDE DEF eligible, login
<1>2. PICK a \in Gateways(snapshot, login, window) :
           f = Finding("AS-004", "P1", {AssetId(a), login.id} \cup Ids(window))
  BY <1>1
<1>3. /\ f.rule = "AS-004" /\ f.evidence = {AssetId(a), login.id} \cup Ids(window)
  BY <1>2 DEF Finding
<1>4. a \in snapshot.assets /\ SuspiciousLogin(login) /\ a.asset = login.asset /\ Exposed(a)
  BY DEF Gateways
<1> QED BY <1>1, <1>3, <1>4 DEF eligible, login

\* So the findings of the two rules are those of groups whose best window is bulk.
LEMMA BulkFindings ==
  ASSUME NEW snapshot, NEW f \in Analyze(snapshot), f.rule \in {"AS-003", "AS-004"}
  PROVE  \E g \in Groups(snapshot) :
           /\ IsBulk(BestOf(snapshot, g))
           /\ f.rule = "AS-003" => f.evidence = Ids(BestOf(snapshot, g))
           /\ f.rule = "AS-004" => f \in Correlation(snapshot, g, BestOf(snapshot, g))
<1>1. PICK g \in Groups(snapshot) : f \in FindingsOf(snapshot, g)
  BY WhatIsFound
<1>2. /\ IsBulk(BestOf(snapshot, g))
      /\ \/ f = Finding("AS-003", "P2", Ids(BestOf(snapshot, g)))
         \/ f \in Correlation(snapshot, g, BestOf(snapshot, g))
  BY <1>1 DEF FindingsOf
<1>3. CASE f = Finding("AS-003", "P2", Ids(BestOf(snapshot, g)))
  BY <1>2, <1>3 DEF Finding
<1>4. CASE f \in Correlation(snapshot, g, BestOf(snapshot, g))
  <2>1. f.rule = "AS-004"
    BY <1>4, CorrelationIs
  <2> QED BY <1>2, <1>4, <2>1
<1> QED BY <1>2, <1>3, <1>4

\* And each of those groups has its finding.
LEMMA BulkIsFound ==
  ASSUME NEW snapshot, NEW g \in Groups(snapshot), IsBulk(BestOf(snapshot, g))
  PROVE  \E f \in Analyze(snapshot) : f.rule = "AS-003" /\ f.evidence = Ids(BestOf(snapshot, g))
<1> DEFINE f == Finding("AS-003", "P2", Ids(BestOf(snapshot, g)))
<1>1. f \in FindingsOf(snapshot, g)
  BY DEF FindingsOf
<1>2. f \in Analyze(snapshot)
  <2> HIDE DEF f
  <2>1. UNION {FindingsOf(snapshot, h) : h \in Groups(snapshot)} \subseteq EventFindings(snapshot)
    BY DEF EventFindings, FindingsOf, BestOf
  <2> QED BY <1>1, <2>1 DEF Analyze
<1>3. f.rule = "AS-003" /\ f.evidence = Ids(BestOf(snapshot, g))
  BY DEF Finding
<1> QED BY <1>2, <1>3

\* The best window of a group, as the events of a legible snapshot have it.
LEMMA BestOfGroup ==
  ASSUME NEW snapshot, Legible(snapshot.events), NEW g \in Groups(snapshot)
  PROVE  LET reads == ReadsOf(snapshot, g)
             best == BestOf(snapshot, g)
         IN /\ IsFiniteSet(reads) /\ Timed(reads) /\ reads \subseteq Reads(snapshot)
            /\ best = {} \/ \E e \in reads : best \subseteq WindowOf(reads, e)
            /\ best \subseteq reads
            /\ \A e \in reads : Density(WindowOf(reads, e)) <= Density(best)
            /\ Density(best) \in Nat
            /\ IsBulk(best) => best # {}
<1> DEFINE reads == ReadsOf(snapshot, g)
           best == BestOf(snapshot, g)
<1>1. reads \subseteq snapshot.events /\ reads \subseteq Reads(snapshot)
  BY DEF ReadsOf, Reads
<1>2. IsFiniteSet(reads) /\ Timed(reads)
  BY <1>1, FS_Subset DEF Legible, Timed
<1>3. best = Best(reads)
  BY DEF BestOf
<1> HIDE DEF reads, best
<1>4. /\ best = {} \/ \E e \in reads : best \subseteq WindowOf(reads, e)
      /\ \A e \in reads : Density(WindowOf(reads, e)) <= Density(best)
  BY <1>2, <1>3, BestIsDensest
<1>5. best \subseteq reads
  BY <1>4 DEF WindowOf
<1>6. Density(best) \in Nat
  BY <1>2, <1>5, FewerFiles
<1>7. IsBulk(best) => best # {}
  BY NothingIsSparse, DetectionAssumption DEF FromMapping, IsBulk, Density
<1> QED BY <1>1, <1>2, <1>4, <1>5, <1>6, <1>7 DEF reads, best

----------------------------------------------------------------------------
(* The theorems. *)

\* A bulk access is found exactly where there is one (the loop of AS-003), wherever the
\* window stands: moving it over the accesses misses no window with enough files.
THEOREM BulkExactly ==
  ASSUME NEW snapshot, Legible(snapshot.events)
  PROVE  FindsEveryBulk(snapshot)
<1> SUFFICES ASSUME NEW g \in Groups(snapshot)
             PROVE  LET reads == ReadsOf(snapshot, g)
                    IN (\E e \in reads : IsBulk(WindowOf(reads, e)))
                       <=> \E f \in Analyze(snapshot) :
                             f.rule = "AS-003" /\ f.evidence \subseteq Ids(reads)
  BY DEF FindsEveryBulk
<1> DEFINE reads == ReadsOf(snapshot, g)
           best == BestOf(snapshot, g)
<1>1. /\ IsFiniteSet(reads) /\ best \subseteq reads /\ Density(best) \in Nat
      /\ \A e \in reads : Density(WindowOf(reads, e)) <= Density(best)
      /\ best = {} \/ \E e \in reads : best \subseteq WindowOf(reads, e)
      /\ IsBulk(best) => best # {}
  BY BestOfGroup
<1>2. Config.distinct_file_threshold \in Nat
  BY DetectionAssumption DEF FromMapping
<1>3. \A e \in reads : Density(WindowOf(reads, e)) \in Nat
  <2> HIDE DEF reads
  <2>1. \A e \in reads : WindowOf(reads, e) \subseteq reads
    BY DEF WindowOf
  <2> QED BY <1>1, <2>1, FewerFiles
<1>4. ASSUME NEW e \in reads, IsBulk(WindowOf(reads, e)) PROVE IsBulk(best)
  <2> HIDE DEF reads, best
  <2> QED BY <1>1, <1>2, <1>3, <1>4 DEF IsBulk, Density
<1>5. ASSUME IsBulk(best)
      PROVE  \E f \in Analyze(snapshot) : f.rule = "AS-003" /\ f.evidence \subseteq Ids(reads)
  <2>1. PICK f \in Analyze(snapshot) : f.rule = "AS-003" /\ f.evidence = Ids(best)
    BY <1>5, BulkIsFound
  <2> HIDE DEF reads, best
  <2> QED BY <1>1, <2>1 DEF Ids
<1>6. ASSUME NEW f \in Analyze(snapshot), f.rule = "AS-003", f.evidence \subseteq Ids(reads)
      PROVE  IsBulk(best)
  <2>1. PICK h \in Groups(snapshot) : IsBulk(BestOf(snapshot, h))
                                     /\ f.evidence = Ids(BestOf(snapshot, h))
    BY <1>6, BulkFindings
  <2>2. PICK e \in BestOf(snapshot, h) : e \in ReadsOf(snapshot, h)
    BY <2>1, BestOfGroup
  <2>3. PICK o \in reads : o.id = e.id
    BY <1>6, <2>1, <2>2 DEF Ids
  <2>4. o = e
    BY <2>2, <2>3 DEF ReadsOf, Reads, Legible
  <2>5. \E a, b \in Reads(snapshot) : g = <<a.actor, a.asset>> /\ h = <<b.actor, b.asset>>
    BY DEF Groups
  <2>6. g = h
    BY <2>2, <2>3, <2>4, <2>5 DEF ReadsOf
  <2> QED BY <2>1, <2>6
<1>7. ASSUME IsBulk(best) PROVE \E e \in reads : IsBulk(WindowOf(reads, e))
  <2>1. PICK e \in reads : best \subseteq WindowOf(reads, e)
    <3> HIDE DEF reads, best
    <3> QED BY <1>1, <1>7
  <2> HIDE DEF reads, best
  <2>2. IsFiniteSet(WindowOf(reads, e))
    <3>1. WindowOf(reads, e) \subseteq reads
      BY DEF WindowOf
    <3> QED BY <1>1, <3>1, FS_Subset
  <2>3. Density(best) <= Density(WindowOf(reads, e))
    BY <2>1, <2>2, FewerFiles
  <2> QED BY <1>1, <1>2, <1>3, <1>7, <2>3 DEF IsBulk, Density
<1> HIDE DEF reads, best
<1> QED BY <1>4, <1>5, <1>6, <1>7 DEF reads

\* The evidence of a bulk access is of accesses that one window of window_seconds holds,
\* and no window of the group has more files: the peak that is reported is the peak.
THEOREM BulkInOneWindow ==
  ASSUME NEW snapshot, Legible(snapshot.events)
  PROVE  EvidenceOfOneWindow(snapshot)
<1> SUFFICES ASSUME NEW f \in Analyze(snapshot), f.rule = "AS-003"
             PROVE  \E g \in Groups(snapshot) :
                      LET reads == ReadsOf(snapshot, g)
                          shown == {e \in reads : e.id \in f.evidence}
                      IN /\ f.evidence = Ids(shown)
                         /\ \E e \in reads : shown \subseteq WindowOf(reads, e)
                         /\ \A e \in reads : Density(WindowOf(reads, e)) <= Density(shown)
  BY DEF EvidenceOfOneWindow, Density
<1>1. PICK g \in Groups(snapshot) : IsBulk(BestOf(snapshot, g))
                                   /\ f.evidence = Ids(BestOf(snapshot, g))
  BY BulkFindings
<1> DEFINE reads == ReadsOf(snapshot, g)
           best == BestOf(snapshot, g)
           shown == {e \in reads : e.id \in f.evidence}
<1>2. /\ reads \subseteq Reads(snapshot) /\ best \subseteq reads
      /\ \E e \in reads : best \subseteq WindowOf(reads, e)
      /\ \A e \in reads : Density(WindowOf(reads, e)) <= Density(best)
  BY <1>1, BestOfGroup
<1>3. shown = best
  <2> HIDE DEF reads, best
  <2>1. \A e, o \in reads : e.id = o.id => e = o
    BY <1>2 DEF Reads, Legible
  <2>2. f.evidence = Ids(best)
    BY <1>1 DEF best
  <2> QED BY <1>2, <2>1, <2>2 DEF Ids
<1>4. f.evidence = Ids(shown)
  BY <1>1, <1>3
<1> HIDE DEF reads, best, shown
<1>5. /\ \E e \in reads : shown \subseteq WindowOf(reads, e)
      /\ \A e \in reads : Density(WindowOf(reads, e)) <= Density(shown)
  BY <1>2, <1>3
<1> QED BY <1>4, <1>5 DEF reads, shown

\* A correlation (AS-004) is of one suspicious login, through an exposed asset, and of
\* accesses of the same user that all come after it, none later than the two times allow.
THEOREM CorrelationInOrder ==
  ASSUME NEW snapshot, Legible(snapshot.events)
  PROVE  CorrelatesInOrder(snapshot)
<1> SUFFICES ASSUME NEW f \in Analyze(snapshot), f.rule = "AS-004"
             PROVE  \E login \in Logins(snapshot), a \in snapshot.assets,
                       window \in SUBSET snapshot.events :
                      /\ f.evidence = {AssetId(a), login.id} \cup Ids(window)
                      /\ IsBulk(window)
                      /\ SuspiciousLogin(login) /\ a.asset = login.asset /\ Exposed(a)
                      /\ \A e \in window :
                           /\ e.type = "file_access" /\ e.actor = login.actor
                           /\ e.at - login.at \in
                                0..(Config.login_lookback_seconds + Config.window_seconds)
  BY DEF CorrelatesInOrder
<1>1. PICK g \in Groups(snapshot) : /\ IsBulk(BestOf(snapshot, g))
                                   /\ f \in Correlation(snapshot, g, BestOf(snapshot, g))
  BY BulkFindings
<1> DEFINE reads == ReadsOf(snapshot, g)
           window == BestOf(snapshot, g)
           eligible == Eligible(snapshot, g, window)
           login == LatestOf(eligible)
<1>2. /\ reads \subseteq Reads(snapshot) /\ window \subseteq reads /\ Timed(reads)
      /\ window # {} /\ \E e \in reads : window \subseteq WindowOf(reads, e)
  BY <1>1, BestOfGroup
<1>3. /\ eligible # {}
      /\ \E a \in snapshot.assets :
           /\ f.evidence = {AssetId(a), login.id} \cup Ids(window)
           /\ SuspiciousLogin(login) /\ a.asset = login.asset /\ Exposed(a)
  BY <1>1, CorrelationIs
<1>4. eligible \subseteq Logins(snapshot) /\ eligible \subseteq snapshot.events
  BY DEF Eligible, Logins
<1>5. login \in eligible
  <2> HIDE DEF eligible
  <2>1. IsFiniteSet(eligible) /\ Timed(eligible)
    BY <1>4, FS_Subset DEF Legible, Timed
  <2>2. \E e \in eligible : \A o \in eligible : o.at <= e.at
    BY <1>3, <2>1, LatestExists
  <2> QED BY <2>2 DEF LatestOf
<1>6. /\ login.actor = g[1] /\ login.at \in Int
      /\ Start(window) - login.at \in 0..Config.login_lookback_seconds
  <2> HIDE DEF window, login
  <2> QED BY <1>4, <1>5 DEF Eligible, Legible
<1>7. PICK last \in reads : window \subseteq WindowOf(reads, last)
  <2> HIDE DEF reads, window
  <2> QED BY <1>2
<1>8. Config.window_seconds \in Int /\ Config.login_lookback_seconds \in Int
  BY DetectionAssumption DEF FromMapping
<1> HIDE DEF reads, window, eligible, login
<1>9. \A e \in window : e.at \in Int /\ e.at \in (last.at - Config.window_seconds)..last.at
  BY <1>2, <1>7 DEF WindowOf, Timed
<1>10. Start(window) \in Int /\ \A e \in window : e.at - Start(window) \in 0..Config.window_seconds
  <2> DEFINE times == {e.at : e \in window}
  <2>1. last.at \in Int
    BY <1>2, <1>7 DEF Timed
  <2>2. /\ times \in SUBSET Int /\ times # {}
        /\ last.at - Config.window_seconds \in Int
        /\ \A x \in times : last.at - Config.window_seconds <= x /\ x <= last.at
    BY <1>2, <1>8, <1>9, <2>1
  <2>3. Min(times) \in times /\ \A x \in times : Min(times) <= x
    <3> HIDE DEF times
    <3> QED BY <2>2, MinIsLeast
  <2>4. Start(window) = Min(times)
    BY DEF Start
  <2>5. \A e \in window : e.at \in times
    OBVIOUS
  <2> HIDE DEF times
  <2>6. ASSUME NEW e \in window PROVE e.at - Min(times) \in 0..Config.window_seconds
    <3>1. /\ e.at \in Int /\ Min(times) \in Int /\ Min(times) <= e.at
          /\ e.at <= last.at /\ last.at - Config.window_seconds <= Min(times)
      BY <2>2, <2>3, <2>5
    <3> QED BY <1>8, <2>1, <3>1
  <2> QED BY <2>2, <2>3, <2>4, <2>6
<1>11. ASSUME NEW e \in window
       PROVE  /\ e.type = "file_access" /\ e.actor = login.actor
              /\ e.at - login.at \in 0..(Config.login_lookback_seconds + Config.window_seconds)
  <2>1. e.type = "file_access" /\ e.actor = login.actor
    BY <1>2, <1>6 DEF reads, ReadsOf, Reads
  <2>2. /\ e.at \in Int /\ Start(window) \in Int
        /\ e.at - Start(window) \in 0..Config.window_seconds
    BY <1>9, <1>10
  <2> QED BY <1>6, <1>8, <2>1, <2>2
<1>12. window \in SUBSET snapshot.events /\ login \in Logins(snapshot) /\ IsBulk(window)
  BY <1>1, <1>2, <1>4, <1>5 DEF Reads, window
<1> QED BY <1>3, <1>11, <1>12

\* So the findings of a legible snapshot are exact.
LEMMA AnalysisIsExact ==
  ASSUME NEW snapshot, Legible(snapshot.events)
  PROVE  Exact(snapshot)
  BY BulkExactly, BulkInOneWindow, CorrelationInOrder DEF Exact
=============================================================================
