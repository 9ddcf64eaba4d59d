---------------------------- MODULE PushQueueProofs ----------------------------
(* Proofs about PushQueue, for every set of writes, foreign changes, sessions  *)
(* and files and any number of faults and retries: what a rebase keeps of a    *)
(* branch, the inductive invariant IInv, and that it implies                   *)
(* NoWriteForgottenUnlessTorn.                                                 *)
EXTENDS PushQueue, WellFoundedInduction, TLAPS

----------------------------------------------------------------------------
(* Induction over the naturals, for a set.                                   *)

LEMMA LeastOne ==
    ASSUME NEW T, T \subseteq Nat, T # {}
    PROVE  \E x \in T : \A y \in T : x <= y
<1> DEFINE R == {ss \in Nat \X Nat : ss[1] < ss[2]}
<1>1. IsWellFoundedOn(R, Nat)
  BY NatLessThanWellFounded DEF OpToRel
<1>2. PICK x \in T : \A y \in T : ~(<<y, x>> \in R)
  <2> HIDE DEF R
  <2>1. QED BY <1>1, WFMin
<1>3. ASSUME NEW y \in T PROVE x <= y
  <2>1. y \in Nat /\ x \in Nat /\ ~(<<y, x>> \in R)
    BY <1>2
  <2>2. <<y, x>> \in Nat \X Nat /\ <<y, x>>[1] = y /\ <<y, x>>[2] = x
    BY <2>1
  <2>3. ~(y < x)
    BY <2>1, <2>2
  <2>4. QED BY <2>1, <2>3
<1>4. QED BY <1>3

LEMMA SetInduction ==
    ASSUME NEW S, 0 \in S, \A n \in Nat : n \in S => n + 1 \in S
    PROVE  Nat \subseteq S
<1> DEFINE T == Nat \ S
<1>1. SUFFICES ASSUME T # {} PROVE FALSE
  OBVIOUS
<1>2. PICK x \in T : \A y \in T : x <= y
  <2>1. T \subseteq Nat
    OBVIOUS
  <2> HIDE DEF T
  <2>2. QED BY <1>1, <2>1, LeastOne
<1>3. x - 1 \in Nat /\ x - 1 < x /\ (x - 1) + 1 = x
  OBVIOUS
<1>4. x - 1 \notin T
  BY <1>2, <1>3
<1>5. QED BY <1>3, <1>4

----------------------------------------------------------------------------
(* Histories and their prefixes.                                             *)

LEMMA PrefixElement ==
    ASSUME NEW S, NEW s \in Seq(S), NEW t \in Seq(S)
    PROVE  IsPrefix(s, t) <=> Len(s) <= Len(t) /\ \A i \in 1..Len(s) : s[i] = t[i]
<1>1. Len(s) <= Len(t) => /\ Len(SubSeq(t, 1, Len(s))) = Len(s)
                          /\ \A i \in 1..Len(s) : SubSeq(t, 1, Len(s))[i] = t[i]
                          /\ SubSeq(t, 1, Len(s)) \in Seq(S)
  OBVIOUS
<1>2. /\ Len(SubSeq(s, 1, Len(s))) = Len(s)
      /\ \A i \in 1..Len(s) : SubSeq(s, 1, Len(s))[i] = s[i]
      /\ SubSeq(s, 1, Len(s)) \in Seq(S)
  OBVIOUS
<1>3. QED BY <1>1, <1>2 DEF IsPrefix

LEMMA PrefixSelf == ASSUME NEW S, NEW s \in Seq(S) PROVE IsPrefix(s, s)
BY DEF IsPrefix

LEMMA PrefixThrough ==
    ASSUME NEW S, NEW s \in Seq(S), NEW t \in Seq(S), NEW u \in Seq(S),
           IsPrefix(s, t), IsPrefix(t, u)
    PROVE  IsPrefix(s, u)
<1>1. Len(s) <= Len(t) /\ Len(t) <= Len(u)
  BY PrefixElement
<1>2. (\A i \in 1..Len(s) : s[i] = t[i]) /\ (\A i \in 1..Len(t) : t[i] = u[i])
  BY PrefixElement
<1>3. \A i \in 1..Len(s) : s[i] = u[i]
  BY <1>1, <1>2
<1>4. QED BY <1>1, <1>3, PrefixElement

LEMMA PrefixEmpty ==
    ASSUME NEW S, NEW t \in Seq(S) PROVE IsPrefix(<<>>, t)
BY DEF IsPrefix

LEMMA PrefixAppend ==
    ASSUME NEW S, NEW t \in Seq(S), NEW x \in S PROVE IsPrefix(t, Append(t, x))
<1>1. Append(t, x) \in Seq(S) /\ Len(Append(t, x)) = Len(t) + 1
  OBVIOUS
<1>2. \A i \in 1..Len(t) : t[i] = Append(t, x)[i]
  OBVIOUS
<1> DEFINE a == Append(t, x)
<1> HIDE DEF a
<1>3. IsPrefix(t, a)
  <2>1. a \in Seq(S) /\ Len(t) \in Nat /\ Len(t) <= Len(a) /\ \A i \in 1..Len(t) : t[i] = a[i]
    BY <1>1, <1>2 DEF a
  <2>2. QED BY <2>1, PrefixElement
<1>4. QED BY <1>3 DEF a

LEMMA PrefixConcat ==
    ASSUME NEW S, NEW t \in Seq(S), NEW u \in Seq(S) PROVE IsPrefix(t, t \o u)
<1>1. t \o u \in Seq(S) /\ Len(t \o u) = Len(t) + Len(u) /\ Len(u) \in Nat
  OBVIOUS
<1>2. \A i \in 1..Len(t) : t[i] = (t \o u)[i]
  OBVIOUS
<1> DEFINE a == t \o u
<1> HIDE DEF a
<1>3. IsPrefix(t, a)
  <2>1. a \in Seq(S) /\ Len(t) \in Nat /\ Len(t) <= Len(a) /\ \A i \in 1..Len(t) : t[i] = a[i]
    BY <1>1, <1>2 DEF a
  <2>2. QED BY <2>1, PrefixElement
<1>4. QED BY <1>3 DEF a

LEMMA PrefixChanges ==
    ASSUME NEW S, NEW s \in Seq(S), NEW t \in Seq(S), IsPrefix(s, t)
    PROVE  ToSet(s) \subseteq ToSet(t)
<1>1. Len(s) <= Len(t) /\ \A i \in 1..Len(s) : s[i] = t[i]
  BY PrefixElement
<1>2. QED BY <1>1 DEF ToSet

\* The first changes of a history.
LEMMA Cut ==
    ASSUME NEW S, NEW h \in Seq(S), NEW n \in 0..Len(h)
    PROVE  /\ SubSeq(h, 1, n) \in Seq(S) /\ Len(SubSeq(h, 1, n)) = n
           /\ \A i \in 1..n : SubSeq(h, 1, n)[i] = h[i]
           /\ IsPrefix(SubSeq(h, 1, n), h)
<1>1. /\ SubSeq(h, 1, n) \in Seq(S) /\ Len(SubSeq(h, 1, n)) = n
      /\ \A i \in 1..n : SubSeq(h, 1, n)[i] = h[i]
  OBVIOUS
<1> DEFINE a == SubSeq(h, 1, n)
<1> HIDE DEF a
<1>2. IsPrefix(a, h)
  <2>1. a \in Seq(S) /\ Len(a) <= Len(h) /\ \A i \in 1..Len(a) : a[i] = h[i]
    BY <1>1 DEF a
  <2>2. QED BY <2>1, PrefixElement
<1>3. QED BY <1>1, <1>2 DEF a

LEMMA PrefixesAre ==
    ASSUME NEW S, NEW h \in Seq(S), NEW c \in Prefixes(h)
    PROVE  c \in Seq(S) /\ IsPrefix(c, h)
<1>1. PICK n \in 0..Len(h) : c = SubSeq(h, 1, n)
  BY DEF Prefixes
<1>2. QED BY <1>1, Cut

----------------------------------------------------------------------------
(* Where two histories part, and what a rebase replays.                      *)

\* The fork is the longest prefix of h that u begins with.
LEMMA Fork ==
    ASSUME NEW S, NEW u \in Seq(S), NEW h \in Seq(S)
    PROVE  LET fork == LongestCommonPrefix({u, h}) IN
           /\ fork \in Seq(S) /\ IsPrefix(fork, u) /\ IsPrefix(fork, h)
           /\ \A n \in 0..Len(h) : IsPrefix(SubSeq(h, 1, n), u) => n <= Len(fork)
<1> DEFINE C == CommonPrefixes({u, h})
           Longest(f) == f \in C /\ \A p \in C : Len(p) <= Len(f)
           N == {Len(u) - Len(p) : p \in C}
<1>1. \A p \in C : p \in Seq(S) /\ IsPrefix(p, u) /\ IsPrefix(p, h)
  BY PrefixesAre DEF CommonPrefixes
<1>2. ASSUME NEW n \in 0..Len(h), IsPrefix(SubSeq(h, 1, n), u)
      PROVE  SubSeq(h, 1, n) \in C
  <2>1. IsPrefix(SubSeq(h, 1, n), h)
    BY Cut
  <2>2. SubSeq(h, 1, n) \in Prefixes(h)
    BY DEF Prefixes
  <2>3. QED BY <1>2, <2>1, <2>2 DEF CommonPrefixes
<1>3. C # {}
  <2>1. SubSeq(h, 1, 0) \in Seq(S) /\ Len(SubSeq(h, 1, 0)) = 0 /\ 0 \in 0..Len(h)
    OBVIOUS
  <2>2. IsPrefix(SubSeq(h, 1, 0), u)
    <3> DEFINE a == SubSeq(h, 1, 0)
    <3> HIDE DEF a
    <3>1. a \in Seq(S) /\ Len(a) <= Len(u) /\ \A i \in 1..Len(a) : a[i] = u[i]
      BY <2>1 DEF a
    <3>2. IsPrefix(a, u)
      BY <3>1, PrefixElement
    <3>3. QED BY <3>2 DEF a
  <2>3. QED BY <1>2, <2>1, <2>2
<1>4. \E f : Longest(f)
  <2>1. N \subseteq Nat
    <3> SUFFICES ASSUME NEW p \in C PROVE Len(u) - Len(p) \in Nat
      OBVIOUS
    <3>1. p \in Seq(S) /\ IsPrefix(p, u)
      BY <1>1
    <3>2. Len(p) <= Len(u) /\ Len(p) \in Nat /\ Len(u) \in Nat
      BY <3>1 DEF IsPrefix
    <3>3. QED BY <3>2
  <2>2. N # {}
    BY <1>3
  <2>3. PICK m \in N : \A k \in N : m <= k
    <3> HIDE DEF N
    <3>1. QED BY <2>1, <2>2, LeastOne
  <2>4. PICK f \in C : m = Len(u) - Len(f)
    OBVIOUS
  <2>5. ASSUME NEW p \in C PROVE Len(p) <= Len(f)
    <3>1. Len(u) - Len(f) <= Len(u) - Len(p)
      BY <2>3, <2>4
    <3>2. p \in Seq(S) /\ f \in Seq(S)
      BY <1>1
    <3>3. Len(p) \in Nat /\ Len(f) \in Nat /\ Len(u) \in Nat
      BY <3>2
    <3> HIDE DEF C
    <3>4. QED BY <3>1, <3>3
  <2>6. QED BY <2>5
<1> DEFINE fork == LongestCommonPrefix({u, h})
<1>5. Longest(fork)
  <2>1. fork = CHOOSE f \in C : \A p \in C : Len(p) <= Len(f)
    BY DEF LongestCommonPrefix
  <2> HIDE DEF fork, C
  <2>2. QED BY <1>4, <2>1
<1>6. ASSUME NEW n \in 0..Len(h), IsPrefix(SubSeq(h, 1, n), u)
      PROVE  n <= Len(fork)
  <2>1. Len(SubSeq(h, 1, n)) = n
    BY Cut
  <2>2. SubSeq(h, 1, n) \in C
    BY <1>2, <1>6
  <2> HIDE DEF fork, C
  <2>3. QED BY <1>5, <2>1, <2>2
<1>7. fork \in Seq(S) /\ IsPrefix(fork, u) /\ IsPrefix(fork, h)
  <2> HIDE DEF fork, C
  <2>1. QED BY <1>1, <1>5
<1>8. QED
  <2> HIDE DEF C
  <2>1. QED BY <1>6, <1>7

\* What one history has since another is the rest of it after the fork.
LEMMA SinceFork ==
    ASSUME NEW S, NEW u \in Seq(S), NEW h \in Seq(S)
    PROVE  /\ Since(u, h) \in Seq(S)
           /\ ToSet(h) \subseteq ToSet(u) \cup ToSet(Since(u, h))
           /\ \A x \in ToSet(Since(u, h)) : \E i \in 1..Len(h) :
                h[i] = x /\ ~IsPrefix(SubSeq(h, 1, i), u)
<1> DEFINE fork == LongestCommonPrefix({u, h})
<1>1. /\ fork \in Seq(S) /\ IsPrefix(fork, u) /\ IsPrefix(fork, h)
      /\ \A n \in 0..Len(h) : IsPrefix(SubSeq(h, 1, n), u) => n <= Len(fork)
  BY Fork
<1>2. Since(u, h) = SubSeq(h, Len(fork) + 1, Len(h))
  BY DEF Since
<1> HIDE DEF fork
<1>3. Len(fork) \in Nat /\ Len(fork) <= Len(h) /\ \A i \in 1..Len(fork) : fork[i] = h[i]
  BY <1>1, PrefixElement
<1>4. /\ Since(u, h) \in Seq(S) /\ Len(Since(u, h)) = Len(h) - Len(fork)
      /\ \A j \in 1..(Len(h) - Len(fork)) : Since(u, h)[j] = h[Len(fork) + j]
  BY <1>2, <1>3
<1>5. ToSet(fork) \subseteq ToSet(u)
  BY <1>1, PrefixChanges
<1>6. ASSUME NEW i \in 1..Len(h) PROVE h[i] \in ToSet(u) \cup ToSet(Since(u, h))
  <2>1. CASE i <= Len(fork)
    <3>1. h[i] \in ToSet(fork)
      BY <1>1, <1>3, <2>1 DEF ToSet
    <3>2. QED BY <1>5, <3>1
  <2>2. CASE i > Len(fork)
    <3>1. i - Len(fork) \in 1..(Len(h) - Len(fork)) /\ Len(fork) + (i - Len(fork)) = i
      BY <1>3, <2>2
    <3>2. Since(u, h)[i - Len(fork)] = h[i]
      BY <1>4, <3>1
    <3>3. i - Len(fork) \in DOMAIN Since(u, h)
      BY <1>4, <3>1
    <3>4. QED BY <3>2, <3>3 DEF ToSet
  <2>3. QED BY <1>3, <2>1, <2>2
<1>7. ASSUME NEW x \in ToSet(Since(u, h))
      PROVE  \E i \in 1..Len(h) : h[i] = x /\ ~IsPrefix(SubSeq(h, 1, i), u)
  <2>1. PICK j \in 1..(Len(h) - Len(fork)) : x = h[Len(fork) + j]
    <3> DEFINE since == Since(u, h)
               n == Len(h) - Len(fork)
    <3>1. since \in Seq(S) /\ Len(since) = n /\ \A j \in 1..n : since[j] = h[Len(fork) + j]
      BY <1>4
    <3> HIDE DEF since, n
    <3>2. PICK j \in DOMAIN since : x = since[j]
      BY DEF since, ToSet
    <3>3. DOMAIN since = 1..n
      BY <3>1
    <3> QED BY <3>1, <3>2, <3>3 DEF n
  <2>2. Len(fork) + j \in 1..Len(h) /\ ~(Len(fork) + j <= Len(fork))
    BY <1>3
  <2>3. ~IsPrefix(SubSeq(h, 1, Len(fork) + j), u)
    BY <1>1, <2>2
  <2>4. QED BY <2>1, <2>2, <2>3
<1>8. ToSet(h) \subseteq ToSet(u) \cup ToSet(Since(u, h))
  BY <1>6 DEF ToSet
<1>9. QED BY <1>4, <1>7, <1>8

\* A rebase replays, in any number of steps, what has no twin upstream.
Twinless(u, h, x) == \A y \in ToSet(Since(h, u)) : Content(y) # Content(x)

Picking(f, u, h) ==
    f = [n \in 0..Len(Since(u, h)) |->
            IF n = 0 THEN <<>>
            ELSE IF \A y \in ToSet(Since(h, u)) : Content(y) # Content(Since(u, h)[n])
            THEN Append(f[n - 1], Since(u, h)[n])
            ELSE f[n - 1]]

LEMMA PickingExists ==
    ASSUME NEW S, NEW u \in Seq(S), NEW h \in Seq(S)
    PROVE  \E f : Picking(f, u, h)
<1> DEFINE since == Since(u, h)
           Next1(g, x) == IF \A y \in ToSet(Since(h, u)) : Content(y) # Content(x)
                          THEN Append(g, x) ELSE g
           Upto(f, m) == f = [n \in 0..m |-> IF n = 0 THEN <<>> ELSE Next1(f[n - 1], since[n])]
           T == {m \in Nat : \E f : Upto(f, m)}
<1>1. 0 \in T
  <2> DEFINE f == [n \in 0..0 |-> <<>>]
  <2>1. Upto(f, 0)
    OBVIOUS
  <2>2. QED BY <2>1
<1>2. ASSUME NEW m \in Nat, m \in T
      PROVE  m + 1 \in T
  <2>1. PICK f : Upto(f, m)
    BY <1>2
  <2> HIDE DEF Next1
  <2> DEFINE g == [n \in 0..(m + 1) |-> IF n <= m THEN f[n] ELSE Next1(f[m], since[n])]
  <2>2. /\ 0..(m + 1) = (0..m) \cup {m + 1} /\ m + 1 \notin 0..m /\ m \in 0..m
        /\ \A n \in 0..m : n <= m /\ (n # 0 => n - 1 \in 0..m)
        /\ m + 1 # 0 /\ (m + 1) - 1 = m /\ ~(m + 1 <= m)
    OBVIOUS
  <2>3. \A n \in 0..m : g[n] = f[n]
    BY <2>2
  <2>4. g[m + 1] = Next1(f[m], since[m + 1])
    BY <2>2
  <2>5. \A n \in 0..m : f[n] = IF n = 0 THEN <<>> ELSE Next1(f[n - 1], since[n])
    BY <2>1
  <2>6. ASSUME NEW n \in 0..(m + 1)
        PROVE  g[n] = IF n = 0 THEN <<>> ELSE Next1(g[n - 1], since[n])
    <3> HIDE DEF g
    <3>1. CASE n \in 0..m
      BY <2>2, <2>3, <2>5, <3>1
    <3>2. CASE n = m + 1
      BY <2>2, <2>3, <2>4, <3>2
    <3>3. QED BY <2>2, <3>1, <3>2
  <2>7. g = [n \in 0..(m + 1) |-> g[n]]
    BY Zenon
  <2>8. Upto(g, m + 1)
    <3> HIDE DEF g
    <3>1. QED BY <2>6, <2>7, Zenon
  <2>9. QED
    <3> HIDE DEF g, Upto
    <3>1. QED BY <2>8
<1>3. Nat \subseteq T
  <2> HIDE DEF T
  <2>1. QED BY <1>1, <1>2, SetInduction
<1>4. Len(since) \in Nat
  BY SinceFork
<1>5. PICK f : Upto(f, Len(since))
  BY <1>3, <1>4
<1>6. Picking(f, u, h)
  BY <1>5 DEF Picking
<1>7. QED BY <1>6

LEMMA Replayed ==
    ASSUME NEW S, NEW u \in Seq(S), NEW h \in Seq(S)
    PROVE  /\ ToReplay(u, h) \in Seq(S)
           /\ ToSet(ToReplay(u, h)) = {x \in ToSet(Since(u, h)) : Twinless(u, h, x)}
<1> DEFINE since == Since(u, h)
           f == CHOOSE f : Picking(f, u, h)
           Kept(n) == {x \in {since[i] : i \in 1..n} : Twinless(u, h, x)}
           T == {n \in Nat : n <= Len(since) => f[n] \in Seq(S) /\ ToSet(f[n]) = Kept(n)}
<1>1. Picking(f, u, h)
  BY PickingExists
<1>2. ToReplay(u, h) = f[Len(since)]
  BY DEF ToReplay, Picking
<1>3. since \in Seq(S) /\ Len(since) \in Nat
  BY SinceFork
<1> HIDE DEF f
<1>4. \A n \in 0..Len(since) : f[n] = IF n = 0 THEN <<>>
                                      ELSE IF Twinless(u, h, since[n])
                                      THEN Append(f[n - 1], since[n])
                                      ELSE f[n - 1]
  BY <1>1 DEF Picking, Twinless
<1> HIDE DEF since
<1>5. 0 \in T
  <2>1. f[0] = <<>>
    BY <1>3, <1>4
  <2>2. Kept(0) = {} /\ ToSet(<<>>) = {} /\ <<>> \in Seq(S)
    BY DEF ToSet
  <2>3. QED BY <2>1, <2>2
<1>6. ASSUME NEW n \in Nat, n \in T PROVE n + 1 \in T
  <2>1. SUFFICES ASSUME n + 1 <= Len(since)
                 PROVE  f[n + 1] \in Seq(S) /\ ToSet(f[n + 1]) = Kept(n + 1)
    OBVIOUS
  <2>2. f[n] \in Seq(S) /\ ToSet(f[n]) = Kept(n)
    BY <1>3, <1>6, <2>1
  <2>3. since[n + 1] \in S
    BY <1>3, <2>1
  <2>4. f[n + 1] = IF Twinless(u, h, since[n + 1]) THEN Append(f[n], since[n + 1]) ELSE f[n]
    <3>1. n + 1 \in 0..Len(since) /\ n + 1 # 0 /\ (n + 1) - 1 = n
      BY <1>3, <2>1
    <3>2. QED BY <1>4, <3>1
  <2>5. {since[i] : i \in 1..(n + 1)} = {since[i] : i \in 1..n} \cup {since[n + 1]}
    <3>1. 1..(n + 1) = (1..n) \cup {n + 1}
      OBVIOUS
    <3>2. QED BY <3>1
  <2>6. CASE Twinless(u, h, since[n + 1])
    <3>1. f[n + 1] = Append(f[n], since[n + 1])
      BY <2>4, <2>6
    <3>2. ToSet(Append(f[n], since[n + 1])) = ToSet(f[n]) \cup {since[n + 1]}
      <4> DEFINE g == f[n] z == since[n + 1]
      <4>1. g \in Seq(S) /\ z \in S
        BY <2>2, <2>3
      <4> HIDE DEF g, z
      <4>2. /\ DOMAIN Append(g, z) = 1..(Len(g) + 1) /\ DOMAIN g = 1..Len(g) /\ Len(g) \in Nat
            /\ \A i \in 1..Len(g) : Append(g, z)[i] = g[i]
            /\ Append(g, z)[Len(g) + 1] = z
        BY <4>1
      <4>3. 1..(Len(g) + 1) = (1..Len(g)) \cup {Len(g) + 1}
        BY <4>2
      <4>4. ToSet(Append(g, z)) = ToSet(g) \cup {z}
        BY <4>2, <4>3 DEF ToSet
      <4>5. QED BY <4>4 DEF g, z
    <3>3. Append(f[n], since[n + 1]) \in Seq(S)
      BY <2>2, <2>3
    <3>4. Kept(n + 1) = Kept(n) \cup {since[n + 1]}
      BY <2>5, <2>6
    <3>5. QED BY <2>2, <3>1, <3>2, <3>3, <3>4
  <2>7. CASE ~Twinless(u, h, since[n + 1])
    <3>1. f[n + 1] = f[n]
      BY <2>4, <2>7
    <3>2. Kept(n + 1) = Kept(n)
      BY <2>5, <2>7
    <3>3. QED BY <2>2, <3>1, <3>2
  <2>8. QED BY <2>6, <2>7
<1>7. Nat \subseteq T
  <2> HIDE DEF T
  <2>1. QED BY <1>5, <1>6, SetInduction
<1>8. f[Len(since)] \in Seq(S) /\ ToSet(f[Len(since)]) = Kept(Len(since))
  <2>1. Len(since) \in T
    BY <1>3, <1>7
  <2>2. Len(since) <= Len(since)
    BY <1>3
  <2>3. QED BY <2>1, <2>2
<1>9. ToSet(since) = {since[i] : i \in 1..Len(since)}
  BY <1>3 DEF ToSet
<1>10. QED BY <1>2, <1>8, <1>9 DEF since

----------------------------------------------------------------------------
(* The inductive invariant. Its second half holds as long as no rebase was cut *)
(* short or pushed half-done.                                                  *)

Own == Writes \cup Approvals

OwnLast(h) == h # <<>> /\ Last(h) \in Own

Contents(h) == {Content(x) : x \in ToSet(h)}

\* Every history is of changes made.
Made ==
    /\ {trunk, tracking, pushing, current} \subseteq Seq(used)
    /\ DOMAIN queue \subseteq Seq(used)
    /\ \A s \in Sessions : {branch[s], head[s], replay[s].to} \subseteq Seq(used)

\* A foreign change came with the part of the trunk that ends with it.
ForeignFrom(h, upstream) ==
    \A i \in DOMAIN h : h[i] \in Foreign => IsPrefix(SubSeq(h, 1, i), upstream)

\* The clone has foreign changes only from the trunk; what is queued is its own.
Known ==
    /\ IsPrefix(tracking, trunk)
    /\ \A s \in Sessions :
        /\ ForeignFrom(branch[s], tracking)
        /\ ForeignFrom(head[s], tracking)
        /\ ForeignFrom(replay[s].to, tracking)
    /\ \A sha \in DOMAIN queue : OwnLast(sha)
    /\ dpc \notin {"idle", "down"} => OwnLast(current)
    /\ \A e \in pending : OwnLast(e.sha)

\* What the drain and the writer have in hand at each of their steps.
Stages ==
    /\ dpc = "down" <=> wpc = "down"
    /\ wpc \in {"idle", "down"} <=> job = Nil
    /\ dpc \notin {"idle", "down"} => entry # Nil
    /\ dpc = "rebase" => wpc = "idle"
    /\ job # Nil =>
        /\ job.change \in Own
        /\ job.for # Nil => job.cas /\ Content(job.change) = Content(Last(job.for.sha))
    /\ wpc = "enqueue" =>
        /\ job.cas => job.fresh
        /\ OwnLast(head[job.session]) /\ Last(head[job.session]) = job.change

Shape == TypeOK /\ Made /\ Known /\ Stages /\ committed \subseteq Own

\* A rebase of branch b keeps what b has, unless the trunk t has its content; it
\* leaves a branch that contains the trunk as it is.
Rebasing(b, r, t) ==
    /\ \A x \in ToSet(b) : x \in ToSet(r.to) \/ Content(x) \in Contents(t)
    /\ r.to = b \/ ~IsPrefix(t, b)
    /\ r.state = "conflict" => ~IsPrefix(t, b)

\* A rebase is under way only while its owner has the serializer.
Replays ==
    \A s \in Sessions :
        IF replay[s].state = "none" THEN head[s] = branch[s]
        ELSE /\ (dpc = "rebase" /\ entry.session = s) \/ (wpc = "rebase" /\ job.session = s)
             /\ Rebasing(branch[s], replay[s], trunk)

\* A push of h to t publishes the content of sha; and it publishes sha itself, or
\* sha can no longer be published as it is.
Queues(sha, h, t) ==
    /\ Content(Last(sha)) \in Contents(h) \cup Contents(t)
    /\ IsPrefix(sha, h) \/ ~IsPrefix(t, sha)

\* Entries stand for commits their session's branch still has.
Entries ==
    /\ \A sha \in DOMAIN queue : Queues(sha, branch[queue[sha].session], trunk)
    /\ dpc \notin {"idle", "down"} => Queues(current, branch[entry.session], trunk)
    /\ dpc \in {"push", "push_again"} => Queues(current, pushing, trunk)
    /\ dpc = "demote" => ~IsPrefix(trunk, current)

Lasts(shas) == {Content(Last(sha)) : sha \in shas}

\* The commits without an entry that lie where the startup recovery looks.
Lying == {Content(x) : x \in orphaned \cap UNION {ToSet(branch[s]) : s \in Sessions}}

\* The writes that are safe without the queue.
Elsewhere == Contents(trunk) \cup Lasts({e.sha : e \in pending}) \cup declined \cup Lying

\* The writer is not about to make the very commit the drain is about to forget.
NotRemade ==
    job # Nil =>
        IF job.for = Nil THEN job.change # Last(current)
        ELSE /\ wpc = "rebase" => ~IsPrefix(replay[job.session].to, current)
             /\ wpc \in {"gates", "enqueue"} /\ job.fresh => ~IsPrefix(head[job.session], current)

\* An entry is removed when it is not needed.
Removing ==
    dpc = "remove" =>
        \/ Content(Last(current)) \in Contents(trunk)
        \/ /\ ~IsPrefix(trunk, current)
           /\ Content(Last(current)) \in Elsewhere \cup Lasts(DOMAIN queue \ {current})
           /\ NotRemade

Covered == {Content(x) : x \in committed} \subseteq Elsewhere \cup Lasts(DOMAIN queue)

Kept == Replays /\ Entries /\ Removing /\ Covered

IInv == Shape /\ (torn = {} => Kept)

----------------------------------------------------------------------------
(* What a rebase does to a branch.                                           *)

LEMMA ContentOf ==
    /\ \A w \in Writes : Content(w) = w /\ Content(Approval[w]) = w
    /\ \A x \in Own : Content(x) \in Writes
    /\ Own \subseteq Changes /\ Own \cap Foreign = {}
<1>1. \A w \in Writes : w \notin Approvals /\ Approval[w] \in Approvals
  BY ConstantsAssumption DEF Approvals
<1>2. ASSUME NEW w \in Writes PROVE Content(w) = w /\ Content(Approval[w]) = w
  <2>1. Content(w) = w
    BY <1>1 DEF Content
  <2>2. \A v \in Writes : Approval[v] = Approval[w] => v = w
    BY ConstantsAssumption
  <2>3. (CHOOSE v \in Writes : Approval[v] = Approval[w]) = w
    BY <2>2
  <2>4. QED BY <1>1, <2>1, <2>3 DEF Content
<1>3. ASSUME NEW x \in Own PROVE Content(x) \in Writes
  <2>1. CASE x \in Writes
    BY <1>2, <2>1
  <2>2. CASE x \in Approvals
    <3>1. PICK w \in Writes : x = Approval[w]
      BY <2>2 DEF Approvals
    <3>2. QED BY <1>2, <3>1
  <2>3. QED BY <2>1, <2>2 DEF Own
<1>4. QED BY <1>2, <1>3, ConstantsAssumption DEF Own, Changes

\* Foreign changes that came with a part of the trunk came with it when it grew.
LEMMA ForeignStays ==
    ASSUME NEW S, NEW h \in Seq(S), NEW t \in Seq(S), NEW u \in Seq(S),
           IsPrefix(t, u), ForeignFrom(h, t)
    PROVE  ForeignFrom(h, u)
<1> SUFFICES ASSUME NEW i \in DOMAIN h, h[i] \in Foreign PROVE IsPrefix(SubSeq(h, 1, i), u)
  BY DEF ForeignFrom
<1>1. IsPrefix(SubSeq(h, 1, i), t)
  BY DEF ForeignFrom
<1>2. SubSeq(h, 1, i) \in Seq(S)
  <2>1. i \in 0..Len(h)
    OBVIOUS
  <2>2. QED BY <2>1, Cut
<1>3. QED BY <1>1, <1>2, PrefixThrough

\* And so do those of what it is extended with.
LEMMA ForeignAppend ==
    ASSUME NEW S, NEW h \in Seq(S), NEW t, NEW x \in S, x \notin Foreign, ForeignFrom(h, t)
    PROVE  ForeignFrom(Append(h, x), t)
<1> DEFINE a == Append(h, x)
<1>1. /\ DOMAIN a = 1..(Len(h) + 1) /\ Len(h) \in Nat /\ a[Len(h) + 1] = x
      /\ \A i \in 1..Len(h) : a[i] = h[i] /\ SubSeq(a, 1, i) = SubSeq(h, 1, i)
  OBVIOUS
<1> HIDE DEF a
<1>2. ASSUME NEW i \in DOMAIN a, a[i] \in Foreign PROVE IsPrefix(SubSeq(a, 1, i), t)
  <2>1. i # Len(h) + 1
    BY <1>1, <1>2
  <2>2. i \in 1..Len(h) /\ i \in DOMAIN h
    BY <1>1, <2>1
  <2>3. QED BY <1>1, <1>2, <2>2 DEF ForeignFrom
<1>3. QED BY <1>2 DEF ForeignFrom, a

LEMMA ForeignOfConcat ==
    ASSUME NEW S, NEW u \in Seq(S), NEW d \in Seq(S), ToSet(d) \cap Foreign = {}
    PROVE  ForeignFrom(u \o d, u)
<1> DEFINE a == u \o d
<1>1. /\ DOMAIN a = 1..(Len(u) + Len(d)) /\ Len(u) \in Nat /\ Len(d) \in Nat
      /\ \A i \in 1..Len(u) : a[i] = u[i] /\ SubSeq(a, 1, i) = SubSeq(u, 1, i)
      /\ \A j \in 1..Len(d) : a[Len(u) + j] = d[j]
  OBVIOUS
<1> HIDE DEF a
<1>2. ASSUME NEW i \in DOMAIN a, a[i] \in Foreign PROVE IsPrefix(SubSeq(a, 1, i), u)
  <2>1. CASE i <= Len(u)
    <3>1. i \in 0..Len(u) /\ i \in 1..Len(u)
      BY <1>1, <2>1
    <3>2. QED BY <1>1, <3>1, Cut
  <2>2. CASE ~(i <= Len(u))
    <3>1. i - Len(u) \in 1..Len(d) /\ Len(u) + (i - Len(u)) = i
      BY <1>1, <2>2
    <3>2. a[i] = d[i - Len(u)]
      BY <1>1, <3>1
    <3>3. a[i] \in ToSet(d)
      BY <3>1, <3>2 DEF ToSet
    <3>4. QED BY <1>2, <3>3
  <2>3. QED BY <2>1, <2>2
<1>3. QED BY <1>2 DEF ForeignFrom, a

\* A rebase keeps the changes of a branch whose content upstream has not got.
LEMMA RebaseStarts ==
    ASSUME NEW S, NEW s \in Sessions, NEW u \in Seq(S), NEW t \in Seq(S),
           head \in [Sessions -> Histories], head[s] \in Seq(S),
           IsPrefix(t, u), ForeignFrom(head[s], t), StartRebase(s, u)
    PROVE  \E hd \in Seq(S), to \in Seq(S), st \in {"clean", "conflict"} :
            /\ head' = [head EXCEPT ![s] = hd]
            /\ replay' = [replay EXCEPT ![s] = [state |-> st, to |-> to]]
            /\ IsPrefix(u, to) /\ ForeignFrom(hd, u) /\ ForeignFrom(to, u)
            /\ to = head[s] \/ ~IsPrefix(u, head[s])
            /\ st = "conflict" => ~IsPrefix(u, head[s])
            /\ \A x \in ToSet(head[s]) : x \in ToSet(to) \/ Content(x) \in Contents(u)
<1>1. CASE IsPrefix(u, head[s])
  <2>1. /\ head' = [head EXCEPT ![s] = head[s]]
        /\ replay' = [replay EXCEPT ![s] = [state |-> "clean", to |-> head[s]]]
    BY <1>1 DEF StartRebase
  <2>2. ForeignFrom(head[s], u)
    BY ForeignStays
  <2> DEFINE h == head[s]
  <2>3. /\ head' = [head EXCEPT ![s] = h] /\ h \in Seq(S) /\ ForeignFrom(h, u) /\ IsPrefix(u, h)
        /\ replay' = [replay EXCEPT ![s] = [state |-> "clean", to |-> h]] /\ h = head[s]
    BY <1>1, <2>1, <2>2
  <2> HIDE DEF h
  <2>4. QED BY <2>3
<1>2. CASE ~IsPrefix(u, head[s])
  <2> DEFINE h == head[s]
             picks == ToReplay(u, h)
  <2>1. PICK done \in Prefixes(picks) :
            /\ head' = [head EXCEPT ![s] = u \o done]
            /\ \E st \in {"clean", "conflict"} :
                replay' = [replay EXCEPT ![s] = [state |-> st, to |-> u \o picks]]
    BY <1>2 DEF StartRebase
  <2>2. h \in Seq(S) /\ ForeignFrom(h, t) /\ h = head[s] /\ ~IsPrefix(u, h)
    BY <1>2
  <2> HIDE DEF h
  <2>3. /\ picks \in Seq(S)
        /\ ToSet(picks) = {x \in ToSet(Since(u, h)) : Twinless(u, h, x)}
    BY <2>2, Replayed
  <2>4. /\ Since(u, h) \in Seq(S)
        /\ ToSet(h) \subseteq ToSet(u) \cup ToSet(Since(u, h))
        /\ \A x \in ToSet(Since(u, h)) : \E i \in 1..Len(h) :
                h[i] = x /\ ~IsPrefix(SubSeq(h, 1, i), u)
    BY <2>2, SinceFork
  <2>5. ASSUME NEW x \in ToSet(picks) PROVE x \notin Foreign
    <3>1. PICK i \in 1..Len(h) : h[i] = x /\ ~IsPrefix(SubSeq(h, 1, i), u)
      BY <2>3, <2>4
    <3>2. ForeignFrom(h, u)
      BY <2>2, ForeignStays
    <3>3. i \in DOMAIN h
      BY <2>2
    <3>4. QED BY <3>1, <3>2, <3>3 DEF ForeignFrom
  <2> HIDE DEF picks
  <2>6. done \in Seq(S) /\ ToSet(done) \subseteq ToSet(picks)
    BY <2>1, <2>3, PrefixesAre, PrefixChanges
  <2>7. u \o done \in Seq(S) /\ u \o picks \in Seq(S)
    BY <2>3, <2>6
  <2>8. ForeignFrom(u \o done, u) /\ ForeignFrom(u \o picks, u)
    <3>1. ToSet(done) \cap Foreign = {} /\ ToSet(picks) \cap Foreign = {}
      BY <2>5, <2>6
    <3>2. QED BY <2>3, <2>6, <3>1, ForeignOfConcat
  <2>9. IsPrefix(u, u \o picks)
    BY <2>3, PrefixConcat
  <2>10. ToSet(u) \subseteq ToSet(u \o picks) /\ ToSet(picks) \subseteq ToSet(u \o picks)
    <3>1. ToSet(u) \subseteq ToSet(u \o picks)
      BY <2>7, <2>9, PrefixChanges
    <3>2. /\ DOMAIN (u \o picks) = 1..(Len(u) + Len(picks)) /\ Len(u) \in Nat /\ Len(picks) \in Nat
          /\ \A j \in 1..Len(picks) : (u \o picks)[Len(u) + j] = picks[j]
          /\ DOMAIN picks = 1..Len(picks)
      BY <2>3
    <3>3. ASSUME NEW x \in ToSet(picks) PROVE x \in ToSet(u \o picks)
      <4>1. PICK j \in 1..Len(picks) : x = picks[j]
        BY <3>2 DEF ToSet
      <4>2. Len(u) + j \in DOMAIN (u \o picks) /\ (u \o picks)[Len(u) + j] = x
        BY <3>2, <4>1
      <4>3. QED BY <4>2 DEF ToSet
    <3>4. QED BY <3>1, <3>3
  <2>11. ASSUME NEW x \in ToSet(h)
         PROVE  x \in ToSet(u \o picks) \/ Content(x) \in Contents(u)
    <3>1. CASE x \in ToSet(u)
      BY <2>10, <3>1
    <3>2. CASE x \in ToSet(Since(u, h)) /\ Twinless(u, h, x)
      BY <2>3, <2>10, <3>2
    <3>3. CASE ~Twinless(u, h, x)
      <4>1. PICK y \in ToSet(Since(h, u)) : Content(y) = Content(x)
        BY <3>3 DEF Twinless
      <4>2. PICK i \in 1..Len(u) : u[i] = y
        BY <2>2, <4>1, SinceFork
      <4>3. y \in ToSet(u)
        BY <4>2 DEF ToSet
      <4>4. QED BY <4>1, <4>3 DEF Contents
    <3>4. QED BY <2>4, <3>1, <3>2, <3>3
  <2>12. PICK st \in {"clean", "conflict"} :
            replay' = [replay EXCEPT ![s] = [state |-> st, to |-> u \o picks]]
    BY <2>1
  <2> DEFINE to == u \o picks
             hd == u \o done
  <2>13. /\ to \in Seq(S) /\ hd \in Seq(S)
         /\ head' = [head EXCEPT ![s] = hd]
         /\ replay' = [replay EXCEPT ![s] = [state |-> st, to |-> to]]
         /\ IsPrefix(u, to) /\ ForeignFrom(hd, u) /\ ForeignFrom(to, u)
         /\ ~IsPrefix(u, head[s])
         /\ \A x \in ToSet(head[s]) : x \in ToSet(to) \/ Content(x) \in Contents(u)
    BY <2>1, <2>2, <2>7, <2>8, <2>9, <2>11, <2>12
  <2> HIDE DEF to, hd
  <2>14. QED BY <2>13
<1>3. QED BY <1>1, <1>2

----------------------------------------------------------------------------
(* The shape of the state is kept: types, where changes come from, stages.   *)

LEMMA Histories1 ==
    ASSUME Shape
    PROVE  /\ used \subseteq Changes /\ Seq(used) \subseteq Histories
           /\ \A s \in Sessions : /\ branch[s] \in Seq(used) /\ head[s] \in Seq(used)
                                  /\ replay[s].to \in Seq(used)
           /\ trunk \in Seq(used) /\ tracking \in Seq(used)
<1>1. used \subseteq Changes
  BY DEF Shape, TypeOK
<1>2. Seq(used) \subseteq Histories
  BY <1>1 DEF Histories
<1>3. QED BY <1>1, <1>2 DEF Shape, Made

\* More may be fetched.
LEMMA Fetched ==
    ASSUME Shape, NEW upstream \in Seq(used), IsPrefix(tracking, upstream)
    PROVE  \A s \in Sessions :
            /\ ForeignFrom(branch[s], upstream)
            /\ ForeignFrom(head[s], upstream)
            /\ ForeignFrom(replay[s].to, upstream)
BY Histories1, ForeignStays DEF Shape, Known

LEMMA PushStartShape ==
    ASSUME Shape, NEW sha \in DOMAIN queue, PushStart(sha) PROVE Shape'
<1> USE NilAssumption DEF Shape, PushStart, git, drain, writer, history
<1>0. queue[sha] \in Entry /\ queue[sha].session \in Sessions /\ queue[sha] # Nil
  BY DEF TypeOK, Entry
<1>1. TypeOK'
  BY <1>0 DEF TypeOK
<1>2. Made'
  BY <1>0 DEF Made
<1>3. Known'
  BY DEF Known
<1>4. Stages'
  BY <1>0 DEF Stages
<1>5. QED BY <1>1, <1>2, <1>3, <1>4

LEMMA PushAcceptedShape == ASSUME Shape, PushAccepted PROVE Shape'
<1> USE DEF Shape, PushAccepted, git, drain, writer, history
<1>0. pushing \in Seq(used) /\ IsPrefix(trunk, pushing) /\ IsPrefix(tracking, pushing)
  BY Histories1, PrefixThrough DEF Made, Known, Accepted
<1>1. TypeOK'
  BY <1>0 DEF TypeOK, Histories
<1>2. Made'
  BY <1>0 DEF Made
<1>3. Known'
  <2>1. IsPrefix(tracking, trunk)'
    BY <1>0, PrefixSelf
  <2>2. QED BY <1>0, <2>1, Fetched DEF Known
<1>4. Stages'
  BY DEF Stages
<1>5. QED BY <1>1, <1>2, <1>3, <1>4

LEMMA PushRejectedShape == ASSUME Shape, PushRejected PROVE Shape'
<1> USE DEF Shape, PushRejected, git, drain, writer, history
<1>1. TypeOK'
  BY DEF TypeOK, Histories
<1>2. Made'
  BY DEF Made
<1>3. Known'
  BY DEF Known
<1>4. Stages'
  BY DEF Stages
<1>5. QED BY <1>1, <1>2, <1>3, <1>4

LEMMA ContentionShape == ASSUME Shape, Contention PROVE Shape'
<1> USE NilAssumption DEF Shape, Contention, git, drain, writer, history
<1>0. entry \in Entry /\ entry' \in Entry
  BY ConstantsAssumption DEF TypeOK, Stages, Entry, UpTo
<1>1. TypeOK'
  BY <1>0 DEF TypeOK, Histories
<1>2. Made'
  BY DEF Made
<1>3. Known'
  BY DEF Known
<1>4. Stages'
  BY <1>0 DEF Stages
<1>5. QED BY <1>1, <1>2, <1>3, <1>4

LEMMA PushFailsShape == ASSUME Shape, PushFails PROVE Shape'
<1> USE DEF Shape, PushFails, Fault, Fail, git, drain, writer, history
<1>0. pushing \in Seq(used) /\ trunk' \in Seq(used) /\ IsPrefix(tracking, trunk')
  BY Histories1, PrefixThrough DEF Made, Known, Accepted
<1>1. TypeOK'
  BY <1>0, Histories1 DEF TypeOK, Histories
<1>2. Made'
  BY <1>0 DEF Made
<1>3. Known'
  BY <1>0 DEF Known
<1>4. Stages'
  BY DEF Stages
<1>5. QED BY <1>1, <1>2, <1>3, <1>4

LEMMA RefreshFailsShape ==
    ASSUME Shape, RefreshDeferred \/ RefreshFetchFails \/ RebaseKilled PROVE Shape'
<1> USE DEF Shape, Fault, Fail, NextEntry, git, drain, writer, history
<1>0. /\ <<>> \in Histories /\ <<>> \in Seq(used)
      /\ dpc \notin {"idle", "down"} => entry.session \in Sessions
  BY DEF TypeOK, Stages, Entry, Histories
<1>1. CASE RefreshDeferred
  <2> USE <1>1 DEF RefreshDeferred, NoFault
  <2>1. TypeOK'
    BY <1>0 DEF TypeOK
  <2>2. Made'
    BY <1>0 DEF Made
  <2>3. Known' /\ Stages'
    BY DEF Known, Stages
  <2>4. QED BY <2>1, <2>2, <2>3
<1>2. CASE RefreshFetchFails
  <2> USE <1>2 DEF RefreshFetchFails
  <2>1. TypeOK'
    BY DEF TypeOK
  <2>2. Made' /\ Known' /\ Stages'
    BY DEF Made, Known, Stages
  <2>3. QED BY <2>1, <2>2
<1>3. CASE RebaseKilled
  <2> USE <1>3 DEF RebaseKilled
  <2>1. TypeOK'
    BY <1>0 DEF TypeOK
  <2>2. Made' /\ Known' /\ Stages'
    BY DEF Made, Known, Stages
  <2>3. QED BY <2>1, <2>2
<1>4. QED BY <1>1, <1>2, <1>3

Worktrees ==
    /\ head \in [Sessions -> Histories] /\ branch \in [Sessions -> Histories]
    /\ replay \in [Sessions -> Replay]
    /\ tracking \in Histories /\ tracking \in Seq(used) /\ IsPrefix(tracking, trunk)
    /\ \A x \in Sessions :
        /\ {branch[x], head[x], replay[x].to} \subseteq Seq(used)
        /\ ForeignFrom(branch[x], tracking)
        /\ ForeignFrom(head[x], tracking)
        /\ ForeignFrom(replay[x].to, tracking)

\* A worktree goes to other histories: into a rebase, out of it, or on.
LEMMA Moved ==
    ASSUME Shape, NEW s \in Sessions, NEW hd \in Seq(used), NEW br \in Seq(used),
           NEW r \in Replay, r.to \in Seq(used), UNCHANGED <<used, trunk, tracking>> \/
           (UNCHANGED <<used, trunk>> /\ tracking' = trunk),
           head' = [head EXCEPT ![s] = hd], branch' = [branch EXCEPT ![s] = br],
           replay' = [replay EXCEPT ![s] = r],
           ForeignFrom(hd, tracking'), ForeignFrom(br, tracking'), ForeignFrom(r.to, tracking')
    PROVE  Worktrees'
<1>1. /\ tracking' \in Seq(used) /\ IsPrefix(tracking', trunk') /\ IsPrefix(tracking, tracking')
  <2>1. trunk \in Seq(used) /\ tracking \in Seq(used) /\ IsPrefix(tracking, trunk)
    BY Histories1 DEF Shape, Known
  <2>2. IsPrefix(trunk, trunk) /\ IsPrefix(tracking, tracking)
    BY <2>1, PrefixSelf
  <2>3. QED BY <2>1, <2>2
<1>2. \A x \in Sessions : /\ ForeignFrom(branch[x], tracking')
                          /\ ForeignFrom(head[x], tracking')
                          /\ ForeignFrom(replay[x].to, tracking')
  BY <1>1, Fetched
<1>3. /\ head \in [Sessions -> Histories] /\ branch \in [Sessions -> Histories]
      /\ replay \in [Sessions -> Replay] /\ hd \in Histories /\ br \in Histories
      /\ tracking' \in Histories
  BY <1>1, Histories1 DEF Shape, TypeOK
<1>4. ASSUME NEW x \in Sessions
      PROVE  /\ {branch'[x], head'[x], replay'[x].to} \subseteq Seq(used)
             /\ ForeignFrom(branch'[x], tracking')
             /\ ForeignFrom(head'[x], tracking')
             /\ ForeignFrom(replay'[x].to, tracking')
  <2>1. CASE x = s
    <3>1. branch'[x] = br /\ head'[x] = hd /\ replay'[x] = r
      BY <1>3, <2>1
    <3>2. QED BY <3>1
  <2>2. CASE x # s
    <3>1. branch'[x] = branch[x] /\ head'[x] = head[x] /\ replay'[x] = replay[x]
      BY <1>3, <2>2
    <3>2. QED BY <1>2, <3>1, Histories1
  <2>3. QED BY <2>1, <2>2
<1>5. /\ head' \in [Sessions -> Histories] /\ branch' \in [Sessions -> Histories]
      /\ replay' \in [Sessions -> Replay]
  BY <1>3
<1>6. used' = used
  OBVIOUS
<1>7. QED BY <1>1, <1>3, <1>4, <1>5, <1>6 DEF Worktrees

LEMMA ForeignEmpty == ASSUME NEW t PROVE ForeignFrom(<<>>, t)
BY DEF ForeignFrom

\* The three ways a rebase moves a worktree.
LEMMA StartMoves ==
    ASSUME Shape, NEW s \in Sessions, StartRebase(s, trunk), tracking' = trunk,
           UNCHANGED <<used, trunk, branch>>
    PROVE  \E hd \in Seq(used), r \in Replay :
            /\ r.to \in Seq(used)
            /\ head' = [head EXCEPT ![s] = hd] /\ branch' = [branch EXCEPT ![s] = branch[s]]
            /\ replay' = [replay EXCEPT ![s] = r]
            /\ ForeignFrom(hd, tracking') /\ ForeignFrom(branch[s], tracking')
            /\ ForeignFrom(r.to, tracking')
            /\ r.state \in {"clean", "conflict"} /\ IsPrefix(trunk, r.to)
            /\ r.to = head[s] \/ ~IsPrefix(trunk, head[s])
            /\ r.state = "conflict" => ~IsPrefix(trunk, head[s])
            /\ \A x \in ToSet(head[s]) : x \in ToSet(r.to) \/ Content(x) \in Contents(trunk)
<1>1. /\ head \in [Sessions -> Histories] /\ branch \in [Sessions -> Histories]
      /\ head[s] \in Seq(used) /\ trunk \in Seq(used) /\ tracking \in Seq(used)
      /\ IsPrefix(tracking, trunk) /\ ForeignFrom(head[s], tracking)
  BY Histories1 DEF Shape, TypeOK, Known
<1>2. PICK hd \in Seq(used), to \in Seq(used), st \in {"clean", "conflict"} :
            /\ head' = [head EXCEPT ![s] = hd]
            /\ replay' = [replay EXCEPT ![s] = [state |-> st, to |-> to]]
            /\ IsPrefix(trunk, to) /\ ForeignFrom(hd, trunk) /\ ForeignFrom(to, trunk)
            /\ to = head[s] \/ ~IsPrefix(trunk, head[s])
            /\ st = "conflict" => ~IsPrefix(trunk, head[s])
            /\ \A x \in ToSet(head[s]) : x \in ToSet(to) \/ Content(x) \in Contents(trunk)
  BY <1>1, RebaseStarts
<1> DEFINE r == [state |-> st, to |-> to]
<1>3. r \in Replay /\ r.to = to /\ r.state = st
  BY Histories1 DEF Replay
<1>4. ForeignFrom(branch[s], trunk)
  BY <1>1, Fetched
<1>5. branch' = [branch EXCEPT ![s] = branch[s]]
  BY <1>1
<1>6. /\ replay' = [replay EXCEPT ![s] = r] /\ r.to \in Seq(used)
  BY <1>2, <1>3
<1> HIDE DEF r
<1>7. QED BY <1>2, <1>3, <1>4, <1>5, <1>6

LEMMA FinishMoves ==
    ASSUME Shape, NEW s \in Sessions, FinishRebase(s), UNCHANGED tracking
    PROVE  LET to == replay[s].to IN
            /\ to \in Seq(used) /\ NoReplay \in Replay /\ NoReplay.to \in Seq(used)
            /\ head' = [head EXCEPT ![s] = to] /\ branch' = [branch EXCEPT ![s] = to]
            /\ replay' = [replay EXCEPT ![s] = NoReplay]
            /\ ForeignFrom(to, tracking') /\ ForeignFrom(NoReplay.to, tracking')
<1>1. NoReplay \in Replay /\ NoReplay.to = <<>> /\ <<>> \in Seq(used)
  BY DEF NoReplay, Replay, Histories
<1>2. QED BY <1>1, Histories1, ForeignEmpty DEF FinishRebase, Shape, Known

LEMMA AbortMoves ==
    ASSUME Shape, NEW s \in Sessions, AbortRebase(s), UNCHANGED branch,
           tracking' = trunk \/ tracking' = tracking
    PROVE  /\ branch[s] \in Seq(used) /\ NoReplay \in Replay /\ NoReplay.to \in Seq(used)
           /\ head' = [head EXCEPT ![s] = branch[s]]
           /\ branch' = [branch EXCEPT ![s] = branch[s]]
           /\ replay' = [replay EXCEPT ![s] = NoReplay]
           /\ ForeignFrom(branch[s], tracking') /\ ForeignFrom(NoReplay.to, tracking')
<1>1. NoReplay \in Replay /\ NoReplay.to = <<>> /\ <<>> \in Seq(used)
  BY DEF NoReplay, Replay, Histories
<1>2. branch \in [Sessions -> Histories] /\ trunk \in Seq(used) /\ IsPrefix(tracking, trunk)
  BY Histories1 DEF Shape, TypeOK, Known
<1>3. branch' = [branch EXCEPT ![s] = branch[s]]
  BY <1>2
<1>4. ForeignFrom(branch[s], tracking')
  BY <1>2, Fetched DEF Shape, Known
<1>5. QED BY <1>1, <1>3, <1>4, Histories1, ForeignEmpty DEF AbortRebase

LEMMA RefreshFetchShape == ASSUME Shape, RefreshFetch PROVE Shape'
<1> USE DEF Shape
<1> DEFINE s == entry.session
<1>0. s \in Sessions /\ entry # Nil /\ OwnLast(current)
  BY DEF RefreshFetch, TypeOK, Stages, Entry, Known
<1>1. UNCHANGED <<trunk, used>> /\ tracking' = trunk
  BY DEF RefreshFetch, writer
<1>2. Worktrees' /\ dpc' \in {"rebase", "demote"} /\ failure' \in {"conflict", failure}
  <2>1. CASE replay[s].state # "none"
    <3>1. AbortRebase(s) /\ UNCHANGED branch /\ dpc' = "demote" /\ failure' = "conflict"
      BY <2>1 DEF RefreshFetch, RebaseConflicted
    <3>2. QED BY <1>0, <1>1, <3>1, AbortMoves, Moved
  <2>2. CASE ~(replay[s].state # "none")
    <3>1. StartRebase(s, trunk) /\ UNCHANGED <<branch, failure>> /\ dpc' = "rebase"
      BY <2>2 DEF RefreshFetch
    <3>2. PICK hd \in Seq(used), r \in Replay :
            /\ r.to \in Seq(used)
            /\ head' = [head EXCEPT ![s] = hd] /\ branch' = [branch EXCEPT ![s] = branch[s]]
            /\ replay' = [replay EXCEPT ![s] = r]
            /\ ForeignFrom(hd, tracking') /\ ForeignFrom(branch[s], tracking')
            /\ ForeignFrom(r.to, tracking')
      BY <1>0, <1>1, <3>1, StartMoves
    <3>3. branch[s] \in Seq(used)
      BY <1>0, Histories1
    <3> HIDE DEF s
    <3>4. Worktrees'
      BY <1>0, <1>1, <3>2, <3>3, Moved
    <3>5. QED BY <3>1, <3>4
  <2>3. QED BY <2>1, <2>2
<1>3. wpc \in {"idle", "down"} /\ dpc = "refresh"
  BY DEF RefreshFetch, Serializing
<1>4. UNCHANGED <<trunk, queue, pending, held, current, entry, pushing, wpc, job, used, faults,
                  committed, orphaned, declined, torn>>
  BY DEF RefreshFetch, writer, history
<1> HIDE DEF s
<1>5. TypeOK'
  BY <1>2, <1>4 DEF TypeOK, Worktrees
<1>6. Made'
  BY <1>2, <1>4 DEF Made, Worktrees
<1>7. Known'
  BY <1>0, <1>2, <1>4 DEF Known, Worktrees
<1>8. Stages'
  BY <1>0, <1>2, <1>3, <1>4 DEF Stages
<1>9. QED BY <1>4, <1>5, <1>6, <1>7, <1>8

LEMMA RebaseEndsShape == ASSUME Shape, RebaseEnds PROVE Shape'
<1> USE DEF Shape
<1> DEFINE s == entry.session
<1>0. s \in Sessions /\ entry # Nil /\ OwnLast(current) /\ dpc = "rebase" /\ wpc = "idle"
  BY DEF RebaseEnds, TypeOK, Stages, Entry, Known
<1>1. UNCHANGED <<trunk, tracking, used>>
  BY DEF RebaseEnds, writer
<1>2. Worktrees' /\ dpc' \in {"resolve", "demote"} /\ failure' \in {"conflict", failure}
  <2>1. CASE FinishRebase(s) /\ dpc' = "resolve" /\ UNCHANGED failure
    BY <1>0, <1>1, <2>1, FinishMoves, Moved
  <2>2. CASE RebaseConflicted
    <3>1. AbortRebase(s) /\ UNCHANGED branch /\ dpc' = "demote" /\ failure' = "conflict"
      BY <2>2 DEF RebaseConflicted
    <3>2. QED BY <1>0, <1>1, <3>1, AbortMoves, Moved
  <2>3. QED BY <2>1, <2>2 DEF RebaseEnds
<1>4. UNCHANGED <<trunk, queue, pending, held, current, entry, pushing, wpc, job, used, faults,
                  committed, orphaned, declined, torn>>
  BY DEF RebaseEnds, writer, history
<1> HIDE DEF s
<1>5. TypeOK'
  BY <1>2, <1>4 DEF TypeOK, Worktrees
<1>6. Made'
  BY <1>2, <1>4 DEF Made, Worktrees
<1>7. Known'
  BY <1>0, <1>2, <1>4 DEF Known, Worktrees
<1>8. Stages'
  BY <1>0, <1>2, <1>4 DEF Stages
<1>9. QED BY <1>4, <1>5, <1>6, <1>7, <1>8

LEMMA PushAgainShape == ASSUME Shape, PushAgain PROVE Shape'
<1> USE DEF Shape, PushAgain, git, drain, writer, history
<1>0. entry \in Entry /\ entry.session \in Sessions
  BY DEF TypeOK, Stages, Entry
<1>1. TypeOK'
  BY <1>0 DEF TypeOK
<1>2. Made'
  BY <1>0 DEF Made
<1>3. Known'
  BY DEF Known
<1>4. Stages'
  BY DEF Stages
<1>5. QED BY <1>1, <1>2, <1>3, <1>4

LEMMA DemoteShape == ASSUME Shape, Demote \/ DemoteFails PROVE Shape'
<1> USE DEF Shape, Fault, git, drain, writer, history
<1>0. dpc = "demote" => entry \in Entry /\ OwnLast(current)
  BY DEF TypeOK, Stages, Entry, Known
<1>1. CASE Demote
  <2> USE <1>1 DEF Demote
  <2> DEFINE e == [sha |-> current, known |-> entry.known]
  <2>0. e \in Demoted /\ e.sha = current
    BY <1>0 DEF TypeOK, Demoted, Entry
  <2>1. pending' = pending \cup {e}
    OBVIOUS
  <2> HIDE DEF e
  <2>2. TypeOK'
    BY <2>0, <2>1 DEF TypeOK
  <2>3. Made'
    BY DEF Made
  <2>4. Known'
    BY <1>0, <2>0, <2>1 DEF Known
  <2>5. Stages'
    BY DEF Stages
  <2>6. QED BY <2>2, <2>3, <2>4, <2>5
<1>2. CASE DemoteFails
  <2> USE <1>2 DEF DemoteFails
  <2>1. TypeOK'
    BY DEF TypeOK
  <2>2. Made' /\ Known' /\ Stages'
    BY DEF Made, Known, Stages
  <2>3. QED BY <2>1, <2>2
<1>3. QED BY <1>1, <1>2

LEMMA EntryKeptShape == ASSUME Shape, RemoveEntry \/ RecordRetry \/ EntryFileFails PROVE Shape'
<1> USE DEF Shape, Fault, NextEntry, git, drain, writer, history
<1>0. <<>> \in Histories /\ <<>> \in Seq(used)
  BY DEF Histories
<1>1. CASE RemoveEntry
  <2> USE <1>1 DEF RemoveEntry
  <2>1. DOMAIN queue' = DOMAIN queue \ {current} /\ \A h \in DOMAIN queue' : queue'[h] = queue[h]
    BY DEF Without
  <2>2. TypeOK'
    BY <1>0, <2>1 DEF TypeOK
  <2>3. Made'
    BY <1>0, <2>1 DEF Made
  <2>4. Known'
    BY <2>1 DEF Known
  <2>5. Stages'
    BY DEF Stages
  <2>6. QED BY <2>2, <2>3, <2>4, <2>5
<1>2. CASE RecordRetry
  <2> USE <1>2 DEF RecordRetry
  <2>0. OwnLast(current) /\ current # <<>> /\ entry \in Entry
    BY DEF TypeOK, Stages, Known, OwnLast
  <2>1. /\ DOMAIN queue' = DOMAIN queue \cup {current}
        /\ \A h \in DOMAIN queue' : queue'[h] = IF h = current THEN Retried ELSE queue[h]
    BY DEF With
  <2>2. Retried \in Entry
    <3> DEFINE a == UpTo(entry.attempts + 1, MaxAttempts)
               n == IF failure = "contention" THEN entry.nff ELSE 0
               f == failure # "conflict" /\ entry.attempts + 1 >= MaxAttempts
    <3>1. a \in Nat /\ n \in Nat /\ f \in BOOLEAN
      BY <2>0, ConstantsAssumption DEF Entry, UpTo
    <3>2. Retried = [entry EXCEPT !.attempts = a, !.nff = n, !.frozen = f]
      BY DEF Retried
    <3> HIDE DEF a, n, f
    <3>3. QED BY <2>0, <3>1, <3>2 DEF Entry
  <2>3. TypeOK'
    BY <1>0, <2>0, <2>1, <2>2 DEF TypeOK
  <2>4. Made'
    BY <1>0, <2>1 DEF Made
  <2>5. Known'
    BY <2>0, <2>1 DEF Known
  <2>6. Stages'
    BY DEF Stages
  <2>7. QED BY <2>3, <2>4, <2>5, <2>6
<1>3. CASE EntryFileFails
  <2> USE <1>3 DEF EntryFileFails
  <2>1. TypeOK'
    BY <1>0 DEF TypeOK
  <2>2. Made'
    BY <1>0 DEF Made
  <2>3. Known' /\ Stages'
    BY DEF Known, Stages
  <2>4. QED BY <2>1, <2>2, <2>3
<1>4. QED BY <1>1, <1>2, <1>3

LEMMA WriteShape ==
    ASSUME Shape, NEW w \in Writes, NEW cas \in BOOLEAN, Write(w, cas) PROVE Shape'
<1> USE DEF Shape, Write, git, drain, writer, history
<1>1. job' \in Job /\ job' # Nil /\ job'.change = w /\ job'.for = Nil /\ w \in Own /\ w \in Changes
  <2>1. w \in Own /\ w \in Changes /\ SessionOf[w] \in Sessions
    BY ConstantsAssumption DEF Own, Changes
  <2>2. job' \in Job /\ job'.change = w /\ job'.for = Nil
    BY <2>1 DEF Job
  <2>3. QED BY <2>1, <2>2, NilAssumption
<1>2. wpc = "idle" /\ wpc' = "refresh" /\ dpc # "rebase" /\ used' = used \cup {w}
  BY DEF Serializing
<1>3. UNCHANGED <<trunk, tracking, branch, head, replay, queue, pending, held, dpc, current, entry,
                  pushing, failure, faults, committed, orphaned, declined, torn>>
  OBVIOUS
<1>4. \A h : h \in Seq(used) => h \in Seq(used')
  BY <1>2
<1>5. TypeOK'
  BY <1>1, <1>2, <1>3 DEF TypeOK
<1>6. Made'
  BY <1>3, <1>4 DEF Made
<1>7. Known'
  BY <1>3 DEF Known
<1>8. Stages'
  BY <1>1, <1>2, <1>3 DEF Stages
<1>9. QED BY <1>3, <1>5, <1>6, <1>7, <1>8

LEMMA ApproveShape == ASSUME Shape, NEW e \in pending, Approve(e) PROVE Shape'
<1> USE DEF Shape, Approve, git, drain, writer, history
<1> DEFINE w == Content(Last(e.sha))
<1>0. w \in Writes /\ e \in Demoted
  BY ContentOf DEF Known, OwnLast, TypeOK
<1> HIDE DEF w
<1>1. Approval[w] \in Own /\ Approval[w] \in Changes /\ Content(Approval[w]) = w
  BY <1>0, ContentOf DEF Own, Approvals, Changes
<1>2. SessionFor(e) \in Sessions
  BY <1>0, ConstantsAssumption DEF SessionFor, w
<1>3. /\ job' = [change |-> Approval[w], session |-> SessionFor(e), cas |-> TRUE,
                 fresh |-> TRUE, for |-> e]
  BY DEF w
<1>4. /\ job' \in Job /\ job' # Nil /\ job'.change \in Own /\ job'.for = e /\ job'.cas
      /\ Content(job'.change) = Content(Last(e.sha))
  <2>1. job' \in Job
    BY <1>0, <1>1, <1>2, <1>3 DEF Job
  <2>2. job'.change = Approval[w] /\ job'.for = e /\ job'.cas
    BY <1>3
  <2>3. job' # Nil
    BY <2>1, NilAssumption
  <2>4. QED BY <1>1, <2>1, <2>2, <2>3 DEF w
<1>5. wpc = "idle" /\ wpc' = "refresh" /\ dpc # "rebase"
  BY DEF Serializing
<1>6. UNCHANGED <<trunk, tracking, branch, head, replay, queue, pending, held, dpc, current, entry,
                  pushing, failure, used, faults, committed, orphaned, declined, torn>>
  OBVIOUS
<1>7. TypeOK'
  BY <1>4, <1>5, <1>6 DEF TypeOK
<1>8. Made'
  BY <1>6 DEF Made
<1>9. Known'
  BY <1>6 DEF Known
<1>10. Stages'
  BY <1>4, <1>5, <1>6 DEF Stages
<1>11. QED BY <1>6, <1>7, <1>8, <1>9, <1>10

LEMMA NotRefreshedJob ==
    ASSUME Shape, wpc \notin {"idle", "down"}, NotRefreshed
    PROVE  /\ job \in Job /\ job' \in Job /\ job' # Nil /\ job # Nil /\ wpc' = "gates"
           /\ job'.change = job.change /\ job'.session = job.session /\ job'.cas = job.cas
           /\ job'.for = job.for /\ job'.fresh = FALSE
<1>1. job \in Job /\ job # Nil /\ job' = [job EXCEPT !.fresh = FALSE] /\ wpc' = "gates"
  BY DEF Shape, TypeOK, Stages, NotRefreshed
<1>2. job' \in Job
  BY <1>1 DEF Job
<1>3. /\ job'.change = job.change /\ job'.session = job.session /\ job'.cas = job.cas
      /\ job'.for = job.for /\ job'.fresh = FALSE
  BY <1>1 DEF Job
<1>4. QED BY <1>1, <1>2, <1>3, NilAssumption

LEMMA WriterFailsShape ==
    ASSUME Shape, WriterRefreshFails \/ WriterRebaseKilled PROVE Shape'
<1> USE DEF Shape
<1>1. /\ wpc \in {"refresh", "rebase"} /\ NotRefreshed
      /\ UNCHANGED <<git, queue, pending, held, drain, used, committed>>
      /\ faults' \in {faults, faults + 1} /\ torn' \in {torn, torn \cup {job.session}}
      /\ orphaned' = orphaned /\ declined' = declined
  BY DEF WriterRefreshFails, WriterRebaseKilled, Fault, NoFault, history
<1>2. /\ job \in Job /\ job' \in Job /\ job' # Nil /\ job # Nil /\ wpc' = "gates"
      /\ job'.change = job.change /\ job'.session = job.session /\ job'.cas = job.cas
      /\ job'.for = job.for
  BY <1>1, NotRefreshedJob
<1>3. job.session \in Sessions
  BY <1>2 DEF Job
<1>4. TypeOK'
  BY <1>1, <1>2, <1>3 DEF TypeOK, git, drain
<1>5. Made'
  BY <1>1 DEF Made, git, drain
<1>6. Known'
  BY <1>1 DEF Known, git, drain
<1>7. Stages'
  BY <1>1, <1>2 DEF Stages, git, drain
<1>8. QED BY <1>1, <1>4, <1>5, <1>6, <1>7

LEMMA WriterFetchShape == ASSUME Shape, WriterFetch PROVE Shape'
<1> USE DEF Shape
<1> DEFINE s == job.session
<1>0. s \in Sessions /\ job \in Job /\ job # Nil /\ wpc = "refresh"
  BY DEF WriterFetch, TypeOK, Stages, Job
<1>1. UNCHANGED <<trunk, used>> /\ tracking' = trunk
  BY DEF WriterFetch
<1>2. /\ Worktrees' /\ job' \in Job /\ job' # Nil /\ wpc' \in {"rebase", "gates"}
      /\ job'.change = job.change /\ job'.cas = job.cas /\ job'.for = job.for
  <2>1. CASE replay[s].state # "none"
    <3>1. AbortRebase(s) /\ UNCHANGED branch /\ NotRefreshed
      BY <2>1 DEF WriterFetch
    <3>2. Worktrees'
      BY <1>0, <1>1, <3>1, AbortMoves, Moved
    <3>3. QED BY <1>0, <3>1, <3>2, NotRefreshedJob
  <2>2. CASE ~(replay[s].state # "none")
    <3>1. StartRebase(s, trunk) /\ UNCHANGED <<branch, job>> /\ wpc' = "rebase"
      BY <2>2 DEF WriterFetch
    <3>2. PICK hd \in Seq(used), r \in Replay :
            /\ r.to \in Seq(used)
            /\ head' = [head EXCEPT ![s] = hd] /\ branch' = [branch EXCEPT ![s] = branch[s]]
            /\ replay' = [replay EXCEPT ![s] = r]
            /\ ForeignFrom(hd, tracking') /\ ForeignFrom(branch[s], tracking')
            /\ ForeignFrom(r.to, tracking')
      BY <1>0, <1>1, <3>1, StartMoves
    <3>3. branch[s] \in Seq(used)
      BY <1>0, Histories1
    <3> HIDE DEF s
    <3>4. Worktrees'
      BY <1>0, <1>1, <3>2, <3>3, Moved
    <3>5. QED BY <1>0, <3>1, <3>4
  <2>3. QED BY <2>1, <2>2
<1>3. UNCHANGED <<trunk, queue, pending, held, dpc, current, entry, pushing, failure, used, faults,
                  committed, orphaned, declined, torn>>
  BY DEF WriterFetch, drain, history
<1>4. dpc # "rebase" /\ dpc # "down"
  BY <1>0 DEF Stages
<1> HIDE DEF s
<1>5. TypeOK'
  BY <1>2, <1>3 DEF TypeOK, Worktrees
<1>6. Made'
  BY <1>2, <1>3 DEF Made, Worktrees
<1>7. Known'
  BY <1>2, <1>3 DEF Known, Worktrees
<1>8. Stages'
  BY <1>0, <1>2, <1>3, <1>4 DEF Stages
<1>9. QED BY <1>3, <1>5, <1>6, <1>7, <1>8

LEMMA WriterRebaseEndsShape == ASSUME Shape, WriterRebaseEnds PROVE Shape'
<1> USE DEF Shape
<1> DEFINE s == job.session
<1>0. s \in Sessions /\ job \in Job /\ job # Nil /\ wpc = "rebase"
  BY DEF WriterRebaseEnds, TypeOK, Stages, Job
<1>1. UNCHANGED <<trunk, tracking, used>>
  BY DEF WriterRebaseEnds
<1>2. /\ Worktrees' /\ job' \in Job /\ job' # Nil /\ wpc' = "gates"
      /\ job'.change = job.change /\ job'.cas = job.cas /\ job'.for = job.for
  <2>1. CASE FinishRebase(s) /\ wpc' = "gates" /\ UNCHANGED job
    <3>1. Worktrees'
      BY <1>0, <1>1, <2>1, FinishMoves, Moved
    <3>2. QED BY <1>0, <2>1, <3>1
  <2>2. CASE AbortRebase(s) /\ UNCHANGED branch /\ NotRefreshed
    <3>1. Worktrees'
      BY <1>0, <1>1, <2>2, AbortMoves, Moved
    <3>2. QED BY <1>0, <2>2, <3>1, NotRefreshedJob
  <2>3. QED BY <2>1, <2>2 DEF WriterRebaseEnds
<1>3. UNCHANGED <<trunk, queue, pending, held, dpc, current, entry, pushing, failure, used, faults,
                  committed, orphaned, declined, torn>>
  BY DEF WriterRebaseEnds, drain, history
<1>4. dpc # "rebase" /\ dpc # "down"
  BY <1>0 DEF Stages
<1> HIDE DEF s
<1>5. TypeOK'
  BY <1>2, <1>3 DEF TypeOK, Worktrees
<1>6. Made'
  BY <1>2, <1>3 DEF Made, Worktrees
<1>7. Known'
  BY <1>2, <1>3 DEF Known, Worktrees
<1>8. Stages'
  BY <1>0, <1>2, <1>3, <1>4 DEF Stages
<1>9. QED BY <1>3, <1>5, <1>6, <1>7, <1>8

LEMMA WriterReturnsShape ==
    ASSUME Shape, ApprovalStale \/ WriteDeclined \/ EnqueueFails PROVE Shape'
<1> USE DEF Shape
<1>1. /\ wpc \in {"gates", "enqueue"} /\ wpc' = "idle" /\ job' = Nil
      /\ UNCHANGED <<git, queue, pending, held, drain, used, history>>
      /\ faults' \in {faults, faults + 1}
  BY DEF ApprovalStale, WriteDeclined, EnqueueFails, Return, Fault
<1>2. TypeOK'
  BY <1>1 DEF TypeOK, git, drain, history
<1>3. Made'
  BY <1>1 DEF Made, git, drain, history
<1>4. Known'
  BY <1>1 DEF Known, git, drain, history
<1>5. Stages'
  BY <1>1 DEF Stages, git, drain, history
<1>6. QED BY <1>1, <1>2, <1>3, <1>4, <1>5 DEF history

LEMMA GitCommitShape == ASSUME Shape, GitCommit PROVE Shape'
<1> USE DEF Shape
<1> DEFINE s == job.session
           x == job.change
           c == Append(head[s], x)
<1>0. /\ s \in Sessions /\ job \in Job /\ job # Nil /\ x \in Own /\ x \in Changes /\ x \notin Foreign
      /\ wpc = "gates" /\ dpc # "rebase" /\ dpc # "down"
  BY ContentOf DEF GitCommit, TypeOK, Stages, Job
<1>1. /\ used' = used \cup {x} /\ wpc' = "enqueue" /\ head' = [head EXCEPT ![s] = c]
      /\ branch' \in {branch, [branch EXCEPT ![s] = c]} /\ pending' \subseteq pending
      /\ committed' = committed \cup {x} /\ orphaned' = orphaned \cup {x}
      /\ UNCHANGED <<trunk, tracking, replay, queue, held, dpc, current, entry, pushing, failure,
                     job, faults, declined, torn>>
      /\ job.cas => job.fresh
  BY DEF GitCommit, drain
<1>2. \A h : h \in Seq(used) => h \in Seq(used')
  BY <1>1
<1>3. /\ c \in Seq(used') /\ c \in Histories /\ OwnLast(c) /\ Last(c) = x
      /\ ForeignFrom(c, tracking)
  <2> DEFINE h == head[s]
  <2>1. h \in Seq(used) /\ h \in Histories /\ ForeignFrom(h, tracking) /\ h \in Seq(used')
    BY <1>0, <1>2, Histories1 DEF Known
  <2> HIDE DEF h, x, s
  <2>2. x \in used'
    BY <1>1
  <2>3. Append(h, x) \in Seq(used') /\ Append(h, x) \in Histories
    BY <1>0, <2>1, <2>2 DEF Histories
  <2>4. Append(h, x) # <<>> /\ Last(Append(h, x)) = x
    BY <2>1, <2>2 DEF Last
  <2>5. ForeignFrom(Append(h, x), tracking)
    BY <1>0, <2>1, <2>2, ForeignAppend
  <2>6. QED BY <1>0, <2>3, <2>4, <2>5 DEF OwnLast, h
<1> HIDE DEF c, x
<1>4. /\ head' \in [Sessions -> Histories] /\ branch' \in [Sessions -> Histories]
      /\ head'[s] = c
      /\ \A r \in Sessions : head'[r] \in {head[r], c} /\ branch'[r] \in {branch[r], c}
  BY <1>0, <1>1, <1>3 DEF TypeOK
<1> HIDE DEF s
<1>5. TypeOK'
  BY <1>0, <1>1, <1>4 DEF TypeOK
<1>6. Made'
  <2>1. {trunk, tracking, pushing, current} \subseteq Seq(used') /\ DOMAIN queue \subseteq Seq(used')
    BY <1>2 DEF Made
  <2>2. \A r \in Sessions : {branch'[r], head'[r], replay[r].to} \subseteq Seq(used')
    BY <1>2, <1>3, <1>4 DEF Made
  <2>3. QED BY <1>1, <2>1, <2>2 DEF Made
<1>7. Known'
  <2>1. \A r \in Sessions : ForeignFrom(branch'[r], tracking) /\ ForeignFrom(head'[r], tracking)
    BY <1>3, <1>4 DEF Known
  <2>2. QED BY <1>1, <2>1 DEF Known
<1>8. Stages'
  BY <1>0, <1>1, <1>3, <1>4 DEF Stages, s, x
<1>9. committed' \subseteq Own
  BY <1>0, <1>1
<1>10. QED BY <1>5, <1>6, <1>7, <1>8, <1>9

LEMMA EnqueueShape == ASSUME Shape, Enqueue PROVE Shape'
<1> USE DEF Shape
<1> DEFINE sha == head[job.session]
           e == NewEntry(job.session, job.for = Nil)
<1>0. /\ wpc = "enqueue" /\ job \in Job /\ job.session \in Sessions
      /\ sha \in Seq(used) /\ sha \in Histories /\ OwnLast(sha) /\ sha # <<>>
  BY Histories1 DEF Enqueue, TypeOK, Stages, Job, OwnLast
<1>1. e \in Entry
  BY <1>0 DEF NewEntry, Entry
<1>2. /\ DOMAIN queue' = DOMAIN queue \cup {sha}
      /\ \A h \in DOMAIN queue' : queue'[h] = IF h = sha THEN e ELSE queue[h]
  BY DEF Enqueue, With
<1>3. /\ wpc' = "idle" /\ job' = Nil /\ orphaned' = orphaned \ {job.change}
      /\ UNCHANGED <<git, pending, held, drain, used, faults, committed, declined, torn>>
  BY DEF Enqueue, Return
<1> HIDE DEF sha, e
<1>4. TypeOK'
  BY <1>0, <1>1, <1>2, <1>3 DEF TypeOK, git, drain
<1>5. Made'
  BY <1>0, <1>2, <1>3 DEF Made, git, drain
<1>6. Known'
  BY <1>0, <1>2, <1>3 DEF Known, git, drain
<1>7. Stages'
  BY <1>0, <1>3 DEF Stages, git, drain
<1>8. QED BY <1>3, <1>4, <1>5, <1>6, <1>7

LEMMA ForeignPushShape == ASSUME Shape, NEW f \in Foreign, ForeignPush(f) PROVE Shape'
<1> USE DEF Shape
<1>0. f \in Changes /\ trunk \in Seq(used) /\ tracking \in Seq(used) /\ IsPrefix(tracking, trunk)
  BY Histories1 DEF Changes, Known
<1>1. /\ used' = used \cup {f} /\ trunk' = Append(trunk, f)
      /\ UNCHANGED <<tracking, branch, head, replay, queue, pending, held, dpc, current, entry,
                     pushing, failure, wpc, job, faults, committed, orphaned, declined, torn>>
  BY DEF ForeignPush, drain, history
<1>2. \A h : h \in Seq(used) => h \in Seq(used')
  BY <1>1
<1>3. trunk' \in Seq(used') /\ trunk' \in Histories /\ IsPrefix(tracking, trunk')
  <2>1. trunk \in Seq(used') /\ tracking \in Seq(used') /\ f \in used'
    BY <1>0, <1>1, <1>2
  <2>2. trunk' \in Seq(used')
    BY <1>1, <2>1
  <2>3. trunk' \in Histories
    BY <1>0, <1>1 DEF TypeOK, Histories
  <2>4. IsPrefix(trunk, trunk')
    BY <1>1, <2>1, PrefixAppend
  <2>5. QED BY <1>0, <2>1, <2>2, <2>3, <2>4, PrefixThrough
<1>4. TypeOK'
  BY <1>0, <1>1, <1>3 DEF TypeOK
<1>5. Made'
  BY <1>1, <1>2, <1>3 DEF Made
<1>6. Known'
  BY <1>1, <1>3 DEF Known
<1>7. Stages'
  BY <1>1 DEF Stages
<1>8. QED BY <1>1, <1>4, <1>5, <1>6, <1>7

LEMMA PullShape == ASSUME Shape, Pull PROVE Shape'
<1> USE DEF Shape
<1>0. trunk \in Seq(used) /\ trunk \in Histories /\ IsPrefix(tracking, trunk) /\ IsPrefix(trunk, trunk)
  BY Histories1, PrefixSelf DEF Known
<1>1. /\ tracking' = trunk
      /\ UNCHANGED <<trunk, branch, head, replay, queue, pending, held, dpc, current, entry,
                     pushing, failure, wpc, job, used, faults, committed, orphaned, declined, torn>>
  BY DEF Pull, drain, writer, history
<1>2. TypeOK'
  BY <1>0, <1>1 DEF TypeOK
<1>3. Made'
  BY <1>0, <1>1 DEF Made
<1>4. Known'
  BY <1>0, <1>1, Fetched DEF Known
<1>5. Stages'
  BY <1>1 DEF Stages
<1>6. QED BY <1>1, <1>2, <1>3, <1>4, <1>5

LEMMA OperatorShape ==
    ASSUME Shape, (\E e \in pending : RejectDemoted(e)) \/
                  \E sha \in DOMAIN queue : Requeue(sha) \/ Drop(sha)
    PROVE  Shape'
<1> USE DEF Shape
<1>1. CASE \E e \in pending : RejectDemoted(e)
  <2>1. PICK e \in pending : RejectDemoted(e)
    BY <1>1
  <2>2. Content(Last(e.sha)) \in Changes
    BY ContentOf DEF Known, OwnLast, Changes
  <2>3. /\ pending' \subseteq pending /\ declined' \subseteq Changes
        /\ UNCHANGED <<trunk, tracking, branch, head, replay, queue, held, dpc, current, entry,
                       pushing, failure, wpc, job, used, faults, committed, orphaned, torn>>
    BY <2>1, <2>2 DEF RejectDemoted, git, drain, writer, TypeOK
  <2>4. TypeOK'
    BY <2>3 DEF TypeOK
  <2>5. Made' /\ Known' /\ Stages'
    BY <2>3 DEF Made, Known, Stages
  <2>6. QED BY <2>3, <2>4, <2>5
<1>2. CASE \E sha \in DOMAIN queue : Requeue(sha)
  <2>1. PICK sha \in DOMAIN queue : Requeue(sha)
    BY <1>2
  <2>2. queue[sha] \in Entry
    BY DEF TypeOK
  <2>3. /\ DOMAIN queue' = DOMAIN queue
        /\ \A h \in DOMAIN queue : h # sha => queue'[h] = queue[h]
        /\ queue'[sha] = [queue[sha] EXCEPT !.frozen = FALSE, !.attempts = 0]
    BY <2>1 DEF Requeue
  <2>4. queue'[sha] \in Entry
    <3> DEFINE q == queue[sha]
    <3>1. q \in Entry /\ queue'[sha] = [q EXCEPT !.frozen = FALSE, !.attempts = 0]
      BY <2>2, <2>3
    <3> HIDE DEF q
    <3>2. [q EXCEPT !.frozen = FALSE, !.attempts = 0] \in Entry
      BY <3>1 DEF Entry
    <3>3. QED BY <3>1, <3>2
  <2>5. UNCHANGED <<trunk, tracking, branch, head, replay, pending, held, dpc, current, entry,
                    pushing, failure, wpc, job, used, faults, committed, orphaned, declined, torn>>
    BY <2>1 DEF Requeue, git, drain, writer, history
  <2>6. TypeOK'
    BY <2>3, <2>4, <2>5 DEF TypeOK
  <2>7. Made' /\ Known' /\ Stages'
    BY <2>3, <2>5 DEF Made, Known, Stages
  <2>8. QED BY <2>5, <2>6, <2>7
<1>3. CASE \E sha \in DOMAIN queue : Drop(sha)
  <2>1. PICK sha \in DOMAIN queue : Drop(sha)
    BY <1>3
  <2>2. Content(Last(sha)) \in Changes
    BY ContentOf DEF Known, OwnLast, Changes
  <2>3. DOMAIN queue' = DOMAIN queue \ {sha} /\ \A h \in DOMAIN queue' : queue'[h] = queue[h]
    BY <2>1 DEF Drop, Without
  <2>4. /\ declined' \subseteq Changes
        /\ UNCHANGED <<trunk, tracking, branch, head, replay, pending, held, dpc, current, entry,
                       pushing, failure, wpc, job, used, faults, committed, orphaned, torn>>
    BY <2>1, <2>2 DEF Drop, git, drain, writer, TypeOK
  <2>5. TypeOK'
    BY <2>3, <2>4 DEF TypeOK
  <2>6. Made' /\ Known' /\ Stages'
    BY <2>3, <2>4 DEF Made, Known, Stages
  <2>7. QED BY <2>4, <2>5, <2>6
<1>4. QED BY <1>1, <1>2, <1>3

\* The startup recovery finds commits of the clone's own that HEAD has and the
\* trunk has not.
LEMMA UnpushedAre ==
    ASSUME Shape, NEW s \in Sessions, NEW c \in Unpushed(s)
    PROVE  c \in Seq(used) /\ IsPrefix(c, head[s]) /\ OwnLast(c) /\ Last(c) \in ToSet(head[s])
<1> DEFINE h == head[s]
<1>1. h \in Seq(used) /\ ForeignFrom(h, tracking) /\ tracking \in Seq(used)
  BY Histories1 DEF Shape, Known
<1>2. PICK n \in 0..Len(h) : c = SubSeq(h, 1, n)
  BY DEF Unpushed, Prefixes
<1>3. ~IsPrefix(c, tracking)
  BY DEF Unpushed
<1> HIDE DEF h
<1>4. c \in Seq(used) /\ Len(c) = n /\ (\A i \in 1..n : c[i] = h[i]) /\ IsPrefix(c, h)
  BY <1>1, <1>2, Cut
<1>5. c # <<>>
  BY <1>1, <1>3, PrefixEmpty
<1>6. n \in 1..Len(h) /\ Last(c) = h[n]
  BY <1>1, <1>4, <1>5 DEF Last
<1>7. h[n] \in used /\ h[n] \in ToSet(h) /\ n \in DOMAIN h
  BY <1>1, <1>6 DEF ToSet
<1>8. h[n] \notin Foreign
  BY <1>1, <1>2, <1>3, <1>7 DEF ForeignFrom
<1>9. h[n] \in Own
  BY <1>7, <1>8, Histories1 DEF Changes, Own
<1>10. QED BY <1>4, <1>5, <1>6, <1>7, <1>9 DEF OwnLast, h

LEMMA RecoveredIs ==
    ASSUME Shape
    PROVE  /\ DOMAIN Recovered = DOMAIN queue \cup UNION {Unpushed(s) : s \in Sessions}
           /\ \A c \in DOMAIN Recovered :
                \/ c \in DOMAIN queue /\ Recovered[c] = queue[c]
                \/ \E s \in Sessions : c \in Unpushed(s) /\ Recovered[c] = NewEntry(s, FALSE)
<1> DEFINE all == UNION {Unpushed(s) : s \in Sessions}
           found == all \ DOMAIN queue
           Finder(c) == CHOOSE s \in Sessions : c \in Unpushed(s)
<1>1. Recovered = [c \in DOMAIN queue \cup found |->
                    IF c \in found THEN NewEntry(Finder(c), FALSE) ELSE queue[c]]
  BY DEF Recovered
<1>2. \A c \in all : Finder(c) \in Sessions /\ c \in Unpushed(Finder(c))
  OBVIOUS
<1> HIDE DEF Finder
<1>3. DOMAIN Recovered = DOMAIN queue \cup all
  BY <1>1
<1>4. ASSUME NEW c \in DOMAIN Recovered
      PROVE  \/ c \in DOMAIN queue /\ Recovered[c] = queue[c]
             \/ \E s \in Sessions : c \in Unpushed(s) /\ Recovered[c] = NewEntry(s, FALSE)
  <2> HIDE DEF all
  <2>1. CASE c \in found
    <3>1. Recovered[c] = NewEntry(Finder(c), FALSE)
      BY <1>1, <2>1
    <3>2. QED BY <1>2, <2>1, <3>1
  <2>2. CASE c \notin found
    BY <1>1, <1>3, <2>2
  <2>3. QED BY <2>1, <2>2
<1>5. QED BY <1>3, <1>4

LEMMA CrashShape == ASSUME Shape, Crash PROVE Shape'
<1> USE DEF Shape
<1>0. pushing \in Seq(used) /\ trunk' \in Seq(used) /\ IsPrefix(tracking, trunk')
      /\ <<>> \in Seq(used) /\ <<>> \in Histories
  BY Histories1, PrefixThrough DEF Made, Known, Accepted, Crash, Histories
<1>1. /\ dpc' = "down" /\ wpc' = "down" /\ job' = Nil /\ current' = <<>> /\ entry' = Nil
      /\ pushing' = <<>> /\ failure' = "none" /\ faults' = faults + 1
      /\ torn' \subseteq Sessions
      /\ UNCHANGED <<tracking, branch, head, replay, queue, pending, held, used, committed, orphaned,
                     declined>>
  BY DEF Crash, Fault, TypeOK
<1>2. trunk' \in Histories
  BY <1>0, Histories1
<1>3. TypeOK'
  BY <1>0, <1>1, <1>2 DEF TypeOK
<1>4. Made'
  BY <1>0, <1>1 DEF Made
<1>5. Known'
  BY <1>0, <1>1 DEF Known
<1>6. Stages'
  BY <1>1 DEF Stages
<1>7. QED BY <1>1, <1>3, <1>4, <1>5, <1>6

LEMMA StartupShape == ASSUME Shape, Startup PROVE Shape'
<1> USE DEF Shape
<1>1. /\ dpc = "down" /\ dpc' = "idle" /\ wpc' = "idle" /\ wpc = "down" /\ job = Nil
      /\ UNCHANGED <<trunk, tracking, branch, head, replay, pending, held, current, entry, pushing,
                     failure, job, used, committed, declined, torn>>
      /\ faults' \in {faults, faults + 1} /\ orphaned' \subseteq orphaned
      /\ queue' = queue \/ queue' = Recovered
  BY DEF Startup, Fault, Stages, git
<1>2. \A s \in Sessions : NewEntry(s, FALSE) \in Entry
  BY DEF NewEntry, Entry
<1>3. /\ DOMAIN queue' \subseteq Histories \ {<<>>} /\ DOMAIN queue' \subseteq Seq(used)
      /\ \A h \in DOMAIN queue' : queue'[h] \in Entry /\ OwnLast(h)
  <2>1. CASE queue' = queue
    BY <2>1 DEF TypeOK, Made, Known
  <2>2. CASE queue' = Recovered
    <3>1. ASSUME NEW c \in DOMAIN Recovered
          PROVE  c \in Histories \ {<<>>} /\ c \in Seq(used) /\ Recovered[c] \in Entry /\ OwnLast(c)
      <4>1. CASE c \in DOMAIN queue /\ Recovered[c] = queue[c]
        BY <4>1 DEF TypeOK, Made, Known
      <4>2. CASE \E s \in Sessions : c \in Unpushed(s) /\ Recovered[c] = NewEntry(s, FALSE)
        BY <1>2, <4>2, UnpushedAre, Histories1 DEF OwnLast
      <4>3. QED BY <4>1, <4>2, RecoveredIs
    <3>2. QED BY <2>2, <3>1
  <2>3. QED BY <1>1, <2>1, <2>2
<1>4. TypeOK'
  BY <1>1, <1>3 DEF TypeOK
<1>5. Made'
  BY <1>1, <1>3 DEF Made
<1>6. Known'
  BY <1>1, <1>3 DEF Known
<1>7. Stages'
  BY <1>1 DEF Stages
<1>8. QED BY <1>1, <1>4, <1>5, <1>6, <1>7

\* The claims only change what is held.
LEMMA ClaimShape ==
    ASSUME Shape, (\E s \in Sessions : ClaimLeft(s)) \/ \E name \in held : ClaimClosed(name)
    PROVE  Shape'
<1> USE DEF Shape
<1>1. /\ held' \subseteq Sessions \cup {Nil} /\ faults' \in {faults, faults + 1}
      /\ UNCHANGED <<trunk, tracking, branch, head, replay, queue, pending, dpc, current, entry,
                     pushing, failure, wpc, job, used, committed, orphaned, declined, torn>>
  BY DEF ClaimLeft, ClaimClosed, Fault, git, drain, writer, history, TypeOK
<1>2. TypeOK'
  BY <1>1 DEF TypeOK
<1>3. Made' /\ Known' /\ Stages'
  BY <1>1 DEF Made, Known, Stages
<1>4. QED BY <1>1, <1>2, <1>3

LEMMA StutterShape == ASSUME Shape, UNCHANGED vars PROVE Shape'
<1>1. UNCHANGED <<trunk, tracking, branch, head, replay, queue, pending, held, dpc, current, entry,
                  pushing, failure, wpc, job, used, faults, committed, orphaned, declined, torn>>
  BY DEF vars, git, drain, writer, history
<1>2. TypeOK' /\ Made' /\ Known' /\ Stages' /\ committed' \subseteq Own
  BY <1>1 DEF Shape, TypeOK, Made, Known, Stages
<1>3. QED BY <1>2 DEF Shape

LEMMA StepShape == ASSUME Shape, [Next]_vars PROVE Shape'
<1>1. CASE \E sha \in DOMAIN queue : PushStart(sha)
  BY <1>1, PushStartShape
<1>2. CASE \E w \in Writes, cas \in BOOLEAN : Write(w, cas)
  BY <1>2, WriteShape
<1>3. CASE Draining
  BY <1>3, PushAcceptedShape, PushRejectedShape, ContentionShape, PushFailsShape,
     RefreshFailsShape, RefreshFetchShape, RebaseEndsShape, PushAgainShape, DemoteShape,
     EntryKeptShape DEF Draining
<1>4. CASE Writing
  BY <1>4, WriterFailsShape, WriterFetchShape, WriterRebaseEndsShape, WriterReturnsShape,
     GitCommitShape, EnqueueShape DEF Writing
<1>5. CASE Operating
  BY <1>5, ApproveShape, OperatorShape DEF Operating
<1>6. CASE (\E f \in Foreign : ForeignPush(f)) \/ Pull \/ Crash \/ Startup
  BY <1>6, ForeignPushShape, PullShape, CrashShape, StartupShape
<1>7. CASE UNCHANGED vars
  BY <1>7, StutterShape
<1>8. CASE (\E s \in Sessions : ClaimLeft(s)) \/ \E name \in held : ClaimClosed(name)
  BY <1>8, ClaimShape
<1>9. QED BY <1>1, <1>2, <1>3, <1>4, <1>5, <1>6, <1>7, <1>8 DEF Next

----------------------------------------------------------------------------
(* What is safe stays safe as long as no rebase is cut short.                *)

\* What a longer trunk means for a queued commit and for a rebase.
LEMMA LongerTrunk ==
    ASSUME NEW t \in Histories, NEW u \in Histories, IsPrefix(t, u)
    PROVE  /\ Contents(t) \subseteq Contents(u)
           /\ \A h \in Histories : ~IsPrefix(t, h) => ~IsPrefix(u, h)
           /\ \A sha, h \in Histories : Queues(sha, h, t) => Queues(sha, h, u)
           /\ \A b \in Histories, r \in Replay : Rebasing(b, r, t) => Rebasing(b, r, u)
<1>1. Contents(t) \subseteq Contents(u)
  BY PrefixChanges DEF Histories, Contents
<1>2. \A h \in Histories : ~IsPrefix(t, h) => ~IsPrefix(u, h)
  BY PrefixThrough DEF Histories
<1>3. \A sha, h \in Histories : Queues(sha, h, t) => Queues(sha, h, u)
  BY <1>1, <1>2 DEF Queues
<1>4. \A b \in Histories, r \in Replay : Rebasing(b, r, t) => Rebasing(b, r, u)
  BY <1>1, <1>2 DEF Rebasing
<1>5. QED BY <1>1, <1>2, <1>3, <1>4

\* What a rebase means for a queued commit, and what one more commit does.
LEMMA QueuesRebased ==
    ASSUME NEW sha \in Histories, NEW b \in Histories, NEW r \in Replay, NEW t \in Histories,
           Queues(sha, b, t), Rebasing(b, r, t)
    PROVE  Queues(sha, r.to, t)
<1>1. Content(Last(sha)) \in Contents(r.to) \cup Contents(t)
  <2>1. CASE Content(Last(sha)) \in Contents(t)
    BY <2>1
  <2>2. CASE Content(Last(sha)) \in Contents(b)
    <3>1. PICK x \in ToSet(b) : Content(x) = Content(Last(sha))
      BY <2>2 DEF Contents
    <3>2. x \in ToSet(r.to) \/ Content(x) \in Contents(t)
      BY DEF Rebasing
    <3>3. QED BY <3>1, <3>2 DEF Contents
  <2>3. QED BY <2>1, <2>2 DEF Queues
<1>2. IsPrefix(sha, r.to) \/ ~IsPrefix(t, sha)
  <2>1. CASE r.to = b
    BY <2>1 DEF Queues
  <2>2. CASE ~IsPrefix(t, b)
    <3>1. ~(IsPrefix(sha, b) /\ IsPrefix(t, sha))
      BY <2>2, PrefixThrough DEF Histories
    <3>2. QED BY <3>1 DEF Queues
  <2>3. QED BY <2>1, <2>2 DEF Rebasing
<1>3. QED BY <1>1, <1>2 DEF Queues

LEMMA QueuesExtended ==
    ASSUME NEW sha \in Histories, NEW b \in Histories, NEW t, NEW x \in Changes, Queues(sha, b, t)
    PROVE  Queues(sha, Append(b, x), t)
<1> DEFINE c == Append(b, x)
<1>1. c \in Histories /\ IsPrefix(b, c)
  BY PrefixAppend DEF Histories
<1> HIDE DEF c
<1>2. Contents(b) \subseteq Contents(c)
  BY <1>1, PrefixChanges DEF Histories, Contents
<1>3. IsPrefix(sha, b) => IsPrefix(sha, c)
  BY <1>1, PrefixThrough DEF Histories
<1>4. Queues(sha, c, t)
  BY <1>2, <1>3 DEF Queues
<1>5. QED BY <1>4 DEF c

\* A commit at the end of a branch is on it.
LEMMA QueuesItself ==
    ASSUME NEW sha \in Histories, NEW h \in Histories, NEW t, sha # <<>>, IsPrefix(sha, h)
    PROVE  Queues(sha, h, t)
<1>1. Last(sha) \in ToSet(sha)
  <2>1. Len(sha) \in DOMAIN sha
    BY DEF Histories
  <2>2. QED BY <2>1 DEF Last, ToSet
<1>2. ToSet(sha) \subseteq ToSet(h)
  BY PrefixChanges DEF Histories
<1>3. QED BY <1>1, <1>2 DEF Queues, Contents

\* A trunk that only grows, under unchanged worktrees.
LEMMA ReplaysStay ==
    ASSUME Shape, Shape', Replays, UNCHANGED <<head, branch, replay>>, IsPrefix(trunk, trunk'),
           dpc = "rebase" => dpc' = "rebase" /\ entry' = entry,
           wpc = "rebase" => wpc' = "rebase" /\ job' = job
    PROVE  Replays'
<1>1. /\ trunk \in Histories /\ trunk' \in Histories
      /\ \A s \in Sessions : branch[s] \in Histories /\ replay[s] \in Replay
  BY DEF Shape, TypeOK
<1>2. \A s \in Sessions : Rebasing(branch[s], replay[s], trunk) => Rebasing(branch[s], replay[s], trunk')
  BY <1>1, LongerTrunk
<1>3. QED BY <1>2 DEF Replays

LEMMA ElsewhereStays ==
    ASSUME Shape, Shape', UNCHANGED <<pending, declined, orphaned, branch>>, IsPrefix(trunk, trunk')
    PROVE  Elsewhere \subseteq Elsewhere' /\ Contents(trunk) \subseteq Contents(trunk')
<1>1. trunk \in Histories /\ trunk' \in Histories
  BY DEF Shape, TypeOK
<1>2. Contents(trunk) \subseteq Contents(trunk')
  BY <1>1, LongerTrunk
<1>3. Lying' = Lying
  BY DEF Lying
<1>4. QED BY <1>2, <1>3 DEF Elsewhere

LEMMA QueueStays ==
    ASSUME Shape, Shape', Entries, UNCHANGED <<queue, branch>>, IsPrefix(trunk, trunk')
    PROVE  /\ \A sha \in DOMAIN queue : Queues(sha, branch[queue[sha].session], trunk')
           /\ dpc \notin {"idle", "down"} => Queues(current, branch[entry.session], trunk')
           /\ dpc \in {"push", "push_again"} => Queues(current, pushing, trunk')
<1>1. /\ trunk \in Histories /\ trunk' \in Histories /\ current \in Histories /\ pushing \in Histories
      /\ \A sha \in DOMAIN queue : sha \in Histories /\ branch[queue[sha].session] \in Histories
      /\ dpc \notin {"idle", "down"} => branch[entry.session] \in Histories
  BY DEF Shape, TypeOK, Stages, Entry
<1>2. QED BY <1>1, LongerTrunk DEF Entries

LEMMA SameTrunk == ASSUME Shape, trunk' = trunk PROVE IsPrefix(trunk, trunk')
BY PrefixSelf, Histories1

\* The steps of the drain.

LEMMA PushStartKept ==
    ASSUME Shape, Shape', Kept, torn' = {}, NEW sha \in DOMAIN queue, PushStart(sha)
    PROVE  Kept'
<1> USE DEF Kept
<1> DEFINE s == queue[sha].session
<1>0. s \in Sessions /\ OwnLast(sha)
  BY DEF Shape, TypeOK, Entry, Known
<1>1. /\ dpc = "idle" /\ dpc' = "push" /\ current' = sha /\ entry' = queue[sha]
      /\ pushing' = head[s] /\ replay[s].state = "none"
      /\ UNCHANGED <<trunk, branch, head, replay, queue, pending, wpc, job, committed, orphaned,
                     declined>>
  BY DEF PushStart, git, writer
<1>2. IsPrefix(trunk, trunk')
  BY <1>1, SameTrunk
<1>3. Replays'
  BY <1>1, <1>2, ReplaysStay
<1>4. Entries'
  <2>1. head[s] = branch[s]
    BY <1>0, <1>1 DEF Replays
  <2>2. Queues(sha, branch[s], trunk)
    BY DEF Entries
  <2>3. QED BY <1>1, <2>1, <2>2 DEF Entries
<1>5. Removing'
  BY <1>1 DEF Removing
<1>6. Covered'
  BY <1>1, <1>2, ElsewhereStays DEF Covered
<1>7. QED BY <1>3, <1>4, <1>5, <1>6

LEMMA PushAcceptedKept == ASSUME Shape, Shape', Kept, PushAccepted PROVE Kept'
<1> USE DEF Kept
<1>1. /\ dpc \in {"push", "push_again"} /\ dpc' = "remove" /\ trunk' = pushing
      /\ IsPrefix(trunk, trunk')
      /\ UNCHANGED <<branch, head, replay, queue, pending, current, entry, wpc, job, committed,
                     orphaned, declined>>
  BY DEF PushAccepted, Accepted, writer, history
<1>2. Replays'
  BY <1>1, ReplaysStay
<1>3. Entries'
  BY <1>1, QueueStays DEF Entries
<1>4. Removing'
  <2>1. Content(Last(current)) \in Contents(pushing) \cup Contents(trunk)
    BY <1>1 DEF Entries, Queues
  <2>2. Contents(trunk) \subseteq Contents(trunk')
    BY <1>1, ElsewhereStays
  <2>3. QED BY <1>1, <2>1, <2>2 DEF Removing
<1>5. Covered'
  BY <1>1, ElsewhereStays DEF Covered
<1>6. QED BY <1>2, <1>3, <1>4, <1>5

LEMMA PushRejectedKept == ASSUME Shape, Shape', Kept, PushRejected PROVE Kept'
<1> USE DEF Kept
<1>1. /\ dpc = "push" /\ dpc' = "refresh"
      /\ UNCHANGED <<trunk, branch, head, replay, queue, pending, current, entry, wpc, job,
                     committed, orphaned, declined>>
  BY DEF PushRejected, git, writer, history
<1>2. IsPrefix(trunk, trunk')
  BY <1>1, SameTrunk
<1>3. Replays'
  BY <1>1, <1>2, ReplaysStay
<1>4. Entries'
  BY <1>1 DEF Entries
<1>5. Removing'
  BY <1>1 DEF Removing
<1>6. Covered'
  BY <1>1, <1>2, ElsewhereStays DEF Covered
<1>7. QED BY <1>3, <1>4, <1>5, <1>6

LEMMA ContentionKept == ASSUME Shape, Shape', Kept, Contention PROVE Kept'
<1> USE DEF Kept
<1>1. /\ dpc = "push_again" /\ dpc' \in {"demote", "retry"} /\ ~IsPrefix(trunk, pushing)
      /\ UNCHANGED <<trunk, branch, head, replay, queue, pending, current, wpc, job,
                     committed, orphaned, declined>>
  BY DEF Contention, Accepted, git, writer, history
<1>2. entry'.session = entry.session
  BY <1>1 DEF Contention, Shape, TypeOK, Stages, Entry
<1>3. IsPrefix(trunk, trunk')
  BY <1>1, SameTrunk
<1>4. Replays'
  BY <1>1, <1>3, ReplaysStay
<1>5. ~IsPrefix(trunk, current)
  <2>1. IsPrefix(current, pushing) \/ ~IsPrefix(trunk, current)
    BY <1>1 DEF Entries, Queues
  <2>2. trunk \in Seq(used) /\ current \in Seq(used) /\ pushing \in Seq(used)
    BY DEF Shape, Made
  <2>3. QED BY <1>1, <2>1, <2>2, PrefixThrough
<1>6. Entries'
  BY <1>1, <1>2, <1>5 DEF Entries
<1>7. Removing'
  BY <1>1 DEF Removing
<1>8. Covered'
  BY <1>1, <1>3, ElsewhereStays DEF Covered
<1>9. QED BY <1>4, <1>6, <1>7, <1>8

LEMMA PushFailsKept == ASSUME Shape, Shape', Kept, PushFails PROVE Kept'
<1> USE DEF Kept
<1>1. /\ dpc \in {"push", "push_again"} /\ dpc' = "retry"
      /\ UNCHANGED <<branch, head, replay, queue, pending, current, entry, wpc, job,
                     committed, orphaned, declined>>
      /\ (IsPrefix(trunk, pushing) /\ trunk' = pushing) \/ trunk' = trunk
  BY DEF PushFails, Fail, Accepted, writer, history
<1>2. IsPrefix(trunk, trunk')
  BY <1>1, SameTrunk
<1>3. Replays'
  BY <1>1, <1>2, ReplaysStay
<1>4. Entries'
  BY <1>1, <1>2, QueueStays DEF Entries
<1>5. Removing'
  BY <1>1 DEF Removing
<1>6. Covered'
  BY <1>1, <1>2, ElsewhereStays DEF Covered
<1>7. QED BY <1>3, <1>4, <1>5, <1>6

LEMMA DrainFailsKept ==
    ASSUME Shape, Shape', Kept,
           RefreshDeferred \/ RefreshFetchFails \/ DemoteFails \/ EntryFileFails
    PROVE  Kept'
<1> USE DEF Kept
<1>1. /\ dpc \in {"refresh", "demote", "remove", "retry"}
      /\ dpc' = "idle" \/ (dpc' = "retry" /\ UNCHANGED <<current, entry>>)
      /\ UNCHANGED <<trunk, branch, head, replay, queue, pending, wpc, job, committed, orphaned,
                     declined>>
  BY DEF RefreshDeferred, RefreshFetchFails, DemoteFails, EntryFileFails, NextEntry, Fail, git,
         writer, history
<1>2. IsPrefix(trunk, trunk')
  BY <1>1, SameTrunk
<1>3. Replays'
  BY <1>1, <1>2, ReplaysStay
<1>4. Entries'
  BY <1>1 DEF Entries
<1>5. Removing'
  BY <1>1 DEF Removing
<1>6. Covered'
  BY <1>1, <1>2, ElsewhereStays DEF Covered
<1>7. QED BY <1>3, <1>4, <1>5, <1>6

LEMMA RefreshFetchKept == ASSUME Shape, Shape', Kept, RefreshFetch PROVE Kept'
<1> USE DEF Kept
<1> DEFINE s == entry.session
<1>0. s \in Sessions /\ dpc = "refresh" /\ tracking' = trunk
  BY DEF RefreshFetch, Shape, TypeOK, Stages, Entry
<1>1. \A x \in Sessions : replay[x].state = "none" /\ head[x] = branch[x]
  BY DEF RefreshFetch, Serializing, Replays
<1>2. /\ StartRebase(s, trunk) /\ dpc' = "rebase"
      /\ UNCHANGED <<trunk, branch, queue, pending, current, entry, wpc, job, used, committed,
                     orphaned, declined>>
  BY <1>0, <1>1 DEF RefreshFetch, writer, history
<1>3. PICK hd \in Seq(used), r \in Replay :
            /\ head' = [head EXCEPT ![s] = hd]
            /\ replay' = [replay EXCEPT ![s] = r]
            /\ r.state \in {"clean", "conflict"} /\ IsPrefix(trunk, r.to)
            /\ r.to = head[s] \/ ~IsPrefix(trunk, head[s])
            /\ r.state = "conflict" => ~IsPrefix(trunk, head[s])
            /\ \A x \in ToSet(head[s]) : x \in ToSet(r.to) \/ Content(x) \in Contents(trunk)
  BY <1>0, <1>2, StartMoves
<1>4. Rebasing(branch[s], r, trunk)
  BY <1>0, <1>1, <1>3 DEF Rebasing
<1>5. head \in [Sessions -> Histories] /\ replay \in [Sessions -> Replay]
  BY DEF Shape, TypeOK
<1>6. IsPrefix(trunk, trunk')
  BY <1>2, SameTrunk
<1>7. Replays'
  <2> SUFFICES ASSUME NEW x \in Sessions
               PROVE  IF replay'[x].state = "none" THEN head'[x] = branch'[x]
                      ELSE /\ \/ dpc' = "rebase" /\ entry'.session = x
                              \/ wpc' = "rebase" /\ job'.session = x
                           /\ Rebasing(branch'[x], replay'[x], trunk')
    BY DEF Replays
  <2>1. CASE x = s
    <3>1. replay'[x] = r
      BY <1>3, <1>5, <2>1
    <3>2. QED BY <1>2, <1>3, <1>4, <2>1, <3>1
  <2>2. CASE x # s
    <3>1. replay'[x] = replay[x] /\ head'[x] = head[x]
      BY <1>3, <1>5, <2>2
    <3>2. QED BY <1>1, <1>2, <3>1
  <2>3. QED BY <2>1, <2>2
<1> HIDE DEF s
<1>8. Entries'
  BY <1>0, <1>2 DEF Entries
<1>9. Removing'
  BY <1>2 DEF Removing
<1>10. Covered'
  BY <1>2, <1>6, ElsewhereStays DEF Covered
<1>11. QED BY <1>7, <1>8, <1>9, <1>10

\* The branch of a finished rebase stands for all it stood for.
LEMMA FinishKeeps ==
    ASSUME Shape, Replays, NEW s \in Sessions, FinishRebase(s),
           UNCHANGED <<trunk, pending, orphaned, declined>>
    PROVE  /\ head'[s] = branch'[s] /\ replay'[s].state = "none" /\ head'[s] = replay[s].to
           /\ \A x \in Sessions : x # s => head'[x] = head[x] /\ branch'[x] = branch[x]
                                           /\ replay'[x] = replay[x]
           /\ \A sha \in Histories, x \in Sessions :
                Queues(sha, branch[x], trunk) => Queues(sha, branch'[x], trunk)
           /\ Elsewhere \subseteq Elsewhere'
<1>1. /\ head \in [Sessions -> Histories] /\ branch \in [Sessions -> Histories]
      /\ replay \in [Sessions -> Replay] /\ trunk \in Histories
  BY DEF Shape, TypeOK
<1>2. /\ head'[s] = replay[s].to /\ branch'[s] = replay[s].to /\ replay'[s] = NoReplay
      /\ \A x \in Sessions : x # s => head'[x] = head[x] /\ branch'[x] = branch[x]
                                      /\ replay'[x] = replay[x]
  BY <1>1 DEF FinishRebase
<1>3. Rebasing(branch[s], replay[s], trunk)
  BY DEF FinishRebase, Replays
<1>4. ASSUME NEW sha \in Histories, NEW x \in Sessions, Queues(sha, branch[x], trunk)
      PROVE  Queues(sha, branch'[x], trunk)
  <2>1. CASE x = s
    <3>1. Queues(sha, replay[s].to, trunk)
      BY <1>1, <1>3, <1>4, <2>1, QueuesRebased
    <3>2. QED BY <1>2, <2>1, <3>1
  <2>2. CASE x # s
    BY <1>2, <1>4, <2>2
  <2>3. QED BY <2>1, <2>2
<1>5. ASSUME NEW c \in Lying PROVE c \in Lying' \cup Contents(trunk)
  <2>1. PICK x \in orphaned, q \in Sessions : c = Content(x) /\ x \in ToSet(branch[q])
    BY DEF Lying
  <2>2. x \in ToSet(branch'[q]) \/ Content(x) \in Contents(trunk)
    BY <1>2, <1>3, <2>1 DEF Rebasing
  <2>3. QED BY <2>1, <2>2 DEF Lying
<1>6. Elsewhere \subseteq Elsewhere'
  BY <1>5 DEF Elsewhere
<1>7. replay'[s].state = "none"
  BY <1>2 DEF NoReplay
<1>8. QED BY <1>2, <1>4, <1>6, <1>7

LEMMA AbortKeeps ==
    ASSUME Shape, NEW s \in Sessions, AbortRebase(s)
    PROVE  /\ head'[s] = branch[s] /\ replay'[s].state = "none"
           /\ \A x \in Sessions : x # s => head'[x] = head[x] /\ replay'[x] = replay[x]
<1>1. head \in [Sessions -> Histories] /\ replay \in [Sessions -> Replay]
  BY DEF Shape, TypeOK
<1>2. QED BY <1>1 DEF AbortRebase, NoReplay

\* The branches of the queued commits are worktrees' branches.
LEMMA QueuedTyped ==
    ASSUME Shape
    PROVE  /\ \A sha \in DOMAIN queue : sha \in Histories /\ queue[sha].session \in Sessions
           /\ dpc \notin {"idle", "down"} => entry.session \in Sessions
           /\ current \in Histories /\ pushing \in Histories /\ trunk \in Histories
           /\ job # Nil => job.session \in Sessions /\ job.change \in Changes
BY DEF Shape, TypeOK, Stages, Entry, Job

LEMMA RebaseEndsKept == ASSUME Shape, Shape', Kept, RebaseEnds PROVE Kept'
<1> USE DEF Kept
<1> DEFINE s == entry.session
<1>0. s \in Sessions /\ dpc = "rebase" /\ wpc = "idle"
  BY QueuedTyped DEF RebaseEnds, Shape, Stages
<1>1. UNCHANGED <<trunk, queue, pending, current, entry, wpc, job, committed, orphaned, declined>>
  BY DEF RebaseEnds, writer, history
<1>2. \A x \in Sessions : x # s => replay[x].state = "none" /\ head[x] = branch[x]
  BY <1>0 DEF Replays
<1>3. IsPrefix(trunk, trunk')
  BY <1>1, SameTrunk
<1>4. CASE FinishRebase(s) /\ dpc' = "resolve"
  <2>1. /\ head'[s] = branch'[s] /\ replay'[s].state = "none"
        /\ \A x \in Sessions : x # s => head'[x] = head[x] /\ branch'[x] = branch[x]
                                        /\ replay'[x] = replay[x]
        /\ \A sha \in Histories, x \in Sessions :
             Queues(sha, branch[x], trunk) => Queues(sha, branch'[x], trunk)
        /\ Elsewhere \subseteq Elsewhere'
    BY <1>0, <1>1, <1>4, FinishKeeps
  <2>2. Replays'
    BY <1>2, <2>1 DEF Replays
  <2>3. Entries'
    BY <1>0, <1>1, <1>4, <2>1, QueuedTyped DEF Entries
  <2>4. Removing'
    BY <1>4 DEF Removing
  <2>5. Covered'
    BY <1>1, <2>1 DEF Covered
  <2>6. QED BY <2>2, <2>3, <2>4, <2>5
<1>5. CASE replay[s].state = "conflict" /\ RebaseConflicted
  <2>1. AbortRebase(s) /\ UNCHANGED branch /\ dpc' = "demote"
    BY <1>5 DEF RebaseConflicted
  <2>2. /\ head'[s] = branch[s] /\ replay'[s].state = "none"
        /\ \A x \in Sessions : x # s => head'[x] = head[x] /\ replay'[x] = replay[x]
    BY <1>0, <2>1, AbortKeeps
  <2>3. Replays'
    BY <1>2, <2>1, <2>2 DEF Replays
  <2>4. ~IsPrefix(trunk, branch[s])
    BY <1>0, <1>5 DEF Replays, Rebasing
  <2>5. ~IsPrefix(trunk, current)
    <3>1. IsPrefix(current, branch[s]) \/ ~IsPrefix(trunk, current)
      BY <1>0 DEF Entries, Queues
    <3>2. trunk \in Seq(used) /\ current \in Seq(used) /\ branch[s] \in Seq(used)
      BY <1>0, Histories1 DEF Shape, Made
    <3>3. QED BY <2>4, <3>1, <3>2, PrefixThrough
  <2>6. Entries'
    BY <1>0, <1>1, <2>1, <2>5 DEF Entries
  <2>7. Removing'
    BY <2>1 DEF Removing
  <2>8. Covered'
    BY <1>1, <1>3, <2>1, ElsewhereStays DEF Covered
  <2>9. QED BY <2>3, <2>6, <2>7, <2>8
<1>6. QED BY <1>4, <1>5 DEF RebaseEnds

LEMMA PushAgainKept == ASSUME Shape, Shape', Kept, torn' = {}, PushAgain PROVE Kept'
<1> USE DEF Kept
<1> DEFINE s == entry.session
<1>0. s \in Sessions
  BY QueuedTyped DEF PushAgain
<1>1. /\ dpc = "resolve" /\ dpc' = "push_again" /\ pushing' = head[s] /\ replay[s].state = "none"
      /\ UNCHANGED <<trunk, branch, head, replay, queue, pending, current, entry, wpc, job,
                     committed, orphaned, declined>>
  BY DEF PushAgain, git, writer
<1>2. IsPrefix(trunk, trunk')
  BY <1>1, SameTrunk
<1>3. Replays'
  BY <1>1, <1>2, ReplaysStay
<1>4. head[s] = branch[s]
  BY <1>0, <1>1 DEF Replays
<1>5. Entries'
  BY <1>1, <1>4 DEF Entries
<1>6. Removing'
  BY <1>1 DEF Removing
<1>7. Covered'
  BY <1>1, <1>2, ElsewhereStays DEF Covered
<1>8. QED BY <1>3, <1>5, <1>6, <1>7

LEMMA DemoteKept == ASSUME Shape, Shape', Kept, Demote PROVE Kept'
<1> USE DEF Kept
<1> DEFINE e == [sha |-> current, known |-> entry.known]
<1>1. /\ dpc = "demote" /\ dpc' = "remove" /\ pending' = pending \cup {e}
      /\ wpc \in {"idle", "down"}
      /\ UNCHANGED <<trunk, branch, head, replay, queue, current, entry, wpc, job, committed,
                     orphaned, declined>>
  BY DEF Demote, Serializing, git, writer, history
<1>2. job = Nil
  BY <1>1 DEF Shape, Stages
<1>3. e.sha = current
  OBVIOUS
<1> HIDE DEF e
<1>4. IsPrefix(trunk, trunk')
  BY <1>1, SameTrunk
<1>5. Replays'
  BY <1>1, <1>4, ReplaysStay
<1>6. Entries'
  BY <1>1 DEF Entries
<1>7. Elsewhere \subseteq Elsewhere' /\ Content(Last(current)) \in Elsewhere'
  <2>1. Lying' = Lying
    BY <1>1 DEF Lying
  <2>2. {x.sha : x \in pending'} = {x.sha : x \in pending} \cup {current}
    BY <1>1, <1>3
  <2>3. Lasts({x.sha : x \in pending}) \subseteq Lasts({x.sha : x \in pending'})
    BY <2>2 DEF Lasts
  <2>4. Content(Last(current)) \in Lasts({x.sha : x \in pending'})
    BY <2>2 DEF Lasts
  <2>5. QED BY <1>1, <2>1, <2>3, <2>4 DEF Elsewhere
<1>8. Removing'
  <2>1. ~IsPrefix(trunk, current)
    BY <1>1 DEF Entries
  <2>2. NotRemade'
    BY <1>1, <1>2 DEF NotRemade
  <2>3. QED BY <1>1, <1>7, <2>1, <2>2 DEF Removing
<1>9. Covered'
  BY <1>1, <1>7 DEF Covered
<1>10. QED BY <1>5, <1>6, <1>8, <1>9

LEMMA RemoveEntryKept == ASSUME Shape, Shape', Kept, RemoveEntry PROVE Kept'
<1> USE DEF Kept
<1>1. /\ dpc = "remove" /\ dpc' = "idle"
      /\ UNCHANGED <<trunk, branch, head, replay, pending, wpc, job, committed, orphaned, declined>>
  BY DEF RemoveEntry, NextEntry, git, writer, history
<1>2. DOMAIN queue' = DOMAIN queue \ {current} /\ \A h \in DOMAIN queue' : queue'[h] = queue[h]
  BY DEF RemoveEntry, Without
<1>3. IsPrefix(trunk, trunk')
  BY <1>1, SameTrunk
<1>4. Replays'
  BY <1>1, <1>3, ReplaysStay
<1>5. Entries'
  BY <1>1, <1>2 DEF Entries
<1>6. Removing'
  BY <1>1 DEF Removing
<1>7. Covered'
  <2>1. Content(Last(current)) \in Elsewhere \cup Lasts(DOMAIN queue')
    BY <1>1, <1>2 DEF Removing, Elsewhere
  <2>2. Lasts(DOMAIN queue) \subseteq Lasts(DOMAIN queue') \cup {Content(Last(current))}
    BY <1>2 DEF Lasts
  <2>3. Elsewhere \subseteq Elsewhere'
    BY <1>1, <1>3, ElsewhereStays
  <2>4. QED BY <1>1, <2>1, <2>2, <2>3 DEF Covered
<1>8. QED BY <1>4, <1>5, <1>6, <1>7

LEMMA RecordRetryKept == ASSUME Shape, Shape', Kept, RecordRetry PROVE Kept'
<1> USE DEF Kept
<1>1. /\ dpc = "retry" /\ dpc' = "idle"
      /\ UNCHANGED <<trunk, branch, head, replay, pending, wpc, job, committed, orphaned, declined>>
  BY DEF RecordRetry, NextEntry, git, writer, history
<1>2. /\ DOMAIN queue' = DOMAIN queue \cup {current}
      /\ \A h \in DOMAIN queue' : queue'[h] = IF h = current THEN Retried ELSE queue[h]
  BY DEF RecordRetry, With
<1>3. Retried.session = entry.session
  BY <1>1 DEF Retried, Shape, TypeOK, Stages, Entry
<1>4. IsPrefix(trunk, trunk')
  BY <1>1, SameTrunk
<1>5. Replays'
  BY <1>1, <1>4, ReplaysStay
<1>6. Entries'
  BY <1>1, <1>2, <1>3 DEF Entries
<1>7. Removing'
  BY <1>1 DEF Removing
<1>8. Covered'
  <2>1. Lasts(DOMAIN queue) \subseteq Lasts(DOMAIN queue')
    BY <1>2 DEF Lasts
  <2>2. QED BY <1>1, <1>4, <2>1, ElsewhereStays DEF Covered
<1>9. QED BY <1>5, <1>6, <1>7, <1>8

\* The steps of the writer.

LEMMA WriteKept ==
    ASSUME Shape, Shape', Kept,
           (\E w \in Writes, cas \in BOOLEAN : Write(w, cas)) \/ \E e \in pending : Approve(e)
    PROVE  Kept'
<1> USE DEF Kept
<1>1. /\ wpc = "idle" /\ wpc' = "refresh"
      /\ UNCHANGED <<trunk, branch, head, replay, queue, pending, dpc, current, entry, pushing,
                     committed, orphaned, declined>>
  BY DEF Write, Approve, git, drain, history
<1>2. dpc = "remove" => NotRemade'
  <2>1. CASE \E w \in Writes, cas \in BOOLEAN : Write(w, cas)
    <3>1. PICK w \in Writes : w \notin used /\ job'.change = w /\ job'.for = Nil
      BY <2>1 DEF Write
    <3>2. dpc = "remove" => Last(current) \in used
      <4>1. dpc = "remove" => current \in Seq(used) /\ current # <<>>
        BY DEF Shape, Made, Known, OwnLast
      <4>2. QED BY <4>1 DEF Last
    <3>3. QED BY <1>1, <3>1, <3>2 DEF NotRemade
  <2>2. CASE \E e \in pending : Approve(e)
    <3>1. PICK e \in pending : job'.for = e
      BY <2>2 DEF Approve
    <3>2. job'.for # Nil
      BY <3>1, NilAssumption DEF Shape, TypeOK
    <3>3. QED BY <1>1, <3>2 DEF NotRemade
  <2>3. QED BY <2>1, <2>2
<1>3. IsPrefix(trunk, trunk')
  BY <1>1, SameTrunk
<1>4. Elsewhere \subseteq Elsewhere'
  BY <1>1, <1>3, ElsewhereStays
<1>5. Replays'
  BY <1>1, <1>3, ReplaysStay
<1>6. Entries'
  BY <1>1 DEF Entries
<1>7. Removing'
  BY <1>1, <1>2, <1>4 DEF Removing
<1>8. Covered'
  BY <1>1, <1>4 DEF Covered
<1>9. QED BY <1>5, <1>6, <1>7, <1>8

LEMMA WriterRefreshFailsKept == ASSUME Shape, Shape', Kept, WriterRefreshFails PROVE Kept'
<1> USE DEF Kept
<1>1. /\ wpc = "refresh" /\ NotRefreshed
      /\ UNCHANGED <<trunk, branch, head, replay, queue, pending, dpc, current, entry, pushing,
                     committed, orphaned, declined>>
  BY DEF WriterRefreshFails, git, drain, history
<1>2. /\ job # Nil /\ wpc' = "gates" /\ job'.change = job.change /\ job'.for = job.for
      /\ job'.fresh = FALSE
  BY <1>1, NotRefreshedJob
<1>3. IsPrefix(trunk, trunk')
  BY <1>1, SameTrunk
<1>4. Elsewhere \subseteq Elsewhere'
  BY <1>1, <1>3, ElsewhereStays
<1>5. Replays'
  BY <1>1, <1>3, ReplaysStay
<1>6. Entries'
  BY <1>1 DEF Entries
<1>7. NotRemade => NotRemade'
  BY <1>1, <1>2 DEF NotRemade
<1>8. Removing'
  BY <1>1, <1>4, <1>7 DEF Removing
<1>9. Covered'
  BY <1>1, <1>4 DEF Covered
<1>10. QED BY <1>5, <1>6, <1>8, <1>9

LEMMA WriterFetchKept == ASSUME Shape, Shape', Kept, WriterFetch PROVE Kept'
<1> USE DEF Kept
<1> DEFINE s == job.session
<1>0. s \in Sessions /\ job # Nil /\ wpc = "refresh" /\ dpc # "rebase" /\ tracking' = trunk
  BY QueuedTyped DEF WriterFetch, Shape, Stages
<1>1. \A x \in Sessions : replay[x].state = "none" /\ head[x] = branch[x]
  BY <1>0 DEF Replays
<1>2. /\ StartRebase(s, trunk) /\ wpc' = "rebase"
      /\ UNCHANGED <<trunk, branch, queue, pending, dpc, current, entry, pushing, job, used,
                     committed, orphaned, declined>>
  BY <1>0, <1>1 DEF WriterFetch, drain, history
<1>3. PICK hd \in Seq(used), r \in Replay :
            /\ r.to \in Seq(used)
            /\ head' = [head EXCEPT ![s] = hd]
            /\ replay' = [replay EXCEPT ![s] = r]
            /\ r.state \in {"clean", "conflict"} /\ IsPrefix(trunk, r.to)
            /\ r.to = head[s] \/ ~IsPrefix(trunk, head[s])
            /\ r.state = "conflict" => ~IsPrefix(trunk, head[s])
            /\ \A x \in ToSet(head[s]) : x \in ToSet(r.to) \/ Content(x) \in Contents(trunk)
  BY <1>0, <1>2, StartMoves
<1>4. Rebasing(branch[s], r, trunk)
  BY <1>0, <1>1, <1>3 DEF Rebasing
<1>5. head \in [Sessions -> Histories] /\ replay \in [Sessions -> Replay]
  BY DEF Shape, TypeOK
<1>6. IsPrefix(trunk, trunk')
  BY <1>2, SameTrunk
<1>7. replay'[s] = r
  BY <1>0, <1>3, <1>5
<1>8. Replays'
  <2> SUFFICES ASSUME NEW x \in Sessions
               PROVE  IF replay'[x].state = "none" THEN head'[x] = branch'[x]
                      ELSE /\ \/ dpc' = "rebase" /\ entry'.session = x
                              \/ wpc' = "rebase" /\ job'.session = x
                           /\ Rebasing(branch'[x], replay'[x], trunk')
    BY DEF Replays
  <2>1. CASE x = s
    BY <1>2, <1>3, <1>4, <1>7, <2>1
  <2>2. CASE x # s
    <3>1. replay'[x] = replay[x] /\ head'[x] = head[x]
      BY <1>3, <1>5, <2>2
    <3>2. QED BY <1>1, <1>2, <3>1
  <2>3. QED BY <2>1, <2>2
<1>9. NotRemade /\ ~IsPrefix(trunk, current) => NotRemade'
  <2>1. ~IsPrefix(trunk, current) => ~IsPrefix(r.to, current)
    <3>1. trunk \in Seq(used) /\ current \in Seq(used)
      BY DEF Shape, Made
    <3>2. QED BY <1>3, <3>1, PrefixThrough
  <2>2. job'.session = s /\ job' = job
    BY <1>2
  <2> HIDE DEF s
  <2>3. QED BY <1>0, <1>2, <1>7, <2>1, <2>2 DEF NotRemade
<1> HIDE DEF s
<1>10. Elsewhere \subseteq Elsewhere'
  BY <1>2, <1>6, ElsewhereStays
<1>11. Entries'
  BY <1>2 DEF Entries
<1>12. Removing'
  BY <1>2, <1>9, <1>10 DEF Removing
<1>13. Covered'
  BY <1>2, <1>10 DEF Covered
<1>14. QED BY <1>8, <1>11, <1>12, <1>13

LEMMA WriterRebaseEndsKept == ASSUME Shape, Shape', Kept, WriterRebaseEnds PROVE Kept'
<1> USE DEF Kept
<1> DEFINE s == job.session
<1>0. s \in Sessions /\ job # Nil /\ wpc = "rebase" /\ dpc # "rebase"
  BY QueuedTyped DEF WriterRebaseEnds, Shape, Stages
<1>1. UNCHANGED <<trunk, queue, pending, dpc, current, entry, pushing, committed, orphaned, declined>>
  BY DEF WriterRebaseEnds, drain, history
<1>2. \A x \in Sessions : x # s => replay[x].state = "none" /\ head[x] = branch[x]
  BY <1>0 DEF Replays
<1>3. IsPrefix(trunk, trunk')
  BY <1>1, SameTrunk
<1>4. CASE FinishRebase(s) /\ wpc' = "gates" /\ UNCHANGED job
  <2>1. /\ head'[s] = branch'[s] /\ replay'[s].state = "none" /\ head'[s] = replay[s].to
        /\ \A x \in Sessions : x # s => head'[x] = head[x] /\ branch'[x] = branch[x]
                                        /\ replay'[x] = replay[x]
        /\ \A sha \in Histories, x \in Sessions :
             Queues(sha, branch[x], trunk) => Queues(sha, branch'[x], trunk)
        /\ Elsewhere \subseteq Elsewhere'
    BY <1>0, <1>1, <1>4, FinishKeeps
  <2>2. Replays'
    BY <1>2, <2>1 DEF Replays
  <2>3. Entries'
    BY <1>0, <1>1, <2>1, QueuedTyped DEF Entries
  <2>4. NotRemade => NotRemade'
    BY <1>0, <1>1, <1>4, <2>1 DEF NotRemade
  <2>5. Removing'
    BY <1>1, <2>1, <2>4 DEF Removing
  <2>6. Covered'
    BY <1>1, <2>1 DEF Covered
  <2>7. QED BY <2>2, <2>3, <2>5, <2>6
<1>5. CASE AbortRebase(s) /\ NotRefreshed /\ UNCHANGED branch
  <2>1. /\ head'[s] = branch[s] /\ replay'[s].state = "none"
        /\ \A x \in Sessions : x # s => head'[x] = head[x] /\ replay'[x] = replay[x]
    BY <1>0, <1>5, AbortKeeps
  <2>2. /\ wpc' = "gates" /\ job'.change = job.change /\ job'.for = job.for /\ job'.fresh = FALSE
    BY <1>0, <1>5, NotRefreshedJob
  <2>3. Replays'
    BY <1>2, <1>5, <2>1 DEF Replays
  <2>4. Entries'
    BY <1>0, <1>1, <1>5 DEF Entries
  <2>5. Elsewhere \subseteq Elsewhere'
    BY <1>1, <1>3, <1>5, ElsewhereStays
  <2>6. NotRemade => NotRemade'
    BY <1>0, <1>1, <2>2 DEF NotRemade
  <2>7. Removing'
    BY <1>1, <2>5, <2>6 DEF Removing
  <2>8. Covered'
    BY <1>1, <2>5 DEF Covered
  <2>9. QED BY <2>3, <2>4, <2>7, <2>8
<1>6. QED BY <1>4, <1>5 DEF WriterRebaseEnds

LEMMA WriterReturnsKept ==
    ASSUME Shape, Shape', Kept, ApprovalStale \/ WriteDeclined \/ EnqueueFails PROVE Kept'
<1> USE DEF Kept
<1>1. /\ wpc \in {"gates", "enqueue"} /\ job' = Nil
      /\ UNCHANGED <<trunk, branch, head, replay, queue, pending, dpc, current, entry, pushing,
                     committed, orphaned, declined>>
  BY DEF ApprovalStale, WriteDeclined, EnqueueFails, Return, git, drain, history
<1>2. IsPrefix(trunk, trunk')
  BY <1>1, SameTrunk
<1>3. Elsewhere \subseteq Elsewhere'
  BY <1>1, <1>2, ElsewhereStays
<1>4. Replays'
  BY <1>1, <1>2, ReplaysStay
<1>5. Entries'
  BY <1>1 DEF Entries
<1>6. NotRemade'
  BY <1>1 DEF NotRemade
<1>7. Removing'
  BY <1>1, <1>3, <1>6 DEF Removing
<1>8. Covered'
  BY <1>1, <1>3 DEF Covered
<1>9. QED BY <1>4, <1>5, <1>7, <1>8

LEMMA GitCommitKept == ASSUME Shape, Shape', Kept, GitCommit PROVE Kept'
<1> USE DEF Kept
<1> DEFINE s == job.session
           x == job.change
           h == head[s]
           c == Append(h, x)
<1>0. /\ s \in Sessions /\ x \in Changes /\ x \in used' /\ job # Nil /\ wpc = "gates"
      /\ dpc # "rebase" /\ h \in Histories /\ h \in Seq(used)
      /\ job.for # Nil => job.cas /\ Content(x) = Content(Last(job.for.sha))
  BY QueuedTyped, Histories1 DEF GitCommit, Shape, TypeOK, Stages
<1>1. \A y \in Sessions : replay[y].state = "none" /\ head[y] = branch[y]
  BY <1>0 DEF Replays
<1>2. /\ wpc' = "enqueue" /\ head' = [head EXCEPT ![s] = c] /\ branch' = [branch EXCEPT ![s] = c]
      /\ pending' = pending \ {job.for} /\ committed' = committed \cup {x}
      /\ orphaned' = orphaned \cup {x} /\ used' = used \cup {x}
      /\ UNCHANGED <<trunk, replay, queue, dpc, current, entry, pushing, job, declined>>
      /\ job.cas => job.fresh
  BY <1>0, <1>1 DEF GitCommit, drain
<1>3. head \in [Sessions -> Histories] /\ branch \in [Sessions -> Histories]
  BY DEF Shape, TypeOK
<1>4. /\ head'[s] = c /\ branch'[s] = c /\ branch[s] = h
      /\ \A y \in Sessions : y # s => head'[y] = head[y] /\ branch'[y] = branch[y]
  BY <1>0, <1>1, <1>2, <1>3
<1> HIDE DEF s, x, h
<1>5. c \in Histories /\ IsPrefix(h, c) /\ x \in ToSet(c) /\ ToSet(h) \subseteq ToSet(c)
  <2>1. c \in Histories /\ IsPrefix(h, c)
    BY <1>0, PrefixAppend DEF Histories
  <2>2. ToSet(h) \subseteq ToSet(c)
    <3> HIDE DEF c
    <3>1. QED BY <1>0, <2>1, PrefixChanges DEF Histories
  <2>3. Len(h) + 1 \in DOMAIN c /\ c[Len(h) + 1] = x
    BY <1>0 DEF Histories
  <2>4. QED BY <2>1, <2>2, <2>3 DEF ToSet
<1>6. ASSUME NEW sha \in Histories, NEW y \in Sessions, Queues(sha, branch[y], trunk)
      PROVE  Queues(sha, branch'[y], trunk)
  <2>1. CASE y = s
    BY <1>0, <1>4, <1>6, <2>1, QueuesExtended
  <2>2. CASE y # s
    BY <1>4, <1>6, <2>2
  <2>3. QED BY <2>1, <2>2
<1> HIDE DEF c
<1>7. Elsewhere \subseteq Elsewhere' /\ Content(x) \in Elsewhere'
  <2>1. x \in orphaned' /\ x \in ToSet(branch'[s])
    BY <1>2, <1>4, <1>5
  <2>2. Content(x) \in Lying'
    BY <1>0, <2>1 DEF Lying
  <2>3. ASSUME NEW y \in orphaned, NEW q \in Sessions, y \in ToSet(branch[q])
        PROVE  y \in orphaned' /\ y \in ToSet(branch'[q])
    <3>1. CASE q = s
      BY <1>2, <1>4, <1>5, <2>3, <3>1
    <3>2. CASE q # s
      BY <1>2, <1>4, <2>3, <3>2
    <3>3. QED BY <3>1, <3>2
  <2>4. Lying \subseteq Lying'
    BY <2>3 DEF Lying
  <2>5. ASSUME NEW e \in pending
        PROVE  Content(Last(e.sha)) \in Lasts({f.sha : f \in pending'}) \cup Lying'
    <3>1. CASE e = job.for
      <4>1. e # Nil
        BY NilAssumption DEF Shape, TypeOK
      <4>2. QED BY <1>0, <2>2, <3>1, <4>1
    <3>2. CASE e # job.for
      BY <1>2, <3>2 DEF Lasts
    <3>3. QED BY <3>1, <3>2
  <2>6. Lasts({e.sha : e \in pending}) \subseteq Lasts({f.sha : f \in pending'}) \cup Lying'
    BY <2>5 DEF Lasts
  <2>7. QED BY <1>2, <2>2, <2>4, <2>6 DEF Elsewhere
<1>8. Replays'
  BY <1>1, <1>2, <1>4 DEF Replays
<1>9. Entries'
  BY <1>0, <1>2, <1>6, QueuedTyped DEF Entries
<1>10. NotRemade => NotRemade'
  <2>1. ~IsPrefix(h, current) => ~IsPrefix(c, current)
    <3>1. current \in Histories
      BY QueuedTyped
    <3>2. QED BY <1>0, <1>5, <3>1, PrefixThrough DEF Histories
  <2>2. job'.session = s /\ job' = job /\ job.session = s
    BY <1>2 DEF s
  <2>3. head[job.session] = h
    BY DEF h, s
  <2>4. QED BY <1>0, <1>2, <1>4, <2>1, <2>2, <2>3 DEF NotRemade
<1>11. Removing'
  BY <1>2, <1>7, <1>10 DEF Removing
<1>12. Covered'
  BY <1>2, <1>7 DEF Covered
<1>13. QED BY <1>8, <1>9, <1>11, <1>12

LEMMA EnqueueKept == ASSUME Shape, Shape', Kept, Enqueue PROVE Kept'
<1> USE DEF Kept
<1> DEFINE s == job.session
           sha == head[s]
<1>0. /\ s \in Sessions /\ wpc = "enqueue" /\ dpc # "rebase" /\ job # Nil
      /\ sha \in Histories /\ sha # <<>> /\ Last(sha) = job.change
      /\ job.for # Nil => job.cas
      /\ job.cas => job.fresh
  BY QueuedTyped DEF Enqueue, Shape, TypeOK, Stages, OwnLast
<1>1. \A y \in Sessions : replay[y].state = "none" /\ head[y] = branch[y]
  BY <1>0 DEF Replays
<1>2. /\ DOMAIN queue' = DOMAIN queue \cup {sha} /\ queue'[sha].session = s
      /\ \A h \in DOMAIN queue' : h # sha => queue'[h] = queue[h]
  BY DEF Enqueue, With, NewEntry
<1>3. /\ wpc' = "idle" /\ job' = Nil /\ orphaned' = orphaned \ {job.change}
      /\ UNCHANGED <<trunk, branch, head, replay, pending, dpc, current, entry, pushing, committed,
                     declined>>
  BY DEF Enqueue, Return, git, drain
<1>4. Queues(sha, branch[s], trunk)
  <2>1. sha = branch[s] /\ IsPrefix(sha, sha)
    BY <1>0, <1>1, PrefixSelf DEF Histories
  <2>2. QED BY <1>0, <2>1, QueuesItself
<1>5. NotRemade /\ dpc = "remove" => sha # current
  <2>1. IsPrefix(sha, sha)
    BY <1>0, PrefixSelf DEF Histories
  <2>2. QED BY <1>0, <2>1 DEF NotRemade
<1>6. Last(sha) = job.change
  BY <1>0
<1> HIDE DEF sha, s
<1>7. Elsewhere \subseteq Elsewhere' \cup {Content(Last(sha))}
  <2>1. Lying \subseteq Lying' \cup {Content(job.change)}
    BY <1>3 DEF Lying
  <2>2. QED BY <1>3, <1>6, <2>1 DEF Elsewhere
<1>8. Replays'
  BY <1>1, <1>3 DEF Replays
<1>9. Entries'
  <2>1. ASSUME NEW h \in DOMAIN queue' PROVE Queues(h, branch[queue'[h].session], trunk)
    <3>1. CASE h = sha
      BY <1>2, <1>4, <3>1
    <3>2. CASE h # sha
      BY <1>2, <3>2 DEF Entries
    <3>3. QED BY <3>1, <3>2
  <2>2. QED BY <1>3, <2>1 DEF Entries
<1>10. Removing'
  <2>1. NotRemade'
    BY <1>3 DEF NotRemade
  <2>2. sha # current => Lasts(DOMAIN queue \ {current}) \cup {Content(Last(sha))}
                            \subseteq Lasts(DOMAIN queue' \ {current})
    BY <1>2 DEF Lasts
  <2>3. QED BY <1>3, <1>5, <1>7, <2>1, <2>2 DEF Removing
<1>11. Covered'
  <2>1. Lasts(DOMAIN queue) \cup {Content(Last(sha))} \subseteq Lasts(DOMAIN queue')
    BY <1>2 DEF Lasts
  <2>2. QED BY <1>3, <1>7, <2>1 DEF Covered
<1>12. QED BY <1>8, <1>9, <1>10, <1>11

\* Everyone else.

LEMMA TrunkMovesKept ==
    ASSUME Shape, Shape', Kept, (\E f \in Foreign : ForeignPush(f)) \/ Pull PROVE Kept'
<1> USE DEF Kept
<1>1. UNCHANGED <<branch, head, replay, queue, pending, dpc, current, entry, pushing, wpc, job,
                  committed, orphaned, declined>>
  BY DEF ForeignPush, Pull, drain, writer, history
<1>2. IsPrefix(trunk, trunk')
  <2>1. CASE \E f \in Foreign : ForeignPush(f)
    <3>1. PICK f \in Foreign : trunk' = Append(trunk, f)
      BY <2>1 DEF ForeignPush
    <3>2. trunk \in Seq(Changes) /\ f \in Changes
      BY DEF Shape, TypeOK, Histories, Changes
    <3>3. QED BY <3>1, <3>2, PrefixAppend
  <2>2. CASE Pull
    BY <2>2, SameTrunk DEF Pull
  <2>3. QED BY <2>1, <2>2
<1>3. Elsewhere \subseteq Elsewhere' /\ Contents(trunk) \subseteq Contents(trunk')
  BY <1>1, <1>2, ElsewhereStays
<1>4. \A h \in Histories : ~IsPrefix(trunk, h) => ~IsPrefix(trunk', h)
  BY <1>2, LongerTrunk DEF Shape, TypeOK
<1>5. Replays'
  BY <1>1, <1>2, ReplaysStay
<1>6. Entries'
  BY <1>1, <1>2, <1>4, QueueStays, QueuedTyped DEF Entries
<1>7. Removing'
  <2>1. NotRemade => NotRemade'
    BY <1>1 DEF NotRemade
  <2>2. QED BY <1>1, <1>3, <1>4, <2>1, QueuedTyped DEF Removing
<1>8. Covered'
  BY <1>1, <1>3 DEF Covered
<1>9. QED BY <1>5, <1>6, <1>7, <1>8

LEMMA RejectDemotedKept ==
    ASSUME Shape, Shape', Kept, NEW e \in pending, RejectDemoted(e) PROVE Kept'
<1> USE DEF Kept
<1>1. /\ pending' = pending \ {e} /\ declined' = declined \cup {Content(Last(e.sha))}
      /\ UNCHANGED <<trunk, branch, head, replay, queue, dpc, current, entry, pushing, wpc, job,
                     committed, orphaned>>
  BY DEF RejectDemoted, git, drain, writer
<1>2. IsPrefix(trunk, trunk')
  BY <1>1, SameTrunk
<1>3. Elsewhere \subseteq Elsewhere'
  <2>1. Lasts({x.sha : x \in pending})
            \subseteq Lasts({x.sha : x \in pending'}) \cup {Content(Last(e.sha))}
    BY <1>1 DEF Lasts
  <2>2. Lying' = Lying
    BY <1>1 DEF Lying
  <2>3. QED BY <1>1, <2>1, <2>2 DEF Elsewhere
<1>4. Replays'
  BY <1>1, <1>2, ReplaysStay
<1>5. Entries'
  BY <1>1 DEF Entries
<1>6. NotRemade => NotRemade'
  BY <1>1 DEF NotRemade
<1>7. Removing'
  BY <1>1, <1>3, <1>6 DEF Removing
<1>8. Covered'
  BY <1>1, <1>3 DEF Covered
<1>9. QED BY <1>4, <1>5, <1>7, <1>8

LEMMA EntryEditedKept ==
    ASSUME Shape, Shape', Kept, NEW sha \in DOMAIN queue, Requeue(sha) \/ Drop(sha) PROVE Kept'
<1> USE DEF Kept
<1>1. UNCHANGED <<trunk, branch, head, replay, pending, dpc, current, entry, pushing, wpc, job,
                  committed, orphaned>>
  BY DEF Requeue, Drop, git, drain, writer, history
<1>2. /\ DOMAIN queue' \subseteq DOMAIN queue
      /\ \A h \in DOMAIN queue' : queue'[h].session = queue[h].session
  <2>1. CASE Requeue(sha)
    <3>1. queue[sha] \in Entry
      BY DEF Shape, TypeOK
    <3>2. /\ DOMAIN queue' = DOMAIN queue
          /\ \A h \in DOMAIN queue : h # sha => queue'[h] = queue[h]
          /\ queue'[sha] = [queue[sha] EXCEPT !.frozen = FALSE, !.attempts = 0]
      BY <2>1 DEF Requeue
    <3>3. queue'[sha].session = queue[sha].session
      BY <3>1, <3>2 DEF Entry
    <3>4. QED BY <3>2, <3>3
  <2>2. CASE Drop(sha)
    BY <2>2 DEF Drop, Without
  <2>3. QED BY <2>1, <2>2
<1>3. /\ Elsewhere \subseteq Elsewhere'
      /\ \A h \in DOMAIN queue \ DOMAIN queue' : Content(Last(h)) \in Elsewhere'
  <2>1. Lying' = Lying
    BY <1>1 DEF Lying
  <2>2. CASE Requeue(sha)
    <3>1. DOMAIN queue' = DOMAIN queue /\ declined' = declined
      BY <2>2 DEF Requeue, history
    <3>2. QED BY <1>1, <2>1, <3>1 DEF Elsewhere
  <2>3. CASE Drop(sha)
    <3>1. DOMAIN queue' = DOMAIN queue \ {sha} /\ declined' = declined \cup {Content(Last(sha))}
      BY <2>3 DEF Drop, Without
    <3>2. QED BY <1>1, <2>1, <3>1 DEF Elsewhere
  <2>4. QED BY <2>2, <2>3
<1>4. /\ Lasts(DOMAIN queue) \subseteq Lasts(DOMAIN queue') \cup Elsewhere'
      /\ Lasts(DOMAIN queue \ {current}) \subseteq Lasts(DOMAIN queue' \ {current}) \cup Elsewhere'
  BY <1>2, <1>3 DEF Lasts
<1>5. IsPrefix(trunk, trunk')
  BY <1>1, SameTrunk
<1>6. Replays'
  BY <1>1, <1>5, ReplaysStay
<1>7. Entries'
  BY <1>1, <1>2 DEF Entries
<1>8. NotRemade => NotRemade'
  BY <1>1 DEF NotRemade
<1>9. Removing'
  BY <1>1, <1>3, <1>4, <1>8 DEF Removing
<1>10. Covered'
  BY <1>1, <1>3, <1>4 DEF Covered
<1>11. QED BY <1>6, <1>7, <1>9, <1>10

LEMMA CrashKept == ASSUME Shape, Shape', Kept, torn' = {}, Crash PROVE Kept'
<1> USE DEF Kept
<1>1. /\ dpc' = "down" /\ \A s \in Sessions : replay[s].state = "none"
      /\ UNCHANGED <<branch, head, replay, queue, pending, committed, orphaned, declined>>
      /\ (IsPrefix(trunk, pushing) /\ trunk' = pushing) \/ trunk' = trunk
  BY DEF Crash, Accepted
<1>2. IsPrefix(trunk, trunk')
  BY <1>1, SameTrunk
<1>3. Replays'
  BY <1>1 DEF Replays
<1>4. Entries'
  BY <1>1, <1>2, QueueStays DEF Entries
<1>5. Removing'
  BY <1>1 DEF Removing
<1>6. Covered'
  BY <1>1, <1>2, ElsewhereStays DEF Covered
<1>7. QED BY <1>3, <1>4, <1>5, <1>6

\* The recovery finds every commit that lies on a branch and is not published.
LEMMA RecoveredCovers ==
    ASSUME Shape, Replays, \A s \in Sessions : replay[s].state = "none"
    PROVE  /\ Lying \subseteq Contents(trunk) \cup Lasts(DOMAIN Recovered)
           /\ DOMAIN queue \subseteq DOMAIN Recovered
<1>1. ASSUME NEW c \in Lying PROVE c \in Contents(trunk) \cup Lasts(DOMAIN Recovered)
  <2>1. PICK x \in orphaned, s \in Sessions : c = Content(x) /\ x \in ToSet(branch[s])
    BY <1>1 DEF Lying
  <2> DEFINE h == head[s]
  <2>2. h = branch[s] /\ h \in Seq(used) /\ tracking \in Seq(used) /\ trunk \in Seq(used)
        /\ IsPrefix(tracking, trunk)
    BY Histories1 DEF Replays, Shape, Known
  <2> HIDE DEF h
  <2>3. PICK i \in 1..Len(h) : h[i] = x
    BY <2>1, <2>2 DEF ToSet
  <2> DEFINE p == SubSeq(h, 1, i)
  <2>4. i \in 0..Len(h) /\ i \in 1..i
    BY <2>2
  <2>5. p \in Seq(used) /\ Len(p) = i /\ p[i] = x /\ p \in Prefixes(h)
    BY <2>2, <2>3, <2>4, Cut DEF Prefixes
  <2> HIDE DEF p
  <2>6. x \in ToSet(p) /\ Last(p) = x
    BY <2>3, <2>4, <2>5 DEF ToSet, Last
  <2>7. CASE IsPrefix(p, tracking)
    <3>1. IsPrefix(p, trunk)
      BY <2>2, <2>5, <2>7, PrefixThrough
    <3>2. x \in ToSet(trunk)
      BY <2>2, <2>5, <2>6, <3>1, PrefixChanges
    <3>3. QED BY <2>1, <3>2 DEF Contents
  <2>8. CASE ~IsPrefix(p, tracking)
    <3>1. p \in Unpushed(s)
      BY <2>5, <2>8 DEF Unpushed, h
    <3>2. p \in DOMAIN Recovered
      BY <3>1, RecoveredIs
    <3>3. QED BY <2>1, <2>6, <3>2 DEF Lasts
  <2>9. QED BY <2>7, <2>8
<1>2. QED BY <1>1, RecoveredIs

LEMMA StartupKept == ASSUME Shape, Shape', Kept, Startup PROVE Kept'
<1> USE DEF Kept
<1>1. /\ dpc = "down" /\ wpc = "down" /\ dpc' = "idle"
      /\ UNCHANGED <<trunk, branch, head, replay, pending, committed, declined>>
      /\ \/ queue' = Recovered /\ orphaned' = {}
         \/ UNCHANGED <<queue, orphaned>>
  BY DEF Startup, git, Shape, Stages
<1>2. \A s \in Sessions : replay[s].state = "none" /\ head[s] = branch[s]
  BY <1>1 DEF Replays
<1>3. Replays'
  BY <1>1, <1>2 DEF Replays
<1>4. Removing'
  BY <1>1 DEF Removing
<1>5. CASE queue' = Recovered /\ orphaned' = {}
  <2>1. ASSUME NEW c \in DOMAIN queue' PROVE Queues(c, branch[queue'[c].session], trunk)
    <3>1. CASE c \in DOMAIN queue /\ Recovered[c] = queue[c]
      BY <1>5, <3>1 DEF Entries
    <3>2. CASE \E s \in Sessions : c \in Unpushed(s) /\ Recovered[c] = NewEntry(s, FALSE)
      <4>1. PICK s \in Sessions : c \in Unpushed(s) /\ Recovered[c] = NewEntry(s, FALSE)
        BY <3>2
      <4>2. queue'[c].session = s
        BY <1>5, <4>1 DEF NewEntry
      <4>3. c \in Histories /\ c # <<>> /\ IsPrefix(c, branch[s]) /\ branch[s] \in Histories
        BY <1>2, <4>1, UnpushedAre, Histories1 DEF OwnLast
      <4>4. QED BY <4>2, <4>3, QueuesItself
    <3>3. QED BY <1>5, <2>1, <3>1, <3>2, RecoveredIs
  <2>2. Entries'
    BY <1>1, <2>1 DEF Entries
  <2>3. /\ Lying \subseteq Contents(trunk) \cup Lasts(DOMAIN queue')
        /\ DOMAIN queue \subseteq DOMAIN queue'
    BY <1>2, <1>5, RecoveredCovers
  <2>4. Covered'
    <3>1. Lasts(DOMAIN queue) \subseteq Lasts(DOMAIN queue')
      BY <2>3 DEF Lasts
    <3>2. Elsewhere \subseteq Elsewhere' \cup Lasts(DOMAIN queue')
      BY <1>1, <2>3 DEF Elsewhere
    <3>3. QED BY <1>1, <3>1, <3>2 DEF Covered
  <2>5. QED BY <1>3, <1>4, <2>2, <2>4
<1>6. CASE UNCHANGED <<queue, orphaned>>
  <2>1. Entries'
    BY <1>1, <1>6 DEF Entries
  <2>2. Lying' = Lying
    BY <1>1, <1>6 DEF Lying
  <2>3. Elsewhere' = Elsewhere
    BY <1>1, <2>2 DEF Elsewhere
  <2>4. Covered'
    BY <1>1, <1>6, <2>3 DEF Covered
  <2>5. QED BY <1>3, <1>4, <2>1, <2>4
<1>7. QED BY <1>1, <1>5, <1>6

\* Whatever is kept, is kept where only claims change.
LEMMA ClaimKept ==
    ASSUME Kept, (\E s \in Sessions : ClaimLeft(s)) \/ \E name \in held : ClaimClosed(name)
    PROVE  Kept'
<1>1. UNCHANGED <<trunk, branch, head, replay, queue, pending, dpc, current, entry, pushing, wpc,
                  job, committed, orphaned, declined>>
  BY DEF ClaimLeft, ClaimClosed, git, drain, writer, history
<1>2. Lying' = Lying /\ NotRemade' = NotRemade
  BY <1>1 DEF Lying, NotRemade
<1>3. Elsewhere' = Elsewhere
  BY <1>1, <1>2 DEF Elsewhere
<1>4. Replays' /\ Entries'
  BY <1>1 DEF Kept, Replays, Entries
<1>5. Removing' /\ Covered'
  BY <1>1, <1>2, <1>3 DEF Kept, Removing, Covered
<1>6. QED BY <1>4, <1>5 DEF Kept

LEMMA StutterKept == ASSUME Kept, UNCHANGED vars PROVE Kept'
<1>1. UNCHANGED <<trunk, branch, head, replay, queue, pending, dpc, current, entry, pushing, wpc,
                  job, committed, orphaned, declined>>
  BY DEF vars, git, drain, writer, history
<1>2. Lying' = Lying /\ NotRemade' = NotRemade
  BY <1>1 DEF Lying, NotRemade
<1>3. Elsewhere' = Elsewhere
  BY <1>1, <1>2 DEF Elsewhere
<1>4. Replays' /\ Entries'
  BY <1>1 DEF Kept, Replays, Entries
<1>5. Removing' /\ Covered'
  BY <1>1, <1>2, <1>3 DEF Kept, Removing, Covered
<1>6. QED BY <1>4, <1>5 DEF Kept

LEMMA StepKept ==
    ASSUME Shape, Shape', Kept, torn' = {}, [Next]_vars PROVE Kept'
<1>1. CASE \E sha \in DOMAIN queue : PushStart(sha)
  BY <1>1, PushStartKept
<1>2. CASE \E w \in Writes, cas \in BOOLEAN : Write(w, cas)
  BY <1>2, WriteKept
<1>3. CASE Draining
  <2>1. ~RebaseKilled
    BY DEF RebaseKilled
  <2>2. QED BY <1>3, <2>1, PushAcceptedKept, PushRejectedKept, ContentionKept, PushFailsKept,
         DrainFailsKept, RefreshFetchKept, RebaseEndsKept, PushAgainKept, DemoteKept,
         RemoveEntryKept, RecordRetryKept DEF Draining
<1>4. CASE Writing
  <2>1. ~WriterRebaseKilled
    BY DEF WriterRebaseKilled
  <2>2. QED BY <1>4, <2>1, WriterRefreshFailsKept, WriterFetchKept, WriterRebaseEndsKept,
         WriterReturnsKept, GitCommitKept, EnqueueKept DEF Writing
<1>5. CASE Operating
  BY <1>5, WriteKept, RejectDemotedKept, EntryEditedKept DEF Operating
<1>6. CASE (\E f \in Foreign : ForeignPush(f)) \/ Pull \/ Crash \/ Startup
  BY <1>6, TrunkMovesKept, CrashKept, StartupKept
<1>7. CASE UNCHANGED vars
  BY <1>7, StutterKept
<1>8. CASE (\E s \in Sessions : ClaimLeft(s)) \/ \E name \in held : ClaimClosed(name)
  BY <1>8, ClaimKept
<1>9. QED BY <1>1, <1>2, <1>3, <1>4, <1>5, <1>6, <1>7, <1>8 DEF Next

----------------------------------------------------------------------------
(* The theorems.                                                             *)

LEMMA InitIInv == Init => IInv
<1> SUFFICES ASSUME Init PROVE IInv
  OBVIOUS
<1> USE DEF Init
<1>1. <<>> \in Seq(used) /\ <<>> \in Histories /\ DOMAIN <<>> = {} /\ IsPrefix(<<>>, <<>>)
  BY DEF Histories, IsPrefix
<1>2. \A s \in Sessions : /\ branch[s] = <<>> /\ head[s] = <<>>
                          /\ replay[s] = NoReplay /\ NoReplay.to = <<>> /\ NoReplay.state = "none"
  BY DEF NoReplay
<1>3. TypeOK
  <2>1. NoReplay \in Replay
    BY <1>1 DEF NoReplay, Replay
  <2>2. QED BY <1>1, <2>1 DEF TypeOK
<1>4. Made
  BY <1>1, <1>2 DEF Made
<1>5. Known
  <2>1. \A t : ForeignFrom(<<>>, t)
    BY ForeignEmpty
  <2>2. QED BY <1>1, <1>2, <2>1 DEF Known
<1>6. Stages
  BY DEF Stages
<1>7. Replays
  BY <1>2 DEF Replays
<1>8. Entries
  BY <1>1 DEF Entries
<1>9. Removing /\ Covered
  BY DEF Removing, Covered
<1>10. QED BY <1>3, <1>4, <1>5, <1>6, <1>7, <1>8, <1>9 DEF IInv, Shape, Kept

\* A worktree once torn stays so.
LEMMA TornStays == ASSUME [Next]_vars PROVE torn \subseteq torn'
<1>1. CASE \E sha \in DOMAIN queue : PushStart(sha)
  BY <1>1 DEF PushStart
<1>2. CASE \E w \in Writes, cas \in BOOLEAN : Write(w, cas)
  BY <1>2 DEF Write, history
<1>3. CASE Draining
  <2>1. CASE PushAccepted \/ PushRejected \/ Contention \/ PushFails
    BY <2>1 DEF PushAccepted, PushRejected, Contention, PushFails, history
  <2>2. CASE RefreshDeferred \/ RefreshFetchFails \/ RefreshFetch \/ RebaseEnds
    BY <2>2 DEF RefreshDeferred, RefreshFetchFails, RefreshFetch, RebaseEnds, history
  <2>3. CASE RebaseKilled \/ PushAgain
    BY <2>3 DEF RebaseKilled, PushAgain
  <2>4. CASE Demote \/ DemoteFails \/ RemoveEntry \/ RecordRetry \/ EntryFileFails
    BY <2>4 DEF Demote, DemoteFails, RemoveEntry, RecordRetry, EntryFileFails, history
  <2>5. QED BY <1>3, <2>1, <2>2, <2>3, <2>4 DEF Draining
<1>4. CASE Writing
  <2>1. CASE WriterRefreshFails \/ WriterFetch \/ WriterRebaseEnds \/ WriterRebaseKilled
    BY <2>1 DEF WriterRefreshFails, WriterFetch, WriterRebaseEnds, WriterRebaseKilled, history
  <2>2. CASE ApprovalStale \/ WriteDeclined \/ GitCommit \/ Enqueue \/ EnqueueFails
    BY <2>2 DEF ApprovalStale, WriteDeclined, GitCommit, Enqueue, EnqueueFails, history
  <2>3. QED BY <1>4, <2>1, <2>2 DEF Writing
<1>5. CASE Operating
  BY <1>5 DEF Operating, Approve, RejectDemoted, Requeue, Drop, history
<1>6. CASE (\E f \in Foreign : ForeignPush(f)) \/ Pull \/ Crash \/ Startup
  BY <1>6 DEF ForeignPush, Pull, Crash, Startup, history
<1>7. CASE UNCHANGED vars
  BY <1>7 DEF vars, history
<1>8. CASE (\E s \in Sessions : ClaimLeft(s)) \/ \E name \in held : ClaimClosed(name)
  BY <1>8 DEF ClaimLeft, ClaimClosed, history
<1>9. QED BY <1>1, <1>2, <1>3, <1>4, <1>5, <1>6, <1>7, <1>8 DEF Next

LEMMA StepIInv == IInv /\ [Next]_vars => IInv'
<1> SUFFICES ASSUME IInv, [Next]_vars PROVE IInv'
  OBVIOUS
<1>1. Shape'
  BY StepShape DEF IInv
<1>2. ASSUME torn' = {} PROVE Kept'
  <2>1. torn = {}
    BY <1>2, TornStays
  <2>2. QED BY <1>1, <1>2, <2>1, StepKept DEF IInv
<1>3. QED BY <1>1, <1>2 DEF IInv

LEMMA NothingForgottenByIInv == IInv => NoWriteForgottenUnlessTorn
<1> SUFFICES ASSUME IInv, torn = {}, NEW x \in committed
             PROVE  LET w == Content(x) IN
                    Published(w) \/ Queued(w) \/ Parked(w) \/ w \in declined \/ Recoverable(w)
  BY DEF NoWriteForgottenUnlessTorn, NoWriteForgotten
<1> DEFINE w == Content(x)
<1>1. w \in Elsewhere \cup Lasts(DOMAIN queue)
  BY DEF IInv, Kept, Covered
<1> HIDE DEF w
<1>2. CASE w \in Contents(trunk)
  BY <1>2 DEF Contents, Published, w
<1>3. CASE w \in Lasts({e.sha : e \in pending})
  BY <1>3 DEF Lasts, Parked, w
<1>4. CASE w \in declined
  BY <1>4 DEF w
<1>5. CASE w \in Lying
  <2>1. PICK y \in orphaned, s \in Sessions : w = Content(y) /\ y \in ToSet(branch[s])
    BY <1>5 DEF Lying
  <2>2. QED BY <2>1 DEF Recoverable, w
<1>6. CASE w \in Lasts(DOMAIN queue)
  BY <1>6 DEF Lasts, Queued, w
<1>7. QED BY <1>1, <1>2, <1>3, <1>4, <1>5, <1>6 DEF Elsewhere

\* The invariant behind both theorems below, whatever crashes, times out, is
\* deferred or races: the drain, the writer and the recovery agree on what each
\* of them has in hand, and as long as no rebase is cut short every queue entry
\* stands for a commit its session's branch still carries (push_queue.py,
\* git_ops.py, refresh.py).
THEOREM Invariance == Spec => []IInv
BY InitIInv, StepIInv, PTL DEF Spec

\* Types: in particular a queue file always names a non-empty commit and holds a
\* complete entry, which drain reads back (push_queue.py).
THEOREM TypeCorrect == Spec => []TypeOK
<1>1. IInv => TypeOK
  BY DEF IInv, Shape
<1>2. QED BY <1>1, Invariance, PTL

\* A write that was committed is published, queued, parked for the operator, given
\* up by the operator, or waits on its worktree for the startup recovery, unless a
\* rebase was killed or pushed half-done: the promise of docs/serving.md about a
\* commit that returned "committed", across rebases, demotions, approvals, retries
\* and crashes (_commit_in_worktree, PushQueue.drain, init_recovery).
THEOREM NothingForgotten == Spec => []NoWriteForgottenUnlessTorn
BY Invariance, NothingForgottenByIInv, PTL

================================================================================
