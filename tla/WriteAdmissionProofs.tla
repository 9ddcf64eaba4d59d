------------------------- MODULE WriteAdmissionProofs -------------------------
(* Proofs about WriteAdmission, for every set of sessions, paths and ids and   *)
(* any bound: what a rebase of any number of commits leaves, the inductive     *)
(* invariant IInv, and the two safety properties it implies.                   *)
EXTENDS WriteAdmission, WellFoundedInduction, TLAPS

\* Induction over the naturals, for a set.
LEMMA SetInduction ==
    ASSUME NEW S, 0 \in S, \A n \in Nat : n \in S => n + 1 \in S
    PROVE  Nat \subseteq S
<1> DEFINE T == Nat \ S
           R == {ss \in Nat \X Nat : ss[1] < ss[2]}
<1>1. SUFFICES ASSUME T # {} PROVE FALSE
  OBVIOUS
<1>2. IsWellFoundedOn(R, Nat)
  BY NatLessThanWellFounded DEF OpToRel
<1>3. PICK x \in T : \A y \in T : ~(<<y, x>> \in R)
  <2> HIDE DEF R
  <2>1. QED BY <1>1, <1>2, WFMin
<1>4. x - 1 \in Nat /\ x - 1 < x /\ (x - 1) + 1 = x
  OBVIOUS
<1>5. x - 1 \notin T
  BY <1>3, <1>4
<1>6. QED BY <1>4, <1>5

\* The function a replay is defined by.
ReplaySteps(f, commits, t) ==
    f = [n \in 0..Len(commits) |->
            IF n = 0 THEN [tree |-> t, commits |-> <<>>, lifted |-> {}]
            ELSE Picked(f[n - 1], commits[n])]

\* There is one, for as many commits as one likes.
LEMMA ReplayExists ==
    ASSUME NEW commits, Len(commits) \in Nat, NEW t
    PROVE  \E f : ReplaySteps(f, commits, t)
<1> DEFINE Upto(f, m) == f = [n \in 0..m |->
                IF n = 0 THEN [tree |-> t, commits |-> <<>>, lifted |-> {}]
                ELSE Picked(f[n - 1], commits[n])]
           S == {m \in Nat : \E f : Upto(f, m)}
<1>1. 0 \in S
  <2> DEFINE f == [n \in 0..0 |-> [tree |-> t, commits |-> <<>>, lifted |-> {}]]
  <2>1. Upto(f, 0)
    OBVIOUS
  <2>2. QED BY <2>1
<1>2. ASSUME NEW m \in Nat, m \in S
      PROVE  m + 1 \in S
  <2>1. PICK f : Upto(f, m)
    BY <1>2
  <2> DEFINE g == [n \in 0..(m + 1) |-> IF n <= m THEN f[n] ELSE Picked(f[m], commits[n])]
  <2>2. /\ 0..(m + 1) = (0..m) \cup {m + 1} /\ m + 1 \notin 0..m /\ m \in 0..m
        /\ \A n \in 0..m : n <= m /\ (n # 0 => n - 1 \in 0..m)
        /\ m + 1 # 0 /\ (m + 1) - 1 = m /\ ~(m + 1 <= m)
    OBVIOUS
  <2>3. \A n \in 0..m : g[n] = f[n]
    BY <2>2
  <2>4. g[m + 1] = Picked(f[m], commits[m + 1])
    BY <2>2
  <2>5. \A n \in 0..m : f[n] = IF n = 0 THEN [tree |-> t, commits |-> <<>>, lifted |-> {}]
                               ELSE Picked(f[n - 1], commits[n])
    BY <2>1
  <2>6. ASSUME NEW n \in 0..(m + 1)
        PROVE  g[n] = IF n = 0 THEN [tree |-> t, commits |-> <<>>, lifted |-> {}]
                      ELSE Picked(g[n - 1], commits[n])
    <3> HIDE DEF g
    <3>1. CASE n \in 0..m
      BY <2>2, <2>3, <2>5, <3>1
    <3>2. CASE n = m + 1
      BY <2>2, <2>3, <2>4, <3>2
    <3>3. QED BY <2>2, <3>1, <3>2
  <2>7. g = [n \in 0..(m + 1) |-> g[n]]
    BY Zenon
  <2>8. Upto(g, m + 1)
    <3> HIDE DEF g
    <3>1. QED BY <2>6, <2>7, Zenon
  <2>9. QED
    <3> HIDE DEF g, Upto
    <3>1. QED BY <2>8
<1>3. Nat \subseteq S
  <2> HIDE DEF S
  <2>1. QED BY <1>1, <1>2, SetInduction
<1>4. QED BY <1>3 DEF ReplaySteps

\* A replay is the last of its steps.
LEMMA ReplayUnfolds ==
    ASSUME NEW commits, Len(commits) \in Nat, NEW t
    PROVE  \E f : ReplaySteps(f, commits, t) /\ Replay(commits, t) = f[Len(commits)]
<1> DEFINE f == CHOOSE f : ReplaySteps(f, commits, t)
<1>1. ReplaySteps(f, commits, t)
  BY ReplayExists
<1>2. Replay(commits, t) = f[Len(commits)]
  BY DEF Replay, ReplaySteps
<1>3. QED BY <1>1, <1>2

----------------------------------------------------------------------------
(* The inductive invariant. A text is settled when it is out of every hand: no *)
(* session's call and no pending proposal carries it.                          *)

Change == [path : Paths, from : Doc \cup {Nil}, post : Doc]
Proposal == [session : Sessions, path : Paths, post : Doc, auto : BOOLEAN, flaw : Flaws,
             names : Ids \cup {Nil}, marker : Doc \cup {Nil}, clashed : BOOLEAN]
Tree == [Paths -> Doc \cup {Nil}]

TypeOK ==
    /\ trunk \in Tree /\ index \in Tree /\ base \in [Sessions -> Tree]
    /\ branch \in [Sessions -> Seq(Change)]
    /\ call \in [Sessions -> Proposal \cup {Nil}]
    /\ parked \in [Paths -> Proposal \cup {Nil}]
    /\ proposals \in Nat /\ upstream \in Nat
    /\ reviewed \subseteq Nat /\ lifted \subseteq Nat /\ slipped \subseteq Nat

Settled ==
    {n \in 0..proposals :
        /\ \A s \in Sessions : call[s] # Nil => call[s].post.text # n
        /\ \A p \in Paths : parked[p] # Nil => parked[p].post.text # n}

Seen == reviewed \cup lifted \cup slipped

\* Trees of texts in T; the commits that change texts of T to others of T, and
\* whose documents in force have a text in X.
Trees(T) == {t \in Tree : \A p \in Paths : t[p] # Nil => t[p].text \in T}
Changes(T, X) ==
    {c \in Change :
        /\ c.post.text \in T
        /\ (c.from # Nil => c.from.text \in T /\ c.from.text # c.post.text)
        /\ (c.path \notin Inbox /\ c.post.status = "accepted" => c.post.text \in X)}

\* Every proposal in hand has a text of its own.
TextsApart ==
    /\ \A s \in Sessions : call[s] # Nil => call[s].post.text \in 1..proposals
    /\ \A p \in Paths : parked[p] # Nil => parked[p].post.text \in 1..proposals
    /\ \A s1, s2 \in Sessions : s1 # s2 /\ call[s1] # Nil /\ call[s2] # Nil
            => call[s1].post.text # call[s2].post.text
    /\ \A p1, p2 \in Paths : p1 # p2 /\ parked[p1] # Nil /\ parked[p2] # Nil
            => parked[p1].post.text # parked[p2].post.text
    /\ \A s \in Sessions, p \in Paths : call[s] # Nil /\ parked[p] # Nil
            => call[s].post.text # parked[p].post.text

\* Git holds settled texts.
GitSettled ==
    /\ trunk \in Trees(Settled)
    /\ \A s \in Sessions : base[s] \in Trees(Settled) /\ branch[s] \in Seq(Changes(Settled, Seen))

\* A call to bring a document in force has something that the commit will reject,
\* or an id that clashed.
CallsWarned ==
    \A s \in Sessions :
        call[s] # Nil /\ call[s].path \notin Inbox /\ call[s].post.status = "accepted"
            => call[s].flaw \in {"secret", "malformed"} \/ call[s].clashed

IInv ==
    /\ TypeOK /\ TextsApart /\ GitSettled /\ CallsWarned
    /\ GoverningReviewed /\ RejectedBeforeDemoted

----------------------------------------------------------------------------
(* What a replay leaves, when it is of such commits and on such a tree.        *)

LEMMA MergedText ==
    ASSUME NEW from \in Doc \cup {Nil}, NEW post \in Doc, NEW onto \in Doc \cup {Nil},
           from # Nil => from.text # post.text,
           NEW new \in Merged(from, post, onto)
    PROVE  new \in Doc /\ new.text = post.text /\ (onto # Nil => onto.text # new.text)
<1>1. CASE from = onto
  BY <1>1 DEF Merged
<1>2. CASE from # onto
  <2>1. from \in Doc /\ onto \in Doc /\ from # Nil /\ onto # Nil
    BY <1>2 DEF Merged
  <2>2. DOMAIN from = {"id", "status", "text"}
    BY <2>1 DEF Doc
  <2>3. /\ \A k \in {"id", "status", "text"} : from[k] = post[k] \/ from[k] = onto[k]
        /\ new = [k \in {"id", "status", "text"} |-> IF from[k] = post[k] THEN onto[k] ELSE post[k]]
    BY <1>2, <2>1, <2>2 DEF Merged
  <2>4. new = [id |-> new.id, status |-> new.status, text |-> new.text]
    BY <2>3
  <2>5. new.text = post.text /\ onto.text = from.text
    BY <2>1, <2>3
  <2>6. new.id \in Ids /\ new.status \in {"proposed", "accepted"} /\ new.text \in Nat
    BY <2>1, <2>3 DEF Doc
  <2>7. new \in Doc
    BY <2>4, <2>6 DEF Doc
  <2>8. QED BY <2>1, <2>5, <2>7
<1>3. QED BY <1>1, <1>2

\* A replay so far, of changes in T and X: what it lifted, it has recorded.
Fine(acc, T, X) ==
    /\ acc \in [tree : Trees(T), commits : Seq(Change) \cup {Nil}, lifted : SUBSET T]
    /\ \A p \in Paths : InForce(acc.tree, p) => acc.tree[p].text \in X \cup acc.lifted
    /\ acc.commits # Nil => acc.commits \in Seq(Changes(T, X \cup acc.lifted))

\* More texts, more changes.
LEMMA MoreChanges ==
    ASSUME NEW T, NEW X, NEW T2, NEW X2, T \subseteq T2, X \subseteq X2
    PROVE  /\ Trees(T) \subseteq Trees(T2)
           /\ Changes(T, X) \subseteq Changes(T2, X2)
           /\ Seq(Changes(T, X)) \subseteq Seq(Changes(T2, X2))
<1>1. Trees(T) \subseteq Trees(T2) /\ Changes(T, X) \subseteq Changes(T2, X2)
  BY DEF Trees, Changes
<1>2. ASSUME NEW C, NEW C2, C \subseteq C2 PROVE Seq(C) \subseteq Seq(C2)
  BY <1>2
<1>3. QED BY <1>1, <1>2

LEMMA PickedFine ==
    ASSUME NEW T \in SUBSET Nat, NEW X, NEW acc, Fine(acc, T, X), NEW c \in Changes(T, X)
    PROVE  Fine(Picked(acc, c), T, X)
<1> DEFINE onto == acc.tree[c.path]
           new == CHOOSE d \in Merged(c.from, c.post, onto) : TRUE
           up == IF new.status = "accepted" /\ c.post.status # "accepted" THEN {new.text} ELSE {}
           nc == [path |-> c.path, from |-> onto, post |-> new]
           L == acc.lifted \cup up
           done == [tree |-> [acc.tree EXCEPT ![c.path] = new],
                    commits |-> Append(acc.commits, nc), lifted |-> L]
<1>1. CASE acc.commits = Nil \/ Merged(c.from, c.post, onto) = {}
  <2>1. Picked(acc, c) = [acc EXCEPT !.commits = Nil]
    BY <1>1 DEF Picked
  <2>2. QED BY <2>1 DEF Fine
<1>2. CASE acc.commits # Nil /\ Merged(c.from, c.post, onto) # {}
  <2>1. Picked(acc, c) = done
    BY <1>2 DEF Picked
  <2>2. /\ c.path \in Paths /\ c.from \in Doc \cup {Nil} /\ c.post \in Doc
        /\ c.from # Nil => c.from.text # c.post.text
        /\ c.post.text \in T
        /\ c.path \notin Inbox /\ c.post.status = "accepted" => c.post.text \in X
    BY DEF Changes, Change
  <2>3. /\ acc.tree \in Tree /\ onto \in Doc \cup {Nil} /\ (onto # Nil => onto.text \in T)
        /\ \A p \in Paths : acc.tree[p] # Nil => acc.tree[p].text \in T
    BY <2>2 DEF Fine, Trees, Tree
  <2>4. new \in Merged(c.from, c.post, onto)
    BY <1>2
  <2>5. new \in Doc /\ new.text = c.post.text /\ (onto # Nil => onto.text # new.text)
    <3> HIDE DEF new, onto
    <3>1. QED BY <2>2, <2>3, <2>4, MergedText
  <2>6. new.text \in T /\ up \subseteq T /\ L \subseteq T
    BY <2>2, <2>5 DEF Fine
  <2>7. c.path \notin Inbox /\ new.status = "accepted" => new.text \in X \cup L
    BY <2>2, <2>5
  <2>8. nc \in Changes(T, X \cup L)
    <3> HIDE DEF new, onto, L
    <3>1. nc \in Change
      BY <2>2, <2>3, <2>5 DEF Change
    <3>2. QED BY <2>2, <2>3, <2>5, <2>6, <2>7, <3>1 DEF Changes
  <2>9. acc.commits \in Seq(Changes(T, X \cup L))
    <3>1. X \cup acc.lifted \subseteq X \cup L
      OBVIOUS
    <3>2. acc.commits \in Seq(Changes(T, X \cup acc.lifted))
      BY <1>2 DEF Fine
    <3>3. Seq(Changes(T, X \cup acc.lifted)) \subseteq Seq(Changes(T, X \cup L))
      <4> HIDE DEF L
      <4>1. QED BY <3>1, MoreChanges
    <3>4. QED BY <3>2, <3>3
  <2>10. Append(acc.commits, nc) \in Seq(Changes(T, X \cup L))
    <3> HIDE DEF nc, L
    <3>1. QED BY <2>8, <2>9
  <2>11. [acc.tree EXCEPT ![c.path] = new] \in Trees(T)
    <3> HIDE DEF new
    <3>1. QED BY <2>2, <2>3, <2>5, <2>6 DEF Trees, Tree
  <2>12. \A p \in Paths : InForce(done.tree, p) => done.tree[p].text \in X \cup L
    <3> HIDE DEF new
    <3>1. QED BY <2>2, <2>3, <2>5, <2>7 DEF InForce, Fine, Tree
  <2>13. Append(acc.commits, nc) \in Seq(Change)
    <3> HIDE DEF nc, L
    <3>1. QED BY <2>10 DEF Changes
  <2>14. QED
    <3> HIDE DEF nc, L, new
    <3>1. done \in [tree : Trees(T), commits : Seq(Change) \cup {Nil}, lifted : SUBSET T]
      BY <2>6, <2>11, <2>13
    <3>2. done.tree = [acc.tree EXCEPT ![c.path] = new] /\ done.lifted = L
          /\ done.commits = Append(acc.commits, nc)
      OBVIOUS
    <3> HIDE DEF done
    <3>3. QED BY <2>1, <2>10, <2>12, <3>1, <3>2 DEF Fine
<1>3. QED BY <1>1, <1>2

LEMMA ReplayFine ==
    ASSUME NEW T \in SUBSET Nat, NEW X, NEW t \in Trees(T),
           \A p \in Paths : InForce(t, p) => t[p].text \in X,
           NEW commits \in Seq(Changes(T, X))
    PROVE  Fine(Replay(commits, t), T, X)
<1>1. PICK f : ReplaySteps(f, commits, t) /\ Replay(commits, t) = f[Len(commits)]
  BY ReplayUnfolds
<1> DEFINE S == {n \in Nat : n <= Len(commits) => Fine(f[n], T, X)}
<1>2. 0 \in S
  <2>1. f[0] = [tree |-> t, commits |-> <<>>, lifted |-> {}]
    BY <1>1 DEF ReplaySteps
  <2>2. /\ f[0] \in [tree : Trees(T), commits : Seq(Change) \cup {Nil}, lifted : SUBSET T]
        /\ f[0].tree = t /\ f[0].commits = <<>>
    BY <2>1
  <2>3. f[0].commits \in Seq(Changes(T, X \cup f[0].lifted))
    BY <2>2
  <2>4. QED BY <2>2, <2>3 DEF Fine
<1>3. ASSUME NEW n \in Nat, n \in S PROVE n + 1 \in S
  <2> SUFFICES ASSUME n + 1 <= Len(commits) PROVE Fine(f[n + 1], T, X)
    OBVIOUS
  <2>1. f[n + 1] = Picked(f[n], commits[n + 1])
    <3>1. n + 1 \in 0..Len(commits) /\ n + 1 # 0 /\ (n + 1) - 1 = n
      OBVIOUS
    <3>2. QED BY <1>1, <3>1 DEF ReplaySteps
  <2>2. commits[n + 1] \in Changes(T, X)
    OBVIOUS
  <2>3. Fine(f[n], T, X)
    BY <1>3
  <2>4. QED BY <2>1, <2>2, <2>3, PickedFine
<1>4. Nat \subseteq S
  <2> HIDE DEF S
  <2>1. QED BY <1>2, <1>3, SetInduction
<1>5. QED BY <1>1, <1>4

----------------------------------------------------------------------------
(* Lemmas for the steps.                                                       *)

\* As texts settle and are seen, what git holds stays good.
LEMMA GitStays ==
    ASSUME GitSettled, Settled \subseteq Settled', Seen \subseteq Seen',
           UNCHANGED <<trunk, base, branch>>
    PROVE  GitSettled'
<1>1. /\ Trees(Settled) \subseteq Trees(Settled')
      /\ Seq(Changes(Settled, Seen)) \subseteq Seq(Changes(Settled', Seen'))
  BY MoreChanges
<1>2. (Trees(Settled))' = Trees(Settled') /\ (Changes(Settled, Seen))' = Changes(Settled', Seen')
  BY DEF Trees, Changes, Tree, Change, Doc
<1>3. QED BY <1>1, <1>2 DEF GitSettled

\* The branch of a session and its tree, refreshed.
LEMMA RefreshedFine ==
    ASSUME IInv, NEW s \in Sessions, NEW reached \in BOOLEAN, NEW r, r = Refreshed(s, reached)
    PROVE  /\ r.base \in Trees(Settled) /\ r.tree \in Trees(Settled)
           /\ r.lifted \subseteq Settled
           /\ r.commits \in Seq(Changes(Settled, Seen \cup r.lifted))
<1> DEFINE new == Replay(branch[s], trunk)
           old == Replay(branch[s], base[s])
<1>1. /\ Settled \in SUBSET Nat /\ trunk \in Trees(Settled) /\ base[s] \in Trees(Settled)
      /\ branch[s] \in Seq(Changes(Settled, Seen))
      /\ \A p \in Paths : InForce(trunk, p) => trunk[p].text \in Seen
  <2>1. Settled \in SUBSET Nat
    BY DEF IInv, TypeOK, Settled
  <2>2. trunk \in Trees(Settled) /\ base[s] \in Trees(Settled) /\ branch[s] \in Seq(Changes(Settled, Seen))
    BY DEF IInv, GitSettled
  <2>3. \A p \in Paths : InForce(trunk, p) => trunk[p].text \in Seen
    BY DEF IInv, GoverningReviewed, Seen
  <2>4. QED BY <2>1, <2>2, <2>3
<1>2. Fine(new, Settled, Seen)
  <2> HIDE DEF Settled, Seen
  <2>1. QED BY <1>1, ReplayFine
<1>3. Fine(old, Settled, Nat)
  <2>1. Seq(Changes(Settled, Seen)) \subseteq Seq(Changes(Settled, Nat))
    <3>1. Seen \subseteq Nat
      BY DEF IInv, TypeOK, Seen
    <3>2. QED BY <3>1, MoreChanges
  <2>2. \A p \in Paths : InForce(base[s], p) => base[s][p].text \in Nat
    BY <1>1 DEF Trees, InForce
  <2>3. QED BY <1>1, <2>1, <2>2, ReplayFine
<1>4. CASE reached /\ new.commits # Nil
  <2>1. /\ r.base = trunk /\ r.tree = new.tree /\ r.commits = new.commits
        /\ r.lifted = new.lifted
    BY <1>4 DEF Refreshed
  <2>2. QED BY <1>1, <1>2, <1>4, <2>1 DEF Fine
<1>5. CASE ~(reached /\ new.commits # Nil)
  <2>1. /\ r.base = base[s] /\ r.tree = old.tree /\ r.commits = branch[s] /\ r.lifted = {}
    BY <1>5 DEF Refreshed
  <2>2. Seen \cup r.lifted = Seen
    BY <2>1
  <2>3. QED BY <1>1, <1>3, <2>1, <2>2 DEF Fine
<1>6. QED BY <1>4, <1>5

\* The write that lands on it.
LEMMA LandsGit ==
    ASSUME IInv, NEW s \in Sessions, NEW reached \in BOOLEAN, NEW r, r = Refreshed(s, reached),
           NEW p \in Proposal, NEW commits \in BOOLEAN, Lands(s, r, p, commits),
           Settled \subseteq Settled', Seen \cup r.lifted \subseteq Seen', Settled' \subseteq Nat,
           commits => /\ p.post.text \in Settled' \ Settled
                      /\ (p.path \notin Inbox /\ p.post.status = "accepted" => p.post.text \in Seen')
    PROVE  /\ GitSettled' /\ lifted' \subseteq Nat
           /\ base' \in [Sessions -> Tree] /\ branch' \in [Sessions -> Seq(Change)]
<1> DEFINE T2 == Settled'
           X2 == Seen'
           nc == [path |-> p.path, from |-> r.tree[p.path], post |-> p.post]
<1>1. /\ r.base \in Trees(Settled) /\ r.tree \in Trees(Settled) /\ r.lifted \subseteq Settled
      /\ r.commits \in Seq(Changes(Settled, Seen \cup r.lifted))
  BY RefreshedFine
<1>2. /\ Trees(Settled) \subseteq Trees(T2)
      /\ Seq(Changes(Settled, Seen)) \subseteq Seq(Changes(T2, X2))
      /\ Seq(Changes(Settled, Seen \cup r.lifted)) \subseteq Seq(Changes(T2, X2))
  <2>1. Seen \subseteq X2
    OBVIOUS
  <2>2. Settled \subseteq T2 /\ Seen \cup r.lifted \subseteq X2
    OBVIOUS
  <2> HIDE DEF T2, X2
  <2>3. Trees(Settled) \subseteq Trees(T2)
    BY <2>1, <2>2, MoreChanges
  <2>4. Seq(Changes(Settled, Seen)) \subseteq Seq(Changes(T2, X2))
    BY <2>1, <2>2, MoreChanges
  <2>5. Seq(Changes(Settled, Seen \cup r.lifted)) \subseteq Seq(Changes(T2, X2))
    <3> DEFINE X1 == Seen \cup r.lifted
    <3>1. X1 \subseteq X2
      BY <2>2
    <3> HIDE DEF X1
    <3>2. Seq(Changes(Settled, X1)) \subseteq Seq(Changes(T2, X2))
      BY <2>2, <3>1, MoreChanges
    <3>3. QED BY <3>2 DEF X1
  <2>6. QED BY <2>3, <2>4, <2>5
<1>3. (Trees(Settled))' = Trees(T2) /\ (Changes(Settled, Seen))' = Changes(T2, X2)
  BY DEF Trees, Changes, Tree, Change, Doc
<1>4. commits => nc \in Changes(T2, X2)
  <2> SUFFICES ASSUME commits PROVE nc \in Changes(T2, X2)
    OBVIOUS
  <2> HIDE DEF T2, X2
  <2>1. p.path \in Paths /\ p.post \in Doc
    BY DEF Proposal
  <2>2. /\ r.tree[p.path] \in Doc \cup {Nil}
        /\ r.tree[p.path] # Nil => r.tree[p.path].text \in Settled
    BY <1>1, <2>1 DEF Trees, Tree
  <2>3. /\ p.post.text \in T2 /\ p.post.text \notin Settled
        /\ p.path \notin Inbox /\ p.post.status = "accepted" => p.post.text \in X2
    BY DEF T2, X2
  <2>4. r.tree[p.path] # Nil => r.tree[p.path].text \in T2 /\ r.tree[p.path].text # p.post.text
    BY <2>2, <2>3 DEF T2
  <2>5. QED BY <2>1, <2>2, <2>3, <2>4 DEF Changes, Change
<1>5. branch'[s] \in Seq(Changes(T2, X2)) /\ base'[s] \in Trees(T2)
  <2> HIDE DEF T2, X2, nc
  <2>1. r.commits \in Seq(Changes(T2, X2)) /\ r.base \in Trees(T2)
    BY <1>1, <1>2
  <2>2. /\ branch'[s] = IF commits THEN Append(r.commits, nc) ELSE r.commits
        /\ base'[s] = r.base
    BY DEF Lands, nc, IInv, TypeOK
  <2>3. QED BY <1>4, <2>1, <2>2
<1>6. ASSUME NEW q \in Sessions, q # s
      PROVE  branch'[q] \in Seq(Changes(T2, X2)) /\ base'[q] \in Trees(T2)
  <2>1. branch'[q] = branch[q] /\ base'[q] = base[q]
    BY <1>6 DEF Lands, IInv, TypeOK
  <2>2. QED BY <1>2, <2>1 DEF IInv, GitSettled
<1>7. trunk' \in Trees(T2)
  BY <1>2 DEF Lands, IInv, GitSettled
<1>8. GitSettled'
  <2> HIDE DEF T2, X2
  <2>1. QED BY <1>3, <1>5, <1>6, <1>7 DEF GitSettled
<1>9. lifted' \subseteq Nat
  BY <1>1 DEF Lands, Settled, IInv, TypeOK
<1>10. Seq(Changes(T2, X2)) \subseteq Seq(Change) /\ Trees(T2) \subseteq Tree
  BY DEF Changes, Trees
<1>11. base' \in [Sessions -> Tree] /\ branch' \in [Sessions -> Seq(Change)]
  <2>1. /\ \A q \in Sessions : base'[q] \in Tree /\ branch'[q] \in Seq(Change)
        /\ DOMAIN base' = Sessions /\ DOMAIN branch' = Sessions
        /\ base' = [q \in Sessions |-> base'[q]] /\ branch' = [q \in Sessions |-> branch'[q]]
    BY <1>5, <1>6, <1>10 DEF Lands, IInv, TypeOK
  <2>2. QED BY <2>1
<1>12. QED BY <1>8, <1>9, <1>11

----------------------------------------------------------------------------
(* The steps: a proposal.                                                      *)

\* What rejects a proposal in the early check, and what the commit passes.
LEMMA CheckedFlaws ==
    ASSUME NEW p \in Proposal, NEW readable \in BOOLEAN, NEW excluded \in BOOLEAN, p.auto
    PROVE  /\ _governed_lane_check(p, readable, excluded) = "none" /\ p.post.status = "accepted"
                => p.flaw \in {"secret", "malformed"} \/ (readable /\ Collides(p, index))
           /\ _governed_lane_check(p, readable, excluded) # "none"
                => p.flaw \in {"none", "wording"}
<1> DEFINE indexed == IF readable THEN index ELSE Nil
           faults == validate_postimage(p, indexed, Nil) \ SNAPSHOT_DEPENDENT_CODES
<1>1. _supersession_errors(p, Nil) \subseteq SNAPSHOT_DEPENDENT_CODES
  BY DEF _supersession_errors, SNAPSHOT_DEPENDENT_CODES
<1>2. p.flaw = "malformed" => faults # {}
  BY DEF validate_postimage, SNAPSHOT_DEPENDENT_CODES
<1>3. faults # {} => p.flaw = "malformed" \/ (readable /\ Collides(p, index))
  <2>1. SUFFICES ASSUME faults # {}, p.flaw # "malformed" PROVE readable /\ Collides(p, index)
    OBVIOUS
  <2>2. \E docs \in {indexed, Nil} : docs # Nil /\ Collides(p, docs)
    BY <1>1, <2>1 DEF validate_postimage
  <2>3. QED BY <2>2
<1>4. evaluate_governed_lane(p, readable, excluded) = "none" => p.post.status # "accepted"
  BY DEF evaluate_governed_lane, check_status_clamp
<1>5. p.flaw \in Flaws
  BY DEF Proposal
<1>6. _governed_lane_check(p, readable, excluded) =
        IF p.flaw = "secret" \/ faults # {} THEN "none"
        ELSE evaluate_governed_lane(p, readable, excluded)
  BY DEF _governed_lane_check, scan_postimage_for_secrets
<1> HIDE DEF faults
<1>7. QED BY <1>2, <1>3, <1>4, <1>5, <1>6 DEF Flaws

LEMMA PassedFlaws ==
    ASSUME NEW p, NEW ok, NEW tree, NEW snapshot, NEW override,
           Gates(p, ok, tree, snapshot, override) = "passed"
    PROVE  p.flaw \notin {"malformed", "wording"} /\ (~override => p.flaw # "secret")
BY DEF Gates, scan_postimage_for_secrets, _writing_rule_gate, validate_postimage

\* A proposal with a new text, in the session's hand or the queue's or refused.
LEMMA ProposalTaken ==
    ASSUME IInv, NEW s \in Sessions, NEW p \in Proposal, NEW q \in Proposal, q.post = p.post,
           p.post.text = proposals + 1, proposals' = proposals + 1,
           \/ call[s] = Nil /\ call' = [call EXCEPT ![s] = q] /\ UNCHANGED parked
           \/ Parks(p) /\ UNCHANGED call,
           UNCHANGED <<gitVars, index, upstream, history>>
    PROVE  TypeOK' /\ TextsApart' /\ GitSettled' /\ GoverningReviewed'
<1> USE DEF IInv, TypeOK
<1>0. p.path \in Paths
  BY DEF Proposal
<1>1. TypeOK'
  <2>1. call' \in [Sessions -> Proposal \cup {Nil}] /\ parked' \in [Paths -> Proposal \cup {Nil}]
    BY <1>0 DEF Parks
  <2>2. QED BY <2>1 DEF gitVars, history, Tree, Change, Proposal, Doc
<1>2. TextsApart'
  <2>1. CASE call[s] = Nil /\ call' = [call EXCEPT ![s] = q] /\ UNCHANGED parked
    BY <2>1 DEF TextsApart
  <2>2. CASE Parks(p) /\ UNCHANGED call
    <3>1. p.path \in Paths
      BY DEF Proposal
    <3>2. QED BY <2>2, <3>1 DEF TextsApart, Parks
  <2>3. QED BY <2>1, <2>2
<1>3. Settled \subseteq Settled'
  <2>1. p.path \in Paths
    BY DEF Proposal
  <2>2. SUFFICES ASSUME NEW n \in Settled PROVE n \in Settled'
    OBVIOUS
  <2>3. n \in 0..proposals' /\ n # proposals + 1
    BY DEF Settled
  <2>4. \A z \in Sessions : call'[z] # Nil => call'[z].post.text # n
    BY <2>3 DEF Settled
  <2>5. \A z \in Paths : parked'[z] # Nil => parked'[z].post.text # n
    BY <2>1, <2>3 DEF Settled, Parks
  <2>6. QED BY <2>3, <2>4, <2>5 DEF Settled
<1>4. Seen' = Seen
  BY DEF Seen, history
<1>5. GitSettled'
  BY <1>3, <1>4, GitStays DEF gitVars
<1>6. GoverningReviewed'
  BY DEF GoverningReviewed, InForce, gitVars, history
<1>7. QED BY <1>1, <1>2, <1>5, <1>6

LEMMA ProposeEditStep ==
    ASSUME IInv, NEW s \in Sessions, NEW readable \in BOOLEAN, ProposeEdit(s, readable)
    PROVE  IInv'
<1>0. PICK path \in Paths \ Inbox, excluded \in BOOLEAN : \E p \in Edits(s, path) :
        IF p.auto /\ _governed_lane_check(p, readable, excluded) = "none"
        THEN /\ call' = [call EXCEPT ![s] = [p EXCEPT !.clashed = readable /\ Collides(p, index)]]
             /\ UNCHANGED parked
        ELSE Parks(p) /\ UNCHANGED call
  BY DEF ProposeEdit
<1>1. PICK p \in Edits(s, path) :
        IF p.auto /\ _governed_lane_check(p, readable, excluded) = "none"
        THEN /\ call' = [call EXCEPT ![s] = [p EXCEPT !.clashed = readable /\ Collides(p, index)]]
             /\ UNCHANGED parked
        ELSE Parks(p) /\ UNCHANGED call
  BY <1>0
<1> DEFINE q == [p EXCEPT !.clashed = readable /\ Collides(p, index)]
<1>2. p \in Proposal /\ p.path = path /\ p.post.text = proposals + 1
  <2>1. PICK i \in Ids, st \in {"proposed", "accepted"}, a \in BOOLEAN,
             f \in {<<x, Nil>> : x \in Flaws} \cup {<<"none", x>> : x \in Ids}, m \in {Nil, index[path]} :
            p = [session |-> s, path |-> path,
                 post |-> [id |-> i, status |-> st, text |-> proposals + 1],
                 auto |-> a, flaw |-> f[1], names |-> f[2], marker |-> m, clashed |-> FALSE]
    BY DEF Edits
  <2>2. f[1] \in Flaws /\ f[2] \in Ids \cup {Nil}
    BY DEF Flaws
  <2>3. index[path] \in Doc \cup {Nil} /\ proposals + 1 \in Nat
    BY DEF IInv, TypeOK, Tree
  <2>4. [id |-> i, status |-> st, text |-> proposals + 1] \in Doc
    BY <2>3 DEF Doc
  <2>5. QED BY <2>1, <2>2, <2>3, <2>4 DEF Proposal
<1>3. q \in Proposal /\ q.post = p.post /\ q.path = p.path /\ q.flaw = p.flaw
      /\ q.clashed = (readable /\ Collides(p, index))
  BY <1>2 DEF Proposal
<1>4. TypeOK' /\ TextsApart' /\ GitSettled' /\ GoverningReviewed'
  <2> HIDE DEF q
  <2>1. QED BY <1>1, <1>2, <1>3, ProposalTaken DEF ProposeEdit, q
<1>5. CallsWarned' /\ RejectedBeforeDemoted'
  <2>1. CASE p.auto /\ _governed_lane_check(p, readable, excluded) = "none"
    <3>1. call' = [call EXCEPT ![s] = q] /\ UNCHANGED parked
      BY <1>1, <2>1
    <3>2. q.post.status = "accepted" => q.flaw \in {"secret", "malformed"} \/ q.clashed
      BY <1>2, <1>3, <2>1, CheckedFlaws
    <3> HIDE DEF q
    <3>3. QED BY <3>1, <3>2 DEF CallsWarned, RejectedBeforeDemoted, IInv, TypeOK
  <2>2. CASE ~(p.auto /\ _governed_lane_check(p, readable, excluded) = "none")
    <3>1. Parks(p) /\ UNCHANGED call
      BY <1>1, <2>2
    <3>2. p.auto => p.flaw \in {"none", "wording"}
      BY <1>2, <2>2, CheckedFlaws
    <3>3. QED BY <1>2, <3>1, <3>2 DEF CallsWarned, RejectedBeforeDemoted, Parks, IInv, TypeOK
  <2>3. QED BY <2>1, <2>2
<1>6. QED BY <1>4, <1>5 DEF IInv

LEMMA ProposeMemoryStep ==
    ASSUME IInv, NEW s \in Sessions, ProposeMemory(s)
    PROVE  IInv'
<1>1. PICK p \in Memories(s) : IF p.auto THEN call' = [call EXCEPT ![s] = p] /\ UNCHANGED parked
                               ELSE Parks(p) /\ UNCHANGED call
  BY DEF ProposeMemory
<1>2. p \in Proposal /\ p.path \in Inbox /\ p.post.text = proposals + 1
  <2>1. PICK path \in {q \in Inbox : trunk[q] = Nil /\ parked[q] = Nil}, i \in Ids, a \in BOOLEAN,
             f \in Flaws \ {"malformed"} :
            p = [session |-> s, path |-> path, post |-> _render_memory(i),
                 auto |-> a, flaw |-> f, names |-> Nil, marker |-> Nil, clashed |-> FALSE]
    BY DEF Memories
  <2>2. _render_memory(i) \in Doc /\ _render_memory(i).text = proposals + 1
    BY DEF _render_memory, Doc, IInv, TypeOK
  <2>3. QED BY <2>1, <2>2, AdmissionAssumption DEF Proposal
<1>3. TypeOK' /\ TextsApart' /\ GitSettled' /\ GoverningReviewed'
  BY <1>1, <1>2, ProposalTaken DEF ProposeMemory
<1>4. CallsWarned' /\ RejectedBeforeDemoted'
  BY <1>1, <1>2 DEF CallsWarned, RejectedBeforeDemoted, Parks, IInv, TypeOK
<1>5. QED BY <1>3, <1>4 DEF IInv

----------------------------------------------------------------------------
(* The steps: a commit, an approval, and the rest.                             *)

\* A commit of the session's call.
LEMMA CommitStep ==
    ASSUME IInv, NEW s \in Sessions, NEW checked \in BOOLEAN, NEW reached \in BOOLEAN,
           NEW readable \in BOOLEAN, NEW fails \in BOOLEAN,
           Commit(s, checked, reached, readable, fails)
    PROVE  IInv'
<1> DEFINE p == call[s]
           r == Refreshed(s, reached)
           passed == Gates(p, r.ok, r.tree, CommitSnapshot(r, readable), FALSE) = "passed"
           governed == checked /\ InForce(r.tree, p.path)
           lands == passed /\ ~governed /\ ~fails
<1>1. /\ p # Nil /\ parked[p.path] = Nil
      /\ Lands(s, r, p, lands)
      /\ IF passed /\ governed THEN Parks(p) ELSE UNCHANGED parked
      /\ slipped' = IF passed /\ ~governed /\ p.clashed THEN slipped \cup {p.post.text} ELSE slipped
      /\ call' = [call EXCEPT ![s] = Nil]
      /\ UNCHANGED <<index, proposals, upstream, reviewed>>
  BY DEF Commit
<1>2. p \in Proposal /\ p.path \in Paths /\ p.post.text \in 1..proposals
  BY <1>1 DEF IInv, TypeOK, Proposal, TextsApart
<1>3. passed => p.flaw = "none"
  <2>1. p.flaw \in Flaws
    BY <1>2 DEF Proposal
  <2>2. passed => p.flaw \notin {"malformed", "wording"} /\ (~FALSE => p.flaw # "secret")
    <3> HIDE DEF p, r
    <3>1. QED BY PassedFlaws
  <2>3. QED BY <2>1, <2>2 DEF Flaws
<1> HIDE DEF passed, governed
<1>4. \/ UNCHANGED parked
      \/ passed /\ governed /\ parked' = [parked EXCEPT ![p.path] = p]
  BY <1>1 DEF Parks
<1>5. Settled \subseteq Settled' /\ Settled' \subseteq Nat
  <2>0. proposals' = proposals /\ Settled' \subseteq Nat
    BY <1>1 DEF Settled, IInv, TypeOK
  <2> SUFFICES ASSUME NEW n \in Settled PROVE n \in Settled'
    BY <2>0
  <2>1. n \in 0..proposals' /\ n # p.post.text
    BY <1>1, <2>0 DEF Settled
  <2>2. \A z \in Sessions : call'[z] # Nil => call'[z].post.text # n
    BY <1>1 DEF Settled, IInv, TypeOK
  <2>3. \A z \in Paths : parked'[z] # Nil => parked'[z].post.text # n
    BY <1>2, <1>4, <2>1 DEF Settled, IInv, TypeOK
  <2>4. QED BY <2>1, <2>2, <2>3 DEF Settled
<1>6. p.post.text \notin Settled
  BY <1>1 DEF Settled
<1>7. lands => p.post.text \in Settled'
  <2> SUFFICES ASSUME lands PROVE p.post.text \in Settled'
    OBVIOUS
  <2>1. UNCHANGED parked
    BY <1>1
  <2>2. \A z \in Sessions : call'[z] # Nil => call'[z].post.text # p.post.text
    BY <1>1 DEF TextsApart, IInv, TypeOK
  <2>3. \A z \in Paths : parked'[z] # Nil => parked'[z].post.text # p.post.text
    BY <1>1, <2>1 DEF TextsApart, IInv
  <2>4. p.post.text \in 0..proposals'
    BY <1>1, <1>2 DEF IInv, TypeOK
  <2>5. QED BY <2>2, <2>3, <2>4 DEF Settled
<1>8. Seen \cup r.lifted \subseteq Seen'
  BY <1>1 DEF Seen, Lands
<1>9. lands /\ p.path \notin Inbox /\ p.post.status = "accepted" => p.post.text \in Seen'
  <2> SUFFICES ASSUME lands, p.path \notin Inbox, p.post.status = "accepted"
               PROVE  p.post.text \in Seen'
    OBVIOUS
  <2>1. p.clashed
    BY <1>1, <1>3 DEF IInv, CallsWarned
  <2>2. QED BY <1>1, <2>1 DEF Seen
<1>10. /\ GitSettled' /\ lifted' \subseteq Nat
       /\ base' \in [Sessions -> Tree] /\ branch' \in [Sessions -> Seq(Change)]
  <2> HIDE DEF r, p, lands
  <2>1. lands \in BOOLEAN
    BY DEF lands, passed, governed
  <2>2. QED BY <1>1, <1>2, <1>5, <1>6, <1>7, <1>8, <1>9, <2>1, LandsGit DEF r
<1>11. trunk' = trunk
  BY <1>1 DEF Lands
<1>12. /\ call' \in [Sessions -> Proposal \cup {Nil}] /\ parked' \in [Paths -> Proposal \cup {Nil}]
       /\ slipped' \subseteq Nat
  <2>1. p.post.text \in Nat
    BY <1>2 DEF IInv, TypeOK
  <2>2. QED BY <1>1, <1>2, <1>4, <2>1 DEF IInv, TypeOK
<1>13. TypeOK'
  BY <1>1, <1>10, <1>11, <1>12 DEF IInv, TypeOK, Tree, Change, Proposal, Doc
<1>14. TextsApart'
  <2>1. \A z \in Sessions : call'[z] # Nil => z # s /\ call'[z] = call[z]
    BY <1>1 DEF IInv, TypeOK
  <2>2. \A z \in Paths : parked'[z] # Nil => \/ parked'[z] = parked[z]
                                            \/ (z = p.path /\ parked'[z] = p)
    <3>1. parked \in [Paths -> Proposal \cup {Nil}] /\ p.path \in Paths
      BY <1>2 DEF IInv, TypeOK
    <3> HIDE DEF p
    <3>2. CASE UNCHANGED parked
      BY <3>2
    <3>3. CASE parked' = [parked EXCEPT ![p.path] = p]
      BY <3>1, <3>3
    <3>4. QED BY <1>4, <3>2, <3>3
  <2>3. proposals' = proposals
    BY <1>1
  <2> HIDE DEF p
  <2>4. p = call[s] /\ p # Nil /\ parked[p.path] = Nil
    BY <1>1 DEF p
  <2>5. QED BY <2>1, <2>2, <2>3, <2>4 DEF IInv, TextsApart
<1>15. CallsWarned'
  BY <1>1 DEF IInv, TypeOK, CallsWarned
<1>16. GoverningReviewed'
  BY <1>8, <1>11 DEF IInv, GoverningReviewed, InForce, Seen
<1>17. RejectedBeforeDemoted'
  BY <1>1, <1>2, <1>3, <1>4 DEF IInv, TypeOK, RejectedBeforeDemoted
<1>18. QED BY <1>10, <1>13, <1>14, <1>15, <1>16, <1>17 DEF IInv

LEMMA CommitsStep ==
    ASSUME IInv, NEW s \in Sessions, CommitEdit(s) \/ CommitMemory(s)
    PROVE  IInv'
<1>1. PICK checked \in BOOLEAN : Commits(s, checked)
  BY DEF CommitEdit, CommitMemory
<1>2. PICK reached \in BOOLEAN, readable \in BOOLEAN, fails \in BOOLEAN :
        Commit(s, checked, reached, readable, fails)
  BY <1>1 DEF Commits
<1>3. QED BY <1>2, CommitStep

\* A proposal that leaves the hands of the session or the queue, and lands nowhere.
LEMMA DroppedStep ==
    ASSUME IInv, UNCHANGED <<gitVars, index, counters, history>>,
           \/ \E s \in Sessions : call' = [call EXCEPT ![s] = Nil] /\ UNCHANGED parked
           \/ \E p \in Paths : parked' = [parked EXCEPT ![p] = Nil] /\ UNCHANGED call
    PROVE  IInv'
<1>1. TypeOK'
  BY DEF IInv, TypeOK, gitVars, counters, history, Tree, Change, Proposal, Doc
<1>2. TextsApart' /\ CallsWarned' /\ RejectedBeforeDemoted'
  <2>1. /\ \A z \in Sessions : call'[z] # Nil => call'[z] = call[z]
        /\ \A z \in Paths : parked'[z] # Nil => parked'[z] = parked[z]
    BY DEF IInv, TypeOK
  <2>2. proposals' = proposals
    BY DEF counters
  <2>3. QED BY <2>1, <2>2 DEF IInv, TextsApart, CallsWarned, RejectedBeforeDemoted
<1>3. Settled \subseteq Settled' /\ Seen' = Seen
  BY DEF IInv, TypeOK, Settled, Seen, counters, history
<1>4. GitSettled'
  BY <1>3, GitStays DEF IInv, gitVars
<1>5. GoverningReviewed'
  BY DEF IInv, GoverningReviewed, InForce, gitVars, history
<1>6. QED BY <1>1, <1>2, <1>4, <1>5 DEF IInv

\* The operator's approval: what it commits is reviewed.
LEMMA ApproveStep ==
    ASSUME IInv, NEW p \in Paths, NEW override \in BOOLEAN, Approve(p, override)
    PROVE  IInv'
<1> DEFINE e == parked[p]
           r == Refreshed(e.session, TRUE)
           passed == Gates(e, r.ok, r.tree, CommitSnapshot(r, TRUE), override) = "passed"
<1>1. /\ e # Nil /\ Lands(e.session, r, e, passed)
      /\ parked' = IF passed THEN [parked EXCEPT ![p] = Nil] ELSE parked
      /\ reviewed' = IF passed THEN reviewed \cup {e.post.text} ELSE reviewed
      /\ UNCHANGED <<index, call, counters, slipped>>
  BY DEF Approve
<1>2. e \in Proposal /\ e.session \in Sessions /\ e.post.text \in 1..proposals
  BY <1>1 DEF IInv, TypeOK, Proposal, TextsApart
<1> HIDE DEF passed
<1>3. Settled \subseteq Settled' /\ Settled' \subseteq Nat
  BY <1>1 DEF Settled, IInv, TypeOK, counters
<1>4. e.post.text \notin Settled
  BY <1>1 DEF Settled
<1>5. passed => e.post.text \in Settled'
  <2> SUFFICES ASSUME passed PROVE e.post.text \in Settled'
    OBVIOUS
  <2>1. \A z \in Sessions : call'[z] # Nil => call'[z].post.text # e.post.text
    BY <1>1 DEF TextsApart, IInv
  <2>2. \A z \in Paths : parked'[z] # Nil => parked'[z].post.text # e.post.text
    BY <1>1 DEF TextsApart, IInv, TypeOK
  <2>3. e.post.text \in 0..proposals'
    BY <1>1, <1>2 DEF IInv, TypeOK, counters
  <2>4. QED BY <2>1, <2>2, <2>3 DEF Settled
<1>6. Seen \cup r.lifted \subseteq Seen' /\ (passed => e.post.text \in Seen')
  BY <1>1 DEF Seen, Lands
<1>7. /\ GitSettled' /\ lifted' \subseteq Nat
      /\ base' \in [Sessions -> Tree] /\ branch' \in [Sessions -> Seq(Change)]
  <2> HIDE DEF r, e
  <2>1. passed \in BOOLEAN /\ r = Refreshed(e.session, TRUE)
    BY DEF passed, r
  <2>2. QED BY <1>1, <1>2, <1>3, <1>4, <1>5, <1>6, <2>1, LandsGit
<1>8. trunk' = trunk
  BY <1>1 DEF Lands
<1>9. TypeOK'
  <2>1. e.post.text \in Nat
    BY <1>2 DEF IInv, TypeOK
  <2>2. parked' \in [Paths -> Proposal \cup {Nil}] /\ reviewed' \subseteq Nat
    BY <1>1, <2>1 DEF IInv, TypeOK
  <2>3. QED BY <1>1, <1>7, <1>8, <2>2 DEF IInv, TypeOK, Tree, Change, Proposal, Doc, counters
<1>10. TextsApart' /\ CallsWarned' /\ RejectedBeforeDemoted'
  BY <1>1 DEF IInv, TypeOK, TextsApart, CallsWarned, RejectedBeforeDemoted, counters
<1>11. GoverningReviewed'
  BY <1>6, <1>8 DEF IInv, GoverningReviewed, InForce, Seen
<1>12. QED BY <1>7, <1>9, <1>10, <1>11 DEF IInv

\* A push, and what upstream does by itself.
LEMMA PushStep ==
    ASSUME IInv, NEW s \in Sessions, Push(s)
    PROVE  IInv'
<1> DEFINE r == Replay(branch[s], trunk)
<1>1. /\ r.commits # Nil
      /\ trunk' = r.tree /\ base' = [base EXCEPT ![s] = r.tree]
      /\ branch' = [branch EXCEPT ![s] = <<>>]
      /\ lifted' = lifted \cup r.lifted
      /\ UNCHANGED <<index, call, parked, counters, reviewed, slipped>>
  BY DEF Push
<1>2. Fine(r, Settled, Seen)
  <2>1. Settled \in SUBSET Nat
    BY DEF IInv, TypeOK, Settled
  <2>2. trunk \in Trees(Settled) /\ branch[s] \in Seq(Changes(Settled, Seen))
    BY DEF IInv, GitSettled
  <2>3. \A p \in Paths : InForce(trunk, p) => trunk[p].text \in Seen
    BY DEF IInv, GoverningReviewed, Seen
  <2>4. QED BY <2>1, <2>2, <2>3, ReplayFine
<1> HIDE DEF r
<1>3. Settled' = Settled /\ Seen' = Seen \cup r.lifted /\ Settled \subseteq Nat
  BY <1>1 DEF Settled, Seen, counters, IInv, TypeOK
<1>4. /\ (Trees(Settled))' = Trees(Settled) /\ (Changes(Settled, Seen))' = Changes(Settled, Seen')
      /\ Seq(Changes(Settled, Seen)) \subseteq Seq(Changes(Settled, Seen'))
  BY <1>3, MoreChanges DEF Trees, Changes, Tree, Change, Doc
<1>5. r.tree \in Trees(Settled) /\ r.tree \in Tree /\ r.lifted \subseteq Nat
  BY <1>2, <1>3 DEF Fine, Trees
<1>6. GitSettled'
  BY <1>1, <1>4, <1>5 DEF IInv, TypeOK, GitSettled
<1>7. TypeOK'
  <2>1. trunk' \in Tree /\ base' \in [Sessions -> Tree] /\ branch' \in [Sessions -> Seq(Change)]
    BY <1>1, <1>5 DEF IInv, TypeOK
  <2>2. lifted' \subseteq Nat
    BY <1>1, <1>5 DEF IInv, TypeOK
  <2>3. QED BY <1>1, <2>1, <2>2 DEF IInv, TypeOK, counters, Tree, Change, Proposal, Doc
<1>8. TextsApart' /\ CallsWarned' /\ RejectedBeforeDemoted'
  BY <1>1 DEF IInv, TextsApart, CallsWarned, RejectedBeforeDemoted, counters
<1>9. GoverningReviewed'
  <2>1. \A p \in Paths : InForce(r.tree, p) => r.tree[p].text \in Seen'
    BY <1>2, <1>3 DEF Fine
  <2>2. QED BY <1>1, <2>1 DEF GoverningReviewed, InForce, Seen
<1>10. QED BY <1>6, <1>7, <1>8, <1>9 DEF IInv

LEMMA RebuildStep ==
    ASSUME IInv, Rebuild
    PROVE  IInv'
<1>1. TypeOK'
  BY DEF Rebuild, IInv, TypeOK, gitVars, counters, history, Tree, Change, Proposal, Doc
<1>2. TextsApart' /\ CallsWarned' /\ RejectedBeforeDemoted'
  BY DEF Rebuild, IInv, TextsApart, CallsWarned, RejectedBeforeDemoted, counters
<1>3. Settled' = Settled /\ Seen' = Seen
  BY DEF Rebuild, Settled, Seen, counters, history
<1>4. GitSettled'
  BY <1>3, GitStays DEF Rebuild, IInv, gitVars
<1>5. GoverningReviewed'
  BY DEF Rebuild, IInv, GoverningReviewed, InForce, gitVars, history
<1>6. QED BY <1>1, <1>2, <1>4, <1>5 DEF IInv

LEMMA UpstreamStep ==
    ASSUME IInv, NEW p \in Paths, Upstream(p)
    PROVE  IInv'
<1>1. trunk \in Trees(Settled) /\ trunk[p] \in Doc /\ trunk[p].text \in Settled
  BY DEF Upstream, IInv, TypeOK, GitSettled, Trees, Tree
<1>2. Settled' = Settled /\ Seen \subseteq Seen' /\ Settled \subseteq Nat
  BY DEF Upstream, IInv, TypeOK, Settled, Seen
<1>3. trunk' \in Trees(Settled) /\ GoverningReviewed' /\ reviewed' \subseteq Nat
  <2>1. CASE trunk' = [trunk EXCEPT ![p] = Nil] /\ UNCHANGED reviewed
    BY <1>1, <2>1 DEF Upstream, IInv, TypeOK, Trees, Tree, GoverningReviewed, InForce
  <2>2. CASE \E st \in {"proposed", "accepted"} \ {trunk[p].status} :
                trunk' = [trunk EXCEPT ![p].status = st] /\ reviewed' = reviewed \cup {trunk[p].text}
    <3>1. PICK st \in {"proposed", "accepted"} :
            /\ trunk' = [trunk EXCEPT ![p].status = st]
            /\ reviewed' = reviewed \cup {trunk[p].text}
      BY <2>2
    <3> DEFINE d == [trunk[p] EXCEPT !.status = st]
    <3>2. d \in Doc /\ d.text = trunk[p].text
      BY <1>1 DEF Doc
    <3>3. trunk' = [trunk EXCEPT ![p] = d]
      BY <3>1
    <3> HIDE DEF d
    <3>4. trunk' \in Trees(Settled)
      BY <1>1, <3>2, <3>3 DEF Trees, Tree
    <3>5. GoverningReviewed'
      BY <3>1, <3>2, <3>3 DEF Upstream, IInv, TypeOK, Tree, GoverningReviewed, InForce
    <3>6. reviewed' \subseteq Nat
      BY <1>1, <1>2, <3>1 DEF IInv, TypeOK
    <3>7. QED BY <3>4, <3>5, <3>6
  <2>3. QED BY <2>1, <2>2 DEF Upstream
<1>4. /\ (Trees(Settled))' = Trees(Settled) /\ (Changes(Settled, Seen))' = Changes(Settled, Seen')
      /\ Seq(Changes(Settled, Seen)) \subseteq Seq(Changes(Settled, Seen'))
  BY <1>2, MoreChanges DEF Trees, Changes, Tree, Change, Doc
<1>5. GitSettled'
  BY <1>3, <1>4 DEF Upstream, IInv, GitSettled
<1>6. TypeOK'
  <2>1. trunk' \in Tree
    BY <1>3 DEF Trees
  <2>2. Tree' = Tree /\ Change' = Change /\ Proposal' = Proposal
    BY DEF Tree, Change, Proposal, Doc
  <2>3. QED BY <1>3, <2>1, <2>2 DEF Upstream, IInv, TypeOK
<1>7. TextsApart' /\ CallsWarned' /\ RejectedBeforeDemoted'
  BY DEF Upstream, IInv, TextsApart, CallsWarned, RejectedBeforeDemoted
<1>8. QED BY <1>3, <1>5, <1>6, <1>7 DEF IInv

LEMMA InitIInv == Init => IInv
<1> SUFFICES ASSUME Init PROVE IInv
  OBVIOUS
<1>1. PICK p \in Paths \ Inbox, i \in Ids :
        trunk = [q \in Paths |-> IF q = p THEN [id |-> i, status |-> "accepted", text |-> 0] ELSE Nil]
  BY DEF Init
<1>2. trunk \in Tree /\ \A q \in Paths : trunk[q] # Nil => trunk[q].text = 0
  BY <1>1 DEF Tree, Doc
<1>3. TypeOK
  BY <1>2 DEF Init, TypeOK
<1>4. TextsApart /\ CallsWarned /\ RejectedBeforeDemoted
  BY DEF Init, TextsApart, CallsWarned, RejectedBeforeDemoted
<1>5. 0 \in Settled
  BY DEF Init, Settled
<1>6. GitSettled
  BY <1>2, <1>5 DEF Init, GitSettled, Trees
<1>7. GoverningReviewed
  BY <1>2 DEF Init, GoverningReviewed, InForce
<1>8. QED BY <1>3, <1>4, <1>6, <1>7 DEF IInv

LEMMA NextIInv == IInv /\ [Next]_vars => IInv'
<1> SUFFICES ASSUME IInv, [Next]_vars PROVE IInv'
  OBVIOUS
<1>1. ASSUME NEW s \in Sessions, ProposeEditReadable(s) \/ ProposeEditUnreadable(s) PROVE IInv'
  BY <1>1, ProposeEditStep DEF ProposeEditReadable, ProposeEditUnreadable
<1>2. ASSUME NEW s \in Sessions, ProposeMemory(s) PROVE IInv'
  BY <1>2, ProposeMemoryStep
<1>3. ASSUME NEW s \in Sessions, CommitEdit(s) \/ CommitMemory(s) PROVE IInv'
  BY <1>3, CommitsStep
<1>4. ASSUME NEW s \in Sessions, CommitBusy(s) PROVE IInv'
  BY <1>4, DroppedStep DEF CommitBusy
<1>5. ASSUME NEW s \in Sessions, Push(s) PROVE IInv'
  BY <1>5, PushStep
<1>6. ASSUME NEW p \in Paths, Approve(p, FALSE) \/ Approve(p, TRUE) PROVE IInv'
  BY <1>6, ApproveStep
<1>7. ASSUME NEW p \in Paths, Reject(p) PROVE IInv'
  BY <1>7, DroppedStep DEF Reject
<1>8. ASSUME NEW p \in Paths, Upstream(p) PROVE IInv'
  BY <1>8, UpstreamStep
<1>9. CASE Rebuild
  BY <1>9, RebuildStep
<1>10. CASE UNCHANGED vars
  <2>1. UNCHANGED <<gitVars, index, call, parked, counters, history>>
    BY <1>10 DEF vars
  <2>2. TypeOK'
    BY <2>1 DEF IInv, TypeOK, gitVars, counters, history, Tree, Change, Proposal, Doc
  <2>3. TextsApart' /\ CallsWarned' /\ RejectedBeforeDemoted'
    BY <2>1 DEF IInv, TextsApart, CallsWarned, RejectedBeforeDemoted, counters
  <2>4. Settled' = Settled /\ Seen' = Seen
    BY <2>1 DEF Settled, Seen, counters, history
  <2>5. GitSettled'
    BY <2>1, <2>4, GitStays DEF IInv, gitVars
  <2>6. GoverningReviewed'
    BY <2>1 DEF IInv, GoverningReviewed, InForce, gitVars, history
  <2>7. QED BY <2>2, <2>3, <2>5, <2>6 DEF IInv
<1>11. QED BY <1>1, <1>2, <1>3, <1>4, <1>5, <1>6, <1>7, <1>8, <1>9, <1>10 DEF Next

LEMMA Invariance == Spec => []IInv
BY InitIInv, NextIInv, PTL DEF Spec

\* No agent's text governs on trunk unreviewed, in any run: whatever the index, the
\* session's base and upstream do between the two judgements of a proposal, and
\* however often a branch is rebased, except by the two ways out.
THEOREM Reviewed == Spec => []GoverningReviewed
<1>1. IInv => GoverningReviewed
  BY DEF IInv
<1>2. QED BY <1>1, Invariance, PTL

\* A proposal that would commit by itself and that a gate rejects for good is never
\* parked: by the judgement at the proposal, or by the one at the commit.
THEOREM Rejected == Spec => []RejectedBeforeDemoted
<1>1. IInv => RejectedBeforeDemoted
  BY DEF IInv
<1>2. QED BY <1>1, Invariance, PTL
=============================================================================
