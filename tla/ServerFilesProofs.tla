-------------------------- MODULE ServerFilesProofs --------------------------
(* Proofs about the two directories the server keeps beside its repository.     *)
(* SessionWorktrees, for every set of sessions and every bound: the inductive   *)
(* invariant IInv, and that it implies UnpushedKept. AuditLog, for every size   *)
(* that rotates and every bound: the inductive invariant LogIInv, and that it   *)
(* implies ChainVerifies, AckedReadable and QueryInOrder, and the refinement of  *)
(* EventLog. The two share no variable: each theorem is about one of them.      *)
EXTENDS AuditLog, SessionWorktrees,
        FiniteSetTheorems, SequenceTheorems, WellFoundedInduction, TLAPS

-----------------------------------------------------------------------------
(* The worktrees: the inductive invariant.                                     *)

Teardown == {"remove", "branch", "unlink"}

TypeOK ==
    /\ dir \in [Sessions -> {"none", "there", "cut"}]
    /\ branch \in [Sessions -> {"none", "even", "ahead"}]
    /\ meta \in [Sessions -> {"none", "fresh", "old"}]
    /\ head \in [Sessions -> {"branch", "even", "ahead"}]
    /\ claim \in [Sessions -> SUBSET {"branch", "HEAD"}]
    /\ parked \subseteq Sessions
    /\ lock \in Sessions \cup {"gc", Nil}
    /\ writer \in [Sessions -> {"idle", "create", "meta", "ready", "refreshed"}]
    /\ reader \in {"idle", "touch", "create", "meta"}
    /\ gc \in {"idle", "picked"} \cup Teardown
    /\ target \in Sessions \cup {Nil}
    /\ writes \in Nat /\ faults \in Nat

\* The write serializer: a session inside its write has it, the collector has it
\* while it tears down, and whoever has it is not the other.
SerializerHeld ==
    /\ \A s \in Sessions : writer[s] # "idle" => lock = s
    /\ gc \in Teardown => lock = "gc"
    /\ gc # "idle" => target \in Sessions

\* A worktree has its branch; a write works in a worktree that is there.
WorktreeWhole ==
    \A s \in Sessions :
        /\ dir[s] = "there" => branch[s] # "none"
        /\ writer[s] \in {"meta", "ready", "refreshed"} => dir[s] = "there"

\* What the collector found with the serializer taken holds while it needs it:
\* nobody commits, claims or rebases there meanwhile. (Once the worktree is gone the
\* ledger may put another on the branch, which the deletion then leaves alone.)
NothingAtRisk ==
    /\ gc \in {"picked", "remove"} => dir[target] = "there"
    /\ gc = "remove" => ~Unpushed(target)
    /\ gc \in Teardown => "branch" \notin claim[target]

\* The guard of refresh_base: a claim that names the branch keeps HEAD on it.
ClaimKeepsHead == \A s \in Sessions : "branch" \in claim[s] => ~Detached(s)

IInv ==
    /\ TypeOK /\ SerializerHeld /\ WorktreeWhole /\ NothingAtRisk /\ ClaimKeepsHead
    /\ UnpushedKept

-----------------------------------------------------------------------------
(* IInv is inductive.                                                          *)

LEMMA InitIInv == Init => IInv
BY WorktreesAssumption
DEF Init, IInv, TypeOK, SerializerHeld, WorktreeWhole, NothingAtRisk, ClaimKeepsHead,
        UnpushedKept, Teardown, Unpushed, Detached

\* What a rebase does to HEAD, done, killed or aborted: the branch stays, and HEAD
\* leaves it only where no claim names it.
LEMMA RefreshKeeps ==
    ASSUME IInv, NEW s \in Sessions, Refresh(s)
    PROVE  /\ head' \in [Sessions -> {"branch", "even", "ahead"}] /\ faults' \in Nat
           /\ \A r \in Sessions : r # s => head'[r] = head[r]
           /\ "branch" \in claim[s] => head'[s] = head[s]
BY DEF Refresh, CutShort, Fault, IInv, TypeOK, ClaimKeepsHead, Detached, Deferred

\* The steps of a session's write.
LEMMA WriteStep ==
    ASSUME IInv, NEW s \in Sessions, WriteBegin(s) \/ Write(s)
    PROVE  IInv'
<1> USE WorktreesAssumption
    DEF IInv, TypeOK, SerializerHeld, WorktreeWhole, NothingAtRisk, ClaimKeepsHead,
        UnpushedKept, Teardown, Unpushed, Detached
<1>1. CASE WriteBegin(s)
  BY <1>1 DEF WriteBegin, Known, Stamp, tree
<1>2. CASE WriteCreate(s)
  BY <1>2 DEF WriteCreate, WorktreeAdd
<1>3. CASE WriteRefused(s)
  BY <1>3 DEF WriteRefused, disk, tree
<1>4. CASE WriteMeta(s)
  BY <1>4 DEF WriteMeta, Stamp, tree
<1>5. CASE WriteRefresh(s)
  BY <1>5, RefreshKeeps DEF WriteRefresh
<1>6. CASE WriteEnd(s)
  <2> DEFINE ref == IF Detached(s) THEN "HEAD" ELSE "branch"
  <2>1. PICK unknown \in SUBSET {ref} : claim' = [claim EXCEPT ![s] = @ \cup unknown]
    BY <1>6 DEF WriteEnd
  <2>2. gc \notin Teardown /\ gc' = gc /\ dir' = dir /\ dir[s] = "there" /\ target' = target
    BY <1>6 DEF WriteEnd
  <2>3. /\ branch' \in [Sessions -> {"none", "even", "ahead"}]
        /\ head' \in [Sessions -> {"branch", "even", "ahead"}]
        /\ branch[s] # "none"
        /\ \A r \in Sessions : branch[r] # "none" => branch'[r] # "none"
    BY <1>6 DEF WriteEnd
  <2>4. claim' \in [Sessions -> SUBSET {"branch", "HEAD"}]
    BY <2>1
  <2>5. TypeOK'
    <3> HIDE DEF ref
    <3>1. writer' \in [Sessions -> {"idle", "create", "meta", "ready", "refreshed"}]
      BY <1>6 DEF WriteEnd
    <3>2. UNCHANGED <<dir, meta, parked, reader, gc, target, writes, faults>> /\ lock' = Nil
      BY <1>6 DEF WriteEnd
    <3>3. QED BY <2>3, <2>4, <3>1, <3>2
  <2>6. SerializerHeld'
    BY <1>6 DEF WriteEnd
  <2>7. WorktreeWhole'
    BY <1>6, <2>2, <2>3 DEF WriteEnd
  <2>8. NothingAtRisk'
    BY <2>2
  <2>9. ClaimKeepsHead'
    BY <1>6, <2>1 DEF WriteEnd
  <2>10. UnpushedKept'
    BY <1>6, <2>1, <2>2 DEF WriteEnd
  <2>11. QED BY <2>5, <2>6, <2>7, <2>8, <2>9, <2>10
<1>7. QED BY <1>1, <1>2, <1>3, <1>4, <1>5, <1>6 DEF Write

\* The ledger's look: without the serializer, but it only creates.
LEMMA LookStep ==
    ASSUME IInv, Look
    PROVE  IInv'
<1> USE WorktreesAssumption
    DEF IInv, TypeOK, SerializerHeld, WorktreeWhole, NothingAtRisk, ClaimKeepsHead,
        UnpushedKept, Teardown, Unpushed, Detached
<1>1. CASE LookBegin
  BY <1>1 DEF LookBegin, disk, tree
<1>2. CASE LookTouch
  BY <1>2 DEF LookTouch, disk, tree
<1>3. CASE LookCreate
  BY <1>3 DEF LookCreate, WorktreeAdd, tree
<1>4. CASE LookMeta
  BY <1>4 DEF LookMeta, Stamp, tree
<1>5. QED BY <1>1, <1>2, <1>3, <1>4 DEF Look

\* The push loop, the reconciliation of claims, and time.
LEMMA OthersStep ==
    ASSUME IInv, NEW s \in Sessions, Publish(s) \/ Reconcile(s) \/ Age(s)
    PROVE  IInv'
<1> USE WorktreesAssumption
    DEF IInv, TypeOK, SerializerHeld, WorktreeWhole, NothingAtRisk, ClaimKeepsHead,
        UnpushedKept, Teardown, Unpushed, Detached
<1>1. CASE Push(s)
  BY <1>1 DEF Push, actors
<1>2. CASE PushRefresh(s)
  BY <1>2, RefreshKeeps DEF PushRefresh, actors
<1>3. CASE Park(s) \/ Unpark(s)
  BY <1>3 DEF Park, Unpark, actors, tree
<1>4. CASE Reconcile(s)
  BY <1>4 DEF Reconcile, actors, tree
<1>5. CASE Age(s)
  BY <1>5 DEF Age, actors, tree
<1>6. QED BY <1>1, <1>2, <1>3, <1>4, <1>5 DEF Publish

\* The collector: what it deletes is its target's, at which nothing is at risk.
LEMMA CollectStep ==
    ASSUME IInv, Collect \/ GcRemoveFails
    PROVE  IInv'
<1> USE WorktreesAssumption
    DEF IInv, TypeOK, SerializerHeld, WorktreeWhole, NothingAtRisk, ClaimKeepsHead,
        UnpushedKept, Teardown, Unpushed, Detached,
        GcTo, GcLeave
<1>1. ASSUME NEW s \in Sessions, GcPick(s)
      PROVE  IInv'
  BY <1>1 DEF GcPick, disk, tree
<1>2. CASE GcLock
  BY <1>2 DEF GcLock, disk, tree
<1>3. CASE GcRemove
  BY <1>3 DEF GcRemove
<1>4. CASE GcRemoveFails
  BY <1>4 DEF GcRemoveFails, Fault, disk, tree
<1>5. CASE GcBranch
  BY <1>5 DEF GcBranch
<1>6. CASE GcUnlink
  BY <1>6 DEF GcUnlink, tree
<1>7. QED BY <1>1, <1>2, <1>3, <1>4, <1>5, <1>6 DEF Collect

\* A crash takes the serializer from everybody; a removal it cuts off is the
\* collector's.
LEMMA CrashStep ==
    ASSUME IInv, Crash
    PROVE  IInv'
<1> USE WorktreesAssumption
    DEF IInv, TypeOK, SerializerHeld, WorktreeWhole, NothingAtRisk, ClaimKeepsHead,
        UnpushedKept, Teardown, Unpushed, Detached, Crash, Fault
<1>1. CASE UNCHANGED <<dir, head>>
  BY <1>1
<1>2. CASE gc = "remove" /\ dir' = [dir EXCEPT ![target] = "cut"] /\ UNCHANGED head
  BY <1>2
<1>3. CASE (\E s \in Sessions : Rebasing(s) /\ CutShort(s)) /\ UNCHANGED dir
  BY <1>3 DEF Rebasing, CutShort, Deferred
<1>4. QED BY <1>1, <1>2, <1>3

LEMMA StepIInv == IInv /\ [Next]_vars => IInv'
<1> SUFFICES ASSUME IInv, [Next]_vars
             PROVE  IInv'
  OBVIOUS
<1>1. CASE UNCHANGED vars
  BY <1>1 DEF vars, disk, tree, actors, IInv, TypeOK, SerializerHeld, WorktreeWhole,
     NothingAtRisk, ClaimKeepsHead, UnpushedKept, Unpushed, Detached
<1>2. CASE Next
  BY <1>2, WriteStep, LookStep, OthersStep, CollectStep, CrashStep DEF Next
<1>3. QED BY <1>1, <1>2

-----------------------------------------------------------------------------
(* Theorems about the worktrees.                                               *)

\* The inductive invariant holds: get_or_create, gc and the ledger's look keep to
\* the serializer as far as it matters.
THEOREM Invariance == Spec => []IInv
BY InitIInv, StepIInv, PTL DEF Spec

\* worktrees.py gc: whatever fails or crashes, no collection takes the worktree of a
\* commit that its HEAD has and the trunk has not, the worktree or branch of a
\* claim that names the branch, or unpushed commits of a branch that HEAD is on.
\* (What only the branch of a worktree has that a rebase cut short left detached is
\* not covered: gc asks about HEAD.)
THEOREM NothingLost == Spec => []UnpushedKept
<1>1. IInv => UnpushedKept
  BY DEF IInv
<1>2. QED BY <1>1, Invariance, PTL

----------------------------------------------------------------------------
(* Induction over the naturals, for a set.                                   *)

LEMMA LeastOne ==
    ASSUME NEW T, T \subseteq Nat, T # {}
    PROVE  \E x \in T : \A y \in T : x <= y
<1> DEFINE R == {ss \in Nat \X Nat : ss[1] < ss[2]}
<1>1. IsWellFoundedOn(R, Nat)
  BY NatLessThanWellFounded DEF OpToRel
<1>2. PICK x \in T : \A y \in T : ~(<<y, x>> \in R)
  <2> HIDE DEF R
  <2>1. QED BY <1>1, WFMin
<1>3. ASSUME NEW y \in T PROVE x <= y
  <2>1. y \in Nat /\ x \in Nat /\ ~(<<y, x>> \in R)
    BY <1>2
  <2>2. <<y, x>> \in Nat \X Nat /\ <<y, x>>[1] = y /\ <<y, x>>[2] = x
    BY <2>1
  <2>3. ~(y < x)
    BY <2>1, <2>2
  <2>4. QED BY <2>1, <2>3
<1>4. QED BY <1>3

LEMMA SetInduction ==
    ASSUME NEW S, 0 \in S, \A n \in Nat : n \in S => n + 1 \in S
    PROVE  Nat \subseteq S
<1> DEFINE T == Nat \ S
<1>1. SUFFICES ASSUME T # {} PROVE FALSE
  OBVIOUS
<1>2. PICK x \in T : \A y \in T : x <= y
  <2>1. T \subseteq Nat
    OBVIOUS
  <2> HIDE DEF T
  <2>2. QED BY <1>1, <2>1, LeastOne
<1>3. x - 1 \in Nat /\ x - 1 < x /\ (x - 1) + 1 = x
  OBVIOUS
<1>4. x - 1 \notin T
  BY <1>2, <1>3
<1>5. QED BY <1>3, <1>4

----------------------------------------------------------------------------
(* The names of the segments, and their one sorted enumeration.              *)

Name == [at : Nat \ {0}, n : Nat]

Sorted(s, names) ==
    /\ s \in [1..Cardinality(names) -> names] /\ ToSet(s) = names
    /\ \A i, j \in DOMAIN s : i < j => Before(s[i], s[j])

\* _rotated_paths of a directory that holds these names.
Paths(names) ==
    CHOOSE s \in [1..Cardinality(names) -> names] :
        ToSet(s) = names /\ \A i, j \in DOMAIN s : i < j => Before(s[i], s[j])

\* The order of the names as text is a strict total order.
LEMMA BeforeOrders ==
    ASSUME NEW a \in Name, NEW b \in Name
    PROVE  /\ ~(Before(a, b) /\ Before(b, a))
           /\ a # b => Before(a, b) \/ Before(b, a)
           /\ ~Before(a, a)
           /\ \A c \in Name : Before(a, b) /\ Before(b, c) => Before(a, c)
<1>1. a = [at |-> a.at, n |-> a.n] /\ b = [at |-> b.at, n |-> b.n]
  BY DEF Name
<1>2. a.at \in Nat /\ a.n \in Nat /\ b.at \in Nat /\ b.n \in Nat
  BY DEF Name
<1>3. \A c \in Name : c.at \in Nat /\ c.n \in Nat
  BY DEF Name
<1>4. a # b => a.at # b.at \/ a.n # b.n
  BY <1>1
<1>5. QED BY <1>2, <1>3, <1>4 DEF Before

LEMMA SortedOnce ==
    ASSUME NEW names \in SUBSET Name, Cardinality(names) \in Nat,
           NEW s, NEW t, Sorted(s, names), Sorted(t, names)
    PROVE  s = t
<1> DEFINE K == 1..Cardinality(names)
           T == {i \in K : s[i] # t[i]}
<1>1. s \in [K -> names] /\ t \in [K -> names] /\ K \subseteq Nat
  BY DEF Sorted
<1>2. /\ \A i, j \in K : i < j => Before(s[i], s[j])
      /\ \A i, j \in K : i < j => Before(t[i], t[j])
  BY <1>1 DEF Sorted
<1>3. /\ \A x \in names : \E k \in K : t[k] = x
      /\ \A x \in names : \E k \in K : s[k] = x
  BY <1>1 DEF Sorted, ToSet
<1> HIDE DEF K
<1>4. ASSUME T # {} PROVE FALSE
  <2>1. T \subseteq Nat
    BY <1>1
  <2>2. PICK i \in T : \A y \in T : i <= y
    <3> HIDE DEF T
    <3>1. QED BY <1>4, <2>1, LeastOne
  <2>3. i \in K /\ i \in Nat /\ s[i] # t[i] /\ s[i] \in names /\ t[i] \in names
    BY <1>1
  <2>4. PICK k \in K : t[k] = s[i]
    BY <1>3, <2>3
  <2>5. PICK m \in K : s[m] = t[i]
    BY <1>3, <2>3
  <2>6. k \in Nat /\ m \in Nat
    BY <1>1
  <2>7. i < k
    <3>1. k # i
      BY <2>3, <2>4
    <3>2. ASSUME k < i PROVE FALSE
      <4>1. k \notin T
        BY <2>2, <2>3, <2>6, <3>2
      <4>2. s[k] = s[i]
        BY <4>1, <2>4
      <4>3. Before(s[k], s[i]) /\ s[i] \in Name
        BY <1>2, <2>3, <3>2
      <4>4. QED BY <4>2, <4>3, BeforeOrders
    <3>3. QED BY <2>3, <2>6, <3>1, <3>2
  <2>8. i < m
    <3>1. m # i
      BY <2>3, <2>5
    <3>2. ASSUME m < i PROVE FALSE
      <4>1. m \notin T
        BY <2>2, <2>3, <2>6, <3>2
      <4>2. t[m] = t[i]
        BY <4>1, <2>5
      <4>3. Before(t[m], t[i]) /\ t[i] \in Name
        BY <1>2, <2>3, <3>2
      <4>4. QED BY <4>2, <4>3, BeforeOrders
    <3>3. QED BY <2>3, <2>6, <3>1, <3>2
  <2>9. Before(t[i], t[k]) /\ Before(s[i], s[m])
    BY <1>2, <2>3, <2>7, <2>8
  <2>10. s[i] \in Name /\ t[i] \in Name
    BY <2>3
  <2>11. QED BY <2>4, <2>5, <2>9, <2>10, BeforeOrders
<1>5. \A i \in K : s[i] = t[i]
  BY <1>4
<1>6. s = [i \in K |-> s[i]] /\ t = [i \in K |-> t[i]]
  BY <1>1
<1>7. QED BY <1>5, <1>6

LEMMA PathsAre ==
    ASSUME NEW names \in SUBSET Name, Cardinality(names) \in Nat, NEW s, Sorted(s, names)
    PROVE  Paths(names) = s
<1>1. Sorted(Paths(names), names)
  BY DEF Paths, Sorted
<1>2. QED BY <1>1, SortedOnce

----------------------------------------------------------------------------
(* A new segment among the others.                                           *)

\* Where a new name goes: some place that parts the names before it from the rest.
LEMMA PlaceOf ==
    ASSUME NEW names \in SUBSET Name, Cardinality(names) \in Nat, NEW s, Sorted(s, names),
           NEW new \in Name, new \notin names
    PROVE  \E k \in 1..(Cardinality(names) + 1) :
               /\ \A i \in 1..(k - 1) : Before(s[i], new)
               /\ \A i \in k..Cardinality(names) : Before(new, s[i])
<1> DEFINE N == Cardinality(names)
           T == {i \in 1..(N + 1) : i = N + 1 \/ Before(new, s[i])}
<1>1. s \in [1..N -> names] /\ N \in Nat
  BY DEF Sorted
<1>2. \A i, j \in 1..N : i < j => Before(s[i], s[j])
  BY <1>1 DEF Sorted
<1> HIDE DEF N
<1>3. PICK k \in T : \A y \in T : k <= y
  <2>1. N + 1 \in T /\ T \subseteq Nat
    BY <1>1
  <2> HIDE DEF T
  <2>2. QED BY <2>1, LeastOne
<1>4. k \in 1..(N + 1) /\ k \in Nat
  BY <1>1
<1>5. ASSUME NEW i \in 1..(k - 1) PROVE Before(s[i], new)
  <2>1. i \in 1..N /\ i \in 1..(N + 1) /\ i < k /\ i # N + 1 /\ i \in Nat
    BY <1>1, <1>4
  <2>2. i \notin T
    BY <1>3, <1>4, <2>1
  <2>3. ~Before(new, s[i]) /\ s[i] \in names
    BY <1>1, <2>1, <2>2
  <2>4. s[i] # new /\ s[i] \in Name
    BY <2>3
  <2>5. QED BY <2>3, <2>4, BeforeOrders
<1>6. ASSUME NEW i \in k..N PROVE Before(new, s[i])
  <2>1. i \in 1..N /\ k \in 1..N /\ k <= i /\ i \in Nat
    BY <1>1, <1>4
  <2>2. Before(new, s[k]) /\ s[k] \in Name /\ s[i] \in Name
    BY <1>1, <1>3, <2>1
  <2>3. CASE i = k
    BY <2>2, <2>3
  <2>4. CASE i # k
    <3>1. Before(s[k], s[i])
      BY <1>2, <1>4, <2>1, <2>4
    <3>2. QED BY <2>2, <3>1, BeforeOrders
  <2>5. QED BY <2>3, <2>4
<1>7. QED BY <1>4, <1>5, <1>6 DEF N

\* A new name makes the enumeration one longer.
LEMMA SortedGrows ==
    ASSUME NEW names \in SUBSET Name, IsFiniteSet(names), NEW s, Sorted(s, names),
           NEW new \in Name, new \notin names
    PROVE  \E t : Sorted(t, names \cup {new})
<1> DEFINE N == Cardinality(names)
           all == names \cup {new}
<1>1. N \in Nat /\ Cardinality(all) = N + 1
  BY FS_CardinalityType, FS_AddElement
<1>2. s \in [1..N -> names] /\ ToSet(s) = names /\ \A i, j \in 1..N : i < j => Before(s[i], s[j])
  BY DEF Sorted
<1>3. PICK k \in 1..(N + 1) : /\ \A i \in 1..(k - 1) : Before(s[i], new)
                            /\ \A i \in k..N : Before(new, s[i])
  BY <1>1, PlaceOf
<1> DEFINE t == [i \in 1..(N + 1) |-> IF i < k THEN s[i] ELSE IF i = k THEN new ELSE s[i - 1]]
<1> HIDE DEF N
<1>4. t \in [1..(N + 1) -> all] /\ k \in Nat
  BY <1>1, <1>2
<1>5. ToSet(t) = all
  <2>1. ASSUME NEW x \in all PROVE \E i \in 1..(N + 1) : t[i] = x
    <3>1. CASE x = new
      BY <1>1, <1>3, <1>4, <3>1
    <3>2. CASE x \in names
      <4>1. PICK i \in 1..N : s[i] = x
        BY <1>2, <3>2 DEF ToSet
      <4>2. CASE i < k
        BY <1>1, <1>4, <4>1, <4>2
      <4>3. CASE ~(i < k)
        <5>1. i + 1 \in 1..(N + 1) /\ ~(i + 1 < k) /\ i + 1 # k /\ (i + 1) - 1 = i
          BY <1>1, <1>4, <4>3
        <5>2. t[i + 1] = s[i]
          BY <5>1
        <5>3. QED BY <4>1, <5>1, <5>2
      <4>4. QED BY <4>2, <4>3
    <3>3. QED BY <3>1, <3>2
  <2>2. DOMAIN t = 1..(N + 1) /\ \A i \in 1..(N + 1) : t[i] \in all
    BY <1>4
  <2> HIDE DEF t
  <2>3. QED BY <2>1, <2>2 DEF ToSet
<1>6. ASSUME NEW i \in 1..(N + 1), NEW j \in 1..(N + 1), i < j
      PROVE  Before(t[i], t[j])
  <2>0. i \in Nat /\ j \in Nat
    OBVIOUS
  <2>1. CASE j < k
    <3>1. i \in 1..N /\ j \in 1..N /\ i < k
      BY <1>1, <1>3, <1>4, <1>6, <2>0, <2>1
    <3>2. QED BY <1>2, <1>6, <2>1, <3>1
  <2>2. CASE j = k
    <3>1. i < k /\ i \in 1..(k - 1)
      BY <1>4, <1>6, <2>0, <2>2
    <3>2. t[i] = s[i] /\ t[j] = new
      BY <1>4, <2>2, <3>1
    <3>3. QED BY <1>3, <3>1, <3>2
  <2>3. CASE j > k
    <3>1. t[j] = s[j - 1] /\ j - 1 \in 1..N /\ j - 1 \in k..N
      BY <1>1, <1>4, <2>0, <2>3
    <3>2. CASE i < k
      <4>1. t[i] = s[i] /\ i \in 1..N /\ i < j - 1
        BY <1>1, <1>4, <2>0, <2>3, <3>2
      <4>2. QED BY <1>2, <3>1, <4>1
    <3>3. CASE i = k
      <4>1. t[i] = new
        BY <1>4, <3>3
      <4>2. QED BY <1>3, <3>1, <4>1
    <3>4. CASE i > k
      <4>1. t[i] = s[i - 1] /\ i - 1 \in 1..N /\ i - 1 < j - 1
        BY <1>1, <1>4, <1>6, <2>0, <2>3, <3>4
      <4>2. QED BY <1>2, <3>1, <4>1
    <3>5. QED BY <1>4, <2>0, <3>2, <3>3, <3>4
  <2>4. QED BY <1>4, <2>0, <2>1, <2>2, <2>3
<1>7. DOMAIN t = 1..(N + 1)
  OBVIOUS
<1> HIDE DEF t
<1>8. Sorted(t, all)
  BY <1>1, <1>4, <1>5, <1>6, <1>7 DEF Sorted
<1>9. QED BY <1>8

\* A name after all the others goes last.
LEMMA SortedAppends ==
    ASSUME NEW names \in SUBSET Name, IsFiniteSet(names), NEW s, Sorted(s, names),
           NEW new \in Name, new \notin names, \A g \in names : Before(g, new)
    PROVE  s \in Seq(names) /\ Sorted(Append(s, new), names \cup {new})
<1> DEFINE N == Cardinality(names)
           all == names \cup {new}
           t == Append(s, new)
<1>1. N \in Nat /\ Cardinality(all) = N + 1
  BY FS_CardinalityType, FS_AddElement
<1>2. s \in [1..N -> names] /\ ToSet(s) = names /\ \A i, j \in 1..N : i < j => Before(s[i], s[j])
  BY DEF Sorted
<1> HIDE DEF N
<1>3. s \in Seq(names) /\ Len(s) = N /\ DOMAIN s = 1..N
  BY <1>1, <1>2
<1>4. s \in Seq(all)
  BY <1>3
<1>5. /\ t \in Seq(all) /\ Len(t) = N + 1 /\ t[N + 1] = new
      /\ \A i \in 1..N : t[i] = s[i]
  BY <1>1, <1>3, <1>4
<1> HIDE DEF t
<1>6. t \in [1..(N + 1) -> all] /\ DOMAIN t = 1..(N + 1)
  BY <1>5
<1>7. ToSet(t) = all
  <2>1. ASSUME NEW x \in all PROVE \E i \in 1..(N + 1) : t[i] = x
    <3>1. CASE x = new
      BY <1>1, <1>5, <3>1
    <3>2. CASE x \in names
      <4>1. PICK i \in 1..N : s[i] = x
        BY <1>2, <1>3, <3>2 DEF ToSet
      <4>2. QED BY <1>1, <1>5, <4>1
    <3>3. QED BY <3>1, <3>2
  <2>2. QED BY <1>6, <2>1 DEF ToSet
<1>8. ASSUME NEW i \in 1..(N + 1), NEW j \in 1..(N + 1), i < j
      PROVE  Before(t[i], t[j])
  <2>1. i \in 1..N /\ t[i] = s[i] /\ s[i] \in names
    BY <1>1, <1>2, <1>5, <1>8
  <2>2. CASE j = N + 1
    BY <1>5, <2>1, <2>2
  <2>3. CASE j # N + 1
    <3>1. j \in 1..N /\ t[j] = s[j]
      BY <1>1, <1>5, <2>3
    <3>2. QED BY <1>2, <1>8, <2>1, <3>1
  <2>4. QED BY <2>2, <2>3
<1>9. Sorted(t, all)
  BY <1>1, <1>6, <1>7, <1>8 DEF Sorted
<1>10. QED BY <1>3, <1>9 DEF t

----------------------------------------------------------------------------
(* Recursion over the positions of a sequence: what FlattenSeq and Backwards  *)
(* compute.                                                                  *)

\* f takes m steps from the first value.
Upto(f, m, X, first, Step) ==
    /\ f \in [0..m -> X] /\ f[0] = first
    /\ \A n \in 0..(m - 1) : f[n + 1] = Step[n][f[n]]

LEMMA Recursion ==
    ASSUME NEW X, NEW first \in X, NEW Step \in [Nat -> [X -> X]], NEW k \in Nat
    PROVE  \E f : Upto(f, k, X, first, Step)
<1> DEFINE T == {m \in Nat : \E f : Upto(f, m, X, first, Step)}
<1>1. 0 \in T
  <2> DEFINE f == [n \in 0..0 |-> first]
  <2>1. f \in [0..0 -> X] /\ f[0] = first /\ 0..(0 - 1) = {}
    OBVIOUS
  <2>2. Upto(f, 0, X, first, Step)
    BY <2>1 DEF Upto
  <2>3. QED BY <2>2
<1>2. ASSUME NEW m \in Nat, m \in T PROVE m + 1 \in T
  <2>1. PICK f : Upto(f, m, X, first, Step)
    BY <1>2
  <2> DEFINE g == [n \in 0..(m + 1) |-> IF n <= m THEN f[n] ELSE Step[m][f[m]]]
  <2>2. Step[m][f[m]] \in X
    BY <2>1 DEF Upto
  <2>3. /\ \A n \in 0..m : g[n] = f[n]
        /\ g[m + 1] = Step[m][f[m]]
        /\ g \in [0..(m + 1) -> X]
    BY <2>1, <2>2 DEF Upto
  <2> HIDE DEF g
  <2>4. ASSUME NEW n \in 0..((m + 1) - 1) PROVE g[n + 1] = Step[n][g[n]]
    <3>1. CASE n = m
      BY <2>3, <3>1
    <3>2. CASE n # m
      <4>1. n \in 0..(m - 1) /\ n \in 0..m /\ n + 1 \in 0..m
        BY <3>2
      <4>2. QED BY <2>1, <2>3, <4>1 DEF Upto
    <3>3. QED BY <3>1, <3>2
  <2>5. g[0] = first
    BY <2>1, <2>3 DEF Upto
  <2>6. Upto(g, m + 1, X, first, Step)
    BY <2>3, <2>4, <2>5 DEF Upto
  <2>7. QED BY <2>6
<1>3. k \in T
  <2> HIDE DEF T
  <2>1. QED BY <1>1, <1>2, SetInduction
<1>4. QED BY <1>3

\* A function that adds the sequences one by one is the one FlattenSeq chooses.
LEMMA FlattenIs ==
    ASSUME NEW S, NEW ss \in Seq(Seq(S)), NEW f, f[0] = <<>>,
           \A n \in 0..Len(ss) : f[n] \in Seq(S),
           \A n \in 0..(Len(ss) - 1) : f[n + 1] = f[n] \o ss[n + 1]
    PROVE  FlattenSeq(ss) = f[Len(ss)]
<1> DEFINE L == Len(ss)
           Flat(g) == g = [i \in 1..L |-> IF i = 1 THEN ss[i] ELSE g[i - 1] \o ss[i]]
<1>0. L \in Nat /\ \A i \in 1..L : ss[i] \in Seq(S)
  OBVIOUS
<1>1. CASE L = 0
  <2>1. ss = <<>>
    BY <1>1
  <2>2. QED BY <1>1, <2>1 DEF FlattenSeq
<1>2. CASE L # 0
  <2> DEFINE h == [i \in 1..L |-> f[i]]
  <2>1. FlattenSeq(ss) = (CHOOSE g : Flat(g))[L]
    BY <1>2 DEF FlattenSeq
  <2>2. ASSUME NEW i \in 1..L
        PROVE  f[i] = IF i = 1 THEN ss[i] ELSE f[i - 1] \o ss[i]
    <3>1. i - 1 \in 0..(L - 1) /\ (i - 1) + 1 = i /\ i - 1 \in 0..L
      BY <1>0
    <3>2. f[i] = f[i - 1] \o ss[i]
      BY <3>1
    <3>3. CASE i = 1
      <4>1. ss[1] \in Seq(S) /\ <<>> \o ss[1] = ss[1]
        BY <1>0, <3>3
      <4>2. i - 1 = 0
        BY <3>3
      <4>3. f[i - 1] = <<>>
        BY <4>2
      <4>4. f[i] = <<>> \o ss[1]
        BY <3>2, <3>3, <4>3
      <4>5. QED BY <3>3, <4>1, <4>4
    <3>4. QED BY <3>2, <3>3
  <2>3. \A i \in 1..L : i # 1 => i - 1 \in 1..L
    BY <1>0
  <2>4. \A i \in 1..L : h[i] = IF i = 1 THEN ss[i] ELSE h[i - 1] \o ss[i]
    BY <2>2, <2>3
  <2>5. h = [i \in 1..L |-> h[i]]
    BY Zenon
  <2>6. Flat(h)
    <3> HIDE DEF h
    <3>1. QED BY <2>4, <2>5, Zenon
  <2> DEFINE g == CHOOSE g : Flat(g)
  <2>7. Flat(g)
    <3> HIDE DEF Flat, h
    <3>1. QED BY <2>6
  <2> HIDE DEF g
  <2>8. \A i \in 1..L : g[i] = IF i = 1 THEN ss[i] ELSE g[i - 1] \o ss[i]
    BY <2>7
  <2> DEFINE T == {m \in Nat : m \in 1..L => g[m] = f[m]}
  <2>9. 0 \in T
    OBVIOUS
  <2>10. ASSUME NEW m \in Nat, m \in T PROVE m + 1 \in T
    <3>1. SUFFICES ASSUME m + 1 \in 1..L PROVE g[m + 1] = f[m + 1]
      OBVIOUS
    <3>2. CASE m = 0
      BY <2>2, <2>8, <3>1, <3>2
    <3>3. CASE m # 0
      <4>1. m \in 1..L /\ m + 1 # 1 /\ (m + 1) - 1 = m
        BY <1>0, <3>1, <3>3
      <4>2. g[m] = f[m]
        BY <2>10, <4>1
      <4>3. g[m + 1] = g[m] \o ss[m + 1] /\ f[m + 1] = f[m] \o ss[m + 1]
        BY <2>2, <2>8, <3>1, <4>1
      <4>4. QED BY <4>2, <4>3
    <3>4. QED BY <3>2, <3>3
  <2>11. L \in T
    <3> HIDE DEF T
    <3>1. QED BY <1>0, <2>9, <2>10, SetInduction
  <2>12. QED BY <1>0, <1>2, <2>1, <2>11 DEF g
<1>3. QED BY <1>1, <1>2

LEMMA FlattenAppends ==
    ASSUME NEW S, NEW ss \in Seq(Seq(S)), NEW s \in Seq(S)
    PROVE  /\ FlattenSeq(ss) \in Seq(S)
           /\ FlattenSeq(Append(ss, s)) = FlattenSeq(ss) \o s
<1> DEFINE L == Len(ss)
           tt == Append(ss, s)
           F == [n \in Nat |-> [p \in Seq(S) |-> IF n + 1 \in 1..(L + 1) THEN p \o tt[n + 1] ELSE p]]
<1>1. /\ L \in Nat /\ tt \in Seq(Seq(S)) /\ Len(tt) = L + 1 /\ tt[L + 1] = s
      /\ \A i \in 1..L : tt[i] = ss[i]
  OBVIOUS
<1> HIDE DEF tt
<1>2. \A i \in 1..(L + 1) : tt[i] \in Seq(S)
  BY <1>1
<1>3. F \in [Nat -> [Seq(S) -> Seq(S)]]
  BY <1>2
<1>4. <<>> \in Seq(S)
  OBVIOUS
<1>5. \A n \in Nat : \A p \in Seq(S) : n + 1 \in 1..(L + 1) => F[n][p] = p \o tt[n + 1]
  OBVIOUS
<1> HIDE DEF F
<1>6. PICK f \in [0..(L + 1) -> Seq(S)] : f[0] = <<>> /\ \A n \in 0..((L + 1) - 1) : f[n + 1] = F[n][f[n]]
  <2>1. L + 1 \in Nat
    BY <1>1
  <2> DEFINE X == Seq(S)
             k == L + 1
             x0 == <<>>
  <2>2. x0 \in X /\ F \in [Nat -> [X -> X]] /\ k \in Nat
    BY <1>3, <1>4, <2>1
  <2> HIDE DEF X, k, x0
  <2>3. PICK f : Upto(f, k, X, x0, F)
    BY <2>2, Recursion
  <2>4. QED BY <2>3 DEF Upto, X, k, x0
<1>7. ASSUME NEW n \in 0..L PROVE f[n + 1] = f[n] \o tt[n + 1]
  <2>1. n \in 0..((L + 1) - 1) /\ n \in Nat /\ n + 1 \in 1..(L + 1) /\ f[n] \in Seq(S)
    BY <1>1, <1>6
  <2>2. QED BY <1>5, <1>6, <2>1
<1>8. FlattenSeq(tt) = f[L + 1]
  <2>1. \A n \in 0..Len(tt) : f[n] \in Seq(S)
    BY <1>1, <1>6
  <2>2. ASSUME NEW n \in 0..(Len(tt) - 1) PROVE f[n + 1] = f[n] \o tt[n + 1]
    <3>1. n \in 0..L
      BY <1>1
    <3>2. QED BY <1>7, <3>1
  <2>3. FlattenSeq(tt) = f[Len(tt)]
    BY <1>1, <1>6, <2>1, <2>2, FlattenIs
  <2>4. QED BY <1>1, <2>3
<1>9. FlattenSeq(ss) = f[L]
  <2>1. \A n \in 0..L : f[n] \in Seq(S)
    BY <1>1, <1>6
  <2>2. ASSUME NEW n \in 0..(L - 1) PROVE f[n + 1] = f[n] \o ss[n + 1]
    <3>1. n \in 0..L /\ n + 1 \in 1..L
      BY <1>1
    <3>2. QED BY <1>1, <1>7, <3>1
  <2>3. QED BY <1>6, <2>1, <2>2, FlattenIs
<1>10. f[L] \in Seq(S) /\ f[L + 1] = f[L] \o s
  <2>1. L \in 0..L /\ L \in 0..(L + 1)
    BY <1>1
  <2>2. f[L + 1] = f[L] \o tt[L + 1]
    BY <1>7, <2>1
  <2>3. QED BY <1>1, <1>6, <2>1, <2>2
<1>11. QED BY <1>8, <1>9, <1>10 DEF tt

----------------------------------------------------------------------------
(* Lines, and what is read from them.                                        *)

Line == [ev : Nat, prev : Nat, whole : BOOLEAN]

\* The lines are in the order of their events.
Rises(lines) == \A i, j \in DOMAIN lines : i < j => lines[i].ev < lines[j].ev

\* The numbers go down.
Falls(s) == \A m, n \in DOMAIN s : m < n => s[m] > s[n]

LEMMA FallsConcat ==
    ASSUME NEW p \in Seq(Nat), NEW q \in Seq(Nat), Falls(p), Falls(q),
           \A i \in DOMAIN p, j \in DOMAIN q : p[i] > q[j]
    PROVE  p \o q \in Seq(Nat) /\ Falls(p \o q) /\ ToSet(p \o q) = ToSet(p) \cup ToSet(q)
<1> DEFINE r == p \o q
           P == Len(p)
           Q == Len(q)
<1>1. /\ r \in Seq(Nat) /\ P \in Nat /\ Q \in Nat /\ Len(r) = P + Q
      /\ \A i \in 1..P : r[i] = p[i]
      /\ \A i \in 1..Q : r[P + i] = q[i]
  OBVIOUS
<1>2. DOMAIN r = 1..(P + Q) /\ DOMAIN p = 1..P /\ DOMAIN q = 1..Q
  OBVIOUS
<1>3. (\A i \in 1..P : p[i] \in Nat) /\ \A i \in 1..Q : q[i] \in Nat
  OBVIOUS
<1> HIDE DEF r, P, Q
<1>4. ASSUME NEW i \in 1..(P + Q), ~(i \in 1..P)
      PROVE  i - P \in 1..Q /\ r[i] = q[i - P]
  <2>1. i - P \in 1..Q /\ P + (i - P) = i
    BY <1>1, <1>4
  <2>2. QED BY <1>1, <2>1
<1>5. ASSUME NEW m \in 1..(P + Q), NEW n \in 1..(P + Q), m < n
      PROVE  r[m] > r[n]
  <2>1. CASE m \in 1..P /\ n \in 1..P
    BY <1>1, <1>2, <1>5, <2>1 DEF Falls
  <2>2. CASE m \in 1..P /\ ~(n \in 1..P)
    BY <1>1, <1>2, <1>4, <2>2
  <2>3. CASE ~(m \in 1..P)
    <3>1. ~(n \in 1..P) /\ m - P < n - P
      BY <1>1, <1>5, <2>3
    <3>2. r[m] = q[m - P] /\ r[n] = q[n - P] /\ m - P \in 1..Q /\ n - P \in 1..Q
      BY <1>4, <2>3, <3>1
    <3>3. QED BY <1>2, <3>1, <3>2 DEF Falls
  <2>4. QED BY <2>1, <2>2, <2>3
<1>6. Falls(r)
  BY <1>2, <1>5 DEF Falls
<1>7. ToSet(r) = ToSet(p) \cup ToSet(q)
  <2>1. ASSUME NEW i \in 1..(P + Q) PROVE r[i] \in ToSet(p) \cup ToSet(q)
    <3>1. CASE i \in 1..P
      BY <1>1, <1>2, <3>1 DEF ToSet
    <3>2. CASE ~(i \in 1..P)
      BY <1>2, <1>4, <3>2 DEF ToSet
    <3>3. QED BY <3>1, <3>2
  <2>2. ASSUME NEW i \in 1..P PROVE p[i] \in ToSet(r)
    <3>1. i \in 1..(P + Q) /\ r[i] = p[i]
      BY <1>1
    <3>2. QED BY <1>2, <3>1 DEF ToSet
  <2>3. ASSUME NEW i \in 1..Q PROVE q[i] \in ToSet(r)
    <3>1. P + i \in 1..(P + Q) /\ r[P + i] = q[i]
      BY <1>1
    <3>2. QED BY <1>2, <3>1 DEF ToSet
  <2>4. QED BY <1>2, <2>1, <2>2, <2>3 DEF ToSet
<1>8. QED BY <1>1, <1>6, <1>7 DEF r

\* What a backwards reading of a file yields: the events of its whole lines, and
\* the newest first when the lines are in order.
Reading(lines, g) ==
    g = [n \in 0..Len(lines) |->
            IF n = 0 THEN <<>>
            ELSE IF lines[n].whole THEN <<lines[n].ev>> \o g[n - 1]
            ELSE g[n - 1]]

LEMMA ReadingExists ==
    ASSUME NEW lines \in Seq(Line)
    PROVE  \E g : Reading(lines, g)
<1> DEFINE L == Len(lines)
           X == Seq(Nat)
           x0 == <<>>
           Next1(n, p) == IF lines[n].whole THEN <<lines[n].ev>> \o p ELSE p
           F == [n \in Nat |-> [p \in Seq(Nat) |-> IF n + 1 \in 1..L THEN Next1(n + 1, p) ELSE p]]
<1>1. L \in Nat /\ \A n \in 1..L : lines[n] \in Line
  OBVIOUS
<1>2. \A n \in 1..L : \A p \in Seq(Nat) : Next1(n, p) \in Seq(Nat)
  BY <1>1 DEF Line
<1> HIDE DEF Next1, L
<1>3. F \in [Nat -> [Seq(Nat) -> Seq(Nat)]]
  BY <1>2
<1>4. \A n \in Nat : \A p \in Seq(Nat) : n + 1 \in 1..L => F[n][p] = Next1(n + 1, p)
  OBVIOUS
<1>5. x0 \in X /\ F \in [Nat -> [X -> X]]
  BY <1>3
<1> HIDE DEF F, X, x0
<1>6. PICK f : Upto(f, L, X, x0, F)
  BY <1>1, <1>5, Recursion
<1>7. /\ f \in [0..L -> Seq(Nat)] /\ f[0] = <<>>
      /\ \A n \in 0..(L - 1) : f[n + 1] = F[n][f[n]]
  BY <1>6 DEF Upto, X, x0
<1>8. ASSUME NEW n \in 0..L
      PROVE  f[n] = IF n = 0 THEN <<>> ELSE Next1(n, f[n - 1])
  <2>1. CASE n # 0
    <3>1. n - 1 \in 0..(L - 1) /\ n - 1 \in Nat /\ n - 1 \in 0..L /\ (n - 1) + 1 = n /\ n \in 1..L
      BY <1>1, <2>1
    <3>2. f[n] = F[n - 1][f[n - 1]] /\ f[n - 1] \in Seq(Nat)
      BY <1>7, <3>1
    <3>3. F[n - 1][f[n - 1]] = Next1((n - 1) + 1, f[n - 1])
      BY <1>4, <3>1, <3>2
    <3>4. QED BY <2>1, <3>1, <3>2, <3>3
  <2>2. QED BY <1>7, <2>1
<1>9. f = [n \in 0..L |-> f[n]]
  BY <1>7
<1>10. f = [n \in 0..L |-> IF n = 0 THEN <<>> ELSE Next1(n, f[n - 1])]
  BY <1>8, <1>9, Zenon
<1>11. Reading(lines, f)
  BY <1>10, Zenon DEF Reading, Next1, L
<1>12. QED BY <1>11

LEMMA BackwardsAre ==
    ASSUME NEW lines \in Seq(Line)
    PROVE  /\ Backwards(lines) \in Seq(Nat)
           /\ \A x : x \in ToSet(Backwards(lines)) <=>
                     \E j \in DOMAIN lines : lines[j].whole /\ lines[j].ev = x
           /\ Rises(lines) => Falls(Backwards(lines))
<1> DEFINE L == Len(lines)
           g == CHOOSE g : Reading(lines, g)
           Has(n) == {x \in Nat : \E j \in 1..n : lines[j].whole /\ lines[j].ev = x}
           T == {n \in Nat : n <= L => /\ g[n] \in Seq(Nat) /\ ToSet(g[n]) = Has(n)
                                       /\ Rises(lines) => Falls(g[n])}
<1>1. Reading(lines, g)
  BY ReadingExists
<1>2. Backwards(lines) = g[L]
  BY DEF Backwards, Reading
<1>3. L \in Nat /\ DOMAIN lines = 1..L /\ \A n \in 1..L : lines[n] \in Line
  OBVIOUS
<1> HIDE DEF g
<1>4. \A n \in 0..L : g[n] = IF n = 0 THEN <<>>
                              ELSE IF lines[n].whole THEN <<lines[n].ev>> \o g[n - 1]
                              ELSE g[n - 1]
  BY <1>1 DEF Reading
<1> HIDE DEF L
<1>5. 0 \in T
  <2>0. 0 \in 0..L
    BY <1>3
  <2>1. g[0] = <<>>
    BY <1>4, <2>0, Zenon
  <2>2. <<>> \in Seq(Nat) /\ ToSet(<<>>) = {} /\ Has(0) = {} /\ Falls(<<>>)
    BY DEF ToSet, Falls
  <2>3. QED BY <2>1, <2>2
<1>6. ASSUME NEW n \in Nat, n \in T PROVE n + 1 \in T
  <2>1. SUFFICES ASSUME n + 1 <= L
                 PROVE  /\ g[n + 1] \in Seq(Nat) /\ ToSet(g[n + 1]) = Has(n + 1)
                        /\ Rises(lines) => Falls(g[n + 1])
    OBVIOUS
  <2>2. /\ g[n] \in Seq(Nat) /\ ToSet(g[n]) = Has(n)
        /\ Rises(lines) => Falls(g[n])
    BY <1>3, <1>6, <2>1
  <2> DEFINE e == lines[n + 1].ev
  <2>3. /\ n + 1 \in 1..L /\ n + 1 \in 0..L /\ n + 1 # 0 /\ (n + 1) - 1 = n
        /\ e \in Nat /\ lines[n + 1].whole \in BOOLEAN
    BY <1>3, <2>1 DEF Line
  <2>4. g[n + 1] = IF lines[n + 1].whole THEN <<e>> \o g[n] ELSE g[n]
    BY <1>4, <2>3
  <2>5. CASE lines[n + 1].whole
    <3>1. Has(n + 1) = Has(n) \cup {e}
      <4>1. \A j \in 1..(n + 1) : j \in 1..n \/ j = n + 1
        OBVIOUS
      <4>2. \A j \in 1..n : j \in 1..(n + 1)
        OBVIOUS
      <4>3. n + 1 \in 1..(n + 1)
        OBVIOUS
      <4>4. QED BY <2>3, <2>5, <4>1, <4>2, <4>3
    <3>2. <<e>> \in Seq(Nat) /\ ToSet(<<e>>) = {e} /\ Falls(<<e>>) /\ <<e>>[1] = e /\ DOMAIN <<e>> = {1}
      BY <2>3 DEF ToSet, Falls
    <3> HIDE DEF e, Has
    <3>3. /\ <<e>> \o g[n] \in Seq(Nat)
          /\ ToSet(<<e>> \o g[n]) = {e} \cup ToSet(g[n])
      <4> DEFINE r == <<e>> \o g[n]
                 K == Len(g[n])
      <4>1. /\ r \in Seq(Nat) /\ Len(r) = K + 1 /\ r[1] = e /\ K \in Nat
            /\ \A i \in 1..K : r[i + 1] = g[n][i]
        BY <2>2, <2>3
      <4>2. DOMAIN r = 1..(K + 1) /\ DOMAIN g[n] = 1..K
        BY <2>2, <4>1
      <4> HIDE DEF r, K
      <4>3. ASSUME NEW i \in 1..(K + 1) PROVE r[i] \in {e} \cup ToSet(g[n])
        <5>1. CASE i = 1
          BY <4>1, <5>1
        <5>2. CASE i # 1
          <6>1. i - 1 \in 1..K /\ (i - 1) + 1 = i
            BY <4>1, <5>2
          <6>2. r[i] = g[n][i - 1]
            BY <4>1, <6>1
          <6>3. QED BY <4>2, <6>1, <6>2 DEF ToSet
        <5>3. QED BY <5>1, <5>2
      <4>4. e \in ToSet(r)
        <5>1. 1 \in DOMAIN r
          BY <4>1, <4>2
        <5>2. QED BY <4>1, <5>1 DEF ToSet
      <4>5. ASSUME NEW i \in 1..K PROVE g[n][i] \in ToSet(r)
        <5>1. i + 1 \in DOMAIN r /\ r[i + 1] = g[n][i]
          BY <4>1, <4>2
        <5>2. QED BY <5>1 DEF ToSet
      <4>6. ToSet(r) = {e} \cup ToSet(g[n])
        BY <4>2, <4>3, <4>4, <4>5 DEF ToSet
      <4>7. QED BY <4>1, <4>6 DEF r
    <3>4. ASSUME Rises(lines) PROVE Falls(<<e>> \o g[n])
      <4>1. ASSUME NEW x \in ToSet(g[n]) PROVE e > x
        <5>1. PICK j \in 1..n : lines[j].ev = x
          BY <2>2 DEF Has
        <5>2. j \in 1..L /\ j < n + 1
          BY <1>3, <2>1
        <5>3. lines[j].ev < e
          BY <1>3, <2>3, <3>4, <5>2 DEF Rises, e
        <5>4. x \in Nat
          BY <2>2 DEF Has
        <5>5. QED BY <2>3, <5>1, <5>3, <5>4
      <4>2. \A i \in DOMAIN <<e>>, j \in DOMAIN g[n] : <<e>>[i] > g[n][j]
        BY <3>2, <4>1 DEF ToSet
      <4>3. QED BY <2>2, <3>2, <3>4, <4>2, FallsConcat
    <3>5. QED BY <2>2, <2>4, <2>5, <3>1, <3>3, <3>4
  <2>6. CASE ~lines[n + 1].whole
    <3>1. Has(n + 1) = Has(n)
      <4>1. \A j \in 1..(n + 1) : j \in 1..n \/ j = n + 1
        OBVIOUS
      <4>2. \A j \in 1..n : j \in 1..(n + 1)
        OBVIOUS
      <4>3. QED BY <2>6, <4>1, <4>2
    <3>2. QED BY <2>2, <2>4, <2>6, <3>1
  <2>7. QED BY <2>3, <2>5, <2>6
<1>7. L \in T
  <2> HIDE DEF T
  <2>1. QED BY <1>3, <1>5, <1>6, SetInduction
<1>8. g[L] \in Seq(Nat) /\ ToSet(g[L]) = Has(L) /\ (Rises(lines) => Falls(g[L]))
  BY <1>3, <1>7
<1>9. \A j \in 1..L : lines[j].ev \in Nat
  BY <1>3 DEF Line
<1>10. QED BY <1>2, <1>3, <1>8, <1>9

----------------------------------------------------------------------------
(* The audit log: the inductive invariant.                                   *)

LogTypeOK ==
    /\ live \in Seq(Line) /\ open \in BOOLEAN
    /\ rotated \in [DOMAIN rotated -> Seq(Line)]
    /\ DOMAIN rotated \in SUBSET Name /\ IsFiniteSet(DOMAIN rotated)
    /\ garbled \subseteq AllFiles /\ up \in BOOLEAN
    /\ lastHash \in Nat /\ events \in Nat /\ clock \in Nat \ {0}
    /\ query \in [todo : Seq(Name \cup {LIVE}), answer : Seq(Nat)]
    /\ {acked, swallowed, missed} \subseteq SUBSET Nat
    /\ {broken, disordered} \subseteq BOOLEAN /\ {logFaults, back} \subseteq Nat

\* The names of one instant are numbered without a gap at the end, so the next
\* number is free; and the names have one order.
DirectoryKept ==
    /\ Sorted(_rotated_paths, DOMAIN rotated)
    /\ \A g \in DOMAIN rotated : g.n < Cardinality({h \in DOMAIN rotated : h.at = g.at})

Numbered ==
    /\ \A j \in DOMAIN live : live[j].ev <= events
    /\ \A g \in DOMAIN rotated : \A j \in DOMAIN rotated[g] : rotated[g][j].ev <= events
    /\ \A m \in DOMAIN query.answer : query.answer[m] <= events
    /\ \A e \in acked : e <= events

\* A line without its end is of an event whose append did not return.
OpenLine == open => live # <<>> /\ live[Len(live)].ev \notin acked

LinesRise ==
    /\ Rises(live)
    /\ \A g \in DOMAIN rotated :
           /\ Rises(rotated[g])
           /\ \A i \in DOMAIN rotated[g], j \in DOMAIN live : rotated[g][i].ev < live[j].ev

\* All lines of one file are older than all lines of the other.
Older(s, t) == \A i \in DOMAIN s, j \in DOMAIN t : s[i].ev < t[j].ev

SegmentsRise ==
    ~disordered =>
        \A g, h \in DOMAIN rotated : Before(g, h) => Older(rotated[g], rotated[h])

Chained(all) ==
    \A n \in DOMAIN all :
        all[n].whole /\ all[n].prev = (IF n = 1 THEN GENESIS ELSE all[n - 1].ev)

Tip(all) == IF all = <<>> THEN GENESIS ELSE all[Len(all)].ev

ChainKept ==
    ~broken /\ ~disordered =>
        Chained(Lines(_rotated_paths)) /\ (up => lastHash = Tip(Lines(_rotated_paths)))

AckedWritten == acked \ swallowed \subseteq Written

\* What the reader has before it.
AtLive == query.todo # <<>> /\ Head(query.todo) = LIVE
Ahead == ToSet(query.todo) \ {LIVE}

\* It reads the live file first and the segments newest first, and has all of them
\* before it that are older than one it has before it.
ReadsBack ==
    /\ Ahead \subseteq DOMAIN rotated
    /\ ~disordered =>
        /\ \A i \in DOMAIN query.todo : query.todo[i] = LIVE => i = 1
        /\ \A i, j \in DOMAIN query.todo :
               i < j /\ query.todo[i] # LIVE => Before(query.todo[j], query.todo[i])
        /\ \A g \in DOMAIN rotated, d \in Ahead : Before(g, d) => g \in Ahead

\* What it has read is newer than what it has before it, and all there was, but for
\* what was rotated away before it came to the live file.
ReadsAll ==
    ~disordered =>
        /\ AtLive =>
               /\ query.answer = <<>>
               /\ \A g \in DOMAIN rotated \ Ahead : \A j \in DOMAIN rotated[g] :
                      rotated[g][j].ev \in missed
        /\ ~AtLive =>
               /\ Falls(query.answer)
               /\ \A d \in Ahead : \A j \in DOMAIN rotated[d], m \in DOMAIN query.answer :
                      rotated[d][j].ev < query.answer[m]
               /\ query.answer # <<>> => \A e \in Written : e < query.answer[1] =>
                      \/ e \in ToSet(query.answer) \cup missed
                      \/ \E d \in Ahead : \E j \in DOMAIN rotated[d] : rotated[d][j].whole /\ rotated[d][j].ev = e

Files == LogTypeOK /\ DirectoryKept /\ OpenLine /\ Numbered /\ LinesRise /\ SegmentsRise

LogIInv == Files /\ AckedWritten /\ ChainKept /\ ReadsBack /\ ReadsAll

----------------------------------------------------------------------------
(* The steps of the files.                                                   *)

LEMMA InitLogIInv == LogInit => LogIInv /\ Lines(_rotated_paths) = <<>>
<1> SUFFICES ASSUME LogInit PROVE LogIInv /\ Lines(_rotated_paths) = <<>>
  OBVIOUS
<1>1. <<>> \in Seq(Line) /\ <<>> \in Seq(Nat) /\ <<>> \in Seq(Name \cup {LIVE})
  OBVIOUS
<1>2. DOMAIN rotated = {} /\ DOMAIN live = {} /\ DOMAIN query.todo = {} /\ DOMAIN query.answer = {}
  BY DEF LogInit, Idle
<1>3. Cardinality({}) = 0 /\ IsFiniteSet({})
  BY FS_EmptySet
<1>4. LogTypeOK
  <2>1. rotated \in [DOMAIN rotated -> Seq(Line)]
    BY <1>2 DEF LogInit
  <2>2. query \in [todo : Seq(Name \cup {LIVE}), answer : Seq(Nat)]
    BY <1>1 DEF LogInit, Idle
  <2>3. {acked, swallowed, missed} \subseteq SUBSET Nat /\ {broken, disordered} \subseteq BOOLEAN
    BY DEF LogInit
  <2>4. DOMAIN rotated \in SUBSET Name /\ IsFiniteSet(DOMAIN rotated)
    BY <1>2, <1>3
  <2>5. live \in Seq(Line)
    BY <1>1 DEF LogInit
  <2>6. open \in BOOLEAN
    BY DEF LogInit
  <2>7. /\ lastHash \in Nat /\ events \in Nat /\ clock \in Nat \ {0} /\ {logFaults, back} \subseteq Nat
        /\ garbled \subseteq AllFiles /\ up \in BOOLEAN
    BY DEF LogInit, GENESIS
  <2>8. QED BY <2>1, <2>2, <2>3, <2>4, <2>5, <2>6, <2>7 DEF LogTypeOK
<1>5. Sorted(<<>>, {})
  BY <1>3 DEF Sorted, ToSet
<1>6. _rotated_paths = <<>>
  <2>1. Paths({}) = <<>>
    BY <1>3, <1>5, PathsAre
  <2>2. QED BY <1>2, <2>1 DEF _rotated_paths, Paths
<1>7. DirectoryKept
  BY <1>2, <1>5, <1>6 DEF DirectoryKept
<1>8. Lines(_rotated_paths) = <<>>
  <2> DEFINE none == [n \in DOMAIN <<>> |-> rotated[<<>>[n]]]
  <2>1. none = <<>>
    OBVIOUS
  <2>2. FlattenSeq(<<>>) = <<>>
    BY DEF FlattenSeq
  <2>3. Lines(<<>>) = FlattenSeq(none) \o live
    BY DEF Lines
  <2> HIDE DEF none
  <2>4. QED BY <1>6, <2>1, <2>2, <2>3 DEF LogInit
<1>9. ChainKept
  BY <1>8 DEF LogInit, ChainKept, Chained, Tip
<1>10. OpenLine /\ Numbered /\ LinesRise /\ SegmentsRise /\ AckedWritten
  BY <1>2 DEF LogInit, OpenLine, Numbered, LinesRise, SegmentsRise, AckedWritten, Rises
<1>11. ReadsBack /\ ReadsAll
  BY <1>2 DEF LogInit, Idle, ReadsBack, ReadsAll, AtLive, Ahead, ToSet, Falls
<1>12. QED BY <1>4, <1>7, <1>8, <1>9, <1>10, <1>11 DEF LogIInv, Files

\* The name a rotation takes is no segment's.
LEMMA NewName ==
    ASSUME LogTypeOK, DirectoryKept
    PROVE  /\ _rotated_path_for \in Name
           /\ _rotated_path_for \notin DOMAIN rotated
           /\ IsFiniteSet({g \in DOMAIN rotated : g.at = clock})
<1> DEFINE now == {g \in DOMAIN rotated : g.at = clock}
           new == [at |-> clock, n |-> Cardinality(now)]
<1>1. IsFiniteSet(now) /\ Cardinality(now) \in Nat
  BY FS_Subset, FS_CardinalityType DEF LogTypeOK
<1>2. new \in Name
  BY <1>1 DEF LogTypeOK, Name
<1>3. new \notin DOMAIN rotated
  <2>1. SUFFICES ASSUME new \in DOMAIN rotated PROVE FALSE
    OBVIOUS
  <2>2. new.at = clock /\ new.n = Cardinality(now)
    OBVIOUS
  <2>3. new.n < Cardinality({h \in DOMAIN rotated : h.at = new.at})
    BY <2>1 DEF DirectoryKept
  <2>4. new.n < Cardinality(now)
    BY <2>2, <2>3
  <2>5. QED BY <1>1, <2>2, <2>4
<1>4. _rotated_path_for = new
  BY DEF _rotated_path_for
<1>5. QED BY <1>1, <1>2, <1>3, <1>4

\* What a rotation does to the directory.
LEMMA Rotation ==
    ASSUME LogTypeOK, DirectoryKept, _maybe_rotate_locked
    PROVE  /\ rotated' \in [DOMAIN rotated' -> Seq(Line)]
           /\ DOMAIN rotated' = DOMAIN rotated \cup (IF Rotates THEN {_rotated_path_for} ELSE {})
           /\ \A g \in DOMAIN rotated : rotated'[g] = rotated[g]
           /\ Rotates => rotated'[_rotated_path_for] = live
           /\ DOMAIN rotated' \in SUBSET Name /\ IsFiniteSet(DOMAIN rotated')
           /\ DirectoryKept'
<1> DEFINE D == DOMAIN rotated
           new == _rotated_path_for
<1>1. new \in Name /\ new \notin D /\ D \in SUBSET Name /\ IsFiniteSet(D)
  BY NewName DEF LogTypeOK
<1>2. CASE ~Rotates
  BY <1>2 DEF _maybe_rotate_locked, LogTypeOK, DirectoryKept, _rotated_paths
<1>3. CASE Rotates
  <2>1. rotated' = [g \in D \cup {new} |-> IF g = new THEN live ELSE rotated[g]]
    BY <1>3 DEF _maybe_rotate_locked
  <2>2. /\ DOMAIN rotated' = D \cup {new}
        /\ \A g \in D : rotated'[g] = rotated[g]
        /\ rotated'[new] = live
        /\ rotated' \in [DOMAIN rotated' -> Seq(Line)]
    BY <1>1, <2>1 DEF LogTypeOK
  <2>3. DOMAIN rotated' \in SUBSET Name /\ IsFiniteSet(DOMAIN rotated')
    BY <1>1, <2>2, FS_AddElement
  <2>4. Sorted(_rotated_paths', DOMAIN rotated')
    <3>1. Sorted(_rotated_paths, D)
      BY DEF DirectoryKept
    <3>2. PICK t : Sorted(t, D \cup {new})
      BY <1>1, <3>1, SortedGrows
    <3>3. Paths(DOMAIN rotated') = t
      BY <2>2, <2>3, <3>2, PathsAre, FS_CardinalityType
    <3>4. _rotated_paths' = Paths(DOMAIN rotated')
      BY DEF _rotated_paths, Paths
    <3>5. QED BY <2>2, <3>2, <3>3, <3>4
  <2>5. ASSUME NEW g \in D \cup {new}
        PROVE  g.n < Cardinality({h \in D \cup {new} : h.at = g.at})
    <3> DEFINE old == {h \in D : h.at = g.at}
               all == {h \in D \cup {new} : h.at = g.at}
    <3>1. IsFiniteSet(old) /\ Cardinality(old) \in Nat
      BY <1>1, FS_Subset, FS_CardinalityType
    <3>2. g.n \in Nat
      BY <1>1 DEF Name
    <3>3. CASE g.at = new.at
      <4>1. all = old \cup {new} /\ new \notin old
        BY <1>1, <3>3
      <4>2. Cardinality(all) = Cardinality(old) + 1
        BY <3>1, <4>1, FS_AddElement
      <4>3. CASE g \in D
        <5>1. g.n < Cardinality(old)
          BY <4>3 DEF DirectoryKept
        <5>2. QED BY <3>1, <3>2, <4>2, <5>1
      <4>4. CASE g = new
        <5>1. new.n = Cardinality({h \in D : h.at = clock}) /\ new.at = clock
          BY DEF _rotated_path_for
        <5>2. g.n = Cardinality(old)
          BY <4>4, <5>1
        <5>3. QED BY <3>1, <3>2, <4>2, <5>2
      <4>5. QED BY <4>3, <4>4
    <3>4. CASE g.at # new.at
      <4>1. all = old /\ g \in D
        BY <3>4
      <4>2. QED BY <4>1 DEF DirectoryKept
    <3>5. QED BY <3>3, <3>4
  <2>6. DirectoryKept'
    <3>1. \A g \in DOMAIN rotated' : g.n < Cardinality({h \in DOMAIN rotated' : h.at = g.at})
      BY <2>2, <2>5
    <3>2. QED BY <2>4, <3>1 DEF DirectoryKept
  <2>7. QED BY <1>3, <2>2, <2>3, <2>6
<1>4. QED BY <1>2, <1>3

\* The line a write puts into the file.
NewLine(part) == [ev |-> events + 1, prev |-> lastHash, whole |-> part \in {"bare", "all"} /\ ~Onto]

Parts == {"none", "some", "cut", "bare", "all"}

LEMMA AppendLine ==
    ASSUME NEW s \in Seq(Line), NEW line \in Line, Rises(s),
           \A j \in DOMAIN s : s[j].ev < line.ev
    PROVE  LET t == Append(s, line)
           IN  /\ t \in Seq(Line) /\ Rises(t) /\ t # <<>> /\ DOMAIN t = 1..(Len(s) + 1)
               /\ Len(t) = Len(s) + 1 /\ t[Len(s) + 1] = line
               /\ \A j \in 1..Len(s) : t[j] = s[j]
<1> DEFINE t == Append(s, line)
           L == Len(s)
<1>1. /\ t \in Seq(Line) /\ t # <<>> /\ Len(t) = L + 1 /\ t[L + 1] = line /\ L \in Nat
      /\ \A j \in 1..L : t[j] = s[j]
      /\ DOMAIN s = 1..L
  OBVIOUS
<1> HIDE DEF t, L
<1>2. DOMAIN t = 1..(L + 1)
  BY <1>1
<1>3. ASSUME NEW i \in 1..(L + 1), NEW j \in 1..(L + 1), i < j
      PROVE  t[i].ev < t[j].ev
  <2>1. i \in 1..L
    BY <1>1, <1>3
  <2>2. CASE j = L + 1
    BY <1>1, <2>1, <2>2
  <2>3. CASE j # L + 1
    <3>1. j \in 1..L
      BY <1>1, <2>3
    <3>2. QED BY <1>1, <1>3, <2>1, <3>1 DEF Rises
  <2>4. QED BY <2>2, <2>3
<1>4. Rises(t)
  BY <1>2, <1>3 DEF Rises
<1>5. QED BY <1>1, <1>2, <1>4 DEF t, L

LEMMA FrontOf ==
    ASSUME NEW s \in Seq(Line), s # <<>>
    PROVE  /\ Front(s) \in Seq(Line) /\ Len(Front(s)) = Len(s) - 1 /\ Len(s) \in Nat \ {0}
           /\ DOMAIN s = 1..Len(s) /\ DOMAIN Front(s) = 1..(Len(s) - 1)
           /\ \A j \in 1..(Len(s) - 1) : Front(s)[j] = s[j]
<1>1. Len(s) \in Nat \ {0} /\ DOMAIN s = 1..Len(s)
  OBVIOUS
<1>2. Front(s) \in Seq(Line) /\ Len(Front(s)) = Len(s) - 1
  BY <1>1 DEF Front
<1>3. \A j \in 1..(Len(s) - 1) : Front(s)[j] = s[j]
  BY <1>1 DEF Front
<1>4. DOMAIN Front(s) = 1..(Len(s) - 1)
  BY <1>2
<1>5. QED BY <1>1, <1>2, <1>3, <1>4

\* What a write does to the live file: it loses no line of it but an open one.
LEMMA WriteShape ==
    ASSUME Files, NEW part \in Parts, WriteLine(part)
    PROVE  /\ live' \in Seq(Line) /\ open' \in BOOLEAN /\ Rises(live')
           /\ \A j \in DOMAIN live' : live'[j] = NewLine(part) \/ \E i \in DOMAIN Kept : live'[j] = Kept[i]
           /\ \A i \in DOMAIN Kept : (Onto /\ i = Len(live)) \/ \E j \in DOMAIN live' : live'[j] = Kept[i]
           /\ part # "none" => \E j \in DOMAIN live' : live'[j] = NewLine(part)
           /\ open' => \/ part = "none" /\ open /\ live' = live
                       \/ /\ part \notin {"none", "all"}
                          /\ live' # <<>> /\ live'[Len(live')] = NewLine(part)
           /\ part = "none" => live' = Kept
           /\ part # "none" /\ ~Onto => live' = Append(Kept, NewLine(part))
           /\ Kept \in Seq(Line) /\ NewLine(part) \in Line
<1> DEFINE line == NewLine(part)
           K == Kept
<1>1. line \in Line /\ line.ev = events + 1
  BY DEF Files, LogTypeOK, NewLine, Line
<1>2. K \in Seq(Line) /\ Rises(K) /\ \A j \in DOMAIN K : K[j].ev <= events
  <2>1. live \in Seq(Line) /\ Rises(live) /\ \A j \in DOMAIN live : live[j].ev <= events
    BY DEF Files, LogTypeOK, LinesRise, Numbered
  <2>2. <<>> \in Seq(Line) /\ Rises(<<>>) /\ DOMAIN <<>> = {}
    BY DEF Rises
  <2>3. QED BY <2>1, <2>2 DEF Kept
<1>3. events \in Nat /\ \A j \in DOMAIN K : K[j].ev < line.ev
  <2>1. events \in Nat /\ \A j \in DOMAIN K : K[j] \in Line
    BY <1>2 DEF Files, LogTypeOK
  <2>2. QED BY <1>1, <1>2, <2>1 DEF Line
<1>4. /\ live' = CASE part = "none" -> K
                    [] part # "none" /\ Onto -> Append(Front(K), line)
                    [] OTHER -> Append(K, line)
      /\ open' = (part \in {"some", "cut", "bare"} \/ (part = "none" /\ Onto))
  BY DEF WriteLine, NewLine
<1>5. open \in BOOLEAN /\ open' \in BOOLEAN
  BY <1>4 DEF Files, LogTypeOK
<1>6. Onto => open /\ K = live /\ K # <<>>
  BY DEF Onto, Kept, Files, OpenLine
<1> HIDE DEF K, line
<1>7. CASE part = "none"
  <2>1. live' = K /\ (open' => Onto)
    BY <1>4, <1>7, Zenon
  <2>2. QED BY <1>1, <1>2, <1>5, <1>6, <1>7, <2>1 DEF K, line
<1>8. CASE part # "none" /\ Onto
  <2> DEFINE F == Front(K)
             t == Append(F, line)
  <2>1. live' = t /\ (open' => part # "all")
    BY <1>4, <1>8
  <2>2. /\ F \in Seq(Line) /\ Len(F) = Len(K) - 1 /\ Len(K) \in Nat \ {0}
        /\ DOMAIN K = 1..Len(K) /\ DOMAIN F = 1..(Len(K) - 1)
        /\ \A j \in 1..(Len(K) - 1) : F[j] = K[j]
    BY <1>2, <1>6, <1>8, FrontOf
  <2> HIDE DEF F
  <2>3. \A j \in DOMAIN F : j \in DOMAIN K
    BY <2>2
  <2>4. Rises(F) /\ \A j \in DOMAIN F : F[j].ev < line.ev
    BY <1>2, <1>3, <2>2, <2>3 DEF Rises
  <2>5. /\ t \in Seq(Line) /\ Rises(t) /\ t # <<>> /\ DOMAIN t = 1..(Len(F) + 1)
        /\ Len(t) = Len(F) + 1 /\ t[Len(F) + 1] = line
        /\ \A j \in 1..Len(F) : t[j] = F[j]
    BY <1>1, <2>2, <2>4, AppendLine
  <2> HIDE DEF t
  <2>6. DOMAIN t = 1..Len(K) /\ t[Len(K)] = line /\ \A j \in 1..(Len(K) - 1) : t[j] = K[j]
    BY <2>2, <2>5
  <2>7. ASSUME NEW j \in DOMAIN t PROVE t[j] = line \/ \E i \in DOMAIN K : t[j] = K[i]
    <3>1. j \in 1..(Len(K) - 1) \/ j = Len(K)
      BY <2>2, <2>6
    <3>2. j \in DOMAIN K
      BY <2>2, <2>6
    <3>3. QED BY <2>6, <3>1, <3>2
  <2>8. ASSUME NEW i \in DOMAIN K, i # Len(live) PROVE \E j \in DOMAIN t : t[j] = K[i]
    <3>1. i # Len(K)
      BY <1>6, <1>8, <2>8
    <3>2. i \in 1..(Len(K) - 1) /\ i \in DOMAIN t
      BY <2>2, <2>6, <3>1
    <3>3. QED BY <2>6, <3>2
  <2>9. \E j \in DOMAIN t : t[j] = line
    BY <2>2, <2>6
  <2>10. t[Len(t)] = line
    BY <2>5
  <2>11. QED BY <1>1, <1>2, <1>5, <1>6, <1>8, <2>1, <2>5, <2>7, <2>8, <2>9, <2>10 DEF K, line
<1>9. CASE part # "none" /\ ~Onto
  <2> DEFINE t == Append(K, line)
  <2>1. live' = t /\ (open' => part # "all")
    BY <1>4, <1>9
  <2>2. /\ t \in Seq(Line) /\ Rises(t) /\ t # <<>> /\ DOMAIN t = 1..(Len(K) + 1)
        /\ Len(t) = Len(K) + 1 /\ t[Len(K) + 1] = line
        /\ \A j \in 1..Len(K) : t[j] = K[j]
    BY <1>1, <1>2, <1>3, AppendLine
  <2>3. DOMAIN K = 1..Len(K) /\ Len(K) \in Nat
    BY <1>2
  <2> HIDE DEF t
  <2>4. ASSUME NEW j \in DOMAIN t PROVE t[j] = line \/ \E i \in DOMAIN K : t[j] = K[i]
    <3>1. j \in 1..Len(K) \/ j = Len(K) + 1
      BY <2>2, <2>3
    <3>2. QED BY <2>2, <2>3, <3>1
  <2>5. ASSUME NEW i \in DOMAIN K PROVE \E j \in DOMAIN t : t[j] = K[i]
    <3>1. i \in 1..Len(K) /\ i \in DOMAIN t
      BY <2>2, <2>3
    <3>2. QED BY <2>2, <3>1
  <2>6. (\E j \in DOMAIN t : t[j] = line) /\ t[Len(t)] = line
    BY <2>2, <2>3
  <2>7. live' = Append(K, line)
    BY <2>1 DEF t
  <2>8. QED BY <1>1, <1>2, <1>5, <1>9, <2>1, <2>2, <2>4, <2>5, <2>6, <2>7 DEF K, line
<1>10. QED BY <1>7, <1>8, <1>9

----------------------------------------------------------------------------
(* The chain.                                                                *)

Chunks(rot, paths) == [n \in DOMAIN paths |-> rot[paths[n]]]

\* Lines(_rotated_paths) of a directory.
LinesOf(rot, lv) == FlattenSeq(Chunks(rot, Paths(DOMAIN rot))) \o lv

LEMMA LinesAre ==
    /\ Lines(_rotated_paths) = LinesOf(rotated, live)
    /\ Lines(_rotated_paths)' = LinesOf(rotated', live')
BY DEF Lines, _rotated_paths, LinesOf, Chunks, Paths

LEMMA MaxOf ==
    ASSUME NEW k \in Nat, NEW T \in SUBSET (1..k), T # {}
    PROVE  Max(T) \in T /\ \A y \in T : Max(T) >= y
<1> DEFINE R == {k - x : x \in T}
<1>1. R \subseteq Nat /\ R # {}
  OBVIOUS
<1>2. PICK r \in R : \A y \in R : r <= y
  <2> HIDE DEF R
  <2>1. QED BY <1>1, LeastOne
<1>3. PICK x \in T : r = k - x
  OBVIOUS
<1>4. ASSUME NEW y \in T PROVE x >= y
  <2>1. k - y \in R
    OBVIOUS
  <2>2. k - x <= k - y
    BY <1>2, <1>3, <2>1
  <2>3. x \in Nat /\ y \in Nat
    OBVIOUS
  <2>4. QED BY <2>2, <2>3
<1>5. \E z \in T : \A y \in T : z >= y
  BY <1>4
<1>6. QED BY <1>5 DEF Max

\* Where every line is whole, the last hash that can be read is the last line's.
LEMMA LastWholeIs ==
    ASSUME NEW all \in Seq(Line)
    PROVE  /\ LastWhole(all) \in Nat
           /\ (\A n \in DOMAIN all : all[n].whole) => LastWhole(all) = Tip(all)
<1> DEFINE L == Len(all)
           whole == {n \in DOMAIN all : all[n].whole}
<1>1. L \in Nat /\ DOMAIN all = 1..L /\ \A n \in 1..L : all[n] \in Line
  OBVIOUS
<1>2. whole \in SUBSET (1..L)
  BY <1>1
<1>3. LastWhole(all) = IF whole = {} THEN GENESIS ELSE all[Max(whole)].ev
  BY DEF LastWhole
<1>4. CASE whole = {}
  <2>1. LastWhole(all) = GENESIS /\ GENESIS \in Nat
    BY <1>3, <1>4 DEF GENESIS
  <2>2. (\A n \in 1..L : all[n].whole) => all = <<>>
    BY <1>1, <1>4
  <2>3. QED BY <1>1, <2>1, <2>2 DEF Tip
<1>5. CASE whole # {}
  <2>1. Max(whole) \in whole /\ \A y \in whole : Max(whole) >= y
    <3> HIDE DEF whole
    <3>1. QED BY <1>1, <1>2, <1>5, MaxOf
  <2>2. Max(whole) \in 1..L /\ LastWhole(all) = all[Max(whole)].ev
    BY <1>2, <1>3, <1>5, <2>1
  <2>3. LastWhole(all) \in Nat
    BY <1>1, <2>2 DEF Line
  <2>4. ASSUME \A n \in 1..L : all[n].whole PROVE LastWhole(all) = Tip(all)
    <3>1. L \in whole /\ all # <<>>
      BY <1>1, <2>2, <2>4
    <3>2. Max(whole) = L
      BY <1>1, <2>1, <2>2, <3>1
    <3>3. QED BY <2>2, <3>1, <3>2 DEF Tip
  <2>5. QED BY <1>1, <2>3, <2>4
<1>6. QED BY <1>4, <1>5

\* A line chained to the last makes the chain one longer.
LEMMA ChainGrows ==
    ASSUME NEW all \in Seq(Line), NEW line \in Line,
           Chained(all), line.whole, line.prev = Tip(all)
    PROVE  Chained(Append(all, line)) /\ Tip(Append(all, line)) = line.ev
<1> DEFINE t == Append(all, line)
           L == Len(all)
<1>1. /\ t # <<>> /\ Len(t) = L + 1 /\ t[L + 1] = line /\ L \in Nat /\ DOMAIN t = 1..(L + 1)
      /\ \A j \in 1..L : t[j] = all[j]
      /\ DOMAIN all = 1..L /\ (all = <<>> <=> L = 0)
  OBVIOUS
<1> HIDE DEF t
<1>2. ASSUME NEW n \in 1..(L + 1)
      PROVE  t[n].whole /\ t[n].prev = (IF n = 1 THEN GENESIS ELSE t[n - 1].ev)
  <2>1. CASE n = L + 1
    <3>1. n # 1 => n - 1 = L /\ t[n - 1] = all[L] /\ all # <<>>
      BY <1>1, <2>1
    <3>2. n = 1 => all = <<>>
      BY <1>1, <2>1
    <3>3. QED BY <1>1, <2>1, <3>1, <3>2 DEF Tip
  <2>2. CASE n # L + 1
    <3>1. n \in 1..L /\ (n # 1 => n - 1 \in 1..L)
      BY <1>1, <2>2
    <3>2. QED BY <1>1, <3>1 DEF Chained
  <2>3. QED BY <2>1, <2>2
<1>3. Chained(t)
  BY <1>1, <1>2 DEF Chained
<1>4. Tip(t) = line.ev
  BY <1>1 DEF Tip
<1>5. QED BY <1>3, <1>4 DEF t

\* A directory whose names are in order reads as one sequence of lines.
LEMMA LinesTyped ==
    ASSUME NEW rot, NEW lv \in Seq(Line), rot \in [DOMAIN rot -> Seq(Line)],
           DOMAIN rot \in SUBSET Name, IsFiniteSet(DOMAIN rot),
           Sorted(Paths(DOMAIN rot), DOMAIN rot)
    PROVE  /\ Paths(DOMAIN rot) \in Seq(DOMAIN rot)
           /\ Chunks(rot, Paths(DOMAIN rot)) \in Seq(Seq(Line))
           /\ FlattenSeq(Chunks(rot, Paths(DOMAIN rot))) \in Seq(Line)
           /\ LinesOf(rot, lv) \in Seq(Line)
<1> DEFINE paths == Paths(DOMAIN rot)
           N == Cardinality(DOMAIN rot)
           chunks == Chunks(rot, paths)
<1>1. N \in Nat
  BY FS_CardinalityType
<1>2. paths \in [1..N -> DOMAIN rot]
  BY DEF Sorted
<1> HIDE DEF paths, N
<1>3. paths \in Seq(DOMAIN rot) /\ DOMAIN paths = 1..N
  BY <1>1, <1>2
<1>4. chunks \in [1..N -> Seq(Line)]
  BY <1>2, <1>3 DEF Chunks
<1>5. chunks \in Seq(Seq(Line))
  BY <1>1, <1>4
<1> HIDE DEF chunks
<1>6. FlattenSeq(chunks) \in Seq(Line)
  BY <1>5, FlattenAppends
<1>7. FlattenSeq(chunks) \o lv \in Seq(Line)
  BY <1>6
<1>8. QED BY <1>3, <1>5, <1>6, <1>7 DEF LinesOf, chunks, paths

\* A directory with one more segment, a live file, after all the others.
Grown(rot, lv, new, rot2) ==
    /\ lv \in Seq(Line) /\ rot \in [DOMAIN rot -> Seq(Line)]
    /\ DOMAIN rot \in SUBSET Name /\ IsFiniteSet(DOMAIN rot)
    /\ Sorted(Paths(DOMAIN rot), DOMAIN rot)
    /\ new \in Name /\ new \notin DOMAIN rot /\ \A g \in DOMAIN rot : Before(g, new)
    /\ DOMAIN rot2 = DOMAIN rot \cup {new} /\ rot2[new] = lv
    /\ \A g \in DOMAIN rot : rot2[g] = rot[g]

\* The lines stay what they were when the live file becomes the last segment.
LEMMA LinesRotate ==
    ASSUME NEW rot, NEW lv, NEW new, NEW rot2, NEW lv2, Grown(rot, lv, new, rot2)
    PROVE  LinesOf(rot2, lv2) = LinesOf(rot, lv) \o lv2
<1> DEFINE D == DOMAIN rot
           paths == Paths(D)
           paths2 == Append(paths, new)
           N == Cardinality(D)
           chunks == Chunks(rot, paths)
           chunks2 == Chunks(rot2, paths2)
<1>0. /\ lv \in Seq(Line) /\ rot \in [DOMAIN rot -> Seq(Line)]
      /\ DOMAIN rot \in SUBSET Name /\ IsFiniteSet(DOMAIN rot)
      /\ Sorted(Paths(DOMAIN rot), DOMAIN rot)
      /\ new \in Name /\ new \notin DOMAIN rot /\ \A g \in DOMAIN rot : Before(g, new)
      /\ DOMAIN rot2 = DOMAIN rot \cup {new} /\ rot2[new] = lv
      /\ \A g \in DOMAIN rot : rot2[g] = rot[g]
  BY DEF Grown
<1>1. N \in Nat /\ Cardinality(D \cup {new}) \in Nat
  BY <1>0, FS_CardinalityType, FS_AddElement
<1>2. Sorted(paths2, D \cup {new})
  BY <1>0, SortedAppends
<1>3. Paths(DOMAIN rot2) = paths2
  BY <1>0, <1>1, <1>2, PathsAre
<1>4. paths \in [1..N -> D] /\ paths \in Seq(D)
  BY <1>0, LinesTyped DEF Sorted
<1>5. chunks \in Seq(Seq(Line)) /\ FlattenSeq(chunks) \in Seq(Line)
  BY <1>0, LinesTyped
<1>6. LinesOf(rot, lv) = FlattenSeq(chunks) \o lv
  BY DEF LinesOf
<1>7. LinesOf(rot2, lv2) = FlattenSeq(chunks2) \o lv2
  BY <1>3 DEF LinesOf
<1> HIDE DEF paths, N, D
<1>8. /\ DOMAIN paths = 1..N /\ Len(paths) = N /\ DOMAIN paths2 = 1..(N + 1)
      /\ paths2[N + 1] = new /\ \A n \in 1..N : paths2[n] = paths[n] /\ paths[n] \in D
  BY <1>1, <1>4
<1> HIDE DEF paths2
<1>9. /\ DOMAIN chunks2 = 1..(N + 1) /\ chunks2[N + 1] = lv
      /\ \A n \in 1..N : chunks2[n] = rot[paths[n]]
      /\ DOMAIN chunks = 1..N /\ \A n \in 1..N : chunks[n] = rot[paths[n]]
  BY <1>0, <1>1, <1>8 DEF Chunks, D
<1>10. chunks2 = [n \in 1..(N + 1) |-> chunks2[n]]
  BY <1>8 DEF Chunks
<1> HIDE DEF chunks, chunks2
<1>11. chunks2 = Append(chunks, lv)
  <2> DEFINE a == Append(chunks, lv)
  <2>1. /\ a \in Seq(Seq(Line)) /\ DOMAIN a = 1..(N + 1) /\ a[N + 1] = lv
        /\ \A n \in 1..N : a[n] = chunks[n]
    BY <1>0, <1>1, <1>5, <1>9
  <2>2. a = [n \in 1..(N + 1) |-> a[n]]
    <3> HIDE DEF a
    <3>1. a \in [1..Len(a) -> Seq(Line)]
      BY <2>1
    <3>2. QED BY <2>1, <3>1
  <2> HIDE DEF a
  <2>3. \A n \in 1..(N + 1) : a[n] = chunks2[n]
    <3>1. \A n \in 1..(N + 1) : n \in 1..N \/ n = N + 1
      BY <1>1
    <3>2. QED BY <1>9, <2>1, <3>1
  <2>4. a = chunks2
    BY <1>10, <2>2, <2>3
  <2>5. QED BY <2>4 DEF a
<1>12. FlattenSeq(chunks2) = FlattenSeq(chunks) \o lv
  BY <1>0, <1>5, <1>11, FlattenAppends
<1>13. QED BY <1>6, <1>7, <1>12

----------------------------------------------------------------------------
(* An attempt to append, whatever becomes of it.                             *)

\* WholeIn of a directory and a live file.
WholeOf(rot, lv, names) ==
    UNION {{l.ev : l \in {m \in ToSet(IF g = LIVE THEN lv ELSE rot[g]) : m.whole}} : g \in names}

Has1(lines, e) == \E j \in DOMAIN lines : lines[j].whole /\ lines[j].ev = e

LEMMA WholeOfIs ==
    ASSUME NEW rot, NEW lv, NEW names, NEW e
    PROVE  e \in WholeOf(rot, lv, names) <=> \E g \in names : Has1(IF g = LIVE THEN lv ELSE rot[g], e)
<1> DEFINE W(f) == {l.ev : l \in {m \in ToSet(f) : m.whole}}
           F(g) == IF g = LIVE THEN lv ELSE rot[g]
<1>1. \A f : e \in W(f) <=> Has1(f, e)
  <2>1. \A f, l : l \in ToSet(f) <=> \E j \in DOMAIN f : f[j] = l
    BY DEF ToSet
  <2>2. QED BY <2>1 DEF Has1
<1>2. WholeOf(rot, lv, names) = UNION {W(F(g)) : g \in names}
  BY DEF WholeOf
<1> HIDE DEF W, F
<1>3. e \in WholeOf(rot, lv, names) <=> \E g \in names : e \in W(F(g))
  BY <1>2
<1>4. QED BY <1>1, <1>3 DEF F

LEMMA WholeAre ==
    /\ Written = WholeOf(rotated, live, AllFiles)
    /\ Written' = WholeOf(rotated', live', AllFiles')
    /\ Readable = WholeOf(rotated, live, AllFiles \ garbled)
    /\ Readable' = WholeOf(rotated', live', AllFiles' \ garbled')
    /\ WholeIn(garbled) = WholeOf(rotated, live, garbled)
BY DEF Written, Readable, WholeIn, WholeOf, Content

LEMMA WrittenIs ==
    /\ DOMAIN rotated \subseteq Name => \A e : e \in Written <=>
             \/ \E j \in DOMAIN live : live[j].whole /\ live[j].ev = e
             \/ \E g \in DOMAIN rotated : \E j \in DOMAIN rotated[g] :
                    rotated[g][j].whole /\ rotated[g][j].ev = e
    /\ DOMAIN rotated' \subseteq Name => \A e : e \in Written' <=>
             \/ \E j \in DOMAIN live' : live'[j].whole /\ live'[j].ev = e
             \/ \E g \in DOMAIN rotated' : \E j \in DOMAIN rotated'[g] :
                    rotated'[g][j].whole /\ rotated'[g][j].ev = e
<1>1. LIVE \notin Name
  BY DEF LIVE, Name
<1>2. ASSUME NEW rot, NEW lv, NEW e, DOMAIN rot \subseteq Name
      PROVE  e \in WholeOf(rot, lv, DOMAIN rot \cup {LIVE}) <=>
                 Has1(lv, e) \/ \E g \in DOMAIN rot : Has1(rot[g], e)
  <2>1. \A g \in DOMAIN rot : g # LIVE
    BY <1>1, <1>2
  <2>2. QED BY <2>1, WholeOfIs
<1>3. /\ DOMAIN rotated \subseteq Name => \A e : e \in Written <=>
             Has1(live, e) \/ \E g \in DOMAIN rotated : Has1(rotated[g], e)
      /\ DOMAIN rotated' \subseteq Name => \A e : e \in Written' <=>
             Has1(live', e) \/ \E g \in DOMAIN rotated' : Has1(rotated'[g], e)
  BY <1>2, WholeAre DEF AllFiles
<1>4. QED BY <1>3 DEF Has1

LEMMA ReadableIs ==
    /\ DOMAIN rotated \subseteq Name => \A e : e \in Readable <=>
             \/ LIVE \notin garbled /\ \E j \in DOMAIN live : live[j].whole /\ live[j].ev = e
             \/ \E g \in DOMAIN rotated \ garbled : \E j \in DOMAIN rotated[g] :
                    rotated[g][j].whole /\ rotated[g][j].ev = e
    /\ DOMAIN rotated' \subseteq Name => \A e : e \in Readable' <=>
             \/ LIVE \notin garbled' /\ \E j \in DOMAIN live' : live'[j].whole /\ live'[j].ev = e
             \/ \E g \in DOMAIN rotated' \ garbled' : \E j \in DOMAIN rotated'[g] :
                    rotated'[g][j].whole /\ rotated'[g][j].ev = e
<1>1. LIVE \notin Name
  BY DEF LIVE, Name
<1>2. ASSUME NEW rot, NEW lv, NEW bad, NEW e, DOMAIN rot \subseteq Name
      PROVE  e \in WholeOf(rot, lv, (DOMAIN rot \cup {LIVE}) \ bad) <=>
                 \/ LIVE \notin bad /\ Has1(lv, e)
                 \/ \E g \in DOMAIN rot \ bad : Has1(rot[g], e)
  <2>1. \A g \in DOMAIN rot : g # LIVE
    BY <1>1, <1>2
  <2>2. QED BY <2>1, WholeOfIs
<1>3. QED BY <1>2, WholeAre DEF Has1, AllFiles

LEMMA AttemptFiles ==
    ASSUME Files, NEW part \in Parts, Attempt(part),
           lastHash' \in Nat, {acked', swallowed'} \subseteq SUBSET Nat, broken' \in BOOLEAN,
           logFaults' \in Nat, up' \in BOOLEAN, query' = query \/ query' = Idle,
           acked' = acked \/ (part = "all" /\ acked' = acked \cup {events + 1})
    PROVE  Files'
<1> DEFINE new == _rotated_path_for
           D == DOMAIN rotated
           line == NewLine(part)
<1>1. /\ events' = events + 1 /\ _maybe_rotate_locked /\ WriteLine(part)
      /\ UNCHANGED <<clock, back>>
  BY DEF Attempt
<1>2. LogTypeOK /\ DirectoryKept
  BY DEF Files
<1>3. /\ rotated' \in [DOMAIN rotated' -> Seq(Line)]
      /\ DOMAIN rotated' = D \cup (IF Rotates THEN {new} ELSE {})
      /\ \A g \in D : rotated'[g] = rotated[g]
      /\ Rotates => rotated'[new] = live
      /\ DOMAIN rotated' \in SUBSET Name /\ IsFiniteSet(DOMAIN rotated')
      /\ DirectoryKept'
  BY <1>1, <1>2, Rotation
<1>4. /\ live' \in Seq(Line) /\ open' \in BOOLEAN /\ Rises(live')
      /\ \A j \in DOMAIN live' : live'[j] = line \/ \E i \in DOMAIN Kept : live'[j] = Kept[i]
      /\ open' => \/ part = "none" /\ open /\ live' = live
                  \/ /\ part \notin {"none", "all"}
                     /\ live' # <<>> /\ live'[Len(live')] = line
  BY <1>1, WriteShape
<1>5. line.ev = events + 1 /\ events \in Nat
  BY <1>2 DEF NewLine, LogTypeOK
<1>6. LogTypeOK'
  <2>1. missed' \in SUBSET Nat /\ disordered' \in BOOLEAN
    <3>1. \A j \in DOMAIN live : live[j].ev \in Nat
      <4>1. \A j \in DOMAIN live : live[j] \in Line
        BY <1>2 DEF LogTypeOK
      <4>2. QED BY <4>1 DEF Line
    <3>2. {l.ev : l \in ToSet(live)} \in SUBSET Nat
      BY <3>1 DEF ToSet
    <3>3. missed \in SUBSET Nat /\ disordered \in BOOLEAN
      BY <1>2 DEF LogTypeOK
    <3>4. disordered' \in BOOLEAN
      BY <1>1, <3>3, Zenon DEF _maybe_rotate_locked
    <3>5. missed' = missed \/ missed' = missed \cup {l.ev : l \in ToSet(live)}
      BY <1>1 DEF _maybe_rotate_locked
    <3>6. QED BY <3>2, <3>3, <3>4, <3>5
  <2>2. events' \in Nat /\ clock' \in Nat \ {0} /\ back' \in Nat
    BY <1>1, <1>2 DEF LogTypeOK
  <2>3. query' \in [todo : Seq(Name \cup {LIVE}), answer : Seq(Nat)]
    <3>1. <<>> \in Seq(Name \cup {LIVE}) /\ <<>> \in Seq(Nat)
      OBVIOUS
    <3>2. query \in [todo : Seq(Name \cup {LIVE}), answer : Seq(Nat)]
      BY <1>2 DEF LogTypeOK
    <3>3. Idle \in [todo : Seq(Name \cup {LIVE}), answer : Seq(Nat)]
      BY <3>1 DEF Idle
    <3>4. QED BY <3>2, <3>3
  <2>4. {acked', swallowed', missed'} \subseteq SUBSET Nat /\ {broken', disordered'} \subseteq BOOLEAN
    BY <2>1
  <2>5. garbled' \subseteq AllFiles'
    <3>1. garbled \subseteq D \cup {LIVE}
      BY <1>2 DEF LogTypeOK, AllFiles
    <3>2. QED BY <1>1, <1>3, <3>1 DEF WriteLine, AllFiles
  <2>6. QED BY <1>3, <1>4, <2>2, <2>3, <2>4, <2>5 DEF LogTypeOK
<1>7. OpenLine'
  <2>1. CASE part = "none" /\ open /\ live' = live
    BY <2>1 DEF Files, OpenLine
  <2>2. CASE part \notin {"none", "all"} /\ live' # <<>> /\ live'[Len(live')] = line
    <3>1. acked' = acked /\ \A e \in acked : e \in Nat /\ e <= events
      BY <1>2, <2>2 DEF LogTypeOK, Files, Numbered
    <3>2. events + 1 \notin acked
      BY <1>5, <3>1
    <3>3. QED BY <1>5, <2>2, <3>1, <3>2 DEF OpenLine
  <2>3. QED BY <1>4, <2>1, <2>2 DEF OpenLine
<1>8. \A j \in DOMAIN live' : live'[j] = line \/ \E i \in DOMAIN live : live'[j] = live[i] /\ ~Rotates
  <2>1. DOMAIN <<>> = {}
    OBVIOUS
  <2>2. \A i \in DOMAIN Kept : ~Rotates /\ i \in DOMAIN live /\ Kept[i] = live[i]
    BY <2>1 DEF Kept
  <2> HIDE DEF line
  <2>3. QED BY <1>4, <2>2
<1>9. \A g \in DOMAIN rotated' : \/ g \in D /\ rotated'[g] = rotated[g]
                                 \/ Rotates /\ g = new /\ rotated'[g] = live
  BY <1>3
<1>10. /\ \A j \in DOMAIN live : live[j].ev \in Nat /\ live[j].ev <= events
       /\ \A g \in D : \A j \in DOMAIN rotated[g] : rotated[g][j].ev \in Nat /\ rotated[g][j].ev <= events
  <2>1. (\A j \in DOMAIN live : live[j] \in Line) /\ \A g \in D : rotated[g] \in Seq(Line)
    BY <1>2 DEF LogTypeOK
  <2>2. \A g \in D : \A j \in DOMAIN rotated[g] : rotated[g][j] \in Line
    BY <2>1
  <2>3. QED BY <2>1, <2>2 DEF Line, Files, Numbered
<1>11. Numbered'
  <2>1. \A j \in DOMAIN live' : live'[j].ev <= events'
    BY <1>1, <1>5, <1>8, <1>10
  <2>2. ASSUME NEW g \in DOMAIN rotated', NEW j \in DOMAIN rotated'[g] PROVE rotated'[g][j].ev <= events'
    <3>1. CASE g \in D /\ rotated'[g] = rotated[g]
      BY <1>1, <1>5, <1>10, <3>1
    <3>2. CASE rotated'[g] = live
      BY <1>1, <1>5, <1>10, <3>2
    <3>3. QED BY <1>9, <3>1, <3>2
  <2>3. ASSUME NEW m \in DOMAIN query'.answer PROVE query'.answer[m] <= events'
    <3>1. query' = query /\ query.answer \in Seq(Nat)
      BY <1>1, <1>2, <2>3 DEF LogTypeOK, Idle
    <3>2. query.answer[m] \in Nat /\ query.answer[m] <= events
      BY <2>3, <3>1 DEF Files, Numbered
    <3>3. QED BY <1>1, <1>5, <3>1, <3>2
  <2>4. ASSUME NEW e \in acked' PROVE e <= events'
    <3>1. \A d \in acked : d \in Nat /\ d <= events
      BY <1>2 DEF LogTypeOK, Files, Numbered
    <3>2. QED BY <1>1, <1>5, <2>4, <3>1
  <2>5. QED BY <2>1, <2>2, <2>3, <2>4 DEF Numbered
<1>12. LinesRise'
  <2>1. ASSUME NEW g \in DOMAIN rotated' PROVE Rises(rotated'[g])
    BY <1>9 DEF Files, LinesRise
  <2>2. ASSUME NEW g \in DOMAIN rotated', NEW i \in DOMAIN rotated'[g], NEW j \in DOMAIN live'
        PROVE  rotated'[g][i].ev < live'[j].ev
    <3>1. CASE live'[j] = line
      <4>1. rotated'[g][i].ev \in Nat /\ rotated'[g][i].ev <= events
        <5>1. CASE g \in D /\ rotated'[g] = rotated[g]
          BY <1>10, <5>1
        <5>2. CASE rotated'[g] = live
          BY <1>10, <5>2
        <5>3. QED BY <1>9, <5>1, <5>2
      <4>2. QED BY <1>5, <3>1, <4>1
    <3>2. CASE ~(live'[j] = line)
      <4>1. PICK k \in DOMAIN live : live'[j] = live[k] /\ ~Rotates
        BY <1>8, <3>2
      <4>2. g \in D /\ rotated'[g] = rotated[g]
        BY <1>9, <4>1
      <4>3. QED BY <4>1, <4>2 DEF Files, LinesRise
    <3>3. QED BY <3>1, <3>2
  <2>3. QED BY <1>4, <2>1, <2>2 DEF LinesRise
<1>13. SegmentsRise'
  <2>1. SUFFICES ASSUME ~disordered', NEW g \in DOMAIN rotated', NEW h \in DOMAIN rotated', Before(g, h)
                 PROVE  Older(rotated'[g], rotated'[h])
    BY DEF SegmentsRise
  <2>2. ~disordered /\ (Rotates => \A f \in D : Before(f, new))
    BY <1>1, <2>1 DEF _maybe_rotate_locked
  <2>3. CASE g \in D /\ rotated'[g] = rotated[g] /\ h \in D /\ rotated'[h] = rotated[h]
    BY <2>1, <2>2, <2>3 DEF Files, SegmentsRise
  <2>4. CASE g \in D /\ rotated'[g] = rotated[g] /\ rotated'[h] = live
    BY <2>4 DEF Files, LinesRise, Older
  <2>5. CASE Rotates /\ g = new
    <3>1. h \in Name /\ new \in Name /\ (h = new \/ Before(h, new)) /\ Before(new, h)
      <4>1. g \in Name /\ h \in Name
        BY <1>3
      <4>2. QED BY <1>9, <2>1, <2>2, <2>5, <4>1
    <3>2. QED BY <3>1, BeforeOrders
  <2>6. QED BY <1>9, <2>3, <2>4, <2>5
<1>14. QED BY <1>3, <1>6, <1>7, <1>11, <1>12, <1>13 DEF Files

\* An attempt keeps every event in a whole line but the one whose line is open; a
\* whole line onto a file that ends with its line end adds its own, and no other
\* event comes to be.
LEMMA AttemptReads ==
    ASSUME Files, NEW part \in Parts, Attempt(part)
    PROVE  /\ \A e \in Written : e \in Written' \/ (Onto /\ e = live[Len(live)].ev)
           /\ part = "all" /\ ~Onto => events + 1 \in Written'
           /\ Written' \subseteq Written \cup {events + 1}
<1> DEFINE new == _rotated_path_for
           D == DOMAIN rotated
           line == NewLine(part)
<1>0. DOMAIN rotated \subseteq Name /\ DOMAIN rotated' \subseteq Name
  BY Rotation DEF Attempt, Files, LogTypeOK
<1>1. _maybe_rotate_locked /\ WriteLine(part)
  BY DEF Attempt
<1>2. /\ DOMAIN rotated' = D \cup (IF Rotates THEN {new} ELSE {})
      /\ \A g \in D : rotated'[g] = rotated[g]
      /\ Rotates => rotated'[new] = live
  BY <1>1, Rotation DEF Files
<1>3. /\ \A j \in DOMAIN live' : live'[j] = line \/ \E i \in DOMAIN Kept : live'[j] = Kept[i]
      /\ \A i \in DOMAIN Kept : (Onto /\ i = Len(live)) \/ \E j \in DOMAIN live' : live'[j] = Kept[i]
      /\ part # "none" => \E j \in DOMAIN live' : live'[j] = line
  BY <1>1, WriteShape
<1>4. line.ev = events + 1 /\ line.whole = (part \in {"bare", "all"} /\ ~Onto)
  BY DEF NewLine
<1>5. Kept = (IF Rotates THEN <<>> ELSE live) /\ DOMAIN <<>> = {}
  BY DEF Kept
<1> HIDE DEF line, new
<1>6. ASSUME NEW e \in Written PROVE e \in Written' \/ (Onto /\ e = live[Len(live)].ev)
  <2>1. ASSUME NEW j \in DOMAIN live, live[j].whole, live[j].ev = e
        PROVE  e \in Written' \/ (Onto /\ e = live[Len(live)].ev)
    <3>1. CASE Rotates
      <4>1. new \in DOMAIN rotated' /\ rotated'[new] = live
        BY <1>2, <3>1
      <4>2. QED BY <2>1, <4>1, WrittenIs, <1>0
    <3>2. CASE ~Rotates
      <4>1. (Onto /\ j = Len(live)) \/ \E i \in DOMAIN live' : live'[i] = live[j]
        BY <1>3, <1>5, <2>1, <3>2
      <4>2. QED BY <2>1, <4>1, WrittenIs, <1>0
    <3>3. QED BY <3>1, <3>2
  <2>2. ASSUME NEW g \in D, NEW j \in DOMAIN rotated[g], rotated[g][j].whole, rotated[g][j].ev = e
        PROVE  e \in Written'
    <3>1. g \in DOMAIN rotated' /\ rotated'[g] = rotated[g]
      BY <1>2
    <3>2. QED BY <2>2, <3>1, WrittenIs, <1>0
  <2>3. QED BY <2>1, <2>2, WrittenIs, <1>0
<1>7. ASSUME part = "all", ~Onto PROVE events + 1 \in Written'
  <2>1. PICK j \in DOMAIN live' : live'[j] = line
    BY <1>3, <1>7
  <2>2. live'[j].whole /\ live'[j].ev = events + 1
    BY <1>4, <1>7, <2>1
  <2>3. QED BY <2>2, WrittenIs, <1>0
<1>8. ASSUME NEW e \in Written' PROVE e \in Written \cup {events + 1}
  <2>1. ASSUME NEW j \in DOMAIN live', live'[j].whole, live'[j].ev = e
        PROVE  e \in Written \cup {events + 1}
    <3>1. CASE live'[j] = line
      BY <1>4, <2>1, <3>1
    <3>2. CASE ~(live'[j] = line)
      <4>1. PICK i \in DOMAIN live : live'[j] = live[i]
        BY <1>3, <1>5, <3>2
      <4>2. QED BY <2>1, <4>1, WrittenIs, <1>0
    <3>3. QED BY <3>1, <3>2
  <2>2. ASSUME NEW g \in DOMAIN rotated', NEW j \in DOMAIN rotated'[g],
               rotated'[g][j].whole, rotated'[g][j].ev = e
        PROVE  e \in Written
    <3>1. CASE g \in D
      <4>1. rotated'[g] = rotated[g]
        BY <1>2, <3>1
      <4>2. QED BY <2>2, <3>1, <4>1, WrittenIs, <1>0
    <3>2. CASE g \notin D
      <4>1. rotated'[g] = live
        BY <1>2, <3>2
      <4>2. QED BY <2>2, <4>1, WrittenIs, <1>0
    <3>3. QED BY <3>1, <3>2
  <2>3. QED BY <2>1, <2>2, WrittenIs, <1>0
<1>9. QED BY <1>6, <1>7, <1>8

\* An attempt leaves the lines as they were, or one longer, as long as it does not
\* write onto an open line and no new name goes before an old one.
LEMMA AttemptLines ==
    ASSUME Files, NEW part \in Parts, Attempt(part), ~disordered', part # "none" => ~Onto
    PROVE  /\ Lines(_rotated_paths) \in Seq(Line)
           /\ part = "none" => Lines(_rotated_paths)' = Lines(_rotated_paths)
           /\ part # "none" => Lines(_rotated_paths)' = Append(Lines(_rotated_paths), NewLine(part))
<1> DEFINE D == DOMAIN rotated
           new == _rotated_path_for
           line == NewLine(part)
           all == LinesOf(rotated, live)
           flat == FlattenSeq(Chunks(rotated, Paths(D)))
<1>1. _maybe_rotate_locked /\ WriteLine(part)
  BY DEF Attempt
<1>2. /\ live \in Seq(Line) /\ rotated \in [D -> Seq(Line)] /\ D \in SUBSET Name /\ IsFiniteSet(D)
      /\ Sorted(Paths(D), D)
  BY DEF Files, LogTypeOK, DirectoryKept, _rotated_paths, Paths
<1>3. /\ part = "none" => live' = Kept
      /\ part # "none" => live' = Append(Kept, line)
      /\ line \in Line
  BY <1>1, WriteShape
<1>4. all \in Seq(Line) /\ flat \in Seq(Line) /\ all = flat \o live
  BY <1>2, LinesTyped DEF LinesOf
<1>5. CASE ~Rotates
  <2>1. rotated' = rotated /\ Kept = live
    BY <1>1, <1>5 DEF _maybe_rotate_locked, Kept
  <2>2. LinesOf(rotated', live') = flat \o live'
    BY <2>1 DEF LinesOf
  <2> HIDE DEF flat, all, line
  <2>3. flat \o Append(live, line) = Append(flat \o live, line)
    <3>1. /\ live \o <<line>> = Append(live, line)
          /\ (flat \o live) \o <<line>> = Append(flat \o live, line)
      BY <1>2, <1>3, <1>4, AppendIsConcat
    <3>2. <<line>> \in Seq(Line)
      BY <1>3
    <3>3. (flat \o live) \o <<line>> = flat \o (live \o <<line>>)
      BY <1>2, <1>4, <3>2, ConcatAssociative
    <3>4. QED BY <3>1, <3>3
  <2>4. /\ part = "none" => LinesOf(rotated', live') = all
        /\ part # "none" => LinesOf(rotated', live') = Append(all, line)
    BY <1>3, <1>4, <2>1, <2>2, <2>3
  <2>5. QED BY <1>4, <2>4, LinesAre DEF all, line
<1>6. CASE Rotates
  <2>1. /\ DOMAIN rotated' = D \cup {new} /\ rotated'[new] = live
        /\ \A g \in D : rotated'[g] = rotated[g]
    BY <1>1, <1>6, Rotation DEF Files
  <2>2. new \in Name /\ new \notin D /\ \A g \in D : Before(g, new)
    BY <1>1, <1>6, NewName DEF Files, _maybe_rotate_locked
  <2>3. LinesOf(rotated', live') = all \o live'
    <3>1. Grown(rotated, live, new, rotated')
      <4> HIDE DEF new
      <4>1. QED BY <1>2, <2>1, <2>2 DEF Grown
    <3> HIDE DEF new
    <3>2. QED BY <3>1, LinesRotate
  <2>4. Kept = <<>>
    BY <1>6 DEF Kept
  <2> HIDE DEF all, line
  <2>5. all \o <<>> = all /\ all \o Append(<<>>, line) = Append(all, line)
    <3>1. all \o <<line>> = Append(all, line)
      BY <1>3, <1>4, AppendIsConcat
    <3>2. Append(<<>>, line) = <<line>>
      OBVIOUS
    <3>3. all \o <<>> = all
      BY <1>4
    <3>4. QED BY <3>1, <3>2, <3>3
  <2>6. /\ part = "none" => LinesOf(rotated', live') = all
        /\ part # "none" => LinesOf(rotated', live') = Append(all, line)
    BY <1>3, <2>3, <2>4, <2>5
  <2>7. QED BY <1>4, <2>6, LinesAre DEF all, line
<1>7. QED BY <1>5, <1>6

\* The query is not the attempt's: what the reader had before it and had read
\* stays what it was, and what it misses is added up.
LEMMA AttemptQuery ==
    ASSUME LogIInv, NEW part \in Parts, Attempt(part), Files', query' = query
    PROVE  ReadsBack' /\ ReadsAll'
<1> DEFINE new == _rotated_path_for
           D == DOMAIN rotated
<1>1. /\ events' = events + 1 /\ _maybe_rotate_locked /\ query' = query
      /\ Files /\ ReadsBack /\ ReadsAll
  BY DEF Attempt, LogIInv
<1>2. /\ DOMAIN rotated' = D \cup (IF Rotates THEN {new} ELSE {})
      /\ \A g \in D : rotated'[g] = rotated[g]
      /\ Rotates => rotated'[new] = live
      /\ D \in SUBSET Name /\ new \in Name
  BY <1>1, Rotation, NewName DEF Files, LogTypeOK
<1>3. AtLive' = AtLive /\ Ahead' = Ahead /\ Ahead \subseteq D
  BY <1>1 DEF AtLive, Ahead, ReadsBack
<1>4. SUFFICES ASSUME ~disordered' PROVE ReadsBack' /\ ReadsAll'
  BY <1>2, <1>3 DEF ReadsBack, ReadsAll
<1>5. ~disordered /\ (Rotates => \A g \in D : Before(g, new))
  BY <1>1, <1>4 DEF _maybe_rotate_locked
<1> HIDE DEF new
<1>6. /\ \A i \in DOMAIN query.todo : query.todo[i] = LIVE => i = 1
      /\ Ahead \subseteq D
      /\ \A i, j \in DOMAIN query.todo :
             i < j /\ query.todo[i] # LIVE => Before(query.todo[j], query.todo[i])
      /\ \A g \in D, d \in Ahead : Before(g, d) => g \in Ahead
  BY <1>1, <1>5 DEF ReadsBack
<1>7. ASSUME NEW g \in DOMAIN rotated', NEW d \in Ahead, Before(g, d) PROVE g \in Ahead
  <2>1. CASE g \in D
    BY <1>6, <1>7, <2>1
  <2>2. CASE g \notin D
    <3>1. Rotates /\ g = new
      BY <1>2, <2>2
    <3>2. Before(d, new) /\ d \in Name
      BY <1>5, <1>2, <1>6, <3>1
    <3>3. QED BY <1>2, <1>7, <3>1, <3>2, BeforeOrders
  <2>3. QED BY <2>1, <2>2
<1>8. ReadsBack'
  <2>1. Ahead \subseteq DOMAIN rotated'
    BY <1>2, <1>6
  <2>2. QED BY <1>1, <1>3, <1>6, <1>7, <2>1 DEF ReadsBack
<1>9. missed \subseteq missed' /\ (Rotates /\ AtLive => \A j \in DOMAIN live : live[j].ev \in missed')
  BY <1>1 DEF _maybe_rotate_locked, AtLive, ToSet
<1>10. ASSUME AtLive
       PROVE  /\ query.answer = <<>>
              /\ \A g \in DOMAIN rotated' \ Ahead : \A j \in DOMAIN rotated'[g] : rotated'[g][j].ev \in missed'
  <2>1. /\ query.answer = <<>>
        /\ \A g \in D \ Ahead : \A j \in DOMAIN rotated[g] : rotated[g][j].ev \in missed
    BY <1>1, <1>5, <1>10 DEF ReadsAll
  <2>2. ASSUME NEW g \in DOMAIN rotated' \ Ahead, NEW j \in DOMAIN rotated'[g]
        PROVE  rotated'[g][j].ev \in missed'
    <3>1. CASE g \in D
      <4>1. rotated'[g] = rotated[g]
        BY <1>2, <3>1
      <4>2. QED BY <1>9, <2>1, <3>1, <4>1
    <3>2. CASE g \notin D
      <4>1. Rotates /\ rotated'[g] = live
        BY <1>2, <3>2
      <4>2. QED BY <1>9, <1>10, <4>1
    <3>3. QED BY <3>1, <3>2
  <2>3. QED BY <2>1, <2>2
<1>11. ASSUME ~AtLive
       PROVE  /\ Falls(query.answer)
              /\ \A d \in Ahead : \A j \in DOMAIN rotated'[d], m \in DOMAIN query.answer :
                     rotated'[d][j].ev < query.answer[m]
              /\ query.answer # <<>> => \A e \in Written' : e < query.answer[1] =>
                     \/ e \in ToSet(query.answer) \cup missed'
                     \/ \E d \in Ahead : \E j \in DOMAIN rotated'[d] : rotated'[d][j].whole /\ rotated'[d][j].ev = e
  <2>1. /\ Falls(query.answer)
        /\ \A d \in Ahead : \A j \in DOMAIN rotated[d], m \in DOMAIN query.answer :
               rotated[d][j].ev < query.answer[m]
        /\ query.answer # <<>> => \A e \in Written : e < query.answer[1] =>
               \/ e \in ToSet(query.answer) \cup missed
               \/ \E d \in Ahead : \E j \in DOMAIN rotated[d] : rotated[d][j].whole /\ rotated[d][j].ev = e
    BY <1>1, <1>5, <1>11 DEF ReadsAll
  <2>2. \A d \in Ahead : rotated'[d] = rotated[d]
    BY <1>2, <1>6
  <2>3. ASSUME query.answer # <<>>, NEW e \in Written', e < query.answer[1]
        PROVE  e \in Written
    <3>1. e \in Written \cup {events + 1}
      BY <1>1, AttemptReads
    <3>2. query.answer \in Seq(Nat) /\ events \in Nat
      BY <1>1 DEF Files, LogTypeOK
    <3>3. 1 \in DOMAIN query.answer /\ query.answer[1] \in Nat
      BY <2>3, <3>2
    <3>4. query.answer[1] <= events
      BY <1>1, <3>3 DEF Files, Numbered
    <3>5. e # events + 1
      BY <2>3, <3>2, <3>3, <3>4
    <3>6. QED BY <3>1, <3>5
  <2>4. ASSUME query.answer # <<>>, NEW e \in Written', e < query.answer[1]
        PROVE  \/ e \in ToSet(query.answer) \cup missed'
               \/ \E d \in Ahead : \E j \in DOMAIN rotated'[d] : rotated'[d][j].whole /\ rotated'[d][j].ev = e
    <3>1. \/ e \in ToSet(query.answer) \cup missed
          \/ \E d \in Ahead : \E j \in DOMAIN rotated[d] : rotated[d][j].whole /\ rotated[d][j].ev = e
      BY <2>1, <2>3, <2>4
    <3>2. QED BY <1>9, <2>2, <3>1
  <2>5. QED BY <2>1, <2>2, <2>4
<1>12. ReadsAll'
  BY <1>1, <1>3, <1>10, <1>11 DEF ReadsAll
<1>13. QED BY <1>8, <1>12

\* A query that is given up has read nothing and has nothing before it.
LEMMA NoQuery ==
    ASSUME query' = Idle
    PROVE  ReadsBack' /\ ReadsAll'
<1>1. query'.todo = <<>> /\ query'.answer = <<>> /\ DOMAIN <<>> = {}
  BY DEF Idle
<1>2. Ahead' = {} /\ ~AtLive'
  BY <1>1 DEF Ahead, AtLive, ToSet
<1>3. QED BY <1>1, <1>2 DEF ReadsBack, ReadsAll, Falls

\* What is acknowledged stays in a whole line, and the chain goes on, through an
\* attempt.
LEMMA AttemptAcked ==
    ASSUME LogIInv, NEW part \in Parts, Attempt(part),
           \/ acked' = acked
           \/ /\ part = "all" /\ acked' = acked \cup {events + 1}
              /\ Onto => events + 1 \in swallowed',
           swallowed \subseteq swallowed'
    PROVE  AckedWritten'
<1>1. Files /\ acked \ swallowed \subseteq Written
  BY DEF LogIInv, AckedWritten
<1>2. /\ \A e \in Written : e \in Written' \/ (Onto /\ e = live[Len(live)].ev)
      /\ part = "all" /\ ~Onto => events + 1 \in Written'
  BY <1>1, AttemptReads
<1>3. Onto => live[Len(live)].ev \notin acked
  BY <1>1 DEF Onto, Files, OpenLine
<1>4. ASSUME NEW e \in acked' \ swallowed' PROVE e \in Written'
  <2>1. CASE e \in acked
    BY <1>1, <1>2, <1>3, <2>1
  <2>2. CASE e \notin acked
    BY <1>2, <2>2
  <2>3. QED BY <2>1, <2>2
<1>5. QED BY <1>4 DEF AckedWritten

LEMMA AttemptChain ==
    ASSUME LogIInv, NEW part \in {"none", "bare", "all"}, Attempt(part), ~disordered', ~broken,
           part # "none" => ~Onto,
           up' => lastHash' = (IF part = "none" THEN lastHash ELSE events + 1)
    PROVE  Chained(Lines(_rotated_paths))' /\ (up' => lastHash' = Tip(Lines(_rotated_paths))')
<1> DEFINE all == Lines(_rotated_paths)
           line == NewLine(part)
<1>1. Files /\ ~disordered /\ up /\ part \in Parts
  BY DEF LogIInv, Attempt, _maybe_rotate_locked, Parts
<1>2. Chained(all) /\ lastHash = Tip(all)
  BY <1>1 DEF LogIInv, ChainKept
<1>3. /\ all \in Seq(Line)
      /\ part = "none" => all' = all
      /\ part # "none" => all' = Append(all, line)
  BY <1>1, AttemptLines
<1>4. Chained(all)' = Chained(all') /\ Tip(all)' = Tip(all')
  BY DEF Chained, Tip
<1>5. line.ev = events + 1 /\ line.prev = lastHash /\ (part # "none" => line.whole)
  BY <1>1 DEF NewLine
<1>6. line \in Line
  BY <1>1, WriteShape DEF Attempt
<1> HIDE DEF all, line
<1>7. CASE part = "none"
  BY <1>2, <1>3, <1>4, <1>7 DEF all
<1>8. CASE part # "none"
  <2>1. all' = Append(all, line)
    BY <1>3, <1>8
  <2>2. Chained(Append(all, line)) /\ Tip(Append(all, line)) = line.ev
    BY <1>2, <1>3, <1>5, <1>6, <1>8, ChainGrows
  <2>3. QED BY <1>4, <1>5, <1>8, <2>1, <2>2 DEF all
<1>9. QED BY <1>7, <1>8

\* What a start reads for the last hash is a hash.
LEMMA LoadTyped ==
    ASSUME LogTypeOK, DirectoryKept
    PROVE  _load_last_hash \in Nat
<1>1. _load_last_hash = LastWhole(LinesOf(rotated, live))
  BY LinesAre DEF _load_last_hash
<1>2. /\ live \in Seq(Line) /\ rotated \in [DOMAIN rotated -> Seq(Line)]
      /\ DOMAIN rotated \in SUBSET Name /\ IsFiniteSet(DOMAIN rotated)
      /\ Sorted(Paths(DOMAIN rotated), DOMAIN rotated)
  BY DEF LogTypeOK, DirectoryKept, _rotated_paths, Paths
<1>3. LinesOf(rotated, live) \in Seq(Line)
  BY <1>2, LinesTyped
<1>4. QED BY <1>1, <1>3, LastWholeIs

----------------------------------------------------------------------------
(* LogIInv is inductive: the appends, a crash and a start.                    *)

LEMMA AppendStep ==
    ASSUME LogIInv, append
    PROVE  LogIInv'
<1>1. /\ Attempt("all") /\ lastHash' = events + 1 /\ acked' = acked \cup {events + 1}
      /\ swallowed' = (IF Onto THEN swallowed \cup {events + 1} ELSE swallowed)
      /\ broken' = (broken \/ Onto) /\ UNCHANGED <<query, up, logFaults>>
  BY DEF append
<1>2. "all" \in Parts /\ Files /\ LogTypeOK
  BY DEF Parts, LogIInv, Files
<1>3. Files'
  <2>1. /\ lastHash' \in Nat /\ acked' \in SUBSET Nat /\ swallowed' \in SUBSET Nat
        /\ logFaults' \in Nat /\ up' \in BOOLEAN
    BY <1>1, <1>2 DEF LogTypeOK
  <2>2. {acked', swallowed'} \subseteq SUBSET Nat
    BY <2>1
  <2>3. broken' \in BOOLEAN
    BY <1>1
  <2>4. QED BY <1>1, <1>2, <2>1, <2>2, <2>3, AttemptFiles
<1>4. AckedWritten'
  <2>1. swallowed \subseteq swallowed' /\ (Onto => events + 1 \in swallowed')
    BY <1>1
  <2>2. QED BY <1>1, <1>2, <2>1, AttemptAcked
<1>5. ChainKept'
  <2>1. SUFFICES ASSUME ~broken, ~Onto, ~disordered'
                 PROVE  Chained(Lines(_rotated_paths))' /\ (up' => lastHash' = Tip(Lines(_rotated_paths))')
    BY <1>1 DEF ChainKept
  <2>2. QED BY <1>1, <2>1, AttemptChain
<1>6. ReadsBack' /\ ReadsAll'
  BY <1>1, <1>2, <1>3, AttemptQuery
<1>7. QED BY <1>3, <1>4, <1>5, <1>6 DEF LogIInv

LEMMA FailStep ==
    ASSUME LogIInv, AppendFails
    PROVE  LogIInv'
<1>1. PICK part \in Parts : Attempt(part) /\ broken' = (broken \/ part # "none")
  BY DEF AppendFails, Parts
<1>2. UNCHANGED <<query, up, lastHash, acked, swallowed>> /\ logFaults' = logFaults + 1
  BY DEF AppendFails, LogFault
<1>3. Files /\ LogTypeOK
  BY DEF LogIInv, Files
<1>4. Files'
  <2>1. /\ lastHash' \in Nat /\ logFaults' \in Nat /\ {acked', swallowed'} \subseteq SUBSET Nat
        /\ up' \in BOOLEAN
    BY <1>2, <1>3 DEF LogTypeOK
  <2>2. broken' \in BOOLEAN
    BY <1>1
  <2>3. QED BY <1>1, <1>2, <1>3, <2>1, <2>2, AttemptFiles
<1>5. AckedWritten'
  BY <1>1, <1>2, AttemptAcked
<1>6. ChainKept'
  <2>1. SUFFICES ASSUME ~broken', ~disordered'
                 PROVE  Chained(Lines(_rotated_paths))' /\ (up' => lastHash' = Tip(Lines(_rotated_paths))')
    BY DEF ChainKept
  <2>2. ~broken /\ part = "none"
    BY <1>1, <2>1
  <2>3. QED BY <1>1, <1>2, <2>1, <2>2, AttemptChain
<1>7. ReadsBack' /\ ReadsAll'
  BY <1>1, <1>2, <1>4, AttemptQuery
<1>8. QED BY <1>4, <1>5, <1>6, <1>7 DEF LogIInv

LEMMA CrashInAppendStep ==
    ASSUME LogIInv, CrashInAppend
    PROVE  LogIInv'
<1>1. PICK part \in Parts :
          /\ Attempt(part)
          /\ broken' = (broken \/ part \in {"some", "cut"} \/ (part # "none" /\ Onto))
  BY DEF CrashInAppend, Parts
<1>2. /\ UNCHANGED <<lastHash, acked, swallowed>> /\ logFaults' = logFaults + 1
      /\ up' = FALSE /\ query' = Idle
  BY DEF CrashInAppend, LogFault
<1>3. Files /\ LogTypeOK
  BY DEF LogIInv, Files
<1>4. Files'
  <2>1. lastHash' \in Nat /\ logFaults' \in Nat /\ {acked', swallowed'} \subseteq SUBSET Nat
    BY <1>2, <1>3 DEF LogTypeOK
  <2>2. broken' \in BOOLEAN
    BY <1>1
  <2>3. QED BY <1>1, <1>2, <1>3, <2>1, <2>2, AttemptFiles
<1>5. AckedWritten'
  BY <1>1, <1>2, AttemptAcked
<1>6. ChainKept'
  <2>1. SUFFICES ASSUME ~broken', ~disordered'
                 PROVE  Chained(Lines(_rotated_paths))' /\ (up' => lastHash' = Tip(Lines(_rotated_paths))')
    BY DEF ChainKept
  <2>2. ~broken /\ part \in {"none", "bare", "all"} /\ (part # "none" => ~Onto)
    BY <1>1, <2>1 DEF Parts
  <2>3. QED BY <1>1, <1>2, <2>1, <2>2, AttemptChain
<1>7. ReadsBack' /\ ReadsAll'
  BY <1>2, NoQuery
<1>8. QED BY <1>4, <1>5, <1>6, <1>7 DEF LogIInv

\* What leaves the files alone.
LEMMA FilesSame ==
    ASSUME Files, UNCHANGED <<live, open, rotated, events, history>>, LogTypeOK',
           \A m \in DOMAIN query'.answer : query'.answer[m] <= events
    PROVE  /\ Files'
           /\ Lines(_rotated_paths)' = Lines(_rotated_paths)
           /\ Written' = Written
           /\ AckedWritten => AckedWritten'
<1>1. DirectoryKept' /\ OpenLine' /\ LinesRise' /\ SegmentsRise'
  BY DEF Files, DirectoryKept, _rotated_paths, OpenLine, LinesRise, SegmentsRise, history
<1>2. Numbered'
  BY DEF Files, Numbered, history
<1>3. Written' = Written
  BY DEF Written, WholeIn, AllFiles, Content
<1>4. AckedWritten => AckedWritten'
  BY <1>3 DEF AckedWritten, history
<1>5. Lines(_rotated_paths)' = Lines(_rotated_paths)
  BY DEF Lines, _rotated_paths
<1>6. QED BY <1>1, <1>2, <1>3, <1>4, <1>5 DEF Files

\* What leaves the files alone, and the query unless it is given up: a server that
\* runs on keeps its last hash, one that comes up has read it.
LEMMA OtherStep ==
    ASSUME LogIInv, UNCHANGED <<live, open, rotated, garbled, events, missed, history>>,
           clock' \in Nat \ {0}, logFaults' \in Nat, back' \in Nat, up' \in BOOLEAN,
           query' = query \/ query' = Idle,
           lastHash' = _load_last_hash \/ (lastHash' = lastHash /\ (up' => up))
    PROVE  LogIInv'
<1>1. Files /\ LogTypeOK /\ DirectoryKept
  BY DEF LogIInv, Files
<1>2. LogTypeOK'
  <2>1. lastHash' \in Nat
    BY <1>1, LoadTyped DEF LogTypeOK
  <2>2. query' \in [todo : Seq(Name \cup {LIVE}), answer : Seq(Nat)]
    <3>1. <<>> \in Seq(Name \cup {LIVE}) /\ <<>> \in Seq(Nat)
      OBVIOUS
    <3>2. query \in [todo : Seq(Name \cup {LIVE}), answer : Seq(Nat)]
      BY <1>1 DEF LogTypeOK
    <3>3. Idle \in [todo : Seq(Name \cup {LIVE}), answer : Seq(Nat)]
      BY <3>1 DEF Idle
    <3>4. QED BY <3>2, <3>3
  <2>3. garbled' \subseteq AllFiles'
    BY <1>1 DEF LogTypeOK, AllFiles
  <2>4. QED BY <1>1, <2>1, <2>2, <2>3 DEF LogTypeOK, history
<1>3. \A m \in DOMAIN query'.answer : query'.answer[m] <= events
  BY <1>1 DEF Files, Numbered, Idle
<1>4. /\ Files' /\ AckedWritten' /\ Written' = Written
      /\ Lines(_rotated_paths)' = Lines(_rotated_paths)
  BY <1>1, <1>2, <1>3, FilesSame DEF LogIInv
<1>5. ChainKept'
  <2> DEFINE all == Lines(_rotated_paths)
  <2>1. SUFFICES ASSUME ~broken, ~disordered
                 PROVE  Chained(all)' /\ (up' => lastHash' = Tip(all)')
    BY DEF ChainKept, history
  <2>2. Chained(all) /\ (up => lastHash = Tip(all))
    BY <2>1 DEF LogIInv, ChainKept
  <2>3. all \in Seq(Line)
    <3>1. /\ live \in Seq(Line) /\ rotated \in [DOMAIN rotated -> Seq(Line)]
          /\ DOMAIN rotated \in SUBSET Name /\ IsFiniteSet(DOMAIN rotated)
          /\ Sorted(Paths(DOMAIN rotated), DOMAIN rotated)
      BY <1>1 DEF LogTypeOK, DirectoryKept, _rotated_paths, Paths
    <3>2. QED BY <3>1, LinesTyped, LinesAre
  <2>4. _load_last_hash = LastWhole(all)
    BY DEF _load_last_hash
  <2>5. all' = all /\ Chained(all)' = Chained(all') /\ Tip(all)' = Tip(all')
    BY <1>4 DEF Chained, Tip
  <2> HIDE DEF all
  <2>6. LastWhole(all) = Tip(all)
    BY <2>2, <2>3, LastWholeIs DEF Chained
  <2>7. QED BY <2>2, <2>4, <2>5, <2>6
<1>6. ReadsBack' /\ ReadsAll'
  <2>1. CASE query' = query
    BY <1>4, <2>1 DEF LogIInv, ReadsBack, ReadsAll, AtLive, Ahead, history
  <2>2. CASE query' = Idle
    BY <2>2, NoQuery
  <2>3. QED BY <2>1, <2>2
<1>7. QED BY <1>4, <1>5, <1>6 DEF LogIInv

LEMMA StartStep ==
    ASSUME LogIInv, ProcessDies \/ Restart \/ Tick \/ StepBack \/ UNCHANGED logVars
    PROVE  LogIInv'
<1>1. clock \in Nat \ {0} /\ logFaults \in Nat /\ back \in Nat /\ up \in BOOLEAN
  BY DEF LogIInv, Files, LogTypeOK
<1>2. CASE ProcessDies
  <2>1. /\ UNCHANGED <<live, open, rotated, garbled, events, missed, history, lastHash>>
        /\ clock' = clock /\ back' = back
        /\ logFaults' = logFaults + 1 /\ query' = Idle /\ up' = FALSE
    BY <1>2 DEF ProcessDies, LogFault
  <2>2. clock' \in Nat \ {0} /\ logFaults' \in Nat /\ back' \in Nat
    BY <1>1, <2>1
  <2>3. up' \in BOOLEAN /\ (up' => up)
    BY <2>1
  <2>4. QED BY <2>1, <2>2, <2>3, OtherStep
<1>3. CASE Restart
  <2>1. /\ UNCHANGED <<live, open, rotated, garbled, events, missed, history>>
        /\ query' = query /\ clock' = clock /\ logFaults' = logFaults /\ back' = back
        /\ (up' = TRUE /\ lastHash' = _load_last_hash) \/ (up' = up /\ lastHash' = lastHash)
    BY <1>3 DEF Restart
  <2>2. clock' \in Nat \ {0} /\ logFaults' \in Nat /\ back' \in Nat /\ up' \in BOOLEAN
    BY <1>1, <2>1
  <2>3. QED BY <2>1, <2>2, OtherStep
<1>4. CASE Tick
  BY <1>1, <1>4, OtherStep DEF Tick, file
<1>5. CASE StepBack
  BY <1>1, <1>5, OtherStep DEF StepBack, file
<1>6. CASE UNCHANGED logVars
  BY <1>1, <1>6, OtherStep DEF logVars, file
<1>7. QED BY <1>2, <1>3, <1>4, <1>5, <1>6

----------------------------------------------------------------------------
(* LogIInv is inductive: the query.                                          *)

\* Steps of the query leave the files alone.
LEMMA QuerySame ==
    ASSUME LogIInv, UNCHANGED <<file, clock, history, logFaults, back>>,
           query' \in [todo : Seq(Name \cup {LIVE}), answer : Seq(Nat)],
           missed' \in SUBSET Nat,
           \A m \in DOMAIN query'.answer : query'.answer[m] <= events
    PROVE  Files' /\ AckedWritten' /\ ChainKept' /\ Written' = Written
<1>1. Files /\ LogTypeOK
  BY DEF LogIInv, Files
<1>2. LogTypeOK'
  BY <1>1 DEF LogTypeOK, AllFiles, file, history
<1>3. /\ Files' /\ AckedWritten' /\ Written' = Written
      /\ Lines(_rotated_paths)' = Lines(_rotated_paths)
  BY <1>1, <1>2, FilesSame DEF LogIInv, file
<1>4. ChainKept'
  BY <1>3 DEF LogIInv, ChainKept, Chained, Tip, file, history
<1>5. QED BY <1>3, <1>4

\* What a query lists: the live file, and every segment, the newest first.
LEMMA Listed ==
    ASSUME LogTypeOK, DirectoryKept
    PROVE  LET todo == <<LIVE>> \o Reverse(_rotated_paths)
           IN  /\ todo \in Seq(Name \cup {LIVE}) /\ todo # <<>> /\ Head(todo) = LIVE
               /\ \A i \in DOMAIN todo : todo[i] = LIVE => i = 1
               /\ ToSet(todo) \ {LIVE} = DOMAIN rotated
               /\ \A i, j \in DOMAIN todo : i < j /\ todo[i] # LIVE => Before(todo[j], todo[i])
<1> DEFINE D == DOMAIN rotated
           N == Cardinality(D)
           paths == _rotated_paths
           rev == Reverse(paths)
           todo == <<LIVE>> \o rev
<1>1. N \in Nat /\ D \in SUBSET Name
  BY FS_CardinalityType DEF LogTypeOK
<1>2. /\ paths \in [1..N -> D] /\ ToSet(paths) = D
      /\ \A i, j \in 1..N : i < j => Before(paths[i], paths[j])
  BY DEF DirectoryKept, Sorted
<1>3. LIVE \notin Name
  BY DEF LIVE, Name
<1> HIDE DEF paths, N, D
<1>4. paths \in Seq(D) /\ Len(paths) = N
  BY <1>1, <1>2
<1>5. rev = [i \in 1..N |-> paths[(N - i) + 1]]
  BY <1>4 DEF Reverse
<1>6. \A i \in 1..N : (N - i) + 1 \in 1..N
  BY <1>1
<1>7. rev \in [1..N -> D] /\ \A i \in 1..N : rev[i] = paths[(N - i) + 1]
  BY <1>2, <1>5, <1>6
<1> HIDE DEF rev
<1>8. rev \in Seq(Name \cup {LIVE}) /\ Len(rev) = N
  BY <1>1, <1>7
<1>9. /\ todo \in Seq(Name \cup {LIVE}) /\ Len(todo) = N + 1 /\ todo[1] = LIVE
      /\ \A i \in 1..N : todo[i + 1] = rev[i]
      /\ todo # <<>>
  BY <1>1, <1>8
<1> HIDE DEF todo
<1>10. DOMAIN todo = 1..(N + 1) /\ Head(todo) = LIVE
  BY <1>9
<1>11. ASSUME NEW i \in 1..(N + 1), i # 1
       PROVE  /\ i - 1 \in 1..N /\ todo[i] = rev[i - 1]
              /\ todo[i] \in D /\ todo[i] # LIVE /\ todo[i] = paths[(N - (i - 1)) + 1]
  <2>1. i - 1 \in 1..N /\ (i - 1) + 1 = i
    BY <1>1, <1>11
  <2>2. todo[i] = rev[i - 1]
    BY <1>9, <2>1
  <2>3. QED BY <1>1, <1>3, <1>7, <2>1, <2>2
<1>12. ToSet(todo) \ {LIVE} = D
  <2>1. ASSUME NEW g \in D PROVE \E i \in 1..(N + 1) : todo[i] = g /\ g # LIVE
    <3>1. DOMAIN paths = 1..N
      BY <1>2
    <3>2. PICK k \in 1..N : paths[k] = g
      BY <1>2, <3>1 DEF ToSet
    <3>3. (N - k) + 1 \in 1..N /\ (N - ((N - k) + 1)) + 1 = k
      BY <1>1
    <3>4. rev[(N - k) + 1] = g
      BY <1>7, <3>2, <3>3
    <3>5. ((N - k) + 1) + 1 \in 1..(N + 1) /\ todo[((N - k) + 1) + 1] = g
      BY <1>1, <1>9, <3>3, <3>4
    <3>6. QED BY <1>1, <1>3, <3>5
  <2>2. \A i \in 1..(N + 1) : todo[i] = LIVE \/ todo[i] \in D
    BY <1>9, <1>11
  <2>3. QED BY <1>10, <2>1, <2>2 DEF ToSet
<1>13. ASSUME NEW i \in 1..(N + 1), NEW j \in 1..(N + 1), i < j, todo[i] # LIVE
       PROVE  Before(todo[j], todo[i])
  <2>1. i # 1 /\ j # 1
    BY <1>9, <1>13
  <2>2. /\ todo[i] = paths[(N - (i - 1)) + 1] /\ todo[j] = paths[(N - (j - 1)) + 1]
        /\ i - 1 \in 1..N /\ j - 1 \in 1..N
    BY <1>11, <2>1
  <2>3. (N - (j - 1)) + 1 < (N - (i - 1)) + 1
    BY <1>1, <1>13
  <2>4. QED BY <1>2, <1>6, <2>2, <2>3
<1>14. QED BY <1>9, <1>10, <1>11, <1>12, <1>13 DEF todo, rev, paths, D

LEMMA QueryBeginStep ==
    ASSUME LogIInv, QueryBegin
    PROVE  LogIInv'
<1> DEFINE todo == <<LIVE>> \o Reverse(_rotated_paths)
<1>1. /\ query' = [todo |-> todo, answer |-> <<>>] /\ missed' = {}
      /\ UNCHANGED <<file, clock, history, logFaults, back>>
  BY DEF QueryBegin
<1>2. /\ todo \in Seq(Name \cup {LIVE}) /\ todo # <<>> /\ Head(todo) = LIVE
      /\ \A i \in DOMAIN todo : todo[i] = LIVE => i = 1
      /\ ToSet(todo) \ {LIVE} = DOMAIN rotated
      /\ \A i, j \in DOMAIN todo : i < j /\ todo[i] # LIVE => Before(todo[j], todo[i])
  BY Listed DEF LogIInv, Files
<1> HIDE DEF todo
<1>3. query'.todo = todo /\ query'.answer = <<>> /\ DOMAIN <<>> = {}
  BY <1>1
<1>4. Files' /\ AckedWritten' /\ ChainKept'
  <2>1. query' \in [todo : Seq(Name \cup {LIVE}), answer : Seq(Nat)]
    <3>1. <<>> \in Seq(Nat)
      OBVIOUS
    <3>2. QED BY <1>1, <1>2, <3>1
  <2>2. missed' \in SUBSET Nat /\ \A m \in DOMAIN query'.answer : query'.answer[m] <= events
    BY <1>1, <1>3
  <2>3. QED BY <1>1, <2>1, <2>2, QuerySame
<1>5. rotated' = rotated
  BY <1>1 DEF file
<1>6. Ahead' = DOMAIN rotated /\ AtLive'
  BY <1>2, <1>3 DEF Ahead, AtLive
<1>7. ReadsBack'
  BY <1>2, <1>3, <1>5, <1>6 DEF ReadsBack
<1>8. ReadsAll'
  BY <1>3, <1>5, <1>6 DEF ReadsAll
<1>9. QED BY <1>4, <1>7, <1>8 DEF LogIInv

LEMMA ConcatToSet ==
    ASSUME NEW S, NEW p \in Seq(S), NEW q \in Seq(S)
    PROVE  p \o q \in Seq(S) /\ \A x \in ToSet(p \o q) : x \in ToSet(p) \/ x \in ToSet(q)
<1> DEFINE r == p \o q
           P == Len(p)
           Q == Len(q)
<1>1. /\ r \in Seq(S) /\ P \in Nat /\ Q \in Nat /\ DOMAIN r = 1..(P + Q)
      /\ \A i \in 1..P : r[i] = p[i]
      /\ \A i \in 1..Q : r[P + i] = q[i]
      /\ DOMAIN p = 1..P /\ DOMAIN q = 1..Q
  OBVIOUS
<1> HIDE DEF r, P, Q
<1>2. ASSUME NEW i \in 1..(P + Q) PROVE r[i] \in ToSet(p) \/ r[i] \in ToSet(q)
  <2>1. CASE i \in 1..P
    BY <1>1, <2>1 DEF ToSet
  <2>2. CASE ~(i \in 1..P)
    <3>1. i - P \in 1..Q /\ P + (i - P) = i
      BY <1>1, <2>2
    <3>2. r[i] = q[i - P]
      BY <1>1, <3>1
    <3>3. QED BY <1>1, <3>1, <3>2 DEF ToSet
  <2>3. QED BY <2>1, <2>2
<1>3. \A x \in ToSet(r) : x \in ToSet(p) \/ x \in ToSet(q)
  BY <1>1, <1>2 DEF ToSet
<1>4. QED BY <1>1, <1>3 DEF r

\* What is left of a list whose head is taken.
LEMMA TailOf ==
    ASSUME NEW S, NEW s \in Seq(S), s # <<>>
    PROVE  /\ Tail(s) \in Seq(S) /\ Head(s) \in S /\ Head(s) = s[1] /\ 1 \in DOMAIN s
           /\ \A i \in DOMAIN Tail(s) : i + 1 \in DOMAIN s /\ Tail(s)[i] = s[i + 1] /\ i \in Nat /\ i # 0
           /\ \A i \in DOMAIN s : i # 1 => i - 1 \in DOMAIN Tail(s) /\ Tail(s)[i - 1] = s[i] /\ 1 < i
           /\ Tail(s) # <<>> => 1 \in DOMAIN Tail(s) /\ Head(Tail(s)) = Tail(s)[1]
<1>1. Len(s) \in Nat \ {0} /\ DOMAIN s = 1..Len(s) /\ Head(s) = s[1] /\ s[1] \in S
  OBVIOUS
<1>2. /\ Tail(s) \in Seq(S) /\ Len(Tail(s)) = Len(s) - 1
      /\ \A i \in 1..(Len(s) - 1) : Tail(s)[i] = s[i + 1]
  OBVIOUS
<1> DEFINE t == Tail(s)
           L == Len(s)
<1> HIDE DEF t, L
<1>3. /\ t \in Seq(S) /\ Len(t) = L - 1 /\ L \in Nat \ {0} /\ DOMAIN s = 1..L
      /\ \A i \in 1..(L - 1) : t[i] = s[i + 1]
  BY <1>1, <1>2 DEF t, L
<1>4. DOMAIN t = 1..(L - 1)
  BY <1>3
<1>5. \A i \in DOMAIN t : i + 1 \in DOMAIN s /\ t[i] = s[i + 1] /\ i \in Nat /\ i # 0
  BY <1>3, <1>4
<1>6. ASSUME NEW i \in DOMAIN s, i # 1 PROVE i - 1 \in DOMAIN t /\ t[i - 1] = s[i] /\ 1 < i
  <2>1. i - 1 \in 1..(L - 1) /\ (i - 1) + 1 = i /\ 1 < i
    BY <1>3, <1>6
  <2>2. QED BY <1>3, <1>4, <2>1
<1>7. t # <<>> => 1 \in DOMAIN t /\ Head(t) = t[1]
  BY <1>3, <1>4
<1>8. QED BY <1>1, <1>3, <1>5, <1>6, <1>7 DEF t

\* The query reads the next file.
Reads ==
    /\ query.todo # <<>> /\ missed' = missed
    /\ query' = [todo |-> Tail(query.todo),
                 answer |-> query.answer \o Backwards(Content(Head(query.todo)))]
    /\ UNCHANGED <<file, clock, history, logFaults, back>>

LEMMA ReadStep ==
    ASSUME LogIInv, Reads
    PROVE  LogIInv'
<1> DEFINE T == query.todo
           got == query.answer
           name == Head(T)
           D == DOMAIN rotated
           lines == IF name = LIVE THEN live ELSE rotated[name]
           B == Backwards(lines)
<1>1. /\ T # <<>> /\ query' = [todo |-> Tail(T), answer |-> got \o B] /\ missed' = missed
      /\ UNCHANGED <<file, clock, history, logFaults, back>>
  BY DEF Reads, Content
<1>2. /\ Files /\ LogTypeOK /\ ReadsBack /\ ReadsAll
      /\ T \in Seq(Name \cup {LIVE}) /\ got \in Seq(Nat) /\ events \in Nat
      /\ D \in SUBSET Name /\ LIVE \notin Name
  BY DEF LogIInv, Files, LogTypeOK, LIVE, Name
<1>3. /\ query'.todo = Tail(T) /\ query'.answer = got \o B
      /\ rotated' = rotated /\ live' = live /\ disordered' = disordered
  BY <1>1 DEF file, history
<1> HIDE DEF T, got
<1>4. /\ Tail(T) \in Seq(Name \cup {LIVE}) /\ name = T[1] /\ 1 \in DOMAIN T
      /\ \A i \in DOMAIN Tail(T) : i + 1 \in DOMAIN T /\ Tail(T)[i] = T[i + 1] /\ i \in Nat /\ i # 0
      /\ \A i \in DOMAIN T : i # 1 => i - 1 \in DOMAIN Tail(T) /\ Tail(T)[i - 1] = T[i] /\ 1 < i
      /\ Tail(T) # <<>> => 1 \in DOMAIN Tail(T) /\ Head(Tail(T)) = Tail(T)[1]
  BY <1>1, <1>2, TailOf
<1> DEFINE rest == Tail(T)
<1> HIDE DEF name, rest
<1>5. Ahead = ToSet(T) \ {LIVE} /\ Ahead' = ToSet(rest) \ {LIVE} /\ Ahead \subseteq D
  BY <1>2, <1>3 DEF Ahead, T, rest, ReadsBack
<1>6. name # LIVE => name \in Ahead /\ name \in D
  BY <1>4, <1>5 DEF ToSet
<1>7. /\ lines \in Seq(Line) /\ Rises(lines) /\ \A j \in DOMAIN lines : lines[j].ev <= events
  BY <1>2, <1>6 DEF LogTypeOK, Files, LinesRise, Numbered
<1>8. /\ B \in Seq(Nat) /\ Falls(B)
      /\ \A x : x \in ToSet(B) <=> \E j \in DOMAIN lines : lines[j].whole /\ lines[j].ev = x
  <2> HIDE DEF lines
  <2>1. QED BY <1>7, BackwardsAre
<1> HIDE DEF B
<1>9. got \o B \in Seq(Nat) /\ \A x \in ToSet(got \o B) : x \in ToSet(got) \/ x \in ToSet(B)
  BY <1>2, <1>8, ConcatToSet
<1>10. /\ Files' /\ AckedWritten' /\ ChainKept' /\ Written' = Written
  <2>1. query' \in [todo : Seq(Name \cup {LIVE}), answer : Seq(Nat)]
    BY <1>1, <1>4, <1>9
  <2>2. missed' \in SUBSET Nat
    BY <1>1, <1>2 DEF LogTypeOK
  <2>3. ASSUME NEW m \in DOMAIN query'.answer PROVE query'.answer[m] <= events
    <3>1. (got \o B)[m] \in ToSet(got \o B)
      BY <1>3, <2>3 DEF ToSet
    <3>2. \A x \in ToSet(got) : x <= events
      BY <1>2 DEF Files, Numbered, ToSet, got
    <3>3. \A x \in ToSet(B) : x <= events
      BY <1>7, <1>8
    <3>4. QED BY <1>3, <1>9, <3>1, <3>2, <3>3
  <2>4. QED BY <1>1, <2>1, <2>2, <2>3, QuerySame
<1>11. Ahead' \subseteq D
  BY <1>4, <1>5 DEF ToSet, rest
<1>12. CASE disordered
  BY <1>3, <1>10, <1>11, <1>12 DEF LogIInv, ReadsBack, ReadsAll
<1>13. CASE ~disordered
  <2>1. /\ \A i \in DOMAIN T : T[i] = LIVE => i = 1
        /\ \A i, j \in DOMAIN T : i < j /\ T[i] # LIVE => Before(T[j], T[i])
        /\ \A g \in D, d \in Ahead : Before(g, d) => g \in Ahead
    BY <1>2, <1>13 DEF ReadsBack, T
  <2>2. \A i \in DOMAIN rest : i + 1 \in DOMAIN T /\ rest[i] = T[i + 1] /\ i \in Nat /\ i # 0
    BY <1>4 DEF rest
  <2>3. \A i \in DOMAIN rest : rest[i] # LIVE
    <3>1. \A i \in DOMAIN rest : i + 1 # 1
      BY <2>2
    <3>2. QED BY <2>1, <2>2, <3>1
  <2>4. \A d \in Ahead' : d \in Ahead /\ (name # LIVE => Before(d, name))
    <3>1. ASSUME NEW i \in DOMAIN rest PROVE rest[i] \in Ahead /\ (name # LIVE => Before(rest[i], name))
      <4>1. rest[i] \in Ahead
        BY <1>5, <2>2, <2>3 DEF ToSet
      <4>2. 1 < i + 1
        BY <2>2
      <4>3. QED BY <1>4, <2>1, <2>2, <4>1, <4>2
    <3>2. QED BY <1>5, <3>1 DEF ToSet
  <2>5. \A d \in Ahead : d # name => d \in Ahead'
    <3>1. ASSUME NEW i \in DOMAIN T, T[i] # LIVE, T[i] # name PROVE T[i] \in Ahead'
      <4>1. i # 1
        BY <1>4, <3>1
      <4>2. i - 1 \in DOMAIN rest /\ rest[i - 1] = T[i]
        BY <1>4, <4>1 DEF rest
      <4>3. QED BY <1>5, <3>1, <4>2 DEF ToSet
    <3>2. QED BY <1>5, <3>1 DEF ToSet
  <2>6. ~AtLive'
    <3>1. AtLive' <=> rest # <<>> /\ Head(rest) = LIVE
      BY <1>3 DEF AtLive, rest
    <3>2. rest # <<>> => 1 \in DOMAIN rest /\ Head(rest) = rest[1]
      BY <1>4 DEF rest
    <3>3. QED BY <2>3, <3>1, <3>2
  <2>7. ASSUME NEW g \in D, NEW d \in Ahead', Before(g, d) PROVE g \in Ahead'
    <3>1. g \in Ahead /\ g \in Name /\ d \in Name
      BY <1>2, <1>5, <2>1, <2>4, <2>7
    <3>2. ASSUME g = name PROVE FALSE
      <4>1. name # LIVE /\ Before(d, name) /\ Before(name, d)
        BY <1>2, <2>4, <2>7, <3>1, <3>2
      <4>2. QED BY <3>1, <3>2, <4>1, BeforeOrders
    <3>3. QED BY <2>5, <3>1, <3>2
  <2>8. ReadsBack'
    <3>1. ASSUME NEW i \in DOMAIN rest, NEW j \in DOMAIN rest, i < j PROVE Before(rest[j], rest[i])
      <4>1. i + 1 < j + 1
        BY <2>2, <3>1
      <4>2. QED BY <2>1, <2>2, <2>3, <4>1
    <3>2. query'.todo = rest
      BY <1>3 DEF rest
    <3>3. QED BY <1>3, <1>11, <2>3, <2>7, <3>1, <3>2 DEF ReadsBack
  <2>9. \A g \in D : \A j \in DOMAIN rotated[g] : rotated[g][j].ev \in Nat
    <3>1. \A g \in D : \A j \in DOMAIN rotated[g] : rotated[g][j] \in Line
      BY <1>2 DEF LogTypeOK
    <3>2. QED BY <3>1 DEF Line
  <2>10. \A x \in ToSet(B) : x \in Nat
    BY <1>8 DEF ToSet
  <2> DEFINE Left(e) == \E d \in Ahead' : \E j \in DOMAIN rotated[d] : rotated[d][j].whole /\ rotated[d][j].ev = e
             Read(ans) == /\ Falls(ans)
                          /\ \A d \in Ahead' : \A j \in DOMAIN rotated[d], m \in DOMAIN ans :
                                 rotated[d][j].ev < ans[m]
                          /\ ans # <<>> => \A e \in Written : e < ans[1] =>
                                 e \in ToSet(ans) \cup missed \/ Left(e)
  <2>11. SUFFICES Read(got \o B)
    <3>1. ReadsAll'
      BY <1>1, <1>3, <1>10, <2>6, <2>11 DEF ReadsAll
    <3>2. QED BY <1>10, <2>8, <3>1 DEF LogIInv
  <2>12. CASE name = LIVE
    <3>1. lines = live /\ AtLive
      BY <1>1, <2>12 DEF AtLive, name, T
    <3>2. /\ got = <<>>
          /\ \A g \in D \ Ahead : \A j \in DOMAIN rotated[g] : rotated[g][j].ev \in missed
      BY <1>2, <1>13, <3>1 DEF ReadsAll, got
    <3>3. got \o B = B
      BY <1>8, <3>2
    <3>4. ASSUME NEW d \in Ahead', NEW j \in DOMAIN rotated[d], NEW m \in DOMAIN B
          PROVE  rotated[d][j].ev < B[m]
      <4>1. B[m] \in ToSet(B) /\ d \in D
        BY <1>11 DEF ToSet
      <4>2. PICK k \in DOMAIN live : live[k].ev = B[m]
        BY <1>8, <3>1, <4>1
      <4>3. QED BY <1>2, <4>1, <4>2 DEF Files, LinesRise
    <3>5. ASSUME NEW e \in Written PROVE e \in ToSet(B) \cup missed \/ Left(e)
      <4>1. CASE \E j \in DOMAIN live : live[j].whole /\ live[j].ev = e
        BY <1>8, <3>1, <4>1
      <4>2. ASSUME NEW g \in D, NEW j \in DOMAIN rotated[g], rotated[g][j].whole, rotated[g][j].ev = e
            PROVE  e \in missed \/ Left(e)
        <5>1. CASE g \in Ahead
          <6>1. g # name
            BY <1>2, <2>12
          <6>2. QED BY <2>5, <4>2, <5>1, <6>1
        <5>2. CASE g \notin Ahead
          BY <3>2, <4>2, <5>2
        <5>3. QED BY <5>1, <5>2
      <4>3. QED BY <1>2, <4>1, <4>2, WrittenIs
    <3>6. QED BY <1>8, <3>3, <3>4, <3>5
  <2>13. CASE name # LIVE
    <3>1. lines = rotated[name] /\ ~AtLive /\ name \in Ahead /\ name \in D /\ name \in Name
      BY <1>2, <1>6, <2>13 DEF AtLive, name, T
    <3>2. /\ Falls(got)
          /\ \A d \in Ahead : \A j \in DOMAIN rotated[d], m \in DOMAIN got :
                 rotated[d][j].ev < got[m]
          /\ got # <<>> => \A e \in Written : e < got[1] =>
                 \/ e \in ToSet(got) \cup missed
                 \/ \E d \in Ahead : \E j \in DOMAIN rotated[d] : rotated[d][j].whole /\ rotated[d][j].ev = e
      BY <1>2, <1>13, <3>1 DEF ReadsAll, got
    <3>3. /\ got \o B \in Seq(Nat) /\ Falls(got \o B)
          /\ ToSet(got \o B) = ToSet(got) \cup ToSet(B)
      <4>1. ASSUME NEW i \in DOMAIN got, NEW j \in DOMAIN B PROVE got[i] > B[j]
        <5>1. B[j] \in ToSet(B)
          BY DEF ToSet
        <5>2. PICK k \in DOMAIN rotated[name] : rotated[name][k].ev = B[j]
          BY <1>8, <3>1, <5>1
        <5>3. rotated[name][k].ev < got[i] /\ rotated[name][k].ev \in Nat
          BY <2>9, <3>1, <3>2
        <5>4. got[i] \in Nat
          BY <1>2
        <5>5. QED BY <5>2, <5>3, <5>4
      <4>2. QED BY <1>2, <1>8, <3>2, <4>1, FallsConcat
    <3>4. ASSUME NEW d \in Ahead', NEW j \in DOMAIN rotated[d], NEW m \in DOMAIN (got \o B)
          PROVE  rotated[d][j].ev < (got \o B)[m]
      <4>1. (got \o B)[m] \in ToSet(got) \cup ToSet(B) /\ d \in Ahead /\ Before(d, name) /\ d \in D
        BY <1>11, <2>4, <2>13, <3>3 DEF ToSet
      <4>2. ASSUME NEW x \in ToSet(got) PROVE rotated[d][j].ev < x
        BY <3>2, <4>1 DEF ToSet
      <4>3. ASSUME NEW x \in ToSet(B) PROVE rotated[d][j].ev < x
        <5>1. PICK k \in DOMAIN rotated[name] : rotated[name][k].ev = x
          BY <1>8, <3>1
        <5>2. Older(rotated[d], rotated[name])
          BY <1>2, <1>13, <3>1, <4>1 DEF Files, SegmentsRise
        <5>3. QED BY <5>1, <5>2 DEF Older
      <4>4. QED BY <4>1, <4>2, <4>3
    <3>5. ASSUME NEW e \in Written, got \o B # <<>>, e < (got \o B)[1]
          PROVE  e \in ToSet(got \o B) \cup missed \/ Left(e)
      <4>1. CASE got # <<>>
        <5>1. (got \o B)[1] = got[1]
          BY <1>2, <1>8, <4>1
        <5>2. \/ e \in ToSet(got) \cup missed
              \/ \E d \in Ahead : \E j \in DOMAIN rotated[d] : rotated[d][j].whole /\ rotated[d][j].ev = e
          BY <3>2, <3>5, <4>1, <5>1
        <5>3. ASSUME NEW d \in Ahead, NEW j \in DOMAIN rotated[d], rotated[d][j].whole, rotated[d][j].ev = e
              PROVE  e \in ToSet(B) \/ Left(e)
          <6>1. CASE d = name
            BY <1>8, <3>1, <5>3, <6>1
          <6>2. CASE d # name
            BY <2>5, <5>3, <6>2
          <6>3. QED BY <6>1, <6>2
        <5>4. QED BY <3>3, <5>2, <5>3
      <4>2. CASE got = <<>>
        <5>1. got \o B = B /\ B # <<>> /\ B[1] \in ToSet(B)
          <6>1. got \o B = B
            BY <1>8, <4>2
          <6>2. B # <<>> /\ 1 \in DOMAIN B
            BY <1>8, <3>5, <6>1
          <6>3. QED BY <6>1, <6>2 DEF ToSet
        <5>2. PICK k \in DOMAIN rotated[name] : rotated[name][k].ev = B[1]
          BY <1>8, <3>1, <5>1
        <5>3. e < rotated[name][k].ev /\ rotated[name][k].ev \in Nat
          BY <2>9, <3>1, <3>5, <5>1, <5>2
        <5>4. ASSUME NEW j \in DOMAIN live, live[j].ev = e PROVE FALSE
          <6>1. rotated[name][k].ev < e
            BY <1>2, <3>1, <5>4 DEF Files, LinesRise
          <6>2. live[j] \in Line
            BY <1>2 DEF LogTypeOK
          <6>3. e \in Nat
            BY <5>4, <6>2 DEF Line
          <6>4. QED BY <5>3, <6>1, <6>3
        <5>5. ASSUME NEW g \in D, NEW j \in DOMAIN rotated[g], rotated[g][j].whole, rotated[g][j].ev = e
              PROVE  e \in ToSet(B) \/ Left(e)
          <6>1. CASE g = name
            BY <1>8, <3>1, <5>5, <6>1
          <6>2. CASE g # name /\ g \in Ahead
            BY <2>5, <5>5, <6>2
          <6>3. CASE g # name /\ g \notin Ahead
            <7>1. ~Before(g, name) /\ g \in Name
              BY <1>2, <2>1, <3>1, <6>3
            <7>2. Before(name, g)
              BY <3>1, <6>3, <7>1, BeforeOrders
            <7>3. Older(rotated[name], rotated[g])
              BY <1>2, <1>13, <3>1, <7>2 DEF Files, SegmentsRise
            <7>4. rotated[name][k].ev < e
              BY <5>5, <7>3 DEF Older
            <7>5. e \in Nat
              BY <2>9, <5>5
            <7>6. QED BY <5>3, <7>4, <7>5
          <6>4. QED BY <6>1, <6>2, <6>3
        <5>6. QED BY <1>2, <5>1, <5>4, <5>5, WrittenIs
      <4>3. QED BY <4>1, <4>2
    <3>6. QED BY <3>3, <3>4, <3>5
  <2>14. QED BY <2>12, <2>13
<1>14. QED BY <1>12, <1>13

LEMMA QueryReadStep ==
    ASSUME LogIInv, QueryRead
    PROVE  LogIInv'
<1>1. CASE query' = Idle
  <2>1. clock \in Nat \ {0} /\ logFaults \in Nat /\ back \in Nat /\ up \in BOOLEAN
    BY DEF LogIInv, Files, LogTypeOK
  <2>2. QED BY <1>1, <2>1, OtherStep DEF QueryRead, file
<1>2. CASE query' # Idle
  BY <1>2, ReadStep DEF QueryRead, Reads
<1>3. QED BY <1>1, <1>2

LEMMA StepLogIInv == LogIInv /\ [LogNext]_logVars => LogIInv'
BY AppendStep, FailStep, CrashInAppendStep, StartStep, QueryBeginStep, QueryReadStep DEF LogNext

-----------------------------------------------------------------------------
(* Theorems about the audit log.                                               *)

\* The inductive invariant holds: rotation, the appends, failures and crashes keep
\* the directory in order and the log's lines in the order of their events.
THEOREM LogInvariance == LogSpec => []LogIInv
BY InitLogIInv, StepLogIInv, PTL DEF LogSpec

\* audit_log.py append, _maybe_rotate_locked and _load_last_hash: the chain verifies
\* across rotations and restarts, whatever the size that rotates, unless a write
\* left what its chain does not know or a segment is named before an older one.
THEOREM ChainHolds == LogSpec => []ChainVerifies
<1>1. LogIInv => ChainVerifies
  BY DEF LogIInv, ChainKept, ChainVerifies, Chained, verify
<1>2. QED BY <1>1, LogInvariance, PTL

\* audit_log.py append and _rotated_path_for: what an append returned for stays in a
\* whole line for good, and can be read unless a write to its file was cut inside a
\* character; but for the one it wrote onto an open line.
THEOREM AckedHolds == LogSpec => []AckedReadable
<1>1. ASSUME LogIInv PROVE AckedReadable
  <2>1. acked \ swallowed \subseteq Written
    BY <1>1 DEF LogIInv, AckedWritten
  <2>2. Written \subseteq Readable \cup WholeIn(garbled)
    BY WholeAre, WholeOfIs
  <2>3. QED BY <2>1, <2>2 DEF AckedReadable
<1>2. QED BY <1>1, LogInvariance, PTL

\* audit_log.py iter_filtered: a query yields the newest first, each event once, and
\* leaves out between its first and its last only what was rotated away after it
\* listed the files, however many appends and rotations run between its reads.
THEOREM QueryHolds == LogSpec => []QueryInOrder
<1>1. ASSUME LogIInv PROVE QueryInOrder
  <2> DEFINE got == query.answer
  <2>1. SUFFICES ASSUME ~disordered
                 PROVE  /\ \A m, n \in DOMAIN got : m < n => got[m] > got[n]
                        /\ got # <<>> => \A e \in Written :
                               got[1] > e /\ e > Last(got) => e \in ToSet(got) \cup missed
    BY DEF QueryInOrder
  <2>2. ReadsAll /\ got \in Seq(Nat)
    BY <1>1 DEF LogIInv, Files, LogTypeOK
  <2>3. CASE AtLive
    <3>1. got = <<>>
      BY <2>1, <2>2, <2>3 DEF ReadsAll
    <3>2. QED BY <3>1
  <2>4. CASE ~AtLive
    <3>1. /\ Falls(got)
          /\ \A d \in Ahead : \A j \in DOMAIN rotated[d], m \in DOMAIN got :
                 rotated[d][j].ev < got[m]
          /\ got # <<>> => \A e \in Written : e < got[1] =>
                 \/ e \in ToSet(got) \cup missed
                 \/ \E d \in Ahead : \E j \in DOMAIN rotated[d] : rotated[d][j].whole /\ rotated[d][j].ev = e
      BY <2>1, <2>2, <2>4 DEF ReadsAll
    <3>2. ASSUME got # <<>>, NEW e \in Written, got[1] > e, e > Last(got)
          PROVE  e \in ToSet(got) \cup missed
      <4>1. Len(got) \in DOMAIN got /\ Last(got) = got[Len(got)] /\ got[1] \in Nat /\ Last(got) \in Nat
        BY <2>2, <3>2 DEF Last
      <4>2. e \in Nat
        <5>1. \A j \in DOMAIN live : live[j] \in Line
          BY <1>1 DEF LogIInv, Files, LogTypeOK
        <5>2. \A g \in DOMAIN rotated : \A j \in DOMAIN rotated[g] : rotated[g][j] \in Line
          BY <1>1 DEF LogIInv, Files, LogTypeOK
        <5>3. DOMAIN rotated \subseteq Name
          BY <1>1 DEF LogIInv, Files, LogTypeOK
        <5>4. QED BY <3>2, <5>1, <5>2, <5>3, WrittenIs DEF Line
      <4>3. e < got[1]
        BY <3>2, <4>1, <4>2
      <4>4. ASSUME NEW d \in Ahead, NEW j \in DOMAIN rotated[d], rotated[d][j].ev = e PROVE FALSE
        <5>1. e < Last(got)
          BY <3>1, <4>1, <4>4
        <5>2. QED BY <3>2, <4>1, <4>2, <5>1
      <4>5. QED BY <3>1, <3>2, <4>3, <4>4
    <3>3. \A m, n \in DOMAIN got : m < n => got[m] > got[n]
      BY <3>1 DEF Falls
    <3>4. QED BY <3>2, <3>3
  <2>5. QED BY <2>3, <2>4
<1>2. QED BY <1>1, LogInvariance, PTL

\* What can be read and no longer can after a step: what is in the live file, when
\* the write to it is cut inside a character; and the event of a bare line, which is
\* of an append that did not return, when the next one is written onto it.
ReadTillSpoilt ==
    \A e \in Readable \ Readable' :
        \/ /\ ~Rotates /\ LIVE \in garbled' \ garbled
           /\ \E j \in DOMAIN live : live[j].ev = e
        \/ Onto /\ e = live[Len(live)].ev /\ e \notin acked

\* audit_log.py append, _rotated_path_for: no step but the two of ReadTillSpoilt
\* makes unreadable what can be read: no rotation overwrites a segment, no write
\* spoils a segment or a line that has its end.
THEOREM NothingUnread == LogSpec => [][ReadTillSpoilt]_logVars
<1>1. ASSUME LogIInv, NEW part \in Parts, Attempt(part)
      PROVE  ReadTillSpoilt
  <2> DEFINE new == _rotated_path_for
             D == DOMAIN rotated
  <2>1. Files /\ LIVE \notin Name /\ D \subseteq Name /\ garbled \subseteq D \cup {LIVE}
    BY <1>1 DEF LogIInv, Files, LogTypeOK, AllFiles, LIVE, Name
  <2>2. /\ DOMAIN rotated' = D \cup (IF Rotates THEN {new} ELSE {})
        /\ \A g \in D : rotated'[g] = rotated[g]
        /\ Rotates => rotated'[new] = live
        /\ DOMAIN rotated' \subseteq Name /\ new \in Name /\ new \notin D
    BY <1>1, <2>1, Rotation, NewName DEF Attempt, Files
  <2>3. \A i \in DOMAIN Kept : (Onto /\ i = Len(live)) \/ \E j \in DOMAIN live' : live'[j] = Kept[i]
    BY <1>1, <2>1, WriteShape DEF Attempt
  <2>4. garbled' = {IF Rotates /\ g = LIVE THEN new ELSE g : g \in garbled}
                       \cup (IF part = "cut" THEN {LIVE} ELSE {})
    BY <1>1 DEF Attempt, WriteLine
  <2> HIDE DEF new
  <2>5. /\ \A g \in D : g \in garbled' => g \in garbled
        /\ Rotates /\ LIVE \notin garbled => new \notin garbled'
    BY <2>1, <2>2, <2>4
  <2>6. ASSUME NEW g \in D \ garbled, NEW j \in DOMAIN rotated[g], rotated[g][j].whole
        PROVE  rotated[g][j].ev \in Readable'
    <3>1. g \in DOMAIN rotated' \ garbled' /\ rotated'[g] = rotated[g]
      BY <2>2, <2>5
    <3>2. QED BY <2>2, <2>6, <3>1, ReadableIs
  <2>7. ASSUME LIVE \notin garbled, NEW j \in DOMAIN live, live[j].whole
        PROVE  \/ live[j].ev \in Readable'
               \/ ~Rotates /\ LIVE \in garbled' \ garbled
               \/ Onto /\ j = Len(live)
    <3>1. CASE Rotates
      <4>1. new \in DOMAIN rotated' \ garbled' /\ rotated'[new] = live
        BY <2>2, <2>5, <2>7, <3>1
      <4>2. QED BY <2>2, <2>7, <4>1, ReadableIs
    <3>2. CASE ~Rotates /\ LIVE \notin garbled'
      <4>1. (Onto /\ j = Len(live)) \/ \E i \in DOMAIN live' : live'[i] = live[j]
        BY <2>3, <2>7, <3>2 DEF Kept
      <4>2. QED BY <2>2, <2>7, <3>2, <4>1, ReadableIs
    <3>3. QED BY <2>7, <3>1, <3>2
  <2>8. Onto => live[Len(live)].ev \notin acked
    BY <2>1 DEF Onto, Files, OpenLine
  <2>9. ASSUME NEW e \in Readable \ Readable'
        PROVE  \/ /\ ~Rotates /\ LIVE \in garbled' \ garbled
                  /\ \E j \in DOMAIN live : live[j].ev = e
               \/ Onto /\ e = live[Len(live)].ev /\ e \notin acked
    <3>1. PICK j \in DOMAIN live : LIVE \notin garbled /\ live[j].whole /\ live[j].ev = e
      BY <2>1, <2>6, <2>9, ReadableIs
    <3>2. QED BY <2>7, <2>8, <2>9, <3>1
  <2>10. QED BY <2>9 DEF ReadTillSpoilt
<1>2. ASSUME LogIInv, [LogNext]_logVars
      PROVE  [ReadTillSpoilt]_logVars
  <2>1. CASE append \/ AppendFails \/ CrashInAppend
    BY <1>1, <1>2, <2>1 DEF append, AppendFails, CrashInAppend, Parts
  <2>2. CASE ProcessDies \/ Restart \/ QueryBegin \/ QueryRead \/ Tick \/ StepBack
    <3>1. UNCHANGED <<live, rotated, garbled>>
      BY <2>2 DEF ProcessDies, Restart, QueryBegin, QueryRead, Tick, StepBack, file
    <3>2. Readable' = Readable
      BY <3>1 DEF Readable, WholeIn, AllFiles, Content
    <3>3. QED BY <3>2 DEF ReadTillSpoilt
  <2>3. QED BY <1>2, <2>1, <2>2 DEF LogNext
<1>3. QED BY <1>2, LogInvariance, PTL DEF LogSpec

\* audit_log.py _rotated_paths: it lists every segment once, in the order of the
\* names, and no two segments ever had the same name.
THEOREM DirectoryHolds == LogSpec => []DirectoryKept
<1>1. LogIInv => DirectoryKept
  BY DEF LogIInv, Files
<1>2. QED BY <1>1, LogInvariance, PTL

-----------------------------------------------------------------------------
(* The audit log implements EventLog.                                          *)

\* No line is of an event yet to come.
LEMMA LinesBelow ==
    ASSUME Files
    PROVE  LET all == Lines(_rotated_paths)
           IN  all \in Seq(Line) /\ \A n \in DOMAIN all : all[n].ev <= events
<1> DEFINE Past == {l \in Line : l.ev <= events}
           D == DOMAIN rotated
           chunks == Chunks(rotated, Paths(D))
<1>1. /\ live \in Seq(Line) /\ rotated \in [D -> Seq(Line)] /\ D \in SUBSET Name /\ IsFiniteSet(D)
      /\ Sorted(Paths(D), D)
  BY DEF Files, LogTypeOK, DirectoryKept, _rotated_paths, Paths
<1>2. /\ \A j \in DOMAIN live : live[j].ev <= events
      /\ \A g \in D : \A j \in DOMAIN rotated[g] : rotated[g][j].ev <= events
  BY DEF Files, Numbered
<1>3. Paths(D) \in Seq(D) /\ LinesOf(rotated, live) \in Seq(Line)
  BY <1>1, LinesTyped
<1>4. ASSUME NEW s \in Seq(Line), \A j \in DOMAIN s : s[j].ev <= events
      PROVE  s \in Seq(Past)
  <2>1. \A j \in 1..Len(s) : s[j] \in Past
    BY <1>4
  <2> HIDE DEF Past
  <2>2. QED BY <1>4, <2>1
<1>5. live \in Seq(Past) /\ \A g \in D : rotated[g] \in Seq(Past)
  BY <1>1, <1>2, <1>4
<1> HIDE DEF Past, D
<1>6. chunks \in Seq(Seq(Past))
  <2> DEFINE paths == Paths(D)
  <2>1. DOMAIN paths = 1..Len(paths) /\ Len(paths) \in Nat /\ \A n \in DOMAIN paths : paths[n] \in D
    BY <1>3
  <2> HIDE DEF paths
  <2>2. chunks = [n \in 1..Len(paths) |-> rotated[paths[n]]]
    BY <2>1 DEF Chunks, paths
  <2> HIDE DEF chunks
  <2>3. chunks \in [1..Len(paths) -> Seq(Past)]
    BY <1>5, <2>1, <2>2
  <2>4. QED BY <2>1, <2>3
<1> HIDE DEF chunks
<1>7. FlattenSeq(chunks) \in Seq(Past)
  BY <1>5, <1>6, FlattenAppends
<1>8. LinesOf(rotated, live) \in Seq(Past)
  <2>1. LinesOf(rotated, live) = FlattenSeq(chunks) \o live
    BY DEF LinesOf, chunks, D
  <2>2. QED BY <1>5, <1>7, <2>1
<1>9. \A n \in DOMAIN LinesOf(rotated, live) : LinesOf(rotated, live)[n] \in Past
  BY <1>8
<1>10. QED BY <1>3, <1>9, LinesAre DEF Past

\* An attempt that spoils nothing leaves the log as it is or records its event.
LEMMA AttemptRecords ==
    ASSUME LogIInv, NEW part \in {"none", "bare", "all"}, Attempt(part), part # "none" => ~Onto,
           Sound, Sound'
    PROVE  /\ part = "none" => SoundLines' = SoundLines
           /\ part # "none" =>
                 /\ events + 1 \in 1..MaxEvents /\ events + 1 > Log!LastHash
                 /\ SoundLines' = Append(SoundLines, [ev |-> events + 1, prev |-> Log!LastHash,
                                                      whole |-> TRUE])
<1> DEFINE all == Lines(_rotated_paths)
<1>1. Files /\ ~broken /\ ~disordered /\ ~disordered' /\ part \in Parts /\ up
  BY DEF LogIInv, Sound, Parts, Attempt
<1>2. SoundLines = all /\ SoundLines' = all'
  BY DEF SoundLines
<1>3. /\ all \in Seq(Line)
      /\ part = "none" => all' = all
      /\ part # "none" => all' = Append(all, NewLine(part))
  BY <1>1, AttemptLines
<1>4. lastHash = Tip(all) /\ Log!LastHash = Tip(all)
  BY <1>1, <1>2 DEF LogIInv, ChainKept, Log!LastHash, Tip, GENESIS
<1>5. part # "none" => NewLine(part) = [ev |-> events + 1, prev |-> lastHash, whole |-> TRUE]
  BY DEF NewLine
<1>6. events \in Nat /\ events + 1 \in 1..MaxEvents
  BY <1>1, AuditAssumption DEF Files, LogTypeOK, Attempt
<1>7. Tip(all) \in Nat /\ Tip(all) <= events
  <2>1. \A n \in DOMAIN all : all[n].ev <= events
    BY <1>1, LinesBelow
  <2>2. all # <<>> => Len(all) \in DOMAIN all /\ all[Len(all)] \in Line
    BY <1>3
  <2> HIDE DEF all
  <2>3. QED BY <1>6, <2>1, <2>2 DEF Tip, GENESIS, Line
<1> HIDE DEF all
<1>8. events + 1 > Tip(all)
  BY <1>6, <1>7
<1>9. CASE part = "none"
  BY <1>2, <1>3, <1>9
<1>10. CASE part # "none"
  BY <1>2, <1>3, <1>4, <1>5, <1>6, <1>8, <1>10
<1>11. QED BY <1>9, <1>10

\* A log that is sound before and after a step gains one line at most.
LEMMA SoundStep ==
    ASSUME LogIInv, LogNext, Sound, Sound'
    PROVE  \/ SoundLines' = SoundLines /\ SoundAcked' = SoundAcked
           \/ \E e \in 1..MaxEvents, told \in BOOLEAN : Log!Record(e, told)
<1>1. Sound' = Sound
  BY DEF Sound
<1>2. SoundAcked = acked /\ SoundAcked' = acked'
  BY DEF SoundAcked
<1>3. CASE append
  <2>1. Attempt("all") /\ acked' = acked \cup {events + 1} /\ ~Onto
    BY <1>3 DEF append, Sound
  <2>2. Log!Record(events + 1, TRUE)
    BY <1>1, <1>2, <2>1, AttemptRecords DEF Log!Record
  <2>3. QED BY <2>1, <2>2, AttemptRecords
<1>4. CASE AppendFails \/ CrashInAppend
  <2>1. PICK part \in Parts :
            /\ Attempt(part)
            /\ \/ broken' = (broken \/ part # "none")
               \/ broken' = (broken \/ part \in {"some", "cut"} \/ (part # "none" /\ Onto))
    BY <1>4 DEF AppendFails, CrashInAppend, Parts
  <2>2. acked' = acked /\ part \in {"none", "bare", "all"} /\ (part # "none" => ~Onto)
    BY <1>4, <2>1 DEF AppendFails, CrashInAppend, Sound, Parts
  <2>3. CASE part = "none"
    BY <1>2, <2>1, <2>2, <2>3, AttemptRecords
  <2>4. CASE part # "none"
    <3>1. Log!Record(events + 1, FALSE)
      BY <1>1, <1>2, <2>1, <2>2, <2>4, AttemptRecords DEF Log!Record
    <3>2. QED BY <2>1, <2>2, <2>4, <3>1, AttemptRecords
  <2>5. QED BY <2>2, <2>3, <2>4
<1>5. CASE ProcessDies \/ Restart \/ QueryBegin \/ QueryRead \/ Tick \/ StepBack
  <2>1. UNCHANGED <<live, rotated, acked>>
    BY <1>5 DEF ProcessDies, Restart, QueryBegin, QueryRead, Tick, StepBack, file, history
  <2>2. Lines(_rotated_paths)' = Lines(_rotated_paths)
    BY <2>1 DEF Lines, _rotated_paths
  <2>3. QED BY <1>2, <2>1, <2>2 DEF SoundLines
<1>6. QED BY <1>3, <1>4, <1>5 DEF LogNext

\* Spoilt is spoilt.
LEMMA SpoiltForGood ==
    ASSUME [LogNext]_logVars, Sound'
    PROVE  Sound
<1>1. ASSUME NEW part, Attempt(part) PROVE disordered => disordered'
  BY <1>1 DEF Attempt, _maybe_rotate_locked
<1>2. CASE append
  BY <1>1, <1>2 DEF append, Sound
<1>3. CASE AppendFails \/ CrashInAppend
  BY <1>1, <1>3 DEF AppendFails, CrashInAppend, Sound
<1>4. CASE ProcessDies \/ Restart \/ QueryBegin \/ QueryRead \/ Tick \/ StepBack \/ UNCHANGED logVars
  <2>1. UNCHANGED <<broken, disordered>>
    BY <1>4 DEF ProcessDies, Restart, QueryBegin, QueryRead, Tick, StepBack, logVars, history
  <2>2. QED BY <2>1 DEF Sound
<1>5. QED BY <1>2, <1>3, <1>4 DEF LogNext

\* audit_log.py: the files, the rotation and the appends, with their failures and
\* crashes, implement one log that only grows.
THEOREM LogRefinement == LogSpec => ImplementsEventLog
<1>1. LogInit => Log!Init
  <2>1. SUFFICES ASSUME LogInit PROVE Log!Init
    OBVIOUS
  <2>2. Lines(_rotated_paths) = <<>>
    BY <2>1, InitLogIInv
  <2>3. QED BY <2>1, <2>2 DEF LogInit, Log!Init, SoundLines, SoundAcked, Sound
<1>2. ASSUME LogIInv, [LogNext]_logVars PROVE [Log!Next]_(Log!vars)
  <2>1. CASE ~Sound
    <3>1. ~Sound'
      BY <1>2, <2>1, SpoiltForGood
    <3>2. QED BY <2>1, <3>1 DEF SoundLines, SoundAcked, Sound, Log!vars
  <2>2. CASE Sound /\ ~Sound'
    <3>1. SoundLines' = <<>> /\ SoundAcked' = {} /\ Sound' = FALSE
      BY <2>2 DEF SoundLines, SoundAcked
    <3>2. Log!Spoil
      BY <2>2, <3>1 DEF Log!Spoil
    <3>3. QED BY <3>2 DEF Log!Next
  <2>3. CASE Sound /\ Sound'
    <3>1. CASE LogNext
      BY <1>2, <2>3, <3>1, SoundStep DEF Log!Next, Log!vars, Sound
    <3>2. CASE UNCHANGED logVars
      BY <3>2 DEF logVars, file, history, SoundLines, SoundAcked, Sound, Lines, _rotated_paths, Log!vars
    <3>3. QED BY <1>2, <3>1, <3>2
  <2>4. QED BY <2>1, <2>2, <2>3
<1>3. QED BY <1>1, <1>2, LogInvariance, PTL DEF LogSpec, ImplementsEventLog, Log!Spec
================================================================================
