-------------------------- MODULE BootstrapProofs --------------------------
(***************************************************************************)
(* Proofs about Bootstrap, for every value of its constants: the inductive *)
(* invariant IInv and the safety properties it contains or implies.        *)
(*                                                                         *)
(* IInv is closed under every step in groups: the slots, the commit        *)
(* section, the worktrees, the commits and the bundles.  Each group has a  *)
(* lemma with a step per action, or per family of actions that move one    *)
(* call the same way (Working, Leaving); the steps that leave the          *)
(* variables of a group alone are one step of its lemma.                   *)
(***************************************************************************)
EXTENDS Bootstrap, TLAPS

-----------------------------------------------------------------------------
(* How the steps move the calls.                                           *)

\* Nothing of a call but n changes.
Others(n) ==
    \A m \in Calls \ {n} :
        /\ pc'[m] = pc[m] /\ outcome'[m] = outcome[m] /\ todo'[m] = todo[m]
        /\ kept'[m] = kept[m] /\ req'[m] = req[m] /\ landed'[m] = landed[m]

\* The steps of a call between its claim and its release but for the commit.
Working(n) ==
    \/ Refuse(n) \/ AdmitCommit(n) \/ AdmitBundle(n)
    \/ Bundle(n)
    \/ CommitBegin(n) \/ Refresh(n)
    \/ CheckExists(n) \/ CheckRefuses(n) \/ CheckPasses(n)
    \/ \E f \in Files : WriteFile(n, f) \/ AddFile(n, f)
    \/ WriteFails(n) \/ CommitFails(n)

\* Those that leave the commit section.
Leaving(n) ==
    \/ CheckExists(n) \/ CheckRefuses(n) \/ WriteFails(n) \/ CommitFails(n)
    \/ GitCommit(n) \/ CommitLost(n)

\* A call that has begun has a request, a session and a slot.
LEMMA RequestTypes ==
    ASSUME TypeOK, NEW n \in Calls, pc[n] # "new"
    PROVE  req[n] # None /\ Session(n) \in Sessions /\ Slot(n) \in Keys
BY ConstantsAssumption DEF TypeOK, Request, Session, Slot

\* A call moves nobody else (the arguments and locals of a call are its own).
LEMMA CallStep ==
    ASSUME TypeOK, NEW n \in Calls, Guarded(n) \/ Bundle(n) \/ MultiCommit(n)
    PROVE  Others(n)
<1>1. CASE Guarded(n)
  BY <1>1 DEF Guarded, Begin, Claim, Release, Refuse, AdmitCommit, AdmitBundle, Goto, Ends,
     history, TypeOK, Others
<1>2. CASE Bundle(n)
  BY <1>2 DEF Bundle, Enqueue, EnqueueRefused, EnqueueRaises, Rollback, RollbackFails,
     RolledBack, Goto, Ends, calls, history, TypeOK, Others
<1>3. CASE MultiCommit(n)
  BY <1>3 DEF MultiCommit, CommitBegin, Refresh, CheckExists, CheckRefuses, CheckPasses,
     WriteFile, AddFile, GitCommit, WriteFails, CommitFails, CommitLost, Committed, Goto, Ends,
     history, TypeOK, Others
<1>4. QED BY <1>1, <1>2, <1>3

\* A working call keeps its claim, its request and its files, and is not crashed.
LEMMA WorkingKeeps ==
    ASSUME TypeOK, NEW n \in Calls, Working(n)
    PROVE  /\ Others(n)
           /\ pc[n] \in Holding \ {"release"} /\ pc'[n] \in Holding
           /\ outcome'[n] = "crashed" => outcome[n] = "crashed"
           /\ UNCHANGED <<marker, expired, req, kept, landed>>
<1>1. Others(n)
  BY CallStep DEF Working, Guarded, MultiCommit
<1>2. CASE Refuse(n) \/ AdmitCommit(n) \/ AdmitBundle(n)
  BY <1>1, <1>2 DEF Refuse, AdmitCommit, AdmitBundle, Goto, Ends, Holding, guard, history, TypeOK
<1>3. CASE Bundle(n)
  BY <1>1, <1>3 DEF Bundle, Enqueue, EnqueueRefused, EnqueueRaises, Rollback, RollbackFails,
     RolledBack, Goto, Ends, Holding, guard, calls, history, TypeOK
<1>4. CASE CommitBegin(n) \/ Refresh(n) \/ CheckExists(n) \/ CheckRefuses(n) \/ CheckPasses(n)
  BY <1>1, <1>4 DEF CommitBegin, Refresh, CheckExists, CheckRefuses, CheckPasses, Goto, Ends,
     Holding, guard, history, TypeOK
<1>5. CASE \/ \E f \in Files : WriteFile(n, f) \/ AddFile(n, f)
           \/ WriteFails(n) \/ CommitFails(n)
  BY <1>1, <1>5 DEF WriteFile, AddFile, WriteFails, CommitFails, Goto, Ends, Holding, guard,
     history, TypeOK
<1>6. QED BY <1>2, <1>3, <1>4, <1>5 DEF Working

\* A call that leaves the section gives its locks and the serializer back.
LEMMA LeavingKeeps ==
    ASSUME TypeOK, NEW n \in Calls, Leaving(n)
    PROVE  /\ Others(n)
           /\ pc[n] \in Section /\ pc'[n] = "release"
           /\ locked' = locked \ kept[n] /\ serializer' = None
           /\ UNCHANGED <<marker, expired, req, kept, pending>>
<1>1. Others(n)
  BY CallStep DEF Leaving, MultiCommit
<1>2. QED
  BY <1>1 DEF Leaving, CheckExists, CheckRefuses, WriteFails, CommitFails, GitCommit, CommitLost,
     LeaveCommit, Goto, Section, guard, TypeOK

\* `git commit` puts on the branch what is staged.
LEMMA CommittedEffect ==
    ASSUME TypeOK, NEW n \in Calls, pc[n] # "new", Committed(n)
    PROVE  /\ branch'[Session(n)] = branch[Session(n)] \cup staged[Session(n)]
           /\ \A s \in Sessions : s # Session(n) => branch'[s] = branch[s]
           /\ staged' = [staged EXCEPT ![Session(n)] = {}]
           /\ landed'[n] = staged[Session(n)]
           /\ \A m \in Calls : m # n => landed'[m] = landed[m]
BY RequestTypes DEF Committed, TypeOK

\* get_or_create and refresh_base only add files to what a branch is based on.
LEMMA RefreshKeeps ==
    ASSUME TypeOK, TreesGrow, NEW s \in Sessions, Refreshed(s)
    PROVE  /\ base' \in [Sessions -> SUBSET Files]
           /\ \A x \in Sessions : base[x] \subseteq base'[x] /\ base'[x] \subseteq trunk
           /\ \A x \in Sessions : x \notin opened' => base'[x] = {}
BY DEF TypeOK, TreesGrow, Refreshed

-----------------------------------------------------------------------------
(* Types.                                                                  *)

LEMMA TypeStep ==
    ASSUME TypeOK, [Next]_vars
    PROVE  TypeOK'
<1>1. ASSUME NEW n \in Calls, NEW r \in Requests, Begin(n, r)
      PROVE  TypeOK'
  <2>1. r \in Request /\ Admissible(r) \subseteq Under(r.key)
    BY ConstantsAssumption DEF Admissible, Missing, Request, Under
  <2>2. /\ req' \in [Calls -> Requests \cup {None}]
        /\ kept' \in [Calls -> SUBSET Files]
        /\ pc' \in [Calls -> Locations]
    BY <1>1, <2>1 DEF Begin, Goto, Under, Locations, TypeOK
  <2>3. \A m \in Calls : req'[m] # None => kept'[m] \subseteq Under(Slot(m))'
    BY <1>1, <2>1 DEF Begin, Slot, Under, TypeOK
  <2>4. \A m \in Calls : pc'[m] # "new" => req'[m] # None
    BY <1>1, ConstantsAssumption DEF Begin, Goto, TypeOK
  <2>5. \A e \in pending' : pc'[e.bundle] # "new"
    BY <1>1 DEF Begin, Goto, queue, Entry, TypeOK
  <2>6. QED
    BY <1>1, <2>2, <2>3, <2>4, <2>5
       DEF Begin, guard, remote, worktree, queue, history, TypeOK
<1>2. ASSUME NEW n \in Calls, Claim(n) \/ Release(n)
      PROVE  TypeOK'
  BY <1>2 DEF Claim, Release, Unmarked, Goto, Ends, Slot, Under, remote, worktree, queue, history,
     Locations, Holding, Outcomes, Entry, TypeOK
<1>3. ASSUME NEW n \in Calls, Working(n)
      PROVE  TypeOK'
  <2>1. /\ pc' \in [Calls -> Locations] /\ (\A m \in Calls : pc'[m] = "new" <=> pc[m] = "new")
        /\ UNCHANGED <<marker, expired, req, kept, landed, index, trunk>>
    <3>1. CASE Refuse(n) \/ AdmitCommit(n) \/ AdmitBundle(n) \/ CommitBegin(n)
      BY <3>1 DEF Refuse, AdmitCommit, AdmitBundle, CommitBegin, Goto, guard, remote, history,
         Locations, Holding, TypeOK
    <3>2. CASE Bundle(n)
      BY <3>2 DEF Bundle, Enqueue, EnqueueRefused, EnqueueRaises, Rollback, RollbackFails,
         RolledBack, Goto, guard, remote, calls, history, Locations, Holding, TypeOK
    <3>3. CASE \/ Refresh(n) \/ CheckExists(n) \/ CheckRefuses(n) \/ CheckPasses(n)
               \/ \E f \in Files : WriteFile(n, f) \/ AddFile(n, f)
               \/ WriteFails(n) \/ CommitFails(n)
      BY <3>3 DEF Refresh, CheckExists, CheckRefuses, CheckPasses, WriteFile, AddFile, WriteFails,
         CommitFails, Goto, guard, remote, history, Locations, Holding, TypeOK
    <3>4. QED BY <1>3, <3>1, <3>2, <3>3 DEF Working
  <2>2. Session(n) \in Sessions
    BY <1>3, WorkingKeeps, RequestTypes DEF Holding
  <2>3. /\ outcome' \in [Calls -> Outcomes] /\ todo' \in [Calls -> SUBSET Files]
        /\ faults' \in Nat
    <3>1. CASE Refuse(n) \/ AdmitCommit(n) \/ AdmitBundle(n) \/ CommitBegin(n)
      BY <3>1 DEF Refuse, AdmitCommit, AdmitBundle, CommitBegin, Ends, Outcomes, TypeOK
    <3>2. CASE Bundle(n)
      BY <3>2 DEF Bundle, Enqueue, EnqueueRefused, EnqueueRaises, Rollback, RollbackFails,
         RolledBack, Ends, Fault, calls, Outcomes, TypeOK
    <3>3. CASE \/ Refresh(n) \/ CheckExists(n) \/ CheckRefuses(n) \/ CheckPasses(n)
               \/ \E f \in Files : WriteFile(n, f) \/ AddFile(n, f)
               \/ WriteFails(n) \/ CommitFails(n)
      BY <3>3 DEF Refresh, CheckExists, CheckRefuses, CheckPasses, WriteFile, AddFile, WriteFails,
         CommitFails, Ends, Fault, Outcomes, TypeOK
    <3>4. QED BY <1>3, <3>1, <3>2, <3>3 DEF Working
  <2>4. /\ locked' \subseteq Files /\ serializer' \in Calls \cup {None}
        /\ pending' \subseteq Entry /\ (\A e \in pending' : pc'[e.bundle] # "new")
        /\ UNCHANGED <<decided, replaced>>
    <3>1. CASE Bundle(n)
      BY <2>1, <3>1 DEF Bundle, Enqueue, EnqueueRefused, EnqueueRaises, Rollback, RollbackFails,
         RolledBack, Goto, queue, calls, history, Entry, TypeOK
    <3>2. CASE ~Bundle(n)
      <4>1. /\ UNCHANGED <<pending, decided, replaced>>
            /\ locked' \subseteq Files /\ serializer' \in Calls \cup {None}
        BY <1>3, <3>2 DEF Working, Refuse, AdmitCommit, AdmitBundle, CommitBegin, Refresh,
           CheckExists, CheckRefuses, CheckPasses, WriteFile, AddFile, WriteFails, CommitFails,
           LeaveCommit, queue, history, TypeOK
      <4>2. QED
        BY <2>1, <4>1 DEF Entry, TypeOK
    <3>3. QED BY <3>1, <3>2
  <2>5. /\ opened' \subseteq Sessions /\ dirty' \subseteq Sessions
        /\ base' \in [Sessions -> SUBSET Files] /\ UNCHANGED branch
        /\ staged' \in [Sessions -> SUBSET Files]
        /\ untracked' \in [Sessions -> SUBSET Files]
    <3>1. CASE \/ Refuse(n) \/ AdmitCommit(n) \/ AdmitBundle(n) \/ Bundle(n) \/ CommitBegin(n)
               \/ CheckExists(n) \/ CheckRefuses(n) \/ CheckPasses(n)
      BY <3>1 DEF Refuse, AdmitCommit, AdmitBundle, Bundle, Enqueue, EnqueueRefused, EnqueueRaises,
         Rollback, RollbackFails, RolledBack, CommitBegin, CheckExists, CheckRefuses, CheckPasses,
         worktree, history, TypeOK
    <3>2. CASE Refresh(n)
      BY <2>2, <3>2 DEF Refresh, Refreshed, history, TypeOK
    <3>3. CASE \E f \in Files : WriteFile(n, f) \/ AddFile(n, f)
      BY <2>2, <3>3 DEF WriteFile, AddFile, history, TypeOK
    <3>4. CASE WriteFails(n) \/ CommitFails(n)
      BY <2>2, <3>4 DEF WriteFails, CommitFails, Reset, TypeOK
    <3>5. QED BY <1>3, <3>1, <3>2, <3>3, <3>4 DEF Working
  <2>6. /\ \A m \in Calls : pc'[m] # "new" => req'[m] # None
        /\ \A m \in Calls : req'[m] # None => kept'[m] \subseteq Under(Slot(m))'
    <3>1. \A m \in Calls : pc'[m] # "new" => req'[m] # None
      BY <2>1 DEF TypeOK
    <3>2. \A m \in Calls : req'[m] # None => kept'[m] \subseteq Under(Slot(m))'
      BY <2>1 DEF Slot, Under, TypeOK
    <3>3. QED BY <3>1, <3>2
  <2>7. QED
    BY <2>1, <2>3, <2>4, <2>5, <2>6 DEF TypeOK
<1>4. ASSUME NEW n \in Calls, GitCommit(n) \/ CommitLost(n)
      PROVE  TypeOK'
  <2>1. Session(n) \in Sessions /\ Committed(n)
    BY <1>4, RequestTypes DEF GitCommit, CommitLost
  <2>2. /\ branch' \in [Sessions -> SUBSET Files]
        /\ staged' \in [Sessions -> SUBSET Files]
        /\ landed' \in [Calls -> SUBSET Files]
    BY <2>1 DEF Committed, TypeOK
  <2>3. /\ outcome' \in [Calls -> Outcomes] /\ faults' \in Nat
        /\ locked' \subseteq Files /\ serializer' = None
        /\ pc' = [pc EXCEPT ![n] = "release"]
        /\ UNCHANGED <<guard, remote, opened, base, untracked, pending, req, kept, todo, decided,
                       replaced, dirty>>
    BY <1>4 DEF GitCommit, CommitLost, Ends, Goto, LeaveCommit, Fault, Outcomes, TypeOK
  <2>4. pc' \in [Calls -> Locations] /\ (\A m \in Calls : pc'[m] = "new" => pc[m] = "new")
    BY <2>3 DEF Locations, Holding, TypeOK
  <2>5. \A m \in Calls : pc'[m] # "new" => req'[m] # None
    BY <1>4, <2>3 DEF GitCommit, CommitLost, TypeOK
  <2>6. QED
    BY <2>2, <2>3, <2>4, <2>5 DEF guard, remote, Slot, Under, Entry, TypeOK
<1>5. ASSUME NEW e \in Entry, Approve(e)
      PROVE  TypeOK'
  <2>1. Session(e.bundle) \in Sessions /\ e.bundle \in Calls /\ e.file \in Files
    BY <1>5, RequestTypes DEF Approve, Entry, TypeOK
  <2>2. opened' \subseteq Sessions /\ base' \in [Sessions -> SUBSET Files]
    BY <1>5, <2>1 DEF Approve, Refreshed, TypeOK
  <2>3. /\ branch' \in [Sessions -> SUBSET Files]
        /\ staged' \in [Sessions -> SUBSET Files]
        /\ untracked' \in [Sessions -> SUBSET Files]
    BY <1>5, <2>1 DEF Approve, TypeOK
  <2>4. /\ pending' \subseteq pending /\ decided' \subseteq Calls /\ replaced' \subseteq Calls
        /\ UNCHANGED <<guard, remote, locked, serializer, calls, landed, dirty, faults>>
    BY <1>5, <2>1 DEF Approve, TypeOK
  <2>5. QED
    BY <2>2, <2>3, <2>4 DEF guard, remote, calls, Slot, Under, TypeOK
<1>6. CASE Crash
  <2>1. /\ pc' \in [Calls -> Locations] /\ outcome' \in [Calls -> Outcomes]
        /\ dirty' \subseteq Sessions /\ serializer' = None /\ faults' \in Nat
        /\ \A m \in Calls : pc'[m] = "new" <=> pc[m] = "new"
        /\ UNCHANGED <<guard, remote, worktree, queue, req, kept, todo, landed, decided, replaced>>
    BY <1>6 DEF Crash, Fault, Locations, Outcomes, TypeOK
  <2>2. QED
    BY <2>1 DEF guard, remote, worktree, queue, Slot, Under, Entry, TypeOK
<1>7. CASE \/ \E k \in Keys : Expire(k)
           \/ \E e \in Entry : Reject(e)
           \/ ReclaimLocks \/ Pull
           \/ \E f \in Files : ForeignPush(f)
           \/ UNCHANGED vars
  BY <1>7 DEF Expire, Reject, ReclaimLocks, Pull, ForeignPush, vars, guard, remote, worktree,
     queue, calls, history, Slot, Under, Entry, TypeOK
<1>8. ASSUME NEW s \in Sessions, Publish(s)
      PROVE  TypeOK'
  BY <1>8 DEF Publish, guard, queue, calls, history, Slot, Under, TypeOK
<1>9. QED
  BY <1>1, <1>2, <1>3, <1>4, <1>5, <1>6, <1>7, <1>8 DEF Next, Guarded, MultiCommit, Working

-----------------------------------------------------------------------------
(* The slots.                                                              *)

\* Claiming a free slot takes it from an expired claim at most.
LEMMA ClaimSlot ==
    ASSUME TypeOK, CallStages, SlotHeld, SlotFreed, LandedHeld, NEW n \in Calls, Claim(n)
    PROVE  CallStages' /\ SlotHeld' /\ SlotFreed' /\ LandedHeld'
<1>1. Slot(n) \in Keys /\ pc[n] = "claim" /\ outcome[n] = "none" /\ landed[n] = {}
  BY RequestTypes DEF Claim, CallStages, LandedHeld, TypeOK
<1>2. \A m \in Calls : Slot(m)' = Slot(m)
  BY DEF Claim, Slot
<1>3. CASE ~Free(Slot(n))
  BY <1>1, <1>2, <1>3 DEF Claim, Goto, Ends, TypeOK, CallStages, SlotHeld, SlotFreed, LandedHeld,
     Inside, Holding, history
<1>4. CASE Free(Slot(n))
  <2>1. marker' = [marker EXCEPT ![Slot(n)] = n] /\ pc' = [pc EXCEPT ![n] = "admit"]
    BY <1>4 DEF Claim, Goto
  <2>2. UNCHANGED <<expired, outcome, landed>>
    BY <1>4 DEF Claim, history
  <2>3. \A m \in Calls \ {n} : marker[Slot(m)] = m /\ m \notin expired => Slot(m) # Slot(n)
    BY <1>4, ConstantsAssumption DEF Free
  <2>4. \A m \in Calls \ {n} :
           pc[m] # "new" => marker'[Slot(m)] = IF Slot(m) = Slot(n) THEN n ELSE marker[Slot(m)]
    BY <1>1, <2>1, RequestTypes DEF TypeOK
  <2>5. CallStages'
    BY <1>1, <1>2, <2>1, <2>2 DEF CallStages, TypeOK
  <2>6. SlotHeld'
    <3>1. SUFFICES ASSUME NEW m \in Calls, Inside(m)', m \notin expired'
                   PROVE  marker'[Slot(m)] = m
      BY <1>2 DEF SlotHeld
    <3>2. CASE m = n
      BY <1>1, <2>1, <3>2 DEF TypeOK
    <3>3. CASE m # n
      <4>1. Inside(m) /\ m \notin expired /\ pc[m] # "new"
        BY <2>1, <2>2, <3>1, <3>3 DEF Inside, Holding, TypeOK, CallStages
      <4>2. marker[Slot(m)] = m
        BY <4>1 DEF SlotHeld
      <4>3. QED BY <2>3, <2>4, <3>3, <4>1, <4>2
    <3>4. QED BY <3>2, <3>3
  <2>7. SlotFreed'
    BY <1>1, <2>1, <2>2 DEF SlotFreed, TypeOK, Inside, Holding
  <2>8. LandedHeld'
    BY <1>1, <1>2, <2>1, <2>2, <2>3, <2>4 DEF LandedHeld, TypeOK
  <2>9. QED BY <2>5, <2>6, <2>7, <2>8
<1>5. QED BY <1>3, <1>4

\* Releasing takes away no marker but the call's own.
LEMMA ReleaseSlot ==
    ASSUME TypeOK, CallStages, SlotHeld, SlotFreed, LandedHeld, NEW n \in Calls, Release(n)
    PROVE  CallStages' /\ SlotHeld' /\ SlotFreed' /\ LandedHeld'
<1>1. Slot(n) \in Keys /\ pc[n] = "release" /\ pc' = [pc EXCEPT ![n] = "done"]
  BY RequestTypes DEF Release, Goto
<1>2. UNCHANGED <<expired, outcome, landed>> /\ \A m \in Calls : Slot(m)' = Slot(m)
  BY DEF Release, Slot, history
<1>3. CASE outcome[n] = "committed"
  BY <1>1, <1>2, <1>3
     DEF Release, TypeOK, CallStages, SlotHeld, SlotFreed, LandedHeld, Inside, Holding
<1>4. CASE outcome[n] # "committed"
  <2>1. marker' = Unmarked(n)
    BY <1>4 DEF Release
  <2>2. \A m \in Calls \ {n} : pc[m] # "new" => (marker[Slot(m)] = m <=> marker'[Slot(m)] = m)
    BY <2>1, RequestTypes, ConstantsAssumption DEF Unmarked
  <2>3. \A k \in Keys : marker'[k] # None =>
           marker'[k] = marker[k] /\ ~(k = Slot(n) /\ marker[k] = n)
    BY <2>1, ConstantsAssumption DEF Unmarked
  <2>4. \A m \in Calls \ {n} : Inside(m)' = Inside(m) /\ (Inside(m) => pc[m] # "new")
    BY <1>1, <1>2 DEF Inside, Holding, TypeOK, CallStages
  <2>5. ~Inside(n)'
    BY <1>1, <1>2, <1>4 DEF Inside, Holding, TypeOK
  <2>6. CallStages'
    BY <1>1, <1>2, <2>3, ConstantsAssumption DEF CallStages, TypeOK
  <2>7. SlotHeld'
    BY <1>2, <2>2, <2>4, <2>5 DEF SlotHeld
  <2>8. SlotFreed'
    <3>1. SUFFICES ASSUME NEW k \in Keys, NEW m \in Calls, marker'[k] = m, m \notin expired'
                   PROVE  Inside(m)' \/ outcome'[m] = "crashed"
      BY <2>1, ConstantsAssumption DEF SlotFreed, Unmarked, TypeOK
    <3>2. marker[k] = m /\ ~(k = Slot(n) /\ m = n)
      BY <2>3, <3>1, ConstantsAssumption
    <3>3. m # n
      BY <3>2 DEF CallStages
    <3>4. Inside(m) \/ outcome[m] = "crashed"
      BY <1>2, <3>1, <3>2, ConstantsAssumption DEF SlotFreed
    <3>5. QED BY <1>2, <2>4, <3>3, <3>4
  <2>9. LandedHeld'
    <3>1. landed[n] # {} => outcome[n] \in {"lost", "crashed"}
      BY <1>4 DEF LandedHeld
    <3>2. QED BY <1>1, <1>2, <2>2, <3>1 DEF LandedHeld, CallStages, TypeOK
  <2>10. QED BY <2>6, <2>7, <2>8, <2>9
<1>5. QED BY <1>3, <1>4

\* A working call stays inside its slot.
LEMMA WorkingSlot ==
    ASSUME TypeOK, CallStages, SlotHeld, SlotFreed, LandedHeld, NEW n \in Calls, Working(n)
    PROVE  CallStages' /\ SlotHeld' /\ SlotFreed' /\ LandedHeld'
<1>1. /\ \A m \in Calls : m # n => pc'[m] = pc[m] /\ outcome'[m] = outcome[m]
      /\ pc[n] \in Holding \ {"release"} /\ pc'[n] \in Holding
      /\ outcome'[n] = "crashed" => outcome[n] = "crashed"
      /\ UNCHANGED <<marker, expired, req, landed>>
  BY WorkingKeeps DEF Others
<1>2. \A m \in Calls : Slot(m)' = Slot(m)
  BY <1>1 DEF Slot
<1>3. landed[n] = {} /\ outcome[n] # "crashed" /\ Inside(n)
  BY <1>1 DEF LandedHeld, CallStages, Inside, Holding
<1>4. Inside(n)' /\ \A m \in Calls : m # n => Inside(m)' = Inside(m)
  BY <1>1 DEF Inside
<1>5. CallStages'
  BY <1>1, <1>2, <1>3 DEF CallStages, Holding
<1>6. SlotHeld'
  BY <1>1, <1>2, <1>3, <1>4 DEF SlotHeld
<1>7. SlotFreed'
  BY <1>1, <1>3, <1>4 DEF SlotFreed, TypeOK
<1>8. LandedHeld'
  BY <1>1, <1>2, <1>3 DEF LandedHeld
<1>9. QED BY <1>5, <1>6, <1>7, <1>8

LEMMA SlotStep ==
    ASSUME TypeOK, CallStages, SlotHeld, SlotFreed, LandedHeld, [Next]_vars
    PROVE  CallStages' /\ SlotHeld' /\ SlotFreed' /\ LandedHeld'
<1>1. ASSUME NEW n \in Calls, NEW r \in Requests, Begin(n, r)
      PROVE  CallStages' /\ SlotHeld' /\ SlotFreed' /\ LandedHeld'
  <2>1. /\ pc[n] = "new" /\ pc' = [pc EXCEPT ![n] = "claim"]
        /\ UNCHANGED <<marker, expired, outcome, landed>>
        /\ \A m \in Calls : m # n => Slot(m)' = Slot(m)
    BY <1>1 DEF Begin, Goto, Slot, guard, history, TypeOK
  <2>2. outcome[n] = "none" /\ landed[n] = {} /\ \A k \in Keys : marker[k] # n
    BY <2>1 DEF CallStages, LandedHeld
  <2>3. \A m \in Calls : Inside(m)' = Inside(m)
    BY <2>1 DEF Inside, Holding, TypeOK
  <2>4. ~Inside(n)
    BY <2>1, <2>2 DEF Inside, Holding
  <2>5. CallStages'
    BY <2>1, <2>2 DEF CallStages, TypeOK
  <2>6. SlotHeld' /\ SlotFreed'
    BY <2>1, <2>2, <2>3, <2>4 DEF SlotHeld, SlotFreed, TypeOK
  <2>7. LandedHeld'
    BY <2>1, <2>2 DEF LandedHeld, TypeOK
  <2>8. QED BY <2>5, <2>6, <2>7
<1>2. ASSUME NEW n \in Calls, GitCommit(n) \/ CommitLost(n)
      PROVE  CallStages' /\ SlotHeld' /\ SlotFreed' /\ LandedHeld'
  <2>1. /\ pc[n] = "record" /\ pc' = [pc EXCEPT ![n] = "release"]
        /\ UNCHANGED <<marker, expired, req>>
        /\ \E o \in {"committed", "lost"} : outcome' = [outcome EXCEPT ![n] = o]
        /\ \A m \in Calls : m # n => landed'[m] = landed[m]
    BY <1>2, CommittedEffect DEF GitCommit, CommitLost, Goto, Ends, guard, TypeOK
  <2>2. \A m \in Calls : Slot(m)' = Slot(m)
    BY <2>1 DEF Slot
  <2>3. Inside(n) /\ \A m \in Calls : Inside(m)' = Inside(m)
    BY <2>1 DEF Inside, Holding, TypeOK
  <2>4. CallStages'
    BY <2>1, <2>2 DEF CallStages, TypeOK
  <2>5. SlotHeld'
    BY <2>1, <2>2, <2>3 DEF SlotHeld
  <2>6. SlotFreed'
    BY <2>1, <2>3 DEF SlotFreed, CallStages, TypeOK
  <2>7. LandedHeld'
    BY <2>1, <2>2, <2>3 DEF LandedHeld, SlotHeld, TypeOK
  <2>8. QED BY <2>4, <2>5, <2>6, <2>7
<1>3. ASSUME NEW k \in Keys, Expire(k)
      PROVE  CallStages' /\ SlotHeld' /\ SlotFreed' /\ LandedHeld'
  BY <1>3 DEF Expire, CallStages, SlotHeld, SlotFreed, LandedHeld, Inside, Slot, calls, history
<1>4. CASE Crash
  BY <1>4 DEF Crash, CallStages, SlotHeld, SlotFreed, LandedHeld, Inside, Holding, Slot, guard,
     TypeOK
<1>5. CASE \/ \E e \in Entry : Approve(e) \/ Reject(e)
           \/ \E s \in Sessions : Publish(s)
           \/ \E f \in Files : ForeignPush(f)
           \/ Pull \/ ReclaimLocks \/ UNCHANGED vars
  <2>1. UNCHANGED <<marker, expired, calls, landed>>
    BY <1>5 DEF Approve, Reject, Publish, ForeignPush, Pull, ReclaimLocks, guard, history, vars
  <2>2. QED
    BY <2>1 DEF CallStages, SlotHeld, SlotFreed, LandedHeld, Inside, Slot, calls
<1>6. QED
  BY <1>1, <1>2, <1>3, <1>4, <1>5, ClaimSlot, ReleaseSlot, WorkingSlot
     DEF Next, Guarded, MultiCommit, Working

-----------------------------------------------------------------------------
(* The commit section.                                                     *)

\* While a call is in the section no other is, before and after its step.
LEMMA OneInSection ==
    ASSUME TypeOK, SectionExclusive, NEW n \in Calls, pc[n] \in Section, Others(n)
    PROVE  \A m \in Calls : m # n => pc[m] \notin Section /\ pc'[m] \notin Section
BY DEF SectionExclusive, Others

LEMMA SectionStep ==
    ASSUME TypeOK, SectionExclusive, CommitPathsExclusive, [Next]_vars
    PROVE  SectionExclusive' /\ CommitPathsExclusive'
<1>1. ASSUME NEW n \in Calls, CommitBegin(n)
      PROVE  SectionExclusive' /\ CommitPathsExclusive'
  <2>1. Others(n) /\ UNCHANGED <<kept, pending>>
    BY <1>1, CallStep DEF CommitBegin, MultiCommit
  <2>2. \A m \in Calls : m # n => pc'[m] \notin Section
    BY <1>1, <2>1, ConstantsAssumption DEF CommitBegin, Others, SectionExclusive
  <2>3. CASE \E f \in kept[n] : Gated(f)
    BY <1>1, <2>2, <2>3 DEF CommitBegin, Goto, Section, SectionExclusive, CommitPathsExclusive,
       TypeOK
  <2>4. CASE ~\E f \in kept[n] : Gated(f)
    <3>1. kept[n] \cap Parked = {} /\ serializer' = n /\ locked' = locked \cup kept[n]
      BY <1>1, <2>4 DEF CommitBegin, Gated
    <3>2. QED
      BY <2>1, <2>2, <3>1 DEF SectionExclusive, CommitPathsExclusive, Section, Parked
  <2>5. QED BY <2>3, <2>4
<1>2. ASSUME NEW n \in Calls, Leaving(n)
      PROVE  SectionExclusive' /\ CommitPathsExclusive'
  <2>1. Others(n) /\ pc[n] \in Section /\ pc'[n] = "release"
    BY <1>2, LeavingKeeps
  <2>2. \A m \in Calls : pc'[m] \notin Section
    BY <2>1, OneInSection DEF Section
  <2>3. QED
    BY <2>2 DEF SectionExclusive, CommitPathsExclusive, Section
<1>3. ASSUME NEW n \in Calls,
             \/ Refresh(n) \/ CheckPasses(n)
             \/ \E f \in Files : WriteFile(n, f) \/ AddFile(n, f)
      PROVE  SectionExclusive' /\ CommitPathsExclusive'
  <2>1. /\ pc[n] \in Section
        /\ \A m \in Calls : m # n => pc'[m] = pc[m]
        /\ UNCHANGED <<kept, pending, locked, serializer>>
    BY <1>3 DEF Refresh, CheckPasses, WriteFile, AddFile, Goto, Section, queue, TypeOK
  <2>2. QED
    BY <2>1 DEF SectionExclusive, CommitPathsExclusive, Section, Parked
<1>4. ASSUME NEW n \in Calls,
             \/ \E r \in Requests : Begin(n, r)
             \/ Claim(n) \/ Release(n)
             \/ Refuse(n) \/ AdmitCommit(n) \/ AdmitBundle(n)
             \/ \E f \in Files : EnqueueRefused(n, f)
             \/ Rollback(n) \/ RollbackFails(n) \/ RolledBack(n)
      PROVE  SectionExclusive' /\ CommitPathsExclusive'
  <2>1. /\ pc'[n] \notin Section
        /\ \A m \in Calls : m # n => pc'[m] = pc[m] /\ kept'[m] = kept[m]
        /\ pending' \subseteq pending
        /\ UNCHANGED <<locked, serializer>>
    BY <1>4 DEF Begin, Claim, Release, Refuse, AdmitCommit, AdmitBundle, EnqueueRefused, Rollback,
       RollbackFails, RolledBack, Goto, Section, queue, calls, TypeOK
  <2>2. QED
    BY <2>1 DEF SectionExclusive, CommitPathsExclusive, Section, Parked
<1>5. ASSUME NEW n \in Calls, NEW f \in Files, Enqueue(n, f) \/ EnqueueRaises(n, f)
      PROVE  SectionExclusive' /\ CommitPathsExclusive'
  <2>1. Others(n) /\ serializer = None /\ UNCHANGED serializer
    BY <1>5, CallStep DEF Enqueue, EnqueueRaises, Bundle
  <2>2. pc'[n] \notin Section
    BY <1>5 DEF Enqueue, EnqueueRaises, Goto, Section, TypeOK
  <2>3. \A m \in Calls : pc'[m] \notin Section
    BY <2>1, <2>2, ConstantsAssumption DEF Others, SectionExclusive
  <2>4. QED
    BY <2>3 DEF SectionExclusive, CommitPathsExclusive, Section
<1>6. CASE \/ \E e \in Entry : Approve(e) \/ Reject(e)
           \/ ReclaimLocks
  <2>1. serializer = None /\ UNCHANGED <<serializer, pc>>
    BY <1>6 DEF Approve, Reject, ReclaimLocks, calls
  <2>2. \A m \in Calls : pc'[m] \notin Section
    BY <2>1, ConstantsAssumption DEF SectionExclusive
  <2>3. QED
    BY <2>2 DEF SectionExclusive, CommitPathsExclusive, Section
<1>7. CASE Crash
  BY <1>7 DEF Crash, SectionExclusive, CommitPathsExclusive, Section
<1>8. CASE \/ \E k \in Keys : Expire(k)
           \/ \E s \in Sessions : Publish(s)
           \/ \E f \in Files : ForeignPush(f)
           \/ Pull \/ UNCHANGED vars
  <2>1. UNCHANGED <<pc, kept, pending, locked, serializer>>
    BY <1>8 DEF Expire, Publish, ForeignPush, Pull, queue, calls, vars
  <2>2. QED
    BY <2>1 DEF SectionExclusive, CommitPathsExclusive, Parked
<1>9. QED
  BY <1>1, <1>2, <1>3, <1>4, <1>5, <1>6, <1>7, <1>8
     DEF Next, Guarded, Bundle, MultiCommit, Leaving

-----------------------------------------------------------------------------
(* The worktrees and what the calls write into them.                       *)

\* The session of every commit is a session, and stays the commit's.
LEMMA LandedSession ==
    ASSUME TypeOK, LandedHeld, UNCHANGED req, NEW m \in Calls
    PROVE  Session(m)' = Session(m) /\ (landed[m] # {} => Session(m) \in Sessions)
BY RequestTypes DEF Session, LandedHeld

\* A call about to commit has staged its files, and nothing else unless the
\* session is dirty.
LEMMA ReadyToCommit ==
    ASSUME TypeOK, WritesNew, StagedByWriter, NEW n \in Calls, pc[n] = "record"
    PROVE  /\ kept[n] \subseteq staged[Session(n)]
           /\ kept[n] \cap Tree(Session(n)) = {}
           /\ Session(n) \notin dirty => staged[Session(n)] = kept[n]
<1>1. pc[n] \in Writing /\ todo[n] = {} /\ Session(n) \in Sessions
  BY RequestTypes DEF WritesNew, Writing
<1>2. kept[n] \ todo[n] = kept[n]
  BY <1>1
<1>3. kept[n] \cap Tree(Session(n)) = {} /\ kept[n] \subseteq staged[Session(n)]
  BY <1>1, <1>2 DEF WritesNew
<1>4. Session(n) \notin dirty => staged[Session(n)] = kept[n]
  BY <1>1, <1>2 DEF StagedByWriter
<1>5. QED
  BY <1>3, <1>4

LEMMA CommitStep ==
    ASSUME TypeOK, LandedHeld, TreesGrow, WritesNew, StagedByWriter, OncePerSession, CommitsWhole,
           NEW n \in Calls, GitCommit(n) \/ CommitLost(n)
    PROVE  TreesGrow' /\ OncePerSession' /\ CommitsWhole'
<1>1. /\ Committed(n) /\ pc[n] = "record" /\ Session(n) \in Sessions
      /\ UNCHANGED <<index, trunk, opened, base, kept, req, dirty>>
  BY RequestTypes DEF GitCommit, CommitLost, remote
<1>2. \A m \in Calls : Session(m)' = Session(m) /\ (landed[m] # {} => Session(m) \in Sessions)
  BY <1>1, LandedSession
<1>3. /\ kept[n] \subseteq staged[Session(n)]
      /\ kept[n] \cap Tree(Session(n)) = {}
      /\ Session(n) \notin dirty => staged[Session(n)] = kept[n]
  BY <1>1, ReadyToCommit
<1>4. TreesGrow'
  BY <1>1, <1>2, <1>3, CommittedEffect DEF TreesGrow, Tree
<1>5. OncePerSession'
  <2>1. \A m \in Calls :
           m # n /\ landed[m] # {} /\ Session(m) = Session(n) => kept[m] \cap kept[n] = {}
    BY <1>3 DEF TreesGrow
  <2>2. QED
    BY <1>1, <1>2, <2>1, CommittedEffect DEF OncePerSession
<1>6. CommitsWhole'
  BY <1>1, <1>2, <1>3, CommittedEffect DEF CommitsWhole
<1>7. QED BY <1>4, <1>5, <1>6

\* Only a commit makes a history, and only it has to be compared with others.
LEMMA HistoryStep ==
    ASSUME TypeOK, LandedHeld, TreesGrow, WritesNew, StagedByWriter, OncePerSession, CommitsWhole,
           [Next]_vars
    PROVE  OncePerSession' /\ CommitsWhole'
<1>1. ASSUME NEW n \in Calls, NEW r \in Requests, Begin(n, r)
      PROVE  OncePerSession' /\ CommitsWhole'
  <2>1. /\ landed[n] = {}
        /\ \A m \in Calls : m # n => kept'[m] = kept[m] /\ Session(m)' = Session(m)
        /\ UNCHANGED <<landed, dirty>>
    BY <1>1 DEF Begin, LandedHeld, Session, history, TypeOK
  <2>2. QED
    BY <2>1 DEF OncePerSession, CommitsWhole
<1>2. CASE \/ \E n \in Calls : WriteFails(n) \/ CommitFails(n)
           \/ Crash
  <2>1. UNCHANGED <<landed, kept, req>> /\ dirty \subseteq dirty'
    BY <1>2 DEF WriteFails, CommitFails, Reset, Crash
  <2>2. QED
    BY <2>1 DEF OncePerSession, CommitsWhole, Session
<1>3. CASE \/ \E n \in Calls :
                \/ Claim(n) \/ Release(n) \/ Refuse(n) \/ AdmitCommit(n) \/ AdmitBundle(n)
                \/ Bundle(n)
           \/ \E k \in Keys : Expire(k)
           \/ \E e \in Entry : Approve(e) \/ Reject(e)
           \/ \E s \in Sessions : Publish(s)
           \/ \E f \in Files : ForeignPush(f)
           \/ Pull \/ ReclaimLocks \/ UNCHANGED vars
  <2>1. UNCHANGED <<landed, dirty, kept, req>>
    BY <1>3 DEF Claim, Release, Refuse, AdmitCommit, AdmitBundle, Bundle, Enqueue, EnqueueRefused,
       EnqueueRaises, Rollback, RollbackFails, RolledBack, Expire, Approve, Reject, Publish,
       ForeignPush, Pull, ReclaimLocks, calls, history, vars
  <2>2. QED
    BY <2>1 DEF OncePerSession, CommitsWhole, Session
<1>4. ASSUME NEW n \in Calls,
             \/ CommitBegin(n) \/ Refresh(n)
             \/ CheckExists(n) \/ CheckRefuses(n) \/ CheckPasses(n)
             \/ \E f \in Files : WriteFile(n, f) \/ AddFile(n, f)
      PROVE  OncePerSession' /\ CommitsWhole'
  <2>1. UNCHANGED <<landed, dirty, kept, req>>
    BY <1>4 DEF CommitBegin, Refresh, CheckExists, CheckRefuses, CheckPasses, WriteFile, AddFile,
       history
  <2>2. QED
    BY <2>1 DEF OncePerSession, CommitsWhole, Session
<1>5. QED
  BY <1>1, <1>2, <1>3, <1>4, CommitStep DEF Next, Guarded, MultiCommit

LEMMA TreeStep ==
    ASSUME TypeOK, LandedHeld, TreesGrow, WritesNew, StagedByWriter, OncePerSession, CommitsWhole,
           [Next]_vars
    PROVE  TreesGrow'
<1>1. ASSUME NEW n \in Calls, NEW r \in Requests, Begin(n, r)
      PROVE  TreesGrow'
  <2>1. /\ landed[n] = {}
        /\ \A m \in Calls : m # n => kept'[m] = kept[m] /\ Session(m)' = Session(m)
        /\ UNCHANGED <<index, trunk, opened, base, branch, landed>>
    BY <1>1 DEF Begin, LandedHeld, Session, remote, worktree, history, TypeOK
  <2>2. QED
    BY <2>1 DEF TreesGrow, Tree
<1>2. ASSUME NEW n \in Calls, Refresh(n)
      PROVE  TreesGrow'
  <2>1. /\ Refreshed(Session(n)) /\ Session(n) \in Sessions
        /\ UNCHANGED <<index, trunk, branch, kept, req, landed>>
    BY <1>2, RequestTypes DEF Refresh, remote, history
  <2>2. QED
    BY <2>1, LandedSession, RefreshKeeps DEF TreesGrow, Tree
<1>3. ASSUME NEW e \in Entry, Approve(e)
      PROVE  TreesGrow'
  <2>1. e.bundle \in Calls /\ Session(e.bundle) \in Sessions
    BY <1>3, RequestTypes DEF Approve, Entry, TypeOK
  <2>2. /\ Refreshed(Session(e.bundle))
        /\ UNCHANGED <<index, trunk, kept, req, landed>>
        /\ \A s \in Sessions : branch[s] \subseteq branch'[s]
    BY <1>3, <2>1 DEF Approve, remote, calls, TypeOK
  <2>3. \A s \in Sessions : base[s] \subseteq base'[s] /\ base'[s] \subseteq trunk
    BY <2>1, <2>2, RefreshKeeps
  <2>4. \A s \in Sessions : s \notin opened' => base'[s] = {}
    BY <2>1, <2>2, RefreshKeeps
  <2>5. \A s \in Sessions : Tree(s) \subseteq Tree(s)'
    BY <2>2, <2>3 DEF Tree
  <2>6. QED
    BY <2>2, <2>3, <2>4, <2>5, LandedSession DEF TreesGrow
<1>4. ASSUME NEW s \in Sessions, Publish(s)
      PROVE  TreesGrow'
  <2>1. /\ trunk' = trunk \cup branch[s]
        /\ \A x \in Sessions : x # s => base'[x] = base[x] /\ branch'[x] = branch[x]
        /\ base'[s] = trunk \cup branch[s] /\ s \in opened
        /\ UNCHANGED <<index, opened, kept, req, landed>>
    BY <1>4 DEF Publish, calls, history, TypeOK
  <2>2. \A x \in Sessions : Tree(x) \subseteq Tree(x)'
    BY <2>1 DEF Tree, TreesGrow
  <2>3. /\ index' \subseteq trunk'
        /\ \A x \in Sessions : base'[x] \subseteq trunk' /\ (x \notin opened' => base'[x] = {})
    BY <2>1 DEF TreesGrow
  <2>4. QED
    BY <2>1, <2>2, <2>3, LandedSession DEF TreesGrow
<1>5. CASE \/ \E f \in Files : ForeignPush(f)
           \/ Pull
  <2>1. /\ index' \subseteq trunk' /\ trunk \subseteq trunk'
        /\ UNCHANGED <<opened, base, branch, landed, kept, req>>
    BY <1>5 DEF ForeignPush, Pull, TreesGrow, worktree, calls, history
  <2>2. QED
    BY <2>1 DEF TreesGrow, Tree, Session
<1>6. CASE \/ \E n \in Calls :
                \/ Claim(n) \/ Release(n) \/ Refuse(n) \/ AdmitCommit(n) \/ AdmitBundle(n)
                \/ Bundle(n)
           \/ \E k \in Keys : Expire(k)
           \/ \E e \in Entry : Reject(e)
           \/ Crash \/ ReclaimLocks \/ UNCHANGED vars
  <2>1. UNCHANGED <<index, trunk, opened, base, branch, landed, kept, req>>
    BY <1>6 DEF Claim, Release, Refuse, AdmitCommit, AdmitBundle, Bundle, Enqueue, EnqueueRefused,
       EnqueueRaises, Rollback, RollbackFails, RolledBack, Expire, Reject, Crash, ReclaimLocks,
       remote, worktree, calls, history, vars
  <2>2. QED
    BY <2>1 DEF TreesGrow, Tree, Session
<1>7. ASSUME NEW n \in Calls,
             \/ CommitBegin(n) \/ CheckExists(n) \/ CheckRefuses(n) \/ CheckPasses(n)
             \/ \E f \in Files : WriteFile(n, f) \/ AddFile(n, f)
             \/ WriteFails(n) \/ CommitFails(n)
      PROVE  TreesGrow'
  <2>1. UNCHANGED <<index, trunk, opened, base, branch, landed, kept, req>>
    BY <1>7 DEF CommitBegin, CheckExists, CheckRefuses, CheckPasses, WriteFile, AddFile,
       WriteFails, CommitFails, remote, worktree, history
  <2>2. QED
    BY <2>1 DEF TreesGrow, Tree, Session
<1>8. QED
  BY <1>1, <1>2, <1>3, <1>4, <1>5, <1>6, <1>7, CommitStep DEF Next, Guarded, MultiCommit

\* When nobody writes a bundle, nothing is staged in a session that is not dirty.
LEMMA NobodyWrites ==
    ASSUME StagedByWriter, \A m \in Calls : pc[m] \notin Writing
    PROVE  \A s \in Sessions \ dirty : staged[s] = {}
BY DEF StagedByWriter

LEMMA QuietAfter ==
    ASSUME \A m \in Calls : pc'[m] \notin Writing,
           \A s \in Sessions \ dirty' : staged'[s] = {}
    PROVE  WritesNew' /\ StagedByWriter'
BY DEF WritesNew, StagedByWriter, Writing

LEMMA WriteStep ==
    ASSUME TypeOK, SectionExclusive, TreesGrow, WritesNew, StagedByWriter, [Next]_vars
    PROVE  WritesNew' /\ StagedByWriter'
<1>1. ASSUME NEW n \in Calls, Leaving(n)
      PROVE  WritesNew' /\ StagedByWriter'
  <2>1. Others(n) /\ pc[n] \in Section /\ pc'[n] = "release" /\ Session(n) \in Sessions
    BY <1>1, LeavingKeeps, RequestTypes DEF Section
  <2>2. \A m \in Calls : (m # n => pc[m] \notin Writing) /\ pc'[m] \notin Writing
    BY <2>1, OneInSection DEF Section, Writing
  <2>3. \A s \in Sessions \ dirty : s # Session(n) \/ pc[n] \notin Writing => staged[s] = {}
    BY <2>2 DEF StagedByWriter
  <2>4. \/ UNCHANGED <<staged, dirty>> /\ pc[n] \notin Writing
        \/ staged' = [staged EXCEPT ![Session(n)] = {}] /\ UNCHANGED dirty
        \/ UNCHANGED staged /\ dirty' = dirty \cup {Session(n)}
    BY <1>1 DEF Leaving, CheckExists, CheckRefuses, WriteFails, CommitFails, GitCommit, CommitLost,
       Reset, Committed, Writing, worktree, history
  <2>5. \A s \in Sessions \ dirty' : staged'[s] = {}
    BY <2>3, <2>4 DEF TypeOK
  <2>6. QED
    BY <2>2, <2>5, QuietAfter
<1>2. ASSUME NEW n \in Calls, CheckPasses(n)
      PROVE  WritesNew' /\ StagedByWriter'
  <2>1. /\ pc[n] = "check" /\ pc' = [pc EXCEPT ![n] = "write"]
        /\ todo' = [todo EXCEPT ![n] = kept[n]]
        /\ kept[n] \cap OnDisk(Session(n)) = {}
        /\ UNCHANGED <<base, branch, staged, dirty, kept, req>>
    BY <1>2 DEF CheckPasses, Goto, worktree, history
  <2>2. \A m \in Calls : m # n => pc'[m] \notin Writing /\ pc[m] \notin Writing
    BY <2>1 DEF SectionExclusive, Section, Writing, TypeOK
  <2>3. pc[n] \notin Writing /\ pc'[n] = "write" /\ todo'[n] = kept[n]
    BY <2>1 DEF Writing, TypeOK
  <2>4. \A s \in Sessions \ dirty : staged[s] = {}
    BY <2>2, <2>3, NobodyWrites
  <2>5. WritesNew'
    BY <2>1, <2>2, <2>3 DEF WritesNew, Writing, OnDisk, Tree, Session
  <2>6. StagedByWriter'
    BY <2>1, <2>2, <2>3, <2>4 DEF StagedByWriter, Session
  <2>7. QED BY <2>5, <2>6
<1>3. ASSUME NEW n \in Calls, NEW f \in Files, WriteFile(n, f)
      PROVE  WritesNew' /\ StagedByWriter'
  <2>1. /\ pc[n] = "write" /\ pc' = [pc EXCEPT ![n] = "add"]
        /\ UNCHANGED <<base, branch, staged, dirty, kept, todo, req>>
    BY <1>3 DEF WriteFile, Goto, history
  <2>2. \A m \in Calls : (pc'[m] \in Writing <=> pc[m] \in Writing) /\ (pc'[m] = "record" => pc[m] = "record")
    BY <2>1 DEF Writing, TypeOK
  <2>3. QED
    BY <2>1, <2>2 DEF WritesNew, StagedByWriter, Tree, Session
<1>4. ASSUME NEW n \in Calls, NEW f \in Files, AddFile(n, f)
      PROVE  WritesNew' /\ StagedByWriter'
  <2>1. /\ pc[n] = "add" /\ Session(n) \in Sessions /\ f \in todo[n]
        /\ UNCHANGED <<base, branch, dirty, kept, req>>
        /\ staged' = [staged EXCEPT ![Session(n)] = @ \cup {f}]
        /\ todo' = [todo EXCEPT ![n] = @ \ {f}]
        /\ pc' = [pc EXCEPT ![n] = IF todo[n] = {f} THEN "record" ELSE "write"]
    BY <1>4, RequestTypes DEF AddFile, Goto, history
  <2>2. \A m \in Calls : m # n => pc[m] \notin Writing /\ pc'[m] \notin Writing
    BY <2>1 DEF SectionExclusive, Section, Writing, TypeOK
  <2>3. /\ pc[n] \in Writing /\ pc'[n] \in Writing /\ (pc'[n] = "record" => todo'[n] = {})
        /\ todo'[n] = todo[n] \ {f}
        /\ staged'[Session(n)] = staged[Session(n)] \cup {f}
        /\ \A s \in Sessions : s # Session(n) => staged'[s] = staged[s]
    BY <2>1 DEF Writing, TypeOK
  <2>4. \A m \in Calls : Session(m)' = Session(m) /\ Tree(Session(m))' = Tree(Session(m))
    BY <2>1 DEF Session, Tree
  <2>5. /\ kept[n] \cap Tree(Session(n)) = {} /\ todo[n] \subseteq kept[n]
        /\ kept[n] \ todo[n] \subseteq staged[Session(n)]
    BY <2>3 DEF WritesNew
  <2>6. WritesNew'
    BY <2>1, <2>2, <2>3, <2>4, <2>5 DEF WritesNew, Writing
  <2>7. Session(n) \notin dirty => staged'[Session(n)] = kept[n] \ todo'[n]
    BY <2>1, <2>3, <2>5 DEF StagedByWriter
  <2>8. \A s \in Sessions \ dirty : s # Session(n) => staged[s] = {}
    BY <2>2 DEF StagedByWriter
  <2>9. StagedByWriter'
    BY <2>1, <2>2, <2>3, <2>4, <2>7, <2>8 DEF StagedByWriter
  <2>10. QED BY <2>6, <2>9
<1>5. ASSUME NEW n \in Calls,
             \/ \E r \in Requests : Begin(n, r)
             \/ Claim(n) \/ Release(n)
             \/ Refuse(n) \/ AdmitCommit(n) \/ AdmitBundle(n)
             \/ Bundle(n) \/ CommitBegin(n)
      PROVE  WritesNew' /\ StagedByWriter'
  <2>1. Others(n)
    BY <1>5, CallStep DEF Guarded, MultiCommit
  <2>2. pc[n] \notin Writing /\ pc'[n] \notin Writing
    BY <1>5 DEF Begin, Claim, Release, Refuse, AdmitCommit, AdmitBundle, Bundle, Enqueue,
       EnqueueRefused, EnqueueRaises, Rollback, RollbackFails, RolledBack, CommitBegin, Goto,
       Writing, calls, TypeOK
  <2>3. UNCHANGED <<base, branch, staged, dirty>>
    BY <1>5 DEF Begin, Claim, Release, Refuse, AdmitCommit, AdmitBundle, Bundle, Enqueue,
       EnqueueRefused, EnqueueRaises, Rollback, RollbackFails, RolledBack, CommitBegin, worktree,
       history
  <2>4. \A m \in Calls : pc'[m] \in Writing <=> pc[m] \in Writing
    BY <2>1, <2>2 DEF Others
  <2>5. \A m \in Calls : pc'[m] \in Writing =>
           /\ pc'[m] = pc[m] /\ kept'[m] = kept[m] /\ todo'[m] = todo[m] /\ Session(m)' = Session(m)
    BY <2>1, <2>2 DEF Others, Session
  <2>6. WritesNew'
    BY <2>3, <2>5 DEF WritesNew, Writing, Tree
  <2>7. StagedByWriter'
    BY <2>3, <2>4, <2>5 DEF StagedByWriter, Session
  <2>8. QED BY <2>6, <2>7
<1>6. ASSUME NEW n \in Calls, Refresh(n)
      PROVE  WritesNew' /\ StagedByWriter'
  <2>1. /\ pc[n] = "refresh" /\ pc' = [pc EXCEPT ![n] = "check"]
        /\ UNCHANGED <<staged, dirty>>
    BY <1>6 DEF Refresh, Goto, history
  <2>2. \A m \in Calls : pc[m] \notin Writing /\ pc'[m] \notin Writing
    BY <2>1 DEF SectionExclusive, Section, Writing, TypeOK
  <2>3. QED
    BY <2>1, <2>2, NobodyWrites, QuietAfter
<1>7. CASE \/ \E e \in Entry : Approve(e) \/ Reject(e)
           \/ \E s \in Sessions : Publish(s)
           \/ ReclaimLocks
  <2>1. /\ serializer = None /\ UNCHANGED <<pc, dirty>>
        /\ UNCHANGED staged \/ \E s : staged' = [staged EXCEPT ![s] = {}]
    BY <1>7 DEF Approve, Reject, Publish, ReclaimLocks, worktree, calls, history
  <2>2. \A m \in Calls : pc[m] \notin Writing /\ pc'[m] \notin Writing
    BY <2>1, ConstantsAssumption DEF SectionExclusive, Section, Writing
  <2>3. \A s \in Sessions \ dirty : staged[s] = {}
    BY <2>2, NobodyWrites
  <2>4. \A s \in Sessions \ dirty' : staged'[s] = {}
    BY <2>1, <2>3 DEF TypeOK
  <2>5. QED
    BY <2>2, <2>4, QuietAfter
<1>8. CASE Crash
  <2>1. \A m \in Calls : pc'[m] \notin Writing
    BY <1>8 DEF Crash, Writing
  <2>2. \A s \in Sessions \ dirty' : staged'[s] = {}
    BY <1>8 DEF Crash, worktree
  <2>3. QED
    BY <2>1, <2>2, QuietAfter
<1>9. CASE \/ \E k \in Keys : Expire(k)
           \/ \E f \in Files : ForeignPush(f)
           \/ Pull \/ UNCHANGED vars
  <2>1. UNCHANGED <<pc, kept, todo, req, base, branch, staged, dirty>>
    BY <1>9 DEF Expire, ForeignPush, Pull, worktree, calls, history, vars
  <2>2. QED
    BY <2>1 DEF WritesNew, StagedByWriter, Tree, Session
<1>10. QED
  BY <1>1, <1>2, <1>3, <1>4, <1>5, <1>6, <1>7, <1>8, <1>9
     DEF Next, Guarded, MultiCommit, Leaving

-----------------------------------------------------------------------------
(* The bundles.                                                            *)

\* A call's bundle does not depend on the others.
LEMMA SameProgress ==
    ASSUME NEW m \in Calls, Progress(m),
           pc'[m] = pc[m], outcome'[m] = outcome[m], todo'[m] = todo[m], kept'[m] = kept[m],
           \A f \in Files :
              [file |-> f, bundle |-> m] \in pending' <=> [file |-> f, bundle |-> m] \in pending
    PROVE  Progress(m)'
BY DEF Progress, Parks

\* So a step that touches one bundle has to keep that one.
LEMMA OneBundle ==
    ASSUME BundleProgress, NEW n \in Calls, Others(n), UNCHANGED decided,
           \A m \in Calls \ {n}, f \in Files :
              [file |-> f, bundle |-> m] \in pending' <=> [file |-> f, bundle |-> m] \in pending,
           n \notin decided => Progress(n)'
    PROVE  BundleProgress'
<1>1. SUFFICES ASSUME NEW m \in Calls \ decided
               PROVE  Progress(m)'
  BY DEF BundleProgress
<1>2. CASE m = n
  BY <1>2
<1>3. CASE m # n
  BY <1>3, SameProgress DEF BundleProgress, Others
<1>4. QED BY <1>2, <1>3

LEMMA BundleStep ==
    ASSUME TypeOK, CallStages, BundleProgress, [Next]_vars
    PROVE  BundleProgress'
<1>1. ASSUME NEW n \in Calls, Guarded(n)
      PROVE  BundleProgress'
  <2>1. Others(n) /\ UNCHANGED <<decided, pending>>
    BY <1>1, CallStep DEF Guarded, Begin, Claim, Release, Refuse, AdmitCommit, AdmitBundle, queue,
       history
  <2>2. ASSUME n \notin decided
        PROVE  Progress(n)'
    <3>1. Progress(n) /\ (pc[n] \in {"new", "claim"} => outcome[n] = "none")
      BY <2>2 DEF BundleProgress, CallStages
    <3>2. CASE (\E r \in Requests : Begin(n, r)) \/ Claim(n) \/ Release(n)
      BY <2>1, <3>1, <3>2 DEF Begin, Claim, Release, Goto, Ends, Progress, Parks, Holding, TypeOK
    <3>3. CASE Refuse(n) \/ AdmitCommit(n) \/ AdmitBundle(n)
      BY <2>1, <3>1, <3>3
         DEF Refuse, AdmitCommit, AdmitBundle, Goto, Ends, Progress, Parks, Holding, TypeOK
    <3>4. QED BY <1>1, <3>2, <3>3 DEF Guarded
  <2>3. QED BY <2>1, <2>2, OneBundle
<1>2. ASSUME NEW n \in Calls, MultiCommit(n)
      PROVE  BundleProgress'
  <2>1. Others(n) /\ UNCHANGED <<decided, pending>>
    BY <1>2, CallStep DEF MultiCommit, CommitBegin, Refresh, CheckExists, CheckRefuses,
       CheckPasses, WriteFile, AddFile, GitCommit, WriteFails, CommitFails, CommitLost, queue,
       history
  <2>2. /\ pc[n] \in {"commit", "refresh", "check", "write", "add", "record"}
        /\ \/ /\ pc'[n] \in {"refresh", "check", "write", "add", "record"}
              /\ outcome'[n] = outcome[n]
           \/ pc'[n] = "release" /\ outcome'[n] # "parked"
    BY <1>2 DEF MultiCommit, CommitBegin, Refresh, CheckExists, CheckRefuses, CheckPasses,
       WriteFile, AddFile, GitCommit, WriteFails, CommitFails, CommitLost, Goto, Ends, TypeOK
  <2>3. ASSUME n \notin decided
        PROVE  Progress(n)'
    BY <2>1, <2>2, <2>3 DEF BundleProgress, Progress, Parks, Holding
  <2>4. QED BY <2>1, <2>3, OneBundle
<1>3. ASSUME NEW n \in Calls, NEW f \in Files, Enqueue(n, f) \/ EnqueueRaises(n, f)
      PROVE  BundleProgress'
  <2>1. Others(n) /\ UNCHANGED decided
    BY <1>3, CallStep DEF Enqueue, EnqueueRaises, Bundle, history
  <2>2. \/ pending' = pending \cup {[file |-> f, bundle |-> n]}
        \/ UNCHANGED pending
    BY <1>3 DEF Enqueue, EnqueueRaises
  <2>3. CASE Enqueue(n, f)
    <3>1. /\ pc[n] = "enqueue" /\ f \in todo[n] /\ todo'[n] = todo[n] \ {f} /\ kept'[n] = kept[n]
          /\ pending' = pending \cup {[file |-> f, bundle |-> n]}
          /\ \/ todo[n] = {f} /\ outcome'[n] = "parked" /\ pc'[n] = "release"
             \/ todo[n] # {f} /\ outcome'[n] = outcome[n] /\ pc'[n] = "enqueue"
      BY <2>3 DEF Enqueue, Goto, Ends, TypeOK
    <3>2. ASSUME n \notin decided
          PROVE  Progress(n)'
      <4>1. todo[n] \subseteq kept[n] /\ Parks(n, kept[n] \ todo[n]) /\ outcome[n] = "none"
        BY <3>1, <3>2 DEF BundleProgress, Progress, Holding
      <4>2. Parks(n, kept[n] \ (todo[n] \ {f}))'
        BY <3>1, <4>1 DEF Parks
      <4>3. todo[n] = {f} => Parks(n, kept[n])'
        BY <3>1, <4>1 DEF Parks
      <4>4. QED
        BY <3>1, <4>1, <4>2, <4>3 DEF Progress, Parks, Holding
    <3>3. QED
      BY <2>1, <3>1, <3>2, OneBundle
  <2>4. CASE EnqueueRaises(n, f)
    <3>1. Progress(n)'
      BY <2>4 DEF EnqueueRaises, Goto, Ends, Progress, Holding, TypeOK
    <3>2. QED
      BY <2>1, <2>2, <3>1, OneBundle
  <2>5. QED BY <1>3, <2>3, <2>4
<1>4. ASSUME NEW n \in Calls, NEW f \in Files, EnqueueRefused(n, f)
      PROVE  BundleProgress'
  <2>1. Others(n) /\ UNCHANGED <<decided, pending>>
    BY <1>4, CallStep DEF EnqueueRefused, Bundle, queue, history
  <2>2. Progress(n)'
    BY <1>4 DEF EnqueueRefused, Goto, Ends, Progress, Holding, TypeOK
  <2>3. QED BY <2>1, <2>2, OneBundle
<1>5. ASSUME NEW n \in Calls, Rollback(n)
      PROVE  BundleProgress'
  <2>1. /\ Others(n) /\ UNCHANGED <<decided, calls>> /\ pc[n] = "rollback"
        /\ \E e \in PendingOf(n) : pending' = pending \ {e}
    BY <1>5, CallStep DEF Rollback, Bundle, history
  <2>2. \A m \in Calls \ {n}, f \in Files :
           [file |-> f, bundle |-> m] \in pending' <=> [file |-> f, bundle |-> m] \in pending
    BY <2>1 DEF PendingOf
  <2>3. n \notin decided => Progress(n)'
    BY <2>1 DEF BundleProgress, Progress, Holding, calls
  <2>4. QED BY <2>1, <2>2, <2>3, OneBundle
<1>6. ASSUME NEW n \in Calls, RollbackFails(n) \/ RolledBack(n)
      PROVE  BundleProgress'
  <2>1. Others(n) /\ UNCHANGED <<decided, pending>>
    BY <1>6, CallStep DEF RollbackFails, RolledBack, Bundle, queue, history
  <2>2. ASSUME n \notin decided
        PROVE  Progress(n)'
    <3>1. CASE RollbackFails(n)
      BY <3>1 DEF RollbackFails, Goto, Ends, Progress, Holding, TypeOK
    <3>2. CASE RolledBack(n)
      <4>1. pc'[n] = "release" /\ outcome'[n] = outcome[n] /\ outcome[n] = "refused"
        BY <2>2, <3>2 DEF RolledBack, Goto, BundleProgress, Progress, TypeOK
      <4>2. Parks(n, {})'
        BY <2>1, <3>2 DEF RolledBack, PendingOf, Parks
      <4>3. QED
        BY <4>1, <4>2 DEF Progress, Holding, Parks
    <3>3. QED BY <1>6, <3>1, <3>2
  <2>3. QED BY <2>1, <2>2, OneBundle
<1>7. ASSUME NEW e \in Entry, Approve(e) \/ Reject(e)
      PROVE  BundleProgress'
  <2>1. UNCHANGED calls /\ pending' = pending \ {e} /\ decided' = decided \cup {e.bundle}
    BY <1>7 DEF Approve, Reject
  <2>2. SUFFICES ASSUME NEW m \in Calls \ decided'
                 PROVE  Progress(m)'
    BY DEF BundleProgress
  <2>3. m \notin decided /\ \A f \in Files : [file |-> f, bundle |-> m] # e
    BY <2>1
  <2>4. QED
    BY <2>1, <2>3, SameProgress DEF BundleProgress, calls
<1>8. CASE Crash
  <2>1. SUFFICES ASSUME NEW m \in Calls \ decided'
                 PROVE  Progress(m)'
    BY DEF BundleProgress
  <2>2. UNCHANGED <<pending, decided, kept, todo>>
    BY <1>8 DEF Crash, queue
  <2>3. CASE pc[m] \in {"new", "done"}
    BY <1>8, <2>2, <2>3, SameProgress DEF Crash, BundleProgress
  <2>4. CASE pc[m] \notin {"new", "done"}
    BY <1>8, <2>4 DEF Crash, Progress, Holding
  <2>5. QED BY <2>3, <2>4
<1>9. CASE \/ \E k \in Keys : Expire(k)
           \/ \E s \in Sessions : Publish(s)
           \/ \E f \in Files : ForeignPush(f)
           \/ Pull \/ ReclaimLocks \/ UNCHANGED vars
  <2>1. UNCHANGED <<calls, pending, decided>>
    BY <1>9 DEF Expire, Publish, ForeignPush, Pull, ReclaimLocks, queue, history, vars
  <2>2. QED
    BY <2>1 DEF BundleProgress, Progress, Parks, calls
<1>10. QED
  BY <1>1, <1>2, <1>3, <1>4, <1>5, <1>6, <1>7, <1>8, <1>9 DEF Next, Bundle

-----------------------------------------------------------------------------
(* The theorems.                                                           *)

LEMMA InitIInv == ASSUME Init PROVE IInv
<1>1. TypeOK
  BY ConstantsAssumption DEF Init, TypeOK, Locations, Outcomes
<1>2. CallStages /\ SlotHeld /\ SlotFreed /\ LandedHeld
  BY ConstantsAssumption
     DEF Init, CallStages, SlotHeld, SlotFreed, LandedHeld, Inside, Holding
<1>3. SectionExclusive /\ CommitPathsExclusive
  BY DEF Init, SectionExclusive, CommitPathsExclusive, Section
<1>4. TreesGrow /\ WritesNew /\ StagedByWriter /\ OncePerSession /\ CommitsWhole
  BY DEF Init, TreesGrow, WritesNew, StagedByWriter, OncePerSession, CommitsWhole, Writing
<1>5. BundleProgress
  BY DEF Init, BundleProgress, Progress, Parks, Holding
<1>6. QED BY <1>1, <1>2, <1>3, <1>4, <1>5 DEF IInv

LEMMA NextIInv == ASSUME IInv, [Next]_vars PROVE IInv'
<1>1. TypeOK'
  BY TypeStep DEF IInv
<1>2. CallStages' /\ SlotHeld' /\ SlotFreed' /\ LandedHeld'
  BY SlotStep DEF IInv
<1>3. SectionExclusive' /\ CommitPathsExclusive'
  BY SectionStep DEF IInv
<1>4. TreesGrow'
  BY TreeStep DEF IInv
<1>5. WritesNew' /\ StagedByWriter'
  BY WriteStep DEF IInv
<1>6. OncePerSession' /\ CommitsWhole'
  BY HistoryStep DEF IInv
<1>7. BundleProgress'
  BY BundleStep DEF IInv
<1>8. QED BY <1>1, <1>2, <1>3, <1>4, <1>5, <1>6, <1>7 DEF IInv

\* The inductive invariant, for any number of calls, slots, sessions, files
\* and faults (tools_onboarding.py, onboarding_inflight.py and the multi-file
\* commit of tools_write.py).
THEOREM Invariance == Spec => []IInv
<1>1. Init => IInv
  BY InitIInv
<1>2. IInv /\ [Next]_vars => IInv'
  BY NextIInv
<1>3. QED BY <1>1, <1>2, PTL DEF Spec

\* Every variable has its type, and no call may write outside the root it
\* onboards (_bootstrap_admitted, "paths outside base").
THEOREM TypeCorrect == Spec => []TypeOK
<1>1. IInv => TypeOK
  BY DEF IInv
<1>2. QED BY <1>1, Invariance, PTL

\* An unexpired claim stays on disk as long as its call is inside its slot
\* (BootstrapInFlight.claim and release).
THEOREM ClaimHeld == Spec => []SlotHeld
<1>1. IInv => SlotHeld
  BY DEF IInv
<1>2. QED BY <1>1, Invariance, PTL

\* No slot is left claimed by a call that has ended without a commit
\* (the release of kb_bootstrap_project_fn).
THEOREM ClaimFreed == Spec => []SlotFreed
<1>1. IInv => SlotFreed
  BY DEF IInv
<1>2. QED BY <1>1, Invariance, PTL

\* Two bootstraps of one slot commit a common file only after the claim of one
\* has expired, or if one has lost its commit.
THEOREM OneBootstrap == Spec => []SingleBootstrap
<1>1. ASSUME IInv PROVE SingleBootstrap
  <2>1. SUFFICES ASSUME NEW m \in Calls, NEW n \in Calls, m # n,
                        landed[m] # {}, landed[n] # {}, Slot(m) = Slot(n),
                        \A c \in {m, n} : c \notin expired /\ outcome[c] # "lost"
                 PROVE  FALSE
    BY DEF SingleBootstrap
  <2>2. marker[Slot(m)] = m /\ marker[Slot(n)] = n
    BY <1>1, <2>1 DEF IInv, LandedHeld
  <2>3. QED BY <2>1, <2>2
<1>2. QED BY <1>1, Invariance, PTL

\* No session branch gets a file from two bootstraps (new_files_only of
\* commit_multifile_in_worktree).
THEOREM CreatedOnce == Spec => []OncePerSession
<1>1. IInv => OncePerSession
  BY DEF IInv
<1>2. QED BY <1>1, Invariance, PTL

\* A bootstrap commit has exactly the files of its bundle (reset_worktree
\* after every failure), unless a crash or a failed reset intervened.
THEOREM WholeCommits == Spec => []CommitsWhole
<1>1. IInv => CommitsWhole
  BY DEF IInv
<1>2. QED BY <1>1, Invariance, PTL

\* The paths of a commit are its own while it is made (the path locks of
\* commit_multifile_in_worktree).
THEOREM ExclusivePaths == Spec => []CommitPathsExclusive
<1>1. IInv => CommitPathsExclusive
  BY DEF IInv
<1>2. QED BY <1>1, Invariance, PTL

\* A bundle is parked as a whole or not at all (the rollback of
\* _bootstrap_admitted).
THEOREM WholeBundles == Spec => []BundleWhole
<1>1. IInv => BundleWhole
  BY DEF IInv, BundleProgress, Progress, BundleWhole
<1>2. QED BY <1>1, Invariance, PTL
=============================================================================
