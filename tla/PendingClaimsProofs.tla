------------------------- MODULE PendingClaimsProofs -------------------------
(***************************************************************************)
(* Proofs about PendingClaims, for every value of its constants: the       *)
(* inductive invariant IInv, the safety properties it implies, the two     *)
(* step properties and the refinement of PathGate.                         *)
(*                                                                         *)
(* IInv is nine conjuncts; each action has a step (in the lemma of its     *)
(* group) or a lemma of its own, which proves the conjuncts the action can *)
(* disturb separately.  Inside the write serializer an action changes one  *)
(* entry, and the threads outside it know nothing that depends on that     *)
(* entry (Bystander, OtherClaims, ResolverOfClaim): that is why the        *)
(* invariant has to say which claim token belongs to which thread.         *)
(***************************************************************************)
EXTENDS PendingClaims, TLAPS

-----------------------------------------------------------------------------
(* Helpers.                                                                *)

\* The fields of a claim sidecar (pending.py: the keys under "claim").
LEMMA SidecarFields ==
    ASSUME NEW tok \in Nat, NEW aged \in BOOLEAN, NEW ctx \in Contexts, NEW outcome \in Outcomes
    PROVE  /\ Sidecar(tok, aged, ctx, outcome) \in ClaimRecord
           /\ Sidecar(tok, aged, ctx, outcome) # None
           /\ Sidecar(tok, aged, ctx, outcome).tok = tok
           /\ Sidecar(tok, aged, ctx, outcome).aged = aged
           /\ Sidecar(tok, aged, ctx, outcome).ctx = ctx
           /\ Sidecar(tok, aged, ctx, outcome).outcome = outcome
BY ConstantsAssumption DEF Sidecar, ClaimRecord

\* A claim that exists is a record.
LEMMA ClaimFields ==
    ASSUME TypeOK, NEW p \in Pids, claim[p] # None
    PROVE  /\ claim[p] \in ClaimRecord
           /\ claim[p].tok \in Nat
           /\ claim[p].aged \in BOOLEAN
           /\ claim[p].ctx \in Contexts
           /\ claim[p].outcome \in Outcomes
BY DEF TypeOK, ClaimRecord

\* Only one thread is inside the write serializer.
LEMMA Serialized ==
    ASSUME IInv, NEW t \in Threads, pc[t] \in Inside
    PROVE  /\ serializer = t
           /\ \A u \in Threads :
                u # t => pc[u] \in {"idle", "down", "enqueue", "claimed", "restore"}
BY DEF IInv, TypeOK, SerializerInv, Inside, Locations

\* What a thread outside the serializer knows stays true as long as nobody
\* touches the entry it has claimed or adds the commit it has given up on.
LEMMA Bystander ==
    ASSUME NEW u \in Threads, Knows(u),
           pc[u] \in {"idle", "down", "enqueue", "claimed", "restore"},
           pc'[u] = pc[u], job'[u] = job[u], token'[u] = token[u],
           pc[u] = "claimed" /\ job[u] \in Pids =>
               Owns(u)' /\ claim'[job[u]].outcome = "none" /\ job[u] \notin live',
           pc[u] = "claimed" /\ job[u] # None => Uncommitted(job[u])',
           pc[u] = "restore" => [id |-> job[u], tok |-> token[u]] \notin commits'
    PROVE  Knows(u)'
BY DEF Knows, Undecided, Uncommitted, Owns

\* Deleting p's lock leaves the lock of every other holder alone.
LEMMA ReleaseKeepsOthers ==
    ASSUME NEW p \in Writes, NEW q \in Writes, q # p, lock[PathOf[q]] = q
    PROVE  ReleaseOwnedBy(p)[PathOf[q]] = q
<1>1. PathOf[q] \in Paths
  BY ConstantsAssumption
<1> QED
  BY <1>1 DEF ReleaseOwnedBy

\* Once p is neither live nor claimed its lock can go (_finish_claim).
LEMMA ReleaseKeepsLockInv ==
    ASSUME IInv, NEW p \in Pids, ~InFlight(p), lock' = ReleaseOwnedBy(p),
           UNCHANGED <<live, claim>>,
           \A u \in Threads :
               pc'[u] = "enqueue_write" \/ job'[u] \in Autos =>
                   job'[u] \in Writes /\ job'[u] # p /\ lock[PathOf[job'[u]]] = job'[u]
    PROVE  LockInv'
<1>1. \A q \in Writes : q # p /\ lock[PathOf[q]] = q => lock'[PathOf[q]] = q
  BY ReleaseKeepsOthers DEF Writes
<1>2. PathProtected'
  <2> SUFFICES ASSUME NEW q \in Pids, InFlight(q)'
               PROVE  lock'[PathOf[q]] = q
    BY DEF PathProtected
  <2>1. InFlight(q) /\ q # p /\ q \in Writes
    BY DEF InFlight, Writes
  <2>2. lock[PathOf[q]] = q
    BY <2>1 DEF IInv, LockInv, PathProtected
  <2> QED
    BY <1>1, <2>1, <2>2
<1>3. \A u \in Threads :
        pc'[u] = "enqueue_write" \/ job'[u] \in Autos => lock'[PathOf[job'[u]]] = job'[u]
  BY <1>1
<1> QED
  BY <1>2, <1>3 DEF LockInv

\* _finish_claim: the lock goes after the claim (reject).
LEMMA RejectFinishLockPreserves ==
    ASSUME IInv, NEW t \in Threads, RejectFinishLock(t)
    PROVE  IInv'
<1>1. /\ TypeOK' /\ SerializerInv' /\ JobInv' /\ TokenInv' /\ FreshInv' /\ RejectInv'
      /\ CommitInv' /\ ThreadInv'
  BY ConstantsAssumption DEF Writes, Outcomes, ClaimRecord, repo, sweeping, Commit,
     Locations, TypeOK, Owns, ReleaseOwnedBy, CommitOf, Goto, Leave, RejectFinishLock,
     InFlight, AtMostOneCommit, PathProtected, Inside, Undecided, SerializerInv, JobInv,
     TokenInv, Uncommitted, FreshInv, LockInv, RejectInv, CommitInv, Knows, ThreadInv,
     IInv
<1>2. LockInv'
  <2>1. job[t] \in Pids /\ ~InFlight(job[t])
    BY DEF IInv, JobInv, ThreadInv, Knows, RejectFinishLock
  <2>2. lock' = ReleaseOwnedBy(job[t]) /\ UNCHANGED <<live, claim>>
    BY DEF RejectFinishLock
  <2>3. \A u \in Threads :
          pc'[u] = "enqueue_write" \/ job'[u] \in Autos =>
              job'[u] \in Writes /\ job'[u] # job[t] /\ lock[PathOf[job'[u]]] = job'[u]
    BY ConstantsAssumption, Serialized DEF IInv, TypeOK, LockInv, JobInv, Writes, Inside,
       Locations, RejectFinishLock, Leave, Goto
  <2> QED
    BY <2>1, <2>2, <2>3, ReleaseKeepsLockInv
<1> QED
  BY <1>1, <1>2 DEF IInv

\* The same, in finalize_resolve.
LEMMA FinishLockPreserves ==
    ASSUME IInv, NEW t \in Threads, FinishLock(t)
    PROVE  IInv'
<1>1. /\ TypeOK' /\ SerializerInv' /\ JobInv' /\ TokenInv' /\ FreshInv' /\ RejectInv'
      /\ CommitInv' /\ ThreadInv'
  BY ConstantsAssumption DEF Writes, Outcomes, ClaimRecord, repo, sweeping, Commit,
     Locations, TypeOK, Owns, ReleaseOwnedBy, CommitOf, Goto, Leave, FinishLock, InFlight,
     AtMostOneCommit, PathProtected, Inside, Undecided, SerializerInv, JobInv, TokenInv,
     Uncommitted, FreshInv, LockInv, RejectInv, CommitInv, Knows, ThreadInv, IInv
<1>2. LockInv'
  <2>1. job[t] \in Pids /\ ~InFlight(job[t])
    BY DEF IInv, JobInv, ThreadInv, Knows, FinishLock
  <2>2. lock' = ReleaseOwnedBy(job[t]) /\ UNCHANGED <<live, claim>>
    BY DEF FinishLock
  <2>3. \A u \in Threads :
          pc'[u] = "enqueue_write" \/ job'[u] \in Autos =>
              job'[u] \in Writes /\ job'[u] # job[t] /\ lock[PathOf[job'[u]]] = job'[u]
    BY ConstantsAssumption, Serialized DEF IInv, TypeOK, LockInv, JobInv, Writes, Inside,
       Locations, FinishLock, Leave, Goto
  <2> QED
    BY <2>1, <2>2, <2>3, ReleaseKeepsLockInv
<1> QED
  BY <1>1, <1>2 DEF IInv

\* The same, in a sweep.
LEMMA SweepReleaseLockPreserves ==
    ASSUME IInv, NEW t \in Threads, SweepReleaseLock(t)
    PROVE  IInv'
<1>1. /\ TypeOK' /\ SerializerInv' /\ JobInv' /\ TokenInv' /\ FreshInv' /\ RejectInv'
      /\ CommitInv' /\ ThreadInv'
  BY ConstantsAssumption DEF Writes, Outcomes, ClaimRecord, repo, Commit, Locations,
     TypeOK, Owns, ReleaseOwnedBy, CommitOf, Goto, SweptOne, SweepReleaseLock, InFlight,
     AtMostOneCommit, PathProtected, Inside, Undecided, SerializerInv, JobInv, TokenInv,
     Uncommitted, FreshInv, LockInv, RejectInv, CommitInv, Knows, ThreadInv, IInv
<1>2. LockInv'
  <2>1. cur \in Pids /\ ~InFlight(cur)
    BY DEF IInv, JobInv, ThreadInv, Knows, SweepReleaseLock
  <2>2. lock' = ReleaseOwnedBy(cur) /\ UNCHANGED <<live, claim>>
    BY DEF SweepReleaseLock
  <2>3. \A u \in Threads :
          pc'[u] = "enqueue_write" \/ job'[u] \in Autos =>
              job'[u] \in Writes /\ job'[u] # cur /\ lock[PathOf[job'[u]]] = job'[u]
    BY ConstantsAssumption, Serialized DEF IInv, TypeOK, LockInv, JobInv, Writes, Inside,
       Locations, SweepReleaseLock, Leave, Goto, SweptOne
  <2> QED
    BY <2>1, <2>2, <2>3, ReleaseKeepsLockInv
<1> QED
  BY <1>1, <1>2 DEF IInv

\* _ClaimRecorder.context and the passing of time change one field.
LEMMA SidecarUpdates ==
    ASSUME NEW r \in ClaimRecord
    PROVE  /\ \A ctx \in Contexts :
                LET s == Sidecar(r.tok, r.aged, ctx, r.outcome)
                IN  s # None /\ s.tok = r.tok /\ s.ctx = ctx /\ s.outcome = r.outcome
           /\ LET s == Sidecar(r.tok, TRUE, r.ctx, r.outcome)
              IN  s # None /\ s.tok = r.tok /\ s.ctx = r.ctx /\ s.outcome = r.outcome
<1>1. /\ \A ctx \in Contexts : Sidecar(r.tok, r.aged, ctx, r.outcome) \in ClaimRecord
      /\ Sidecar(r.tok, TRUE, r.ctx, r.outcome) \in ClaimRecord
  BY DEF Sidecar, ClaimRecord
<1>2. \A x \in ClaimRecord : x # None
  BY ConstantsAssumption
<1> QED
  BY <1>1, <1>2 DEF Sidecar

\* The sidecar _claim writes.
LEMMA FreshSidecar ==
    ASSUME NEW n \in Nat
    PROVE  LET s == Sidecar(n, FALSE, "none", "none")
           IN  s \in ClaimRecord /\ s # None /\ s.tok = n /\ s.outcome = "none"
<1>1. Sidecar(n, FALSE, "none", "none") \in ClaimRecord
  BY DEF Sidecar, ClaimRecord, Outcomes, Contexts
<1>2. Sidecar(n, FALSE, "none", "none") # None
  BY <1>1, ConstantsAssumption
<1> QED
  BY <1>1, <1>2 DEF Sidecar

\* _claim writes a fresh token into the sidecar of the entry it renamed; the
\* other claims are left alone.
LEMMA StampedClaim ==
    ASSUME IInv, NEW t \in Threads, pc[t] \in {"resolve_stamp", "reject_stamp"}, Stamped(t)
    PROVE  /\ job[t] \in Pids /\ job[t] \notin live /\ claim[job[t]] # None
           /\ Uncommitted(job[t])
           /\ \A u \in Threads : token[u] > 0 => token[u] # claim[job[t]].tok
           /\ clock \in Nat /\ clock' = clock + 1
           /\ claim' \in [Pids -> ClaimRecord \cup {None}]
           /\ claim'[job[t]] # None
           /\ claim'[job[t]].tok = clock + 1
           /\ claim'[job[t]].outcome = "none"
           /\ \A q \in Pids \ {job[t]} : claim'[q] = claim[q]
<1>1. /\ job[t] \in Pids /\ job[t] \notin live /\ claim[job[t]] # None
      /\ Uncommitted(job[t])
      /\ \A u \in Threads : token[u] > 0 => token[u] # claim[job[t]].tok
  BY DEF IInv, JobInv, ThreadInv, Knows
<1>2. clock \in Nat /\ clock + 1 \in Nat /\ claim \in [Pids -> ClaimRecord \cup {None}]
  BY DEF IInv, TypeOK
<1> DEFINE s == Sidecar(clock + 1, FALSE, "none", "none")
<1>3. s \in ClaimRecord /\ s # None /\ s.tok = clock + 1 /\ s.outcome = "none"
  BY <1>2, FreshSidecar
<1>4. clock' = clock + 1 /\ claim' = [claim EXCEPT ![job[t]] = s]
  BY DEF Stamped
<1> HIDE DEF s
<1>5. claim'[job[t]] = s /\ \A q \in Pids \ {job[t]} : claim'[q] = claim[q]
  BY <1>1, <1>2, <1>4
<1>6. claim' \in [Pids -> ClaimRecord \cup {None}]
  BY <1>1, <1>2, <1>3, <1>4
<1> QED
  BY <1>1, <1>2, <1>3, <1>4, <1>5, <1>6

\* What a stamp leaves true, whatever its thread does next.
LEMMA StampPreserves ==
    ASSUME IInv, NEW t \in Threads, pc[t] \in {"resolve_stamp", "reject_stamp"}, Stamped(t),
           UNCHANGED <<live, lock, commits, onref, rejected>>,
           \A u \in Threads \ {t} :
               pc'[u] = pc[u] /\ job'[u] = job[u] /\ token'[u] = token[u]
    PROVE  /\ PathProtected' /\ RejectInv' /\ CommitInv'
           /\ \A u \in Threads \ {t} : Knows(u)'
<1> DEFINE j == job[t]
<1>1. /\ j \in Pids /\ j \notin live /\ claim[j] # None /\ Uncommitted(j)
      /\ \A u \in Threads : token[u] > 0 => token[u] # claim[j].tok
      /\ claim'[j] # None /\ claim'[j].outcome = "none"
      /\ \A q \in Pids \ {j} : claim'[q] = claim[q]
  BY StampedClaim
<1> HIDE DEF j
<1>2. \A q \in Pids : InFlight(q)' <=> InFlight(q)
  BY <1>1 DEF InFlight
<1>3. PathProtected' /\ RejectInv'
  BY <1>2 DEF IInv, TypeOK, LockInv, PathProtected, RejectInv, Uncommitted
<1>4. CommitInv'
  BY <1>1 DEF IInv, TypeOK, CommitInv, AtMostOneCommit, CommitOf, Uncommitted, Commit
<1>5. ASSUME NEW u \in Threads \ {t}
      PROVE  Knows(u)'
  <2>1. Knows(u) /\ pc[u] \in {"idle", "down", "enqueue", "claimed", "restore"}
    BY Serialized DEF IInv, ThreadInv, Inside, Locations
  <2>2. pc[u] = "claimed" /\ job[u] \in Pids => job[u] # j
    BY <1>1, <2>1 DEF Knows, Undecided, Owns
  <2> QED
    BY <1>1, <2>1, <2>2, Bystander DEF Knows, Undecided, Owns, Uncommitted
<1> QED
  BY <1>3, <1>4, <1>5

\* claim_for_resolve: from here on the resolver owns its claim.
LEMMA ResolveStampPreserves ==
    ASSUME IInv, NEW t \in Threads, ResolveStamp(t)
    PROVE  IInv'
<1>1. TypeOK' /\ SerializerInv' /\ JobInv' /\ TokenInv' /\ FreshInv'
  <2>1. TypeOK' /\ SerializerInv' /\ JobInv'
    BY StampedClaim, ConstantsAssumption
       DEF Writes, repo, sweeping, Locations, TypeOK, Goto, ResolveStamp, Inside, SerializerInv,
           JobInv, IInv
  <2>2. TokenInv'
    <3>1. /\ clock \in Nat /\ clock' = clock + 1 /\ commits' = commits
          /\ token \in [Threads -> Nat] /\ token' = [token EXCEPT ![t] = clock + 1]
      BY StampedClaim DEF repo, TypeOK, ResolveStamp, IInv
    <3>2. TokenInv /\ \A c \in commits : c.tok \in Nat
      BY DEF IInv, TypeOK, Commit
    <3>3. \A q \in Pids : claim[q] # None => claim[q].tok \in Nat
      BY ClaimFields DEF IInv
    <3>4. \A u \in Threads : token'[u] <= clock'
      BY <3>1, <3>2 DEF TokenInv
    <3>5. \A u, v \in Threads : token'[u] = token'[v] /\ token'[u] > 0 => u = v
      BY <3>1, <3>2 DEF TokenInv
    <3>6. \A q \in Pids : claim'[q] # None => claim'[q].tok <= clock'
      BY <3>1, <3>2, <3>3, StampedClaim DEF TokenInv, ResolveStamp
    <3>7. \A c \in commits' : c.tok <= clock' /\ (c.id \in Pids => c.tok > 0)
      BY <3>1, <3>2 DEF TokenInv
    <3> QED
      BY <3>4, <3>5, <3>6, <3>7 DEF TokenInv
  <2>3. FreshInv'
    <3>1. \A q \in Pids : InFlight(q)' <=> InFlight(q)
      BY StampedClaim DEF ResolveStamp, InFlight
    <3> QED
      BY <3>1 DEF repo, TypeOK, Goto, ResolveStamp, JobInv, Uncommitted, FreshInv, IInv
  <2> QED
    BY <2>1, <2>2, <2>3
<1>2. /\ pc[t] = "resolve_stamp" /\ Stamped(t)
      /\ pc' = [pc EXCEPT ![t] = "claimed"] /\ token' = [token EXCEPT ![t] = clock + 1]
      /\ UNCHANGED <<live, lock, commits, onref, job, rejected>>
  BY DEF ResolveStamp, Goto, repo
<1>3. \A u \in Threads \ {t} : pc'[u] = pc[u] /\ job'[u] = job[u] /\ token'[u] = token[u]
  BY <1>2 DEF IInv, TypeOK
<1>4. /\ PathProtected' /\ RejectInv' /\ CommitInv'
      /\ \A u \in Threads \ {t} : Knows(u)'
  BY <1>2, <1>3, StampPreserves
<1>5. LockInv'
  BY <1>2, <1>4 DEF IInv, TypeOK, LockInv
<1>6. Knows(t)'
  BY <1>2, StampedClaim DEF IInv, TypeOK, Knows, Owns, Uncommitted, Undecided
<1> QED
  BY <1>1, <1>4, <1>5, <1>6 DEF IInv, ThreadInv

\* reject claims the entry to consume it: no resolver owns that sidecar.
LEMMA RejectStampPreserves ==
    ASSUME IInv, NEW t \in Threads, RejectStamp(t)
    PROVE  IInv'
<1>1. TypeOK' /\ SerializerInv' /\ JobInv' /\ TokenInv' /\ FreshInv'
  <2>1. TypeOK' /\ SerializerInv' /\ JobInv'
    BY StampedClaim, ConstantsAssumption
       DEF Writes, repo, sweeping, Locations, TypeOK, Goto, RejectStamp, Inside, SerializerInv,
           JobInv, IInv
  <2>2. TokenInv'
    <3>1. /\ clock \in Nat /\ clock' = clock + 1 /\ commits' = commits
          /\ token \in [Threads -> Nat] /\ token' = token
      BY StampedClaim DEF repo, TypeOK, RejectStamp, IInv
    <3>2. TokenInv /\ \A c \in commits : c.tok \in Nat
      BY DEF IInv, TypeOK, Commit
    <3>3. \A q \in Pids : claim[q] # None => claim[q].tok \in Nat
      BY ClaimFields DEF IInv
    <3>4. \A u \in Threads : token'[u] <= clock'
      BY <3>1, <3>2 DEF TokenInv
    <3>5. \A u, v \in Threads : token'[u] = token'[v] /\ token'[u] > 0 => u = v
      BY <3>1, <3>2 DEF TokenInv
    <3>6. \A q \in Pids : claim'[q] # None => claim'[q].tok <= clock'
      BY <3>1, <3>2, <3>3, StampedClaim DEF TokenInv, RejectStamp
    <3>7. \A c \in commits' : c.tok <= clock' /\ (c.id \in Pids => c.tok > 0)
      BY <3>1, <3>2 DEF TokenInv
    <3> QED
      BY <3>4, <3>5, <3>6, <3>7 DEF TokenInv
  <2>3. FreshInv'
    <3>1. \A q \in Pids : InFlight(q)' <=> InFlight(q)
      BY StampedClaim DEF RejectStamp, InFlight
    <3> QED
      BY <3>1 DEF repo, TypeOK, Goto, RejectStamp, JobInv, Uncommitted, FreshInv, IInv
  <2> QED
    BY <2>1, <2>2, <2>3
<1>2. /\ pc[t] = "reject_stamp" /\ Stamped(t)
      /\ pc' = [pc EXCEPT ![t] = "reject_claim"]
      /\ UNCHANGED <<live, lock, commits, onref, job, token, rejected>>
  BY DEF RejectStamp, Goto, repo
<1>3. \A u \in Threads \ {t} : pc'[u] = pc[u] /\ job'[u] = job[u] /\ token'[u] = token[u]
  BY <1>2 DEF IInv, TypeOK
<1>4. /\ PathProtected' /\ RejectInv' /\ CommitInv'
      /\ \A u \in Threads \ {t} : Knows(u)'
  BY <1>2, <1>3, StampPreserves
<1>5. LockInv'
  BY <1>2, <1>4 DEF IInv, TypeOK, LockInv
<1>6. \A u \in Threads : token[u] \in Nat /\ token[u] <= clock
  BY DEF IInv, TypeOK, TokenInv
<1>7. Knows(t)'
  BY <1>2, <1>6, StampedClaim DEF IInv, TypeOK, Knows, Uncommitted, Undecided
<1> QED
  BY <1>1, <1>4, <1>5, <1>7 DEF IInv, ThreadInv

\* Stamped or not, the claim is left to reconciliation.
LEMMA StampFailsPreserves ==
    ASSUME IInv, NEW t \in Threads, StampFails(t)
    PROVE  IInv'
<1>1. SerializerInv' /\ JobInv' /\ TokenInv' /\ FreshInv'
  BY ConstantsAssumption DEF Writes, Outcomes, ClaimRecord, repo, sweeping, Commit,
     Locations, TypeOK, Sidecar, Owns, CommitOf, Fault, Goto, Leave, Stamped, StampFails,
     InFlight, AtMostOneCommit, PathProtected, Inside, Undecided, SerializerInv, JobInv,
     TokenInv, Uncommitted, FreshInv, LockInv, RejectInv, CommitInv, Knows, ThreadInv,
     IInv
<1>2. /\ pc[t] \in {"resolve_stamp", "reject_stamp"}
      /\ pc' = [pc EXCEPT ![t] = "idle"] /\ job' = [job EXCEPT ![t] = None]
      /\ token' = [token EXCEPT ![t] = 0] /\ serializer' = None
      /\ faults' = faults + 1
      /\ UNCHANGED <<live, lock, commits, onref, onmain, detached, todo, cur, drawn, rejected>>
  BY DEF StampFails, Leave, Goto, Fault, repo, sweeping
<1>3. \A u \in Threads \ {t} : pc'[u] = pc[u] /\ job'[u] = job[u] /\ token'[u] = token[u]
  BY <1>2 DEF IInv, TypeOK
<1>4. LockInv' /\ TypeOK' /\ RejectInv' /\ CommitInv' /\ \A u \in Threads \ {t} : Knows(u)'
  <2>1. CASE Stamped(t)
    <3>1. /\ PathProtected' /\ RejectInv' /\ CommitInv'
          /\ \A u \in Threads \ {t} : Knows(u)'
      BY <1>2, <1>3, <2>1, StampPreserves
    <3>2. LockInv'
      BY <1>2, <3>1, ConstantsAssumption DEF IInv, TypeOK, LockInv, Writes
    <3>3. TypeOK'
      BY <1>2, <2>1, StampedClaim DEF IInv, TypeOK, Locations
    <3> QED
      BY <3>1, <3>2, <3>3
  <2>2. CASE UNCHANGED <<claim, clock>>
    <3>1. LockInv' /\ RejectInv' /\ CommitInv'
      BY <1>2, <2>2, ConstantsAssumption DEF IInv, TypeOK, LockInv, PathProtected, InFlight,
         RejectInv, CommitInv, AtMostOneCommit, CommitOf, Uncommitted, Writes
    <3>2. TypeOK'
      BY <1>2, <2>2 DEF IInv, TypeOK, Locations
    <3>3. \A u \in Threads \ {t} : Knows(u)'
      BY <1>2, <1>3, <2>2, Serialized, Bystander
         DEF IInv, ThreadInv, Knows, Undecided, Owns, Uncommitted, Inside, Locations
    <3> QED
      BY <3>1, <3>2, <3>3
  <2> QED
    BY <2>1, <2>2 DEF StampFails
<1>5. Knows(t)'
  BY <1>2 DEF IInv, TypeOK, Knows, Undecided
<1> QED
  BY <1>1, <1>4, <1>5 DEF IInv, ThreadInv

\* A commit is new, and carries the token its claim still has (pending.py:
\* find_claim_commit looks for exactly this trailer).
LEMMA LandedPreserves ==
    ASSUME IInv, NEW t \in Threads, pc[t] = "commit", Landed(t),
           UNCHANGED <<live, rejected, clock>>,
           \A q \in Pids :
               /\ claim[q] = None <=> claim'[q] = None
               /\ claim[q] # None =>
                      /\ claim'[q].tok = claim[q].tok
                      /\ claim'[q].ctx = claim[q].ctx
                      /\ claim'[q].outcome \in {claim[q].outcome, "unknown"}
    PROVE  /\ RejectInv' /\ CommitInv'
           /\ \A c \in commits' : c.tok <= clock' /\ (c.id \in Pids => c.tok > 0)
<1> DEFINE c == [id |-> job[t], tok |-> token[t]]
<1>1. /\ job[t] \in Writes /\ job[t] # None /\ Uncommitted(job[t])
      /\ job[t] \in Pids =>
             /\ job[t] \notin live /\ claim[job[t]] # None
             /\ claim[job[t]].tok = token[t] /\ token[t] > 0
             /\ claim[job[t]].ctx # "none" /\ claim[job[t]].outcome = "none"
             /\ claim[job[t]].ctx = "branch" => RefOf[job[t]] \notin detached
  <2>1. job[t] \in Writes /\ job[t] # None /\ Knows(t)
    BY ConstantsAssumption DEF IInv, JobInv, ThreadInv
  <2> QED
    BY <2>1 DEF Knows, Undecided, Owns
<1>2. /\ commits' = commits \cup {c} /\ onref \subseteq onref'
      /\ RefOf[job[t]] \notin detached => c \in onref'
      /\ c.id = job[t] /\ c.tok = token[t]
      /\ token[t] <= clock
  BY DEF Landed, IInv, TokenInv
<1>3. job[t] \notin rejected
  BY <1>1 DEF IInv, TypeOK, RejectInv, InFlight
<1> HIDE DEF c
<1>4. RejectInv'
  BY <1>2, <1>3 DEF IInv, RejectInv, InFlight, Uncommitted, TypeOK
<1>5. AtMostOneCommit'
  BY <1>1, <1>2 DEF IInv, CommitInv, AtMostOneCommit, Uncommitted
<1>6. \A d \in commits' :
        d.id \in Pids =>
            /\ d.id \notin live'
            /\ claim'[d.id] # None =>
                   /\ claim'[d.id].tok = d.tok
                   /\ claim'[d.id].ctx # "none"
                   /\ claim'[d.id].outcome # "failed"
                   /\ claim'[d.id].ctx = "branch" => d \in onref'
  BY <1>1, <1>2 DEF IInv, CommitInv
<1>7. \A p \in Pids :
        claim'[p] # None /\ claim'[p].outcome = "committed" => CommitOf(p)' \in commits'
  BY <1>2 DEF IInv, CommitInv, CommitOf
<1>8. \A d \in commits' : d.tok <= clock' /\ (d.id \in Pids => d.tok > 0)
  BY <1>1, <1>2 DEF IInv, TokenInv
<1> QED
  BY <1>4, <1>5, <1>6, <1>7, <1>8 DEF CommitInv

\* An outcome reaches the record of the claim a thread owns and no other.
LEMMA RecordOutcomeClaim ==
    ASSUME IInv, NEW t \in Threads, job[t] \in Pids, NEW o \in Outcomes, RecordOutcome(t, o)
    PROVE  /\ claim' \in [Pids -> ClaimRecord \cup {None}]
           /\ \A q \in Pids :
                /\ claim[q] = None <=> claim'[q] = None
                /\ claim[q] # None =>
                       /\ claim'[q].tok = claim[q].tok
                       /\ claim'[q].ctx = claim[q].ctx
                       /\ claim'[q].outcome \in {claim[q].outcome, o}
           /\ \A q \in Pids \ {job[t]} : claim'[q] = claim[q]
<1>1. claim \in [Pids -> ClaimRecord \cup {None}]
  BY DEF IInv, TypeOK
<1>2. CASE UNCHANGED claim
  BY <1>1, <1>2
<1>3. CASE Owns(t) /\ claim' = [claim EXCEPT ![job[t]] = Sidecar(@.tok, @.aged, @.ctx, o)]
  <2> DEFINE s == Sidecar(claim[job[t]].tok, claim[job[t]].aged, claim[job[t]].ctx, o)
  <2>1. /\ s \in ClaimRecord /\ s # None
        /\ s.tok = claim[job[t]].tok /\ s.ctx = claim[job[t]].ctx /\ s.outcome = o
    <3>1. /\ claim[job[t]].tok \in Nat /\ claim[job[t]].aged \in BOOLEAN
          /\ claim[job[t]].ctx \in Contexts
      BY <1>3, ClaimFields DEF Owns, IInv
    <3> QED
      BY <3>1, SidecarFields
  <2>2. claim' = [claim EXCEPT ![job[t]] = s] /\ claim[job[t]] # None
    BY <1>3 DEF Owns
  <2> HIDE DEF s
  <2> QED
    BY <1>1, <2>1, <2>2
<1> QED
  BY <1>2, <1>3 DEF RecordOutcome

\* The commit lands for the claim the thread owns.
LEMMA GitCommitPreserves ==
    ASSUME IInv, NEW t \in Threads, GitCommit(t)
    PROVE  IInv'
<1>1. TypeOK' /\ SerializerInv' /\ JobInv' /\ FreshInv' /\ LockInv' /\ ThreadInv'
  BY ConstantsAssumption DEF Writes, Outcomes, ClaimRecord, files, sweeping, Commit,
     Locations, TypeOK, Owns, CommitOf, Goto, Landed, GitCommit, InFlight,
     AtMostOneCommit, PathProtected, Inside, Undecided, SerializerInv, JobInv, TokenInv,
     Uncommitted, FreshInv, LockInv, RejectInv, CommitInv, Knows, ThreadInv, IInv
<1>2. /\ pc[t] = "commit" /\ Landed(t)
      /\ UNCHANGED <<live, claim, rejected, clock, token>>
  BY DEF GitCommit, files
<1>3. /\ RejectInv' /\ CommitInv'
      /\ \A c \in commits' : c.tok <= clock' /\ (c.id \in Pids => c.tok > 0)
  BY <1>2, LandedPreserves
<1>4. TokenInv'
  BY <1>2, <1>3 DEF IInv, TokenInv
<1> QED
  BY <1>1, <1>3, <1>4 DEF IInv

\* The commit may exist although nobody saw it: the claim keeps its evidence.
LEMMA GitCommitKilledPreserves ==
    ASSUME IInv, NEW t \in Threads, GitCommitKilled(t)
    PROVE  IInv'
<1>1. TypeOK' /\ SerializerInv' /\ JobInv' /\ FreshInv' /\ LockInv' /\ ThreadInv'
  BY ConstantsAssumption DEF Writes, Outcomes, ClaimRecord, repo, sweeping, Commit,
     Locations, TypeOK, Sidecar, Owns, ReleaseOwnedBy, CommitOf, Fault, Goto, Leave,
     RecordOutcome, Abandon, UnknownWrite, Landed, GitCommitKilled, InFlight,
     AtMostOneCommit, PathProtected, Inside, Undecided, SerializerInv, JobInv, TokenInv,
     Uncommitted, FreshInv, LockInv, RejectInv, CommitInv, Knows, ThreadInv, IInv
<1>2. /\ pc[t] = "commit"
      /\ Landed(t) \/ UNCHANGED <<commits, onref>>
      /\ UNCHANGED <<live, rejected, clock>>
      /\ token' = [token EXCEPT ![t] = 0]
      /\ IF job[t] \in Pids THEN RecordOutcome(t, "unknown") ELSE UNCHANGED claim
  BY DEF GitCommitKilled, repo, UnknownWrite, Abandon, Leave
<1>3. \A q \in Pids :
        /\ claim[q] = None <=> claim'[q] = None
        /\ claim[q] # None =>
               /\ claim'[q].tok = claim[q].tok
               /\ claim'[q].ctx = claim[q].ctx
               /\ claim'[q].outcome \in {claim[q].outcome, "unknown"}
  <2>1. "unknown" \in Outcomes
    BY DEF Outcomes
  <2> QED
    BY <1>2, <2>1, RecordOutcomeClaim
<1>4. /\ RejectInv' /\ CommitInv'
      /\ \A c \in commits' : c.tok <= clock' /\ (c.id \in Pids => c.tok > 0)
  <2>1. CASE Landed(t)
    BY <1>2, <1>3, <2>1, LandedPreserves
  <2>2. CASE UNCHANGED <<commits, onref>>
    <3>1. RejectInv'
      BY <1>2, <1>3, <2>2 DEF IInv, TypeOK, RejectInv, InFlight, Uncommitted
    <3>2. CommitInv'
      BY <1>2, <1>3, <2>2 DEF IInv, CommitInv, AtMostOneCommit, CommitOf
    <3> QED
      BY <1>2, <2>2, <3>1, <3>2 DEF IInv, TokenInv
  <2> QED
    BY <1>2, <2>1, <2>2
<1>5. TokenInv'
  BY <1>2, <1>3, <1>4 DEF IInv, TypeOK, TokenInv
<1> QED
  BY <1>1, <1>4, <1>5 DEF IInv

\* Removing or rewriting the claim of one entry leaves alone what the threads
\* outside the serializer know, when none of them is the entry's resolver.
LEMMA OtherClaims ==
    ASSUME IInv, NEW t \in Threads, pc[t] \in Inside, NEW p \in Pids,
           \A q \in Pids \ {p} : claim'[q] = claim[q],
           \A u \in Threads \ {t} : ~(pc[u] = "claimed" /\ job[u] = p),
           live' \subseteq live, UNCHANGED commits,
           \A u \in Threads \ {t} :
               pc'[u] = pc[u] /\ job'[u] = job[u] /\ token'[u] = token[u]
    PROVE  \A u \in Threads \ {t} : Knows(u)'
<1> SUFFICES ASSUME NEW u \in Threads \ {t}
             PROVE  Knows(u)'
  OBVIOUS
<1>1. Knows(u) /\ pc[u] \in {"idle", "down", "enqueue", "claimed", "restore"}
  BY Serialized DEF IInv, ThreadInv
<1>2. pc[u] = "claimed" /\ job[u] \in Pids => claim'[job[u]] = claim[job[u]]
  OBVIOUS
<1> QED
  BY <1>1, <1>2, Bystander DEF Knows, Undecided, Owns, Uncommitted

\* reject consumes the entry; no resolver owns it.
LEMMA RejectFinishClaimPreserves ==
    ASSUME IInv, NEW t \in Threads, RejectFinishClaim(t)
    PROVE  IInv'
<1>1. TypeOK' /\ SerializerInv' /\ JobInv' /\ TokenInv' /\ FreshInv' /\ LockInv'
  BY ConstantsAssumption DEF Writes, Outcomes, ClaimRecord, repo, sweeping, Commit,
     Locations, TypeOK, Fault, NoFault, Goto, Leave, RejectFinishClaim, InFlight,
     PathProtected, Inside, SerializerInv, JobInv, TokenInv, Uncommitted, FreshInv,
     LockInv, ThreadInv, IInv
<1>9. CommitInv'
  BY ConstantsAssumption DEF Writes, Outcomes, ClaimRecord, repo, sweeping, Commit,
     Locations, TypeOK, Owns, CommitOf, Fault, NoFault, Goto, Leave, RejectFinishClaim,
     InFlight, AtMostOneCommit, PathProtected, Inside, Undecided, SerializerInv, JobInv,
     TokenInv, Uncommitted, FreshInv, LockInv, RejectInv, CommitInv, Knows, ThreadInv,
     IInv
<1> DEFINE j == job[t]
<1>2. /\ pc[t] = "reject_claim" /\ j \in Pids /\ j \notin live /\ Uncommitted(j)
      /\ claim[j] # None
      /\ \A u \in Threads : token[u] > 0 => token[u] # claim[j].tok
  BY DEF RejectFinishClaim, IInv, JobInv, ThreadInv, Knows
<1>3. /\ claim' = [claim EXCEPT ![j] = None]
      /\ rejected' = rejected \cup {j}
      /\ UNCHANGED <<live, commits>>
      /\ \A u \in Threads \ {t} :
           pc'[u] = pc[u] /\ job'[u] = job[u] /\ token'[u] = token[u]
      /\ \/ pc'[t] = "reject_lock" /\ job'[t] = j
         \/ pc'[t] = "idle"
  BY DEF RejectFinishClaim, Goto, Leave, repo, IInv, TypeOK
<1> HIDE DEF j
<1>4. claim'[j] = None /\ \A q \in Pids \ {j} : claim'[q] = claim[q]
  BY <1>2, <1>3 DEF IInv, TypeOK
<1>5. RejectInv'
  BY <1>2, <1>3, <1>4 DEF IInv, TypeOK, RejectInv, InFlight, Uncommitted
<1>6. \A u \in Threads \ {t} : ~(pc[u] = "claimed" /\ job[u] = j)
  <2> SUFFICES ASSUME NEW u \in Threads, pc[u] = "claimed", job[u] = j
               PROVE  FALSE
    OBVIOUS
  <2>1. token[u] > 0 /\ claim[j].tok = token[u]
    BY <1>2 DEF IInv, ThreadInv, Knows, Undecided, Owns
  <2> QED
    BY <1>2, <2>1
<1>7. \A u \in Threads \ {t} : Knows(u)'
  BY <1>2, <1>3, <1>4, <1>6, OtherClaims DEF Inside, Locations
<1>8. Knows(t)'
  BY <1>2, <1>3, <1>4 DEF Knows, Undecided, InFlight
<1> QED
  BY <1>1, <1>5, <1>7, <1>8, <1>9 DEF IInv, ThreadInv

\* _claim: a live entry has no resolver yet.
LEMMA ClaimPreserves ==
    ASSUME IInv, NEW t \in Threads, NEW p \in Pids, ResolveClaim(t, p) \/ RejectClaim(t, p)
    PROVE  IInv'
<1>2. /\ pc[t] = "idle" /\ serializer = None /\ p \in live
      /\ live' = live \ {p}
      /\ claim' = [claim EXCEPT ![p] = Unstamped]
      /\ UNCHANGED commits
      /\ \A u \in Threads \ {t} :
           pc'[u] = pc[u] /\ job'[u] = job[u] /\ token'[u] = token[u]
      /\ pc'[t] \in {"resolve_stamp", "reject_stamp"} /\ job'[t] = p
      /\ token' = token
  BY DEF ResolveClaim, RejectClaim, Claim, Enter, Goto, repo, IInv, TypeOK
<1>3. /\ Unstamped \in ClaimRecord /\ Unstamped # None
      /\ Unstamped.tok = 0 /\ Unstamped.outcome = "none"
  <2>1. Unstamped \in ClaimRecord
    BY DEF Unstamped, Sidecar, ClaimRecord, Outcomes, Contexts
  <2> QED
    BY <2>1, ConstantsAssumption DEF Unstamped, Sidecar
<1>4. claim'[p] = Unstamped /\ \A q \in Pids \ {p} : claim'[q] = claim[q]
  BY <1>2 DEF IInv, TypeOK
<1>1. /\ TypeOK' /\ SerializerInv' /\ JobInv' /\ TokenInv' /\ FreshInv' /\ LockInv'
      /\ RejectInv' /\ CommitInv'
  <2>0. \A q \in Pids : InFlight(q)' <=> InFlight(q)
    BY <1>2, <1>3, <1>4 DEF InFlight
  <2>1. TypeOK' /\ SerializerInv' /\ JobInv'
    BY <1>2, <1>3, <1>4, ConstantsAssumption
       DEF ResolveClaim, RejectClaim, Claim, Enter, Goto, repo, sweeping, Writes, Locations,
           TypeOK, Inside, SerializerInv, JobInv, IInv
  <2>2. TokenInv'
    BY <1>2, <1>3, <1>4 DEF ResolveClaim, RejectClaim, Claim, repo, TypeOK, TokenInv, IInv
  <2>3. FreshInv' /\ LockInv' /\ RejectInv'
    BY <1>2, <1>4, <2>0, ConstantsAssumption
       DEF ResolveClaim, RejectClaim, Claim, repo, Writes, TypeOK, Uncommitted, FreshInv,
           PathProtected, LockInv, RejectInv, InFlight, IInv
  <2>4. CommitInv'
    BY <1>2, <1>3, <1>4
       DEF ResolveClaim, RejectClaim, Claim, repo, TypeOK, AtMostOneCommit, CommitOf,
           CommitInv, IInv
  <2> QED
    BY <2>1, <2>2, <2>3, <2>4
<1>5. ASSUME NEW u \in Threads \ {t}
      PROVE  Knows(u)'
  <2>1. /\ Knows(u)
        /\ pc[u] \in {"idle", "down", "enqueue", "claimed", "restore"}
    BY <1>2, ConstantsAssumption DEF IInv, TypeOK, ThreadInv, SerializerInv, Inside, Locations
  <2>2. pc[u] = "claimed" /\ job[u] \in Pids => job[u] # p
    BY <1>2, <2>1 DEF Knows, Undecided
  <2> QED
    BY <1>2, <1>4, <2>1, <2>2, Bystander DEF Knows, Undecided, Owns, Uncommitted
<1>6. Uncommitted(p)
  BY <1>2 DEF IInv, CommitInv, Uncommitted
<1>7. \A u \in Threads : token[u] \in Nat
  BY DEF IInv, TypeOK
<1>8. Knows(t)'
  BY <1>2, <1>3, <1>4, <1>6, <1>7 DEF Knows, Undecided, Uncommitted
<1> QED
  BY <1>1, <1>5, <1>8 DEF IInv, ThreadInv

\* finalize_resolve: the resolver consumes its own claim, and nobody else holds
\* a token that matches it.
LEMMA ResolverOfClaim ==
    ASSUME IInv, NEW t \in Threads, pc[t] \in Inside, job[t] \in Pids, Owns(t), token[t] > 0
    PROVE  \A u \in Threads \ {t} : ~(pc[u] = "claimed" /\ job[u] = job[t])
<1> SUFFICES ASSUME NEW u \in Threads, pc[u] = "claimed", job[u] = job[t]
             PROVE  u = t
  OBVIOUS
<1>1. claim[job[t]].tok = token[t] /\ claim[job[t]].tok = token[u]
  BY DEF IInv, ThreadInv, Knows, Undecided, Owns
<1> QED
  BY <1>1 DEF IInv, TokenInv

\* restore_resolve and the sweep's restore: the entry is live again before its
\* claim goes, so no resolver has it.
LEMMA RestoreRemovePreserves ==
    ASSUME IInv, NEW t \in Threads, RestoreRemove(t)
    PROVE  IInv'
<1>1. /\ TypeOK' /\ SerializerInv' /\ JobInv' /\ TokenInv' /\ FreshInv' /\ LockInv'
      /\ RejectInv' /\ CommitInv'
  BY ConstantsAssumption DEF Writes, Outcomes, ClaimRecord, repo, sweeping, Commit,
     Locations, TypeOK, Owns, CommitOf, Goto, Leave, RestoreRemove, InFlight,
     AtMostOneCommit, PathProtected, Inside, Undecided, SerializerInv, JobInv, TokenInv,
     Uncommitted, FreshInv, LockInv, RejectInv, CommitInv, Knows, ThreadInv, IInv
<1> DEFINE j == job[t]
<1>2. pc[t] \in Inside /\ j \in Pids /\ j \in live
  BY DEF RestoreRemove, IInv, JobInv, ThreadInv, Knows, Inside, Locations
<1>3. /\ claim' = [claim EXCEPT ![j] = None]
      /\ UNCHANGED <<live, commits>>
      /\ pc'[t] = "idle"
      /\ \A u \in Threads \ {t} :
           pc'[u] = pc[u] /\ job'[u] = job[u] /\ token'[u] = token[u]
  BY DEF RestoreRemove, Leave, Goto, repo, IInv, TypeOK
<1> HIDE DEF j
<1>4. \A q \in Pids \ {j} : claim'[q] = claim[q]
  BY <1>2, <1>3 DEF IInv, TypeOK
<1>5. \A u \in Threads \ {t} : ~(pc[u] = "claimed" /\ job[u] = j)
  BY <1>2 DEF IInv, ThreadInv, Knows, Undecided
<1>6. \A u \in Threads \ {t} : Knows(u)'
  BY <1>2, <1>3, <1>4, <1>5, OtherClaims
<1>7. Knows(t)'
  BY <1>3 DEF Knows, Undecided
<1> QED
  BY <1>1, <1>6, <1>7 DEF IInv, ThreadInv

\* The sweep restored the entry before it removes the claim.
LEMMA SweepRestoreRemovePreserves ==
    ASSUME IInv, NEW t \in Threads, SweepRestoreRemove(t)
    PROVE  IInv'
<1>1. TypeOK' /\ SerializerInv' /\ JobInv' /\ TokenInv' /\ FreshInv'
  <2>1. cur \in Pids
    BY DEF SweepRestoreRemove, IInv, TypeOK, ThreadInv, Knows
  <2> QED
    BY <2>1, ConstantsAssumption DEF Writes, Outcomes, ClaimRecord, repo, Commit,
       Locations, TypeOK, Goto, SweptOne, SweepRestoreRemove, InFlight, Inside,
       SerializerInv, JobInv, TokenInv, Uncommitted, FreshInv, IInv
<1>9. LockInv' /\ RejectInv' /\ CommitInv'
  BY ConstantsAssumption DEF Writes, Outcomes, ClaimRecord, repo, Commit, Locations,
     TypeOK, Owns, CommitOf, Goto, SweptOne, SweepRestoreRemove, InFlight,
     AtMostOneCommit, PathProtected, Inside, Undecided, SerializerInv, JobInv, TokenInv,
     Uncommitted, FreshInv, LockInv, RejectInv, CommitInv, Knows, ThreadInv, IInv
<1> DEFINE j == cur
<1>2. pc[t] = "sweep_remove" /\ pc[t] \in Inside /\ j \in Pids /\ j \in live
  BY DEF SweepRestoreRemove, IInv, TypeOK, ThreadInv, Knows, Inside, Locations
<1>3. /\ claim' = [claim EXCEPT ![j] = None]
      /\ UNCHANGED <<live, commits, job, token>>
      /\ pc' = [pc EXCEPT ![t] = "sweep"]
      /\ \A u \in Threads \ {t} : pc'[u] = pc[u]
  BY DEF SweepRestoreRemove, SweptOne, Goto, repo, IInv, TypeOK
<1> HIDE DEF j
<1>4. \A q \in Pids \ {j} : claim'[q] = claim[q]
  BY <1>2, <1>3 DEF IInv, TypeOK
<1>5. \A u \in Threads : pc[u] \in Undecided /\ job[u] \in Pids => job[u] # j
  BY <1>2 DEF IInv, ThreadInv, Knows
<1>6. \A u \in Threads \ {t} : Knows(u)'
  BY <1>2, <1>3, <1>4, <1>5, OtherClaims DEF Undecided
<1>7. Knows(t)'
  <2>1. Knows(t) /\ pc'[t] = "sweep"
    BY <1>3 DEF IInv, TypeOK, ThreadInv
  <2>2. job[t] \in Pids => claim'[job[t]] = claim[job[t]]
    BY <1>2, <1>4, <1>5 DEF Undecided
  <2> QED
    BY <1>2, <1>3, <2>1, <2>2 DEF Knows, Undecided, Owns, Uncommitted
<1> QED
  BY <1>1, <1>6, <1>7, <1>9 DEF IInv, ThreadInv

\* A recorded commit, or one found on the branch: no resolver is undecided
\* about that entry any more.
LEMMA SweepFinalizePreserves ==
    ASSUME IInv, NEW t \in Threads, NEW p \in Pids, SweepFinalize(t, p)
    PROVE  IInv'
<1>1. /\ TypeOK' /\ SerializerInv' /\ JobInv' /\ TokenInv' /\ FreshInv' /\ LockInv'
      /\ RejectInv' /\ CommitInv'
  BY ConstantsAssumption DEF Writes, Outcomes, ClaimRecord, repo, Commit, Locations,
     TypeOK, Owns, CommitOf, find_claim_commit, Goto, SweepFinalize, InFlight,
     AtMostOneCommit, PathProtected, Inside, Undecided, SerializerInv, JobInv, TokenInv,
     Uncommitted, FreshInv, LockInv, RejectInv, CommitInv, Knows, ThreadInv, IInv
<1>2. ThreadInv'
  BY ConstantsAssumption, Serialized DEF Writes, Outcomes, ClaimRecord, repo, Commit,
     Locations, TypeOK, Owns, CommitOf, find_claim_commit, Goto, SweepFinalize, InFlight,
     AtMostOneCommit, PathProtected, Inside, Undecided, SerializerInv, JobInv, TokenInv,
     Uncommitted, FreshInv, LockInv, RejectInv, CommitInv, Knows, ThreadInv, IInv
<1> QED
  BY <1>1, <1>2 DEF IInv

\* _ClaimRecorder.context: only the resolver's own claim changes.
LEMMA RecordContextPreserves ==
    ASSUME IInv, NEW t \in Threads, RecordContext(t)
    PROVE  IInv'
<1>0. PICK ctx \in {HeadName(RefOf[job[t]]), "blank"} :
          claim' = [claim EXCEPT ![job[t]] = Sidecar(@.tok, @.aged, ctx, @.outcome)]
  BY DEF RecordContext
<1>01. ctx \in Contexts /\ ctx # "none" /\ (ctx = "branch" => RefOf[job[t]] \notin detached)
  BY DEF HeadName, Contexts
<1> DEFINE j == job[t]
           s == Sidecar(claim[j].tok, claim[j].aged, ctx, claim[j].outcome)
<1>2. /\ pc[t] = "context" /\ pc[t] \in Inside /\ j \in Pids /\ Owns(t) /\ token[t] > 0
      /\ claim[j].tok = token[t] /\ claim[j].outcome = "none" /\ j \notin live
      /\ Uncommitted(j) /\ claim[j] # None
  <2>1. pc[t] = "context" /\ j \in Pids /\ j # None /\ Knows(t)
    BY ConstantsAssumption DEF RecordContext, IInv, JobInv, ThreadInv, Writes
  <2> QED
    BY <2>1 DEF Knows, Undecided, Owns, Inside, Locations
<1>3. s \in ClaimRecord /\ s # None /\ s.tok = token[t] /\ s.ctx = ctx /\ s.outcome = "none"
  <2>1. claim[j] \in ClaimRecord
    BY <1>2, ClaimFields DEF Owns, IInv
  <2> QED
    BY <1>01, <1>2, <2>1, SidecarUpdates, SidecarFields DEF ClaimRecord
<1>4. /\ claim' = [claim EXCEPT ![j] = s]
      /\ UNCHANGED <<live, commits, detached, job, token>>
      /\ pc' = [pc EXCEPT ![t] = "add"]
  BY <1>0 DEF RecordContext, Goto, repo
<1> HIDE DEF j, s
<1>5. /\ claim'[j] = s /\ \A q \in Pids \ {j} : claim'[q] = claim[q]
      /\ pc'[t] = "add" /\ \A u \in Threads \ {t} : pc'[u] = pc[u]
  BY <1>2, <1>4 DEF IInv, TypeOK
<1>1. /\ TypeOK' /\ SerializerInv' /\ JobInv' /\ TokenInv' /\ FreshInv' /\ LockInv'
      /\ RejectInv' /\ CommitInv'
  <2>0. /\ \A q \in Pids : InFlight(q)' <=> InFlight(q)
        /\ \A q \in Pids : claim'[q] # None => claim'[q].tok = claim[q].tok
    BY <1>2, <1>3, <1>4, <1>5 DEF InFlight
  <2>1. TypeOK' /\ SerializerInv' /\ JobInv'
    BY <1>3, <1>4, <1>5, ConstantsAssumption
       DEF RecordContext, Fault, NoFault, repo, sweeping, Writes, Locations, TypeOK, Inside,
           SerializerInv, JobInv, IInv, j
  <2>2. TokenInv'
    <3>1. /\ UNCHANGED <<clock, commits, token>>
          /\ \A q \in Pids : claim'[q] # None => claim[q] # None
      BY <1>4, <2>0, <1>2, <1>5 DEF RecordContext, InFlight, repo
    <3> QED
      BY <2>0, <3>1 DEF TokenInv, IInv
  <2>5. FreshInv'
    <3>1. UNCHANGED <<commits, job, rejected, drawn>>
      BY <1>4 DEF RecordContext
    <3>2. \A u \in Threads :
            pc'[u] \in {"enqueue", "enqueue_write"} => pc[u] \in {"enqueue", "enqueue_write"}
      BY <1>5
    <3>3. \A u \in Threads : pc[u] \in {"enqueue", "enqueue_write"} => job[u] \in Pids
      BY DEF JobInv, IInv
    <3> QED
      BY <2>0, <3>1, <3>2, <3>3 DEF FreshInv, Uncommitted, IInv
  <2>4. LockInv' /\ RejectInv'
    BY <1>4, <1>5, <2>0
       DEF RecordContext, repo, TypeOK, Uncommitted, PathProtected, LockInv, RejectInv, IInv
  <2>3. CommitInv'
    BY <1>2, <1>3, <1>4, <1>5
       DEF RecordContext, repo, TypeOK, AtMostOneCommit, CommitOf, Uncommitted, CommitInv,
           IInv
  <2> QED
    BY <2>1, <2>2, <2>3, <2>4, <2>5
<1>6. \A u \in Threads \ {t} : ~(pc[u] = "claimed" /\ job[u] = j)
  BY <1>2, ResolverOfClaim DEF j
<1>7. \A u \in Threads \ {t} : Knows(u)'
  BY <1>2, <1>4, <1>5, <1>6, OtherClaims
<1>8. Knows(t)'
  BY <1>01, <1>2, <1>3, <1>4, <1>5 DEF j, Knows, Undecided, Owns, Uncommitted
<1> QED
  BY <1>1, <1>7, <1>8 DEF IInv, ThreadInv

\* finalize_resolve: the resolver consumes its own claim.
LEMMA FinishClaimPreserves ==
    ASSUME IInv, NEW t \in Threads, FinishClaim(t)
    PROVE  IInv'
<1>1. /\ TypeOK' /\ SerializerInv' /\ JobInv' /\ TokenInv' /\ FreshInv' /\ LockInv'
      /\ RejectInv' /\ CommitInv'
  BY ConstantsAssumption DEF Writes, Outcomes, ClaimRecord, repo, sweeping, Commit,
     Locations, TypeOK, Owns, CommitOf, Goto, FinishClaim, InFlight, AtMostOneCommit,
     PathProtected, Inside, Undecided, SerializerInv, JobInv, TokenInv, Uncommitted,
     FreshInv, LockInv, RejectInv, CommitInv, Knows, ThreadInv, IInv
<1> DEFINE j == job[t]
<1>2. /\ pc[t] = "finish_claim" /\ pc[t] \in Inside /\ j \in Pids /\ Owns(t)
      /\ j \notin live
  BY DEF FinishClaim, IInv, JobInv, ThreadInv, Knows, CommitInv, CommitOf, Inside, Locations
<1>3. token[t] > 0
  BY <1>2 DEF IInv, ThreadInv, Knows, TokenInv, CommitOf, Owns
<1>4. /\ claim' = [claim EXCEPT ![j] = None] \/ claim' = claim
      /\ UNCHANGED <<live, commits>>
      /\ \A u \in Threads \ {t} :
           pc'[u] = pc[u] /\ job'[u] = job[u] /\ token'[u] = token[u]
      /\ pc'[t] = "finish_lock" /\ job'[t] = j /\ claim' = [claim EXCEPT ![j] = None]
  BY DEF FinishClaim, Leave, Goto, repo, IInv, TypeOK
<1> HIDE DEF j
<1>5. \A q \in Pids \ {j} : claim'[q] = claim[q]
  BY <1>2, <1>4 DEF IInv, TypeOK
<1>6. \A u \in Threads \ {t} : ~(pc[u] = "claimed" /\ job[u] = j)
  BY <1>2, <1>3, ResolverOfClaim DEF j
<1>7. \A u \in Threads \ {t} : Knows(u)'
  BY <1>2, <1>4, <1>5, <1>6, OtherClaims
<1>8. Knows(t)'
  BY <1>2, <1>4 DEF IInv, TypeOK, Knows, Undecided, InFlight
<1> QED
  BY <1>1, <1>7, <1>8 DEF IInv, ThreadInv

\* Its failure leaves the thread idle, the claim there or not.
LEMMA FinishClaimFailsPreserves ==
    ASSUME IInv, NEW t \in Threads, FinishClaimFails(t)
    PROVE  IInv'
<1>1. /\ TypeOK' /\ SerializerInv' /\ JobInv' /\ TokenInv' /\ FreshInv' /\ LockInv'
      /\ RejectInv' /\ CommitInv'
  BY ConstantsAssumption, SMTT(30) DEF Writes, Outcomes, ClaimRecord, repo, sweeping,
     Commit, Locations, TypeOK, Owns, CommitOf, Fault, Goto, Leave, FinishClaimFails,
     InFlight, AtMostOneCommit, PathProtected, Inside, Undecided, SerializerInv, JobInv,
     TokenInv, Uncommitted, FreshInv, LockInv, RejectInv, CommitInv, Knows, ThreadInv,
     IInv
<1> DEFINE j == job[t]
<1>2. /\ pc[t] = "finish_claim" /\ pc[t] \in Inside /\ j \in Pids /\ Owns(t)
      /\ j \notin live
  BY DEF FinishClaimFails, IInv, JobInv, ThreadInv, Knows, CommitInv, CommitOf, Inside, Locations
<1>3. token[t] > 0
  BY <1>2 DEF IInv, ThreadInv, Knows, TokenInv, CommitOf, Owns
<1>4. /\ claim' = [claim EXCEPT ![j] = None] \/ claim' = claim
      /\ UNCHANGED <<live, commits>>
      /\ \A u \in Threads \ {t} :
           pc'[u] = pc[u] /\ job'[u] = job[u] /\ token'[u] = token[u]
      /\ pc'[t] = "idle"
  BY DEF FinishClaimFails, Leave, Goto, repo, IInv, TypeOK
<1> HIDE DEF j
<1>5. \A q \in Pids \ {j} : claim'[q] = claim[q]
  BY <1>2, <1>4 DEF IInv, TypeOK
<1>6. \A u \in Threads \ {t} : ~(pc[u] = "claimed" /\ job[u] = j)
  BY <1>2, <1>3, ResolverOfClaim DEF j
<1>7. \A u \in Threads \ {t} : Knows(u)'
  BY <1>2, <1>4, <1>5, <1>6, OtherClaims
<1>8. Knows(t)'
  BY <1>2, <1>4 DEF IInv, TypeOK, Knows, Undecided, InFlight
<1> QED
  BY <1>1, <1>7, <1>8 DEF IInv, ThreadInv

\* A claim that grows old is still the same claim.
LEMMA AgePreserves ==
    ASSUME IInv, NEW p \in Pids, Age(p)
    PROVE  IInv'
<1>1. /\ TypeOK' /\ SerializerInv' /\ JobInv' /\ TokenInv' /\ FreshInv' /\ LockInv'
      /\ RejectInv' /\ CommitInv'
  BY ConstantsAssumption, SMTT(30) DEF Writes, Outcomes, ClaimRecord, repo, threads,
     sweeping, Commit, Locations, TypeOK, Sidecar, Owns, CommitOf, Age, InFlight,
     AtMostOneCommit, PathProtected, Inside, Undecided, SerializerInv, JobInv, TokenInv,
     Uncommitted, FreshInv, LockInv, RejectInv, CommitInv, Knows, ThreadInv, IInv
<1> DEFINE s == Sidecar(claim[p].tok, TRUE, claim[p].ctx, claim[p].outcome)
<1>2. /\ claim[p] # None /\ s # None
      /\ s.tok = claim[p].tok /\ s.ctx = claim[p].ctx /\ s.outcome = claim[p].outcome
  BY ClaimFields, SidecarUpdates DEF Age, IInv
<1>3. claim' = [claim EXCEPT ![p] = s]
      /\ UNCHANGED <<live, commits, detached, pc, job, token, cur>>
  BY DEF Age, repo, threads, sweeping
<1> HIDE DEF s
<1>4. claim'[p] = s /\ \A q \in Pids \ {p} : claim'[q] = claim[q]
  BY <1>3 DEF IInv, TypeOK
<1>5. \A q \in Pids :
        /\ claim'[q] = None <=> claim[q] = None
        /\ claim[q] # None =>
               /\ claim'[q].tok = claim[q].tok
               /\ claim'[q].ctx = claim[q].ctx
               /\ claim'[q].outcome = claim[q].outcome
  BY <1>2, <1>4
<1>6. ASSUME NEW t \in Threads
      PROVE  Knows(t)'
  <2>1. Knows(t) /\ (pc[t] \in {"resolve_stamp", "reject_stamp", "reject_claim"} => job[t] \in Pids)
        /\ (pc[t] \in {"reject_lock", "finish_lock"} => job[t] \in Pids)
    BY DEF IInv, ThreadInv, JobInv
  <2> QED
    BY <1>3, <1>5, <2>1 DEF Knows, Undecided, Owns, Uncommitted, InFlight, CommitOf
<1> QED
  BY <1>1, <1>6 DEF IInv, ThreadInv

\* The lock goes to an id nothing on disk or in memory knows yet.
LEMMA EnqueueLockPreserves ==
    ASSUME IInv, NEW t \in Threads, EnqueueLock(t)
    PROVE  IInv'
<1>1. TypeOK' /\ SerializerInv' /\ JobInv' /\ TokenInv' /\ FreshInv'
  BY ConstantsAssumption, SMTT(30) DEF Writes, Outcomes, ClaimRecord, repo, sweeping,
     Commit, Locations, TypeOK, Goto, Leave, Enter, EnqueueLock, InFlight, Inside,
     SerializerInv, JobInv, TokenInv, Uncommitted, FreshInv, IInv
<1>2. LockInv' /\ RejectInv' /\ CommitInv'
  BY ConstantsAssumption, SMTT(30) DEF Writes, Outcomes, ClaimRecord, repo, sweeping,
     Commit, Locations, TypeOK, Owns, CommitOf, Goto, Leave, Enter, EnqueueLock, InFlight,
     AtMostOneCommit, PathProtected, Inside, Undecided, SerializerInv, JobInv, TokenInv,
     Uncommitted, FreshInv, LockInv, RejectInv, CommitInv, Knows, ThreadInv, IInv
<1>3. ThreadInv'
  BY ConstantsAssumption, SMTT(30) DEF Writes, Outcomes, ClaimRecord, repo, sweeping,
     Commit, Locations, TypeOK, Owns, CommitOf, Goto, Leave, Enter, EnqueueLock, InFlight,
     AtMostOneCommit, PathProtected, Inside, Undecided, SerializerInv, JobInv, TokenInv,
     Uncommitted, FreshInv, LockInv, RejectInv, CommitInv, Knows, ThreadInv, IInv
<1> QED
  BY <1>1, <1>2, <1>3 DEF IInv

\* A refused write left the claim and the branch as they were.
LEMMA GatesRejectPreserves ==
    ASSUME IInv, NEW t \in Threads, GatesReject(t)
    PROVE  IInv'
<1>1. TypeOK' /\ SerializerInv' /\ JobInv' /\ TokenInv' /\ FreshInv'
  BY ConstantsAssumption, SMTT(30) DEF Writes, Outcomes, ClaimRecord, repo, sweeping,
     Commit, Locations, TypeOK, ReleaseOwnedBy, Goto, Leave, Abandon, GatesReject,
     InFlight, Inside, SerializerInv, JobInv, TokenInv, Uncommitted, FreshInv, IInv
<1>2. LockInv' /\ RejectInv' /\ CommitInv'
  BY ConstantsAssumption, SMTT(30) DEF Writes, Outcomes, ClaimRecord, repo, sweeping,
     Commit, Locations, TypeOK, Owns, ReleaseOwnedBy, CommitOf, Goto, Leave, Abandon,
     GatesReject, InFlight, AtMostOneCommit, PathProtected, Inside, Undecided,
     SerializerInv, JobInv, TokenInv, Uncommitted, FreshInv, LockInv, RejectInv,
     CommitInv, Knows, ThreadInv, IInv
<1>3. ThreadInv'
  BY ConstantsAssumption, SMTT(30) DEF Writes, Outcomes, ClaimRecord, repo, sweeping,
     Commit, Locations, TypeOK, Owns, ReleaseOwnedBy, CommitOf, Goto, Leave, Abandon,
     GatesReject, InFlight, AtMostOneCommit, PathProtected, Inside, Undecided,
     SerializerInv, JobInv, TokenInv, Uncommitted, FreshInv, LockInv, RejectInv,
     CommitInv, Knows, ThreadInv, IInv
<1> QED
  BY <1>1, <1>2, <1>3 DEF IInv

\* The write has not started: its claim may say "failed".
LEMMA RecordContextFailsPreserves ==
    ASSUME IInv, NEW t \in Threads, RecordContextFails(t)
    PROVE  IInv'
<1>1. TypeOK' /\ SerializerInv' /\ JobInv' /\ TokenInv' /\ FreshInv'
  BY ConstantsAssumption, SMTT(30) DEF Writes, Outcomes, ClaimRecord, repo, sweeping,
     Commit, Locations, TypeOK, Sidecar, Owns, ReleaseOwnedBy, Fault, NoFault, Goto,
     Leave, RecordOutcome, Abandon, FailWrite, RecordContextFails, InFlight, Inside,
     SerializerInv, JobInv, TokenInv, Uncommitted, FreshInv, IInv
<1>2. LockInv' /\ RejectInv' /\ CommitInv'
  BY ConstantsAssumption, SMTT(30) DEF Writes, Outcomes, ClaimRecord, repo, sweeping,
     Commit, Locations, TypeOK, Sidecar, Owns, ReleaseOwnedBy, CommitOf, Fault, NoFault,
     Goto, Leave, RecordOutcome, Abandon, FailWrite, RecordContextFails, InFlight,
     AtMostOneCommit, PathProtected, Inside, Undecided, SerializerInv, JobInv, TokenInv,
     Uncommitted, FreshInv, LockInv, RejectInv, CommitInv, Knows, ThreadInv, IInv
<1>3. ThreadInv'
  BY ConstantsAssumption, SMTT(30) DEF Writes, Outcomes, ClaimRecord, repo, sweeping,
     Commit, Locations, TypeOK, Sidecar, Owns, ReleaseOwnedBy, CommitOf, Fault, NoFault,
     Goto, Leave, RecordOutcome, Abandon, FailWrite, RecordContextFails, InFlight,
     AtMostOneCommit, PathProtected, Inside, Undecided, SerializerInv, JobInv, TokenInv,
     Uncommitted, FreshInv, LockInv, RejectInv, CommitInv, Knows, ThreadInv, IInv
<1> QED
  BY <1>1, <1>2, <1>3 DEF IInv

\* The sweep leaves the serializer or goes on to what it guards.
LEMMA SweepEndPreserves ==
    ASSUME IInv, NEW t \in Threads, SweepEnd(t)
    PROVE  IInv'
<1>1. TypeOK' /\ SerializerInv' /\ JobInv' /\ TokenInv' /\ FreshInv'
  BY ConstantsAssumption, SMTT(30) DEF Writes, Outcomes, ClaimRecord, files, repo, Commit,
     Locations, TypeOK, Goto, Leave, SweepLeave, SweepEnd, InFlight, Inside,
     SerializerInv, JobInv, TokenInv, Uncommitted, FreshInv, IInv
<1>2. LockInv' /\ RejectInv' /\ CommitInv'
  BY ConstantsAssumption, SMTT(30) DEF Writes, Outcomes, ClaimRecord, files, repo, Commit,
     Locations, TypeOK, Owns, CommitOf, Goto, Leave, SweepLeave, SweepEnd, InFlight,
     AtMostOneCommit, PathProtected, Inside, Undecided, SerializerInv, JobInv, TokenInv,
     Uncommitted, FreshInv, LockInv, RejectInv, CommitInv, Knows, ThreadInv, IInv
<1>3. ThreadInv'
  BY ConstantsAssumption, SMTT(30) DEF Writes, Outcomes, ClaimRecord, files, repo, Commit,
     Locations, TypeOK, Owns, CommitOf, Goto, Leave, SweepLeave, SweepEnd, InFlight,
     AtMostOneCommit, PathProtected, Inside, Undecided, SerializerInv, JobInv, TokenInv,
     Uncommitted, FreshInv, LockInv, RejectInv, CommitInv, Knows, ThreadInv, IInv
<1> QED
  BY <1>1, <1>2, <1>3 DEF IInv

\* A failure before the commit never hides a commit.
LEMMA WriteOrAddFailsPreserves ==
    ASSUME IInv, NEW t \in Threads, WriteOrAddFails(t)
    PROVE  IInv'
<1>1. TypeOK' /\ SerializerInv' /\ JobInv' /\ TokenInv' /\ FreshInv'
  BY ConstantsAssumption, SMTT(30) DEF Writes, Outcomes, ClaimRecord, repo, sweeping,
     Commit, Locations, TypeOK, Sidecar, Owns, ReleaseOwnedBy, Fault, Goto, Leave,
     RecordOutcome, Abandon, FailWrite, WriteOrAddFails, InFlight, Inside, SerializerInv,
     JobInv, TokenInv, Uncommitted, FreshInv, IInv
<1>2. LockInv' /\ RejectInv' /\ CommitInv'
  BY ConstantsAssumption, SMTT(30) DEF Writes, Outcomes, ClaimRecord, repo, sweeping,
     Commit, Locations, TypeOK, Sidecar, Owns, ReleaseOwnedBy, CommitOf, Fault, Goto,
     Leave, RecordOutcome, Abandon, FailWrite, WriteOrAddFails, InFlight, AtMostOneCommit,
     PathProtected, Inside, Undecided, SerializerInv, JobInv, TokenInv, Uncommitted,
     FreshInv, LockInv, RejectInv, CommitInv, Knows, ThreadInv, IInv
<1>3. ThreadInv'
  BY ConstantsAssumption, SMTT(30) DEF Writes, Outcomes, ClaimRecord, repo, sweeping,
     Commit, Locations, TypeOK, Sidecar, Owns, ReleaseOwnedBy, CommitOf, Fault, Goto,
     Leave, RecordOutcome, Abandon, FailWrite, WriteOrAddFails, InFlight, AtMostOneCommit,
     PathProtected, Inside, Undecided, SerializerInv, JobInv, TokenInv, Uncommitted,
     FreshInv, LockInv, RejectInv, CommitInv, Knows, ThreadInv, IInv
<1> QED
  BY <1>1, <1>2, <1>3 DEF IInv

\* The commit does not exist, so the entry may be restored.
LEMMA GitCommitDeclinedPreserves ==
    ASSUME IInv, NEW t \in Threads, GitCommitDeclined(t)
    PROVE  IInv'
<1>1. TypeOK' /\ SerializerInv' /\ JobInv' /\ TokenInv' /\ FreshInv'
  BY ConstantsAssumption, SMTT(30) DEF Writes, Outcomes, ClaimRecord, repo, sweeping,
     Commit, Locations, TypeOK, Sidecar, Owns, ReleaseOwnedBy, Goto, Leave, RecordOutcome,
     Abandon, FailWrite, GitCommitDeclined, InFlight, Inside, SerializerInv, JobInv,
     TokenInv, Uncommitted, FreshInv, IInv
<1>2. LockInv' /\ RejectInv' /\ CommitInv'
  BY ConstantsAssumption, SMTT(30) DEF Writes, Outcomes, ClaimRecord, repo, sweeping,
     Commit, Locations, TypeOK, Sidecar, Owns, ReleaseOwnedBy, CommitOf, Goto, Leave,
     RecordOutcome, Abandon, FailWrite, GitCommitDeclined, InFlight, AtMostOneCommit,
     PathProtected, Inside, Undecided, SerializerInv, JobInv, TokenInv, Uncommitted,
     FreshInv, LockInv, RejectInv, CommitInv, Knows, ThreadInv, IInv
<1>3. Knows(t) /\ pc[t] = "commit" /\ pc[t] \in Inside /\ job[t] \in Writes
      /\ UNCHANGED <<live, commits>> /\ FailWrite(t)
  BY DEF GitCommitDeclined, repo, IInv, JobInv, ThreadInv, Inside, Locations
<1>4. CASE job[t] \in Pids
  <2>1. /\ RecordOutcome(t, "failed") /\ pc' = [pc EXCEPT ![t] = "restore"]
        /\ UNCHANGED <<job, token>>
    BY <1>3, <1>4 DEF FailWrite, Goto
  <2>2. \A q \in Pids \ {job[t]} : claim'[q] = claim[q]
    BY <1>4, <2>1, RecordOutcomeClaim DEF Outcomes
  <2>3. Owns(t) /\ token[t] > 0 /\ Uncommitted(job[t])
    BY <1>3, <1>4, ConstantsAssumption DEF Knows, Undecided, Writes
  <2>4. \A u \in Threads \ {t} : pc'[u] = pc[u] /\ job'[u] = job[u] /\ token'[u] = token[u]
    BY <2>1 DEF IInv, TypeOK
  <2>5. \A u \in Threads \ {t} : Knows(u)'
    BY <1>3, <1>4, <2>2, <2>3, <2>4, ResolverOfClaim, OtherClaims
  <2>6. Knows(t)'
    <3>1. pc'[t] = "restore"
      BY <2>1 DEF IInv, TypeOK
    <3>2. [id |-> job[t], tok |-> token[t]] \notin commits
      BY <2>3 DEF Uncommitted
    <3> QED
      BY <1>3, <2>1, <2>3, <3>1, <3>2 DEF Knows, Undecided
  <2> QED
    BY <1>1, <1>2, <2>5, <2>6 DEF IInv, ThreadInv
<1>5. CASE job[t] \notin Pids
  <2>1. claim' = claim /\ pc' = [pc EXCEPT ![t] = "idle"] /\ job' = [job EXCEPT ![t] = None]
        /\ token' = [token EXCEPT ![t] = 0]
    BY <1>3, <1>5 DEF FailWrite, Abandon, Leave, Goto
  <2>2. \A u \in Threads \ {t} : Knows(u)'
    BY <1>3, <2>1, Serialized, Bystander
       DEF IInv, TypeOK, ThreadInv, Knows, Undecided, Owns, Uncommitted
  <2>3. Knows(t)'
    <3>1. pc'[t] = "idle"
      BY <2>1 DEF IInv, TypeOK
    <3> QED
      BY <3>1 DEF Knows, Undecided
  <2> QED
    BY <1>1, <1>2, <2>2, <2>3 DEF IInv, ThreadInv
<1> QED
  BY <1>4, <1>5

\* The recorded outcome has its commit.
LEMMA RecordCommittedPreserves ==
    ASSUME IInv, NEW t \in Threads, RecordCommitted(t)
    PROVE  IInv'
<1>1. TypeOK' /\ SerializerInv' /\ JobInv' /\ TokenInv' /\ FreshInv'
  BY ConstantsAssumption, SMTT(30) DEF Writes, Outcomes, ClaimRecord, repo, sweeping,
     Commit, Locations, TypeOK, Sidecar, Owns, Goto, RecordCommitted, InFlight, Inside,
     SerializerInv, JobInv, TokenInv, Uncommitted, FreshInv, IInv
<1>2. LockInv' /\ RejectInv' /\ CommitInv'
  BY ConstantsAssumption, SMTT(30) DEF Writes, Outcomes, ClaimRecord, repo, sweeping,
     Commit, Locations, TypeOK, Sidecar, Owns, CommitOf, Goto, RecordCommitted, InFlight,
     AtMostOneCommit, PathProtected, Inside, Undecided, SerializerInv, JobInv, TokenInv,
     Uncommitted, FreshInv, LockInv, RejectInv, CommitInv, Knows, ThreadInv, IInv
<1>3. ThreadInv'
  BY ConstantsAssumption, SMTT(30) DEF Writes, Outcomes, ClaimRecord, repo, sweeping,
     Commit, Locations, TypeOK, Sidecar, Owns, CommitOf, Goto, RecordCommitted, InFlight,
     AtMostOneCommit, PathProtected, Inside, Undecided, SerializerInv, JobInv, TokenInv,
     Uncommitted, FreshInv, LockInv, RejectInv, CommitInv, Knows, ThreadInv, IInv
<1> QED
  BY <1>1, <1>2, <1>3 DEF IInv

\* An auto-commit gives up its own path's lock only.
LEMMA AutoDonePreserves ==
    ASSUME IInv, NEW t \in Threads, AutoDone(t)
    PROVE  IInv'
<1>1. TypeOK' /\ SerializerInv' /\ JobInv' /\ TokenInv' /\ FreshInv'
  BY ConstantsAssumption, SMTT(30) DEF Writes, Outcomes, ClaimRecord, repo, sweeping,
     Commit, Locations, TypeOK, ReleaseOwnedBy, Fault, NoFault, Goto, Leave, Abandon,
     AutoDone, InFlight, Inside, SerializerInv, JobInv, TokenInv, Uncommitted, FreshInv,
     IInv
<1>2. LockInv' /\ RejectInv' /\ CommitInv'
  BY ConstantsAssumption, SMTT(30) DEF Writes, Outcomes, ClaimRecord, repo, sweeping,
     Commit, Locations, TypeOK, Owns, ReleaseOwnedBy, CommitOf, Fault, NoFault, Goto,
     Leave, Abandon, AutoDone, InFlight, AtMostOneCommit, PathProtected, Inside,
     Undecided, SerializerInv, JobInv, TokenInv, Uncommitted, FreshInv, LockInv,
     RejectInv, CommitInv, Knows, ThreadInv, IInv
<1>3. ThreadInv'
  BY ConstantsAssumption, SMTT(30) DEF Writes, Outcomes, ClaimRecord, repo, sweeping,
     Commit, Locations, TypeOK, Owns, ReleaseOwnedBy, CommitOf, Fault, NoFault, Goto,
     Leave, Abandon, AutoDone, InFlight, AtMostOneCommit, PathProtected, Inside,
     Undecided, SerializerInv, JobInv, TokenInv, Uncommitted, FreshInv, LockInv,
     RejectInv, CommitInv, Knows, ThreadInv, IInv
<1> QED
  BY <1>1, <1>2, <1>3 DEF IInv

\* A fenced resolver republishes nothing.
LEMMA RestorePreserves ==
    ASSUME IInv, NEW t \in Threads, Restore(t)
    PROVE  IInv'
<1>1. TypeOK' /\ SerializerInv' /\ JobInv' /\ TokenInv' /\ FreshInv'
  BY ConstantsAssumption, SMTT(30) DEF Writes, Outcomes, ClaimRecord, repo, sweeping,
     Commit, Locations, TypeOK, Owns, Goto, Leave, Enter, Restore, InFlight, Inside,
     SerializerInv, JobInv, TokenInv, Uncommitted, FreshInv, IInv
<1>2. LockInv' /\ RejectInv' /\ CommitInv'
  BY ConstantsAssumption, SMTT(30) DEF Writes, Outcomes, ClaimRecord, repo, sweeping,
     Commit, Locations, TypeOK, Owns, CommitOf, Goto, Leave, Enter, Restore, InFlight,
     AtMostOneCommit, PathProtected, Inside, Undecided, SerializerInv, JobInv, TokenInv,
     Uncommitted, FreshInv, LockInv, RejectInv, CommitInv, Knows, ThreadInv, IInv
<1>3. ThreadInv'
  BY ConstantsAssumption, SMTT(30) DEF Writes, Outcomes, ClaimRecord, repo, sweeping,
     Commit, Locations, TypeOK, Owns, CommitOf, Goto, Leave, Enter, Restore, InFlight,
     AtMostOneCommit, PathProtected, Inside, Undecided, SerializerInv, JobInv, TokenInv,
     Uncommitted, FreshInv, LockInv, RejectInv, CommitInv, Knows, ThreadInv, IInv
<1> QED
  BY <1>1, <1>2, <1>3 DEF IInv

\* The lock of the path is free, or nothing happens.
LEMMA AutoCommitPreserves ==
    ASSUME IInv, NEW t \in Threads, NEW w \in Autos, AutoCommit(t, w)
    PROVE  IInv'
<1>1. TypeOK' /\ SerializerInv' /\ JobInv' /\ TokenInv' /\ FreshInv'
  BY ConstantsAssumption, SMTT(30) DEF Writes, Outcomes, ClaimRecord, repo, Commit,
     Locations, TypeOK, Claimed, Goto, Enter, AutoCommit, InFlight, Inside, SerializerInv,
     JobInv, TokenInv, Uncommitted, FreshInv, IInv
<1>2. LockInv' /\ RejectInv' /\ CommitInv'
  BY ConstantsAssumption, SMTT(30) DEF Writes, Outcomes, ClaimRecord, repo, Commit,
     Locations, TypeOK, Claimed, Owns, CommitOf, Goto, Enter, AutoCommit, InFlight,
     AtMostOneCommit, PathProtected, Inside, Undecided, SerializerInv, JobInv, TokenInv,
     Uncommitted, FreshInv, LockInv, RejectInv, CommitInv, Knows, ThreadInv, IInv
<1>3. ThreadInv'
  BY ConstantsAssumption, SMTT(30) DEF Writes, Outcomes, ClaimRecord, repo, Commit,
     Locations, TypeOK, Claimed, Owns, CommitOf, Goto, Enter, AutoCommit, InFlight,
     AtMostOneCommit, PathProtected, Inside, Undecided, SerializerInv, JobInv, TokenInv,
     Uncommitted, FreshInv, LockInv, RejectInv, CommitInv, Knows, ThreadInv, IInv
<1> QED
  BY <1>1, <1>2, <1>3 DEF IInv

\* An exception before the write leaves the claim to reconciliation.
LEMMA GatesRaisePreserves ==
    ASSUME IInv, NEW t \in Threads, GatesRaise(t)
    PROVE  IInv'
<1>1. TypeOK' /\ SerializerInv' /\ JobInv' /\ TokenInv' /\ FreshInv'
  BY ConstantsAssumption, SMTT(30) DEF Writes, Outcomes, ClaimRecord, repo, sweeping,
     Commit, Locations, TypeOK, ReleaseOwnedBy, Fault, Goto, Leave, Abandon, GatesRaise,
     InFlight, Inside, SerializerInv, JobInv, TokenInv, Uncommitted, FreshInv, IInv
<1>2. LockInv' /\ RejectInv' /\ CommitInv'
  BY ConstantsAssumption, SMTT(30) DEF Writes, Outcomes, ClaimRecord, repo, sweeping,
     Commit, Locations, TypeOK, Owns, ReleaseOwnedBy, CommitOf, Fault, Goto, Leave,
     Abandon, GatesRaise, InFlight, AtMostOneCommit, PathProtected, Inside, Undecided,
     SerializerInv, JobInv, TokenInv, Uncommitted, FreshInv, LockInv, RejectInv,
     CommitInv, Knows, ThreadInv, IInv
<1>3. ThreadInv'
  BY ConstantsAssumption, SMTT(30) DEF Writes, Outcomes, ClaimRecord, repo, sweeping,
     Commit, Locations, TypeOK, Owns, ReleaseOwnedBy, CommitOf, Fault, Goto, Leave,
     Abandon, GatesRaise, InFlight, AtMostOneCommit, PathProtected, Inside, Undecided,
     SerializerInv, JobInv, TokenInv, Uncommitted, FreshInv, LockInv, RejectInv,
     CommitInv, Knows, ThreadInv, IInv
<1> QED
  BY <1>1, <1>2, <1>3 DEF IInv

\* The commit stays on record by its trailer.
LEMMA RecordCommittedFailsPreserves ==
    ASSUME IInv, NEW t \in Threads, RecordCommittedFails(t)
    PROVE  IInv'
<1>1. TypeOK' /\ SerializerInv' /\ JobInv' /\ TokenInv' /\ FreshInv'
  BY ConstantsAssumption, SMTT(30) DEF Writes, Outcomes, ClaimRecord, repo, sweeping,
     Commit, Locations, TypeOK, Sidecar, Owns, ReleaseOwnedBy, Fault, Goto, Leave,
     RecordOutcome, Abandon, UnknownWrite, RecordCommittedFails, InFlight, Inside,
     SerializerInv, JobInv, TokenInv, Uncommitted, FreshInv, IInv
<1>2. LockInv' /\ RejectInv' /\ CommitInv'
  BY ConstantsAssumption, SMTT(30) DEF Writes, Outcomes, ClaimRecord, repo, sweeping,
     Commit, Locations, TypeOK, Sidecar, Owns, ReleaseOwnedBy, CommitOf, Fault, Goto,
     Leave, RecordOutcome, Abandon, UnknownWrite, RecordCommittedFails, InFlight,
     AtMostOneCommit, PathProtected, Inside, Undecided, SerializerInv, JobInv, TokenInv,
     Uncommitted, FreshInv, LockInv, RejectInv, CommitInv, Knows, ThreadInv, IInv
<1>3. ThreadInv'
  BY ConstantsAssumption, SMTT(30) DEF Writes, Outcomes, ClaimRecord, repo, sweeping,
     Commit, Locations, TypeOK, Sidecar, Owns, ReleaseOwnedBy, CommitOf, Fault, Goto,
     Leave, RecordOutcome, Abandon, UnknownWrite, RecordCommittedFails, InFlight,
     AtMostOneCommit, PathProtected, Inside, Undecided, SerializerInv, JobInv, TokenInv,
     Uncommitted, FreshInv, LockInv, RejectInv, CommitInv, Knows, ThreadInv, IInv
<1> QED
  BY <1>1, <1>2, <1>3 DEF IInv

\* A rewrite, done or cut short, spares the branches with claims at risk.
LEMMA RewriteKeeps ==
    ASSUME IInv, NEW r \in Refs,
           \/ Rewrite(r) \/ RemoveWorktree(r)
           \/ UNCHANGED <<onref, detached>> \/ CutShort(r)
    PROVE  /\ onref' \subseteq onref /\ detached' \subseteq Refs
           /\ \A c \in onref :
                c.id \in Pids /\ claim[c.id] # None /\ claim[c.id].ctx = "branch" => c \in onref'
           /\ Rewrite(r) \/ RemoveWorktree(r) => faults' \in Nat
<1>1. onref \subseteq commits /\ detached \subseteq Refs /\ faults \in Nat
  BY DEF IInv, TypeOK
<1>2. \A c \in onref :
        c.id \in Pids /\ claim[c.id] # None /\ claim[c.id].ctx = "branch" =>
            c.id \in claims_at_risk(RefOf[c.id])
  BY DEF claims_at_risk, Claimed
<1>3. ASSUME Dropped(r), claims_at_risk(r) = {}
      PROVE  /\ onref' \subseteq onref
             /\ \A c \in onref :
                  c.id \in Pids /\ claim[c.id] # None /\ claim[c.id].ctx = "branch" => c \in onref'
  BY <1>2, <1>3 DEF Dropped
<1> QED
  BY <1>1, <1>3 DEF Rewrite, RemoveWorktree, CutShort, Fault, NoFault

\* The push loop's rebase and the worktree GC.
LEMMA GuardBackgroundPreserves ==
    ASSUME IInv, NEW t \in Threads, NEW r \in Refs, GuardBackground(t, r)
    PROVE  IInv'
<1>0. /\ onref' \subseteq onref /\ detached' \subseteq Refs /\ faults' \in Nat
      /\ \A c \in onref :
           c.id \in Pids /\ claim[c.id] # None /\ claim[c.id].ctx = "branch" => c \in onref'
  BY RewriteKeeps DEF GuardBackground
<1>1. TypeOK' /\ SerializerInv' /\ JobInv' /\ TokenInv' /\ FreshInv'
  BY <1>0, ConstantsAssumption, SMTT(30) DEF Writes, files, sweeping, Locations, TypeOK, Leave,
     Goto, GuardBackground, InFlight, Inside, SerializerInv, JobInv, TokenInv, Uncommitted,
     FreshInv, IInv
<1>2. LockInv' /\ RejectInv' /\ CommitInv'
  <2>1. /\ UNCHANGED <<live, claim, lock, commits, rejected>>
        /\ \A u \in Threads : job'[u] = job[u] \/ job'[u] = None
        /\ \A u \in Threads : pc'[u] = "enqueue_write" => pc[u] = "enqueue_write" /\ job'[u] = job[u]
    BY DEF GuardBackground, Leave, Goto, files, IInv, TypeOK
  <2>2. LockInv' /\ RejectInv'
    BY <2>1, ConstantsAssumption DEF IInv, LockInv, PathProtected, InFlight, RejectInv,
       Uncommitted, Writes
  <2>3. CommitInv'
    BY <1>0, <2>1 DEF IInv, CommitInv, AtMostOneCommit, CommitOf
  <2> QED
    BY <2>2, <2>3
<1>3. ThreadInv'
  <2>1. /\ pc[t] = "guard" /\ pc' = [pc EXCEPT ![t] = "idle"]
        /\ job' = [job EXCEPT ![t] = None] /\ token' = [token EXCEPT ![t] = 0]
        /\ UNCHANGED <<live, claim, commits, cur>>
    BY DEF GuardBackground, Leave, Goto, files, sweeping
  <2>2. \A u \in Threads \ {t} : Knows(u)'
    BY <2>1, Serialized, Bystander
       DEF IInv, TypeOK, ThreadInv, Knows, Undecided, Owns, Uncommitted, Inside, Locations
  <2>3. Knows(t)'
    BY <2>1 DEF IInv, TypeOK, Knows, Undecided
  <2> QED
    BY <2>2, <2>3 DEF ThreadInv
<1> QED
  BY <1>1, <1>2, <1>3 DEF IInv

\* refresh_base of a write.
LEMMA GuardWritePreserves ==
    ASSUME IInv, NEW t \in Threads, GuardWrite(t)
    PROVE  IInv'
<1>0. /\ onref' \subseteq onref /\ detached' \subseteq Refs /\ faults' \in Nat
      /\ \A c \in onref :
           c.id \in Pids /\ claim[c.id] # None /\ claim[c.id].ctx = "branch" => c \in onref'
  <2>1. job[t] \in Writes
    BY DEF GuardWrite, IInv, TypeOK
  <2>2. RefOf[job[t]] \in Refs /\ Rewrite(RefOf[job[t]])
    BY <2>1, ConstantsAssumption DEF GuardWrite
  <2> QED
    BY <2>2, RewriteKeeps
<1>1. TypeOK' /\ SerializerInv' /\ JobInv' /\ TokenInv' /\ FreshInv'
  BY <1>0, ConstantsAssumption, SMTT(30) DEF Writes, files, sweeping, Locations, TypeOK,
     Goto, GuardWrite, InFlight, Inside, SerializerInv, JobInv, TokenInv, Uncommitted,
     FreshInv, IInv
<1>2. LockInv' /\ RejectInv' /\ CommitInv'
  BY <1>0, ConstantsAssumption, SMTT(30) DEF Writes, files, Locations, TypeOK, CommitOf, Goto,
     GuardWrite, InFlight, AtMostOneCommit, PathProtected, Uncommitted, LockInv,
     RejectInv, CommitInv, IInv
<1>3. ThreadInv'
  <2>1. /\ pc[t] = "guard" /\ pc' = [pc EXCEPT ![t] = "gates"]
        /\ UNCHANGED <<live, claim, commits, job, token, cur>>
    BY DEF GuardWrite, Goto, files, sweeping
  <2>2. \A u \in Threads \ {t} : Knows(u)'
    BY <2>1, Serialized, Bystander
       DEF IInv, TypeOK, ThreadInv, Knows, Undecided, Owns, Uncommitted, Inside, Locations
  <2>3. Knows(t)'
    BY <2>1 DEF IInv, TypeOK, ThreadInv, Knows, Undecided, Owns, Uncommitted
  <2> QED
    BY <2>2, <2>3 DEF ThreadInv
<1> QED
  BY <1>1, <1>2, <1>3 DEF IInv

\* The process ends: the threads know nothing any more.
LEMMA CrashPreserves ==
    ASSUME IInv, Crash
    PROVE  IInv'
<1>0. /\ onref' \subseteq onref /\ detached' \subseteq Refs /\ faults' \in Nat
      /\ \A c \in onref :
           c.id \in Pids /\ claim[c.id] # None /\ claim[c.id].ctx = "branch" => c \in onref'
  <2>1. faults' \in Nat
    BY DEF Crash, Fault, IInv, TypeOK
  <2>2. CASE UNCHANGED <<onref, detached>>
    BY <2>1, <2>2 DEF IInv, TypeOK
  <2>3. ASSUME NEW r \in Refs, CutShort(r)
        PROVE  <1>0!:
    BY <2>1, <2>3, RewriteKeeps
  <2> QED
    BY <2>2, <2>3 DEF Crash
<1>1. TypeOK' /\ SerializerInv' /\ JobInv' /\ TokenInv' /\ FreshInv'
  BY <1>0, ConstantsAssumption, SMTT(30) DEF Writes, files, Locations, TypeOK, Crash,
     InFlight, Inside, SerializerInv, JobInv, TokenInv, Uncommitted, FreshInv, IInv
<1>2. LockInv' /\ RejectInv' /\ CommitInv'
  BY <1>0, ConstantsAssumption, SMTT(30) DEF Writes, files, Locations, TypeOK, CommitOf,
     Crash, InFlight, AtMostOneCommit, PathProtected, Uncommitted, LockInv, RejectInv,
     CommitInv, IInv
<1>3. ThreadInv'
  BY DEF Crash, ThreadInv, Knows, Undecided
<1> QED
  BY <1>1, <1>2, <1>3 DEF IInv

\* The id is new.
LEMMA EnqueueBeginPreserves ==
    ASSUME IInv, NEW t \in Threads, NEW p \in Pids, EnqueueBegin(t, p)
    PROVE  IInv'
<1>1. TypeOK' /\ SerializerInv' /\ JobInv' /\ TokenInv' /\ FreshInv'
  BY ConstantsAssumption, SMTT(30) DEF Writes, Outcomes, ClaimRecord, files, repo,
     sweeping, Commit, Locations, TypeOK, Goto, EnqueueBegin, InFlight, Inside,
     SerializerInv, JobInv, TokenInv, Uncommitted, FreshInv, IInv
<1>2. LockInv' /\ RejectInv' /\ CommitInv'
  BY ConstantsAssumption, SMTT(30) DEF Writes, Outcomes, ClaimRecord, files, repo,
     sweeping, Commit, Locations, TypeOK, Owns, CommitOf, Goto, EnqueueBegin, InFlight,
     AtMostOneCommit, PathProtected, Inside, Undecided, SerializerInv, JobInv, TokenInv,
     Uncommitted, FreshInv, LockInv, RejectInv, CommitInv, Knows, ThreadInv, IInv
<1>3. ThreadInv'
  BY ConstantsAssumption, SMTT(30) DEF Writes, Outcomes, ClaimRecord, files, repo,
     sweeping, Commit, Locations, TypeOK, Owns, CommitOf, Goto, EnqueueBegin, InFlight,
     AtMostOneCommit, PathProtected, Inside, Undecided, SerializerInv, JobInv, TokenInv,
     Uncommitted, FreshInv, LockInv, RejectInv, CommitInv, Knows, ThreadInv, IInv
<1> QED
  BY <1>1, <1>2, <1>3 DEF IInv

\* The invariant over the steps of enqueue.
LEMMA EnqueueingPreserves ==
    ASSUME IInv, NEW t \in Threads, Enqueueing(t)
    PROVE  IInv'
<1>1. CASE EnqueueLock(t)
  BY <1>1, EnqueueLockPreserves
<1>2. CASE EnqueueWrite(t)
  BY <1>2, ConstantsAssumption, SMTT(30) DEF Writes, Outcomes, ClaimRecord, repo,
     sweeping, Commit, Locations, TypeOK, Owns, CommitOf, Goto, Leave, EnqueueWrite,
     InFlight, AtMostOneCommit, PathProtected, Inside, Undecided, SerializerInv, JobInv,
     TokenInv, Uncommitted, FreshInv, LockInv, RejectInv, CommitInv, Knows, ThreadInv,
     IInv
<1>3. CASE EnqueueWriteFails(t)
  BY <1>3, ConstantsAssumption, SMTT(30) DEF Writes, Outcomes, ClaimRecord, repo,
     sweeping, Commit, Locations, TypeOK, Owns, CommitOf, Fault, Goto, Leave,
     EnqueueWriteFails, InFlight, AtMostOneCommit, PathProtected, Inside, Undecided,
     SerializerInv, JobInv, TokenInv, Uncommitted, FreshInv, LockInv, RejectInv,
     CommitInv, Knows, ThreadInv, IInv
<1> QED
  BY <1>1, <1>2, <1>3 DEF Enqueueing

\* The invariant over the steps of claim_for_resolve and reject.
LEMMA ClaimingPreserves ==
    ASSUME IInv, NEW t \in Threads, Claiming(t)
    PROVE  IInv'
<1>1. CASE ResolveStamp(t)
  BY <1>1, ResolveStampPreserves
<1>2. CASE RejectStamp(t)
  BY <1>2, RejectStampPreserves
<1>3. CASE StampFails(t)
  BY <1>3, StampFailsPreserves
<1>4. CASE RejectFinishClaim(t)
  BY <1>4, RejectFinishClaimPreserves
<1>5. CASE RejectFinishLock(t)
  BY <1>5, RejectFinishLockPreserves
<1> QED
  BY <1>1, <1>2, <1>3, <1>4, <1>5 DEF Claiming

\* The invariant over the steps of reconcile_claims and the guards.
LEMMA SweepingPreserves ==
    ASSUME IInv, NEW t \in Threads, Sweeping(t)
    PROVE  IInv'
<1>1. ASSUME NEW p \in Pids, SweepSkip(t, p)
      PROVE  IInv'
  BY <1>1, ConstantsAssumption, SMTT(30) DEF Writes, Outcomes, ClaimRecord, files, repo,
     Commit, Locations, TypeOK, Owns, CommitOf, Goto, SweptOne, SweepSkip, InFlight,
     AtMostOneCommit, PathProtected, Inside, Undecided, SerializerInv, JobInv, TokenInv,
     Uncommitted, FreshInv, LockInv, RejectInv, CommitInv, Knows, ThreadInv, IInv
<1>2. ASSUME NEW p \in Pids, SweepFinalize(t, p)
      PROVE  IInv'
  BY <1>2, SweepFinalizePreserves
<1>3. ASSUME NEW p \in Pids, SweepRestore(t, p)
      PROVE  IInv'
  BY <1>3, ConstantsAssumption, SMTT(30) DEF Writes, Outcomes, ClaimRecord, repo, Commit,
     Locations, TypeOK, Owns, CommitOf, Goto, SweepRestore, InFlight, AtMostOneCommit,
     PathProtected, Inside, Undecided, SerializerInv, JobInv, TokenInv, Uncommitted,
     FreshInv, LockInv, RejectInv, CommitInv, Knows, ThreadInv, IInv
<1>4. ASSUME NEW p \in Pids, SweepUncertain(t, p)
      PROVE  IInv'
  BY <1>4, ConstantsAssumption, SMTT(30) DEF Writes, Outcomes, ClaimRecord, files, repo,
     Commit, Locations, TypeOK, Owns, CommitOf, find_claim_commit, Fault, NoFault, Goto,
     SweptOne, SweepUncertain, InFlight, AtMostOneCommit, PathProtected, Inside,
     Undecided, SerializerInv, JobInv, TokenInv, Uncommitted, FreshInv, LockInv,
     RejectInv, CommitInv, Knows, ThreadInv, IInv
<1>5. CASE SweepReleaseLock(t)
  BY <1>5, SweepReleaseLockPreserves
<1>6. CASE SweepRestoreRemove(t)
  BY <1>6, SweepRestoreRemovePreserves
<1>7. CASE SweepEnd(t)
  BY <1>7, SweepEndPreserves
<1>8. CASE SweepFails(t)
  BY <1>8, ConstantsAssumption, SMTT(30) DEF Writes, Outcomes, ClaimRecord, files, repo,
     Commit, Locations, TypeOK, Owns, CommitOf, Fault, Goto, Leave, SweepLeave,
     SweepFails, InFlight, AtMostOneCommit, PathProtected, Inside, Undecided,
     SerializerInv, JobInv, TokenInv, Uncommitted, FreshInv, LockInv, RejectInv,
     CommitInv, Knows, ThreadInv, IInv
<1>9. CASE GuardWrite(t)
  BY <1>9, GuardWritePreserves
<1>10. ASSUME NEW r \in Refs, GuardBackground(t, r)
      PROVE  IInv'
  BY <1>10, GuardBackgroundPreserves
<1> QED
  BY <1>1, <1>2, <1>3, <1>4, <1>5, <1>6, <1>7, <1>8, <1>9, <1>10 DEF Sweeping

\* The invariant over the steps of _commit_in_worktree.
LEMMA CommittingPreserves ==
    ASSUME IInv, NEW t \in Threads, Committing(t)
    PROVE  IInv'
<1>1. CASE ResolveCommit(t)
  BY <1>1, ConstantsAssumption, SMTT(30) DEF Writes, Outcomes, ClaimRecord, files, repo,
     Commit, Locations, TypeOK, Claimed, Owns, CommitOf, Goto, Enter, ResolveCommit,
     InFlight, AtMostOneCommit, PathProtected, Inside, Undecided, SerializerInv, JobInv,
     TokenInv, Uncommitted, FreshInv, LockInv, RejectInv, CommitInv, Knows, ThreadInv,
     IInv
<1>2. CASE GatesPass(t)
  BY <1>2, ConstantsAssumption, SMTT(30) DEF Writes, Outcomes, ClaimRecord, files, repo,
     sweeping, Commit, Locations, TypeOK, Owns, CommitOf, Goto, GatesPass, InFlight,
     AtMostOneCommit, PathProtected, Inside, Undecided, SerializerInv, JobInv, TokenInv,
     Uncommitted, FreshInv, LockInv, RejectInv, CommitInv, Knows, ThreadInv, IInv
<1>3. CASE GatesReject(t)
  BY <1>3, GatesRejectPreserves
<1>4. CASE GatesRaise(t)
  BY <1>4, GatesRaisePreserves
<1>5. CASE RecordContext(t)
  BY <1>5, RecordContextPreserves
<1>6. CASE RecordContextFails(t)
  BY <1>6, RecordContextFailsPreserves
<1>7. CASE WriteAndAdd(t)
  BY <1>7, ConstantsAssumption, SMTT(30) DEF Writes, Outcomes, ClaimRecord, files, repo,
     sweeping, Commit, Locations, TypeOK, Owns, CommitOf, Goto, WriteAndAdd, InFlight,
     AtMostOneCommit, PathProtected, Inside, Undecided, SerializerInv, JobInv, TokenInv,
     Uncommitted, FreshInv, LockInv, RejectInv, CommitInv, Knows, ThreadInv, IInv
<1>8. CASE WriteOrAddFails(t)
  BY <1>8, WriteOrAddFailsPreserves
<1>9. CASE GitCommit(t)
  BY <1>9, GitCommitPreserves
<1>10. CASE GitCommitDeclined(t)
  BY <1>10, GitCommitDeclinedPreserves
<1>11. CASE GitCommitKilled(t)
  BY <1>11, GitCommitKilledPreserves
<1>12. CASE RecordCommitted(t)
  BY <1>12, RecordCommittedPreserves
<1>13. CASE RecordCommittedFails(t)
  BY <1>13, RecordCommittedFailsPreserves
<1>14. CASE FinishClaim(t)
  BY <1>14, FinishClaimPreserves
<1>15. CASE FinishClaimFails(t)
  BY <1>15, FinishClaimFailsPreserves
<1>16. CASE FinishLock(t)
  BY <1>16, FinishLockPreserves
<1>17. CASE AutoDone(t)
  BY <1>17, AutoDonePreserves
<1> QED
  BY <1>1, <1>2, <1>3, <1>4, <1>5, <1>6, <1>7, <1>8, <1>9, <1>10, <1>11, <1>12, <1>13, <1>14, <1>15, <1>16, <1>17 DEF Committing

\* The invariant over the steps of restore_resolve.
LEMMA RestoringPreserves ==
    ASSUME IInv, NEW t \in Threads, Restoring(t)
    PROVE  IInv'
<1>1. CASE Restore(t)
  BY <1>1, RestorePreserves
<1>2. CASE RestoreRemove(t)
  BY <1>2, RestoreRemovePreserves
<1>3. CASE RestoreFails(t)
  BY <1>3, ConstantsAssumption, SMTT(30) DEF Writes, Outcomes, ClaimRecord, files, repo,
     sweeping, Commit, Locations, TypeOK, Owns, CommitOf, Fault, Goto, RestoreFails,
     InFlight, AtMostOneCommit, PathProtected, Inside, Undecided, SerializerInv, JobInv,
     TokenInv, Uncommitted, FreshInv, LockInv, RejectInv, CommitInv, Knows, ThreadInv,
     IInv
<1> QED
  BY <1>1, <1>2, <1>3 DEF Restoring

\* The invariant over the steps of the operations an idle thread starts.
LEMMA BeginPreserves ==
    ASSUME IInv, NEW t \in Threads, Begin(t)
    PROVE  IInv'
<1>1. ASSUME NEW p \in Pids, EnqueueBegin(t, p)
      PROVE  IInv'
  BY <1>1, EnqueueBeginPreserves
<1>2. ASSUME NEW p \in Pids, ResolveClaim(t, p) \/ RejectClaim(t, p)
      PROVE  IInv'
  BY <1>2, ClaimPreserves
<1>3. ASSUME NEW w \in Autos, AutoCommit(t, w)
      PROVE  IInv'
  BY <1>3, AutoCommitPreserves
<1>4. CASE SweepBegin(t)
  BY <1>4, ConstantsAssumption, SMTT(30) DEF Writes, Outcomes, ClaimRecord, files, repo,
     Commit, Locations, TypeOK, Claimed, Owns, CommitOf, Goto, Enter, SweepBegin,
     InFlight, AtMostOneCommit, PathProtected, Inside, Undecided, SerializerInv, JobInv,
     TokenInv, Uncommitted, FreshInv, LockInv, RejectInv, CommitInv, Knows, ThreadInv,
     IInv
<1> QED
  BY <1>1, <1>2, <1>3, <1>4 DEF Begin

\* The invariant of every step of the system.
LEMMA NextPreserves ==
    ASSUME IInv, [Next]_vars
    PROVE  IInv'
<1>1. ASSUME NEW t \in Threads, Begin(t)
      PROVE  IInv'
  BY <1>1, BeginPreserves
<1>2. ASSUME NEW t \in Threads, Step(t)
      PROVE  IInv'
  BY <1>2, EnqueueingPreserves, ClaimingPreserves, SweepingPreserves, CommittingPreserves,
     RestoringPreserves DEF Step
<1>3. ASSUME NEW p \in Pids, Age(p)
      PROVE  IInv'
  BY <1>3, AgePreserves
<1>4. CASE GcOrphanLocks
  BY <1>4, ConstantsAssumption, SMTT(30) DEF Writes, Outcomes, ClaimRecord, repo, threads,
     sweeping, Commit, Locations, TypeOK, Owns, CommitOf, Orphaned, GcOrphanLocks,
     InFlight, AtMostOneCommit, PathProtected, Inside, Undecided, SerializerInv, JobInv,
     TokenInv, Uncommitted, FreshInv, LockInv, RejectInv, CommitInv, Knows, ThreadInv,
     IInv
<1>5. CASE ReclaimAutoLocks
  BY <1>5, ConstantsAssumption, SMTT(30) DEF Writes, Outcomes, ClaimRecord, repo, threads,
     sweeping, Commit, Locations, TypeOK, Owns, CommitOf, WithoutAutoLocks,
     ReclaimAutoLocks, InFlight, AtMostOneCommit, PathProtected, Inside, Undecided,
     SerializerInv, JobInv, TokenInv, Uncommitted, FreshInv, LockInv, RejectInv,
     CommitInv, Knows, ThreadInv, IInv
<1>6. CASE Crash
  BY <1>6, CrashPreserves
<1>7. CASE Startup
  BY <1>7, ConstantsAssumption, SMTT(30) DEF Writes, Outcomes, ClaimRecord, repo,
     sweeping, Commit, Locations, TypeOK, Owns, CommitOf, Fault, NoFault,
     WithoutAutoLocks, Startup, InFlight, AtMostOneCommit, PathProtected, Inside,
     Undecided, SerializerInv, JobInv, TokenInv, Uncommitted, FreshInv, LockInv,
     RejectInv, CommitInv, Knows, ThreadInv, IInv
<1>8. CASE UNCHANGED vars
  BY <1>8 DEF Writes, Outcomes, ClaimRecord, files, repo, threads, sweeping, vars, Commit,
     Locations, TypeOK, Owns, CommitOf, InFlight, AtMostOneCommit, PathProtected, Inside,
     Undecided, SerializerInv, JobInv, TokenInv, Uncommitted, FreshInv, LockInv,
     RejectInv, CommitInv, Knows, ThreadInv, IInv
<1>9. ASSUME NEW p \in Pids, Pull(p)
      PROVE  IInv'
  BY <1>9, ConstantsAssumption, SMTT(30) DEF Writes, files, threads, sweeping, Locations,
     TypeOK, Owns, CommitOf, Pull, InFlight, AtMostOneCommit, PathProtected, Inside,
     Undecided, SerializerInv, JobInv, TokenInv, Uncommitted, FreshInv, LockInv, RejectInv,
     CommitInv, Knows, ThreadInv, IInv
<1> QED
  BY <1>1, <1>2, <1>3, <1>4, <1>5, <1>6, <1>7, <1>8, <1>9 DEF Next

\* Nothing exists at the start.
LEMMA InitEstablishes == Init => IInv
BY ConstantsAssumption DEF Writes, Outcomes, ClaimRecord, Commit, Locations, TypeOK, Init,
   Owns, CommitOf, InFlight, AtMostOneCommit, PathProtected, Inside, Undecided,
   SerializerInv, JobInv, TokenInv, Uncommitted, FreshInv, LockInv, RejectInv, CommitInv,
   Knows, ThreadInv, IInv

\* The invariant of the whole system.
THEOREM Invariance == Spec => []IInv
<1>1. Init => IInv
  BY InitEstablishes
<1>2. IInv /\ [Next]_vars => IInv'
  BY NextPreserves
<1> QED
  BY <1>1, <1>2, PTL DEF Spec

-----------------------------------------------------------------------------
(* The safety properties.                                                  *)

\* Every variable keeps to its type in every reachable state.
THEOREM TypeCorrect == Spec => []TypeOK
<1>1. IInv => TypeOK
  BY DEF IInv
<1> QED
  BY <1>1, Invariance, PTL

\* One decision is one commit: racing, crashing and retried resolves never
\* commit a proposal twice (pending.py: _claim, find_claim_commit).
THEOREM OneCommit == Spec => []AtMostOneCommit
<1>1. IInv => AtMostOneCommit
  BY DEF IInv, CommitInv
<1> QED
  BY <1>1, Invariance, PTL

\* A committed proposal is never offered for approval again (restore_resolve).
THEOREM NeverReoffered == Spec => []CommittedNeverReoffered
<1>1. IInv => CommittedNeverReoffered
  BY DEF IInv, CommitInv, CommittedNeverReoffered, CommittedPids, Committed
<1> QED
  BY <1>1, Invariance, PTL

\* A consumed rejection is final (reject, _finish_claim).
THEOREM RejectionFinal == Spec => []RejectedStaysRejected
<1>1. IInv => RejectedStaysRejected
  BY DEF IInv, RejectInv, RejectedStaysRejected, CommittedPids, Committed, Uncommitted
<1> QED
  BY <1>1, Invariance, PTL

\* The lock of an undecided proposal protects its path (path_lock, _claim).
THEOREM Protected == Spec => []PathProtected
<1>1. IInv => PathProtected
  BY DEF IInv, LockInv
<1> QED
  BY <1>1, Invariance, PTL

\* No history rewrite takes the commit an unresolved claim is decided by off the
\* branch that claim names (git_ops.py: _defer_if_claims_at_risk).  A claim made
\* while a rebase cut short had left HEAD detached names no branch.
THEOREM EvidenceSurvives == Spec => []EvidenceKept
<1>1. ASSUME IInv, NEW c \in commits, c.id \in Pids, claim[c.id] # None
      PROVE  /\ CommitOf(c.id) = c
             /\ claim[c.id].ctx \in {"HEAD", "blank"} \/ find_claim_commit(c.id)
  <2>1. c = [id |-> c.id, tok |-> c.tok]
    BY <1>1 DEF IInv, TypeOK, Commit
  <2>2. claim[c.id].tok = c.tok /\ (claim[c.id].ctx = "branch" => c \in onref)
    BY <1>1 DEF IInv, CommitInv
  <2>3. claim[c.id].ctx \in {"branch", "HEAD", "blank"}
    BY <1>1, ClaimFields DEF IInv, CommitInv, Contexts
  <2> QED
    BY <2>1, <2>2, <2>3 DEF CommitOf, find_claim_commit
<1>2. IInv => EvidenceKept
  BY <1>1 DEF EvidenceKept
<1> QED
  BY <1>2, Invariance, PTL

\* Between claim_for_resolve and the end of its commit a resolver still owns
\* the sidecar on disk (_check_token).
THEOREM ResolverOwns == Spec => []ResolverOwnsClaim
<1>1. IInv => ResolverOwnsClaim
  BY DEF IInv, ThreadInv, Knows, Undecided, ResolverOwnsClaim
<1> QED
  BY <1>1, Invariance, PTL

-----------------------------------------------------------------------------
(* The steps the properties of a step are about, and the ones they are not. *)

\* A step that neither opens, closes nor decides a proposal and lands nothing.
Quiet ==
    /\ \A p \in Pids : InFlight(p)' <=> InFlight(p)
    /\ UNCHANGED <<commits, rejected>>

\* A step that closes the claim of a committed proposal.
Close(p) ==
    /\ p \in Pids
    /\ p \in CommittedPids
    /\ \A q \in Pids \ {p} : InFlight(q)' <=> InFlight(q)
    /\ UNCHANGED <<commits, rejected>>

\* A step that makes the commit of thread t.
Land(t) ==
    /\ pc[t] = "commit"
    /\ Landed(t)
    /\ \A p \in Pids : InFlight(p)' <=> InFlight(p)
    /\ UNCHANGED rejected

\* What enqueue does to proposals and commits.
LEMMA EnqueueingEffect ==
    ASSUME IInv, NEW t \in Threads, Enqueueing(t)
    PROVE  Quiet \/ EnqueueWrite(t)
BY DEF Quiet, Enqueueing, EnqueueLock, EnqueueWriteFails, repo, InFlight

\* What claim_for_resolve and reject does to proposals and commits.
LEMMA ClaimingEffect ==
    ASSUME IInv, NEW t \in Threads, Claiming(t)
    PROVE  Quiet \/ RejectFinishClaim(t)
<1>1. CASE ResolveStamp(t) \/ RejectStamp(t) \/ StampFails(t)
  <2>1. /\ pc[t] \in {"resolve_stamp", "reject_stamp"}
        /\ Stamped(t) \/ UNCHANGED claim
        /\ UNCHANGED <<live, commits, rejected>>
    BY <1>1 DEF ResolveStamp, RejectStamp, StampFails, repo
  <2>2. CASE Stamped(t)
    BY <2>1, <2>2, StampedClaim DEF Quiet, InFlight
  <2>3. CASE UNCHANGED claim
    BY <2>1, <2>3 DEF Quiet, InFlight
  <2> QED
    BY <2>1, <2>2, <2>3
<1>2. CASE RejectFinishLock(t)
  BY <1>2 DEF RejectFinishLock, Quiet, InFlight, repo
<1> QED
  BY <1>1, <1>2 DEF Claiming

\* What reconcile_claims and the guards does to proposals and commits.
LEMMA SweepingEffect ==
    ASSUME IInv, NEW t \in Threads, Sweeping(t)
    PROVE  Quiet \/ \E p \in Pids : Close(p)
<1>1. ASSUME NEW p \in Pids, SweepFinalize(t, p)
      PROVE  Close(p)
  <2>1. claim[p] # None /\ \/ claim[p].outcome = "committed"
                           \/ CommitOf(p) \in commits
    BY <1>1 DEF SweepFinalize, find_claim_commit, IInv, TypeOK
  <2>2. p \in CommittedPids
    BY <2>1 DEF IInv, CommitInv, CommittedPids, Committed, CommitOf
  <2> QED
    BY <1>1, <2>2 DEF SweepFinalize, Close, InFlight, repo, IInv, TypeOK
<1>2. ASSUME NEW p \in Pids, SweepRestore(t, p)
      PROVE  Quiet
  BY <1>2 DEF SweepRestore, Quiet, InFlight, repo
<1>3. CASE SweepRestoreRemove(t)
  BY <1>3 DEF SweepRestoreRemove, Quiet, InFlight, repo, IInv, TypeOK, ThreadInv, Knows
<1>4. CASE SweepReleaseLock(t) \/ SweepEnd(t) \/ SweepFails(t) \/ GuardWrite(t)
  BY <1>4 DEF SweepReleaseLock, SweepEnd, SweepFails, GuardWrite, Quiet, InFlight, files, repo
<1>5. ASSUME NEW p \in Pids, SweepSkip(t, p) \/ SweepUncertain(t, p)
      PROVE  Quiet
  BY <1>5 DEF SweepSkip, SweepUncertain, Quiet, InFlight, files, repo
<1>6. ASSUME NEW r \in Refs, GuardBackground(t, r)
      PROVE  Quiet
  BY <1>6 DEF GuardBackground, Quiet, InFlight, files
<1> QED
  BY <1>1, <1>2, <1>3, <1>4, <1>5, <1>6 DEF Sweeping

\* What _commit_in_worktree does to proposals and commits.
LEMMA CommittingEffect ==
    ASSUME IInv, NEW t \in Threads, Committing(t)
    PROVE  Quiet \/ Land(t) \/ \E p \in Pids : Close(p)
<1>1. ASSUME job[t] \in Pids, NEW o \in Outcomes, RecordOutcome(t, o), UNCHANGED live
      PROVE  \A p \in Pids : InFlight(p)' <=> InFlight(p)
  BY <1>1, RecordOutcomeClaim DEF InFlight
<1>2. CASE GitCommitDeclined(t) \/ RecordContextFails(t) \/ WriteOrAddFails(t)
  <2>1. UNCHANGED <<live, commits, rejected>>
    BY <1>2 DEF GitCommitDeclined, RecordContextFails, WriteOrAddFails, repo
  <2>2. UNCHANGED claim \/ (job[t] \in Pids /\ RecordOutcome(t, "failed"))
    BY <1>2 DEF GitCommitDeclined, RecordContextFails, WriteOrAddFails, FailWrite
  <2> QED
    BY <1>1, <2>1, <2>2 DEF Quiet, InFlight, Outcomes
<1>3. CASE GitCommitKilled(t) \/ RecordCommittedFails(t)
  <2>1. /\ UNCHANGED <<live, rejected>>
        /\ UNCHANGED commits \/ (pc[t] = "commit" /\ Landed(t))
        /\ UNCHANGED claim \/ (job[t] \in Pids /\ RecordOutcome(t, "unknown"))
    BY <1>3 DEF GitCommitKilled, RecordCommittedFails, UnknownWrite, repo
  <2>2. \A p \in Pids : InFlight(p)' <=> InFlight(p)
    BY <1>1, <2>1 DEF InFlight, Outcomes
  <2> QED
    BY <2>1, <2>2 DEF Quiet, Land
<1>4. CASE GitCommit(t)
  BY <1>4 DEF GitCommit, Land, InFlight, files
<1>5. CASE RecordContext(t) \/ RecordCommitted(t)
  <2>1. ASSUME job[t] \in Pids, Owns(t)
        PROVE  claim[job[t]] \in ClaimRecord
    BY <2>1, ClaimFields DEF Owns, IInv
  <2>2. \A r \in ClaimRecord : /\ \A ctx \in Contexts : Sidecar(r.tok, r.aged, ctx, r.outcome) # None
                               /\ Sidecar(r.tok, r.aged, r.ctx, "committed") # None
    <3>1. \A r \in ClaimRecord : /\ \A ctx \in Contexts :
                                        Sidecar(r.tok, r.aged, ctx, r.outcome) \in ClaimRecord
                                 /\ Sidecar(r.tok, r.aged, r.ctx, "committed") \in ClaimRecord
      BY DEF Sidecar, ClaimRecord, Outcomes
    <3> QED
      BY <3>1, ConstantsAssumption
  <2>3. pc[t] = "context" => job[t] \in Pids
    BY DEF IInv, JobInv
  <2> QED
    BY <1>5, <2>1, <2>2, <2>3
       DEF RecordContext, HeadName, Contexts, RecordCommitted, Owns, Quiet, InFlight, repo,
           IInv, TypeOK
<1>6. CASE FinishClaim(t) \/ FinishClaimFails(t)
  <2>1. job[t] \in Pids /\ job[t] \in CommittedPids
    BY <1>6 DEF FinishClaim, FinishClaimFails, IInv, JobInv, ThreadInv, Knows, CommitOf,
       CommittedPids, Committed
  <2>2. Close(job[t])
    BY <1>6, <2>1 DEF FinishClaim, FinishClaimFails, Close, InFlight, repo, IInv, TypeOK
  <2> QED
    BY <2>1, <2>2
<1>7. CASE \/ ResolveCommit(t) \/ GatesPass(t) \/ GatesReject(t) \/ GatesRaise(t)
           \/ WriteAndAdd(t) \/ FinishLock(t) \/ AutoDone(t)
  BY <1>7 DEF ResolveCommit, GatesPass, GatesReject, GatesRaise, WriteAndAdd, FinishLock,
     AutoDone, Quiet, InFlight, files, repo
<1> QED
  BY <1>2, <1>3, <1>4, <1>5, <1>6, <1>7 DEF Committing

\* What restore_resolve does to proposals and commits.
LEMMA RestoringEffect ==
    ASSUME IInv, NEW t \in Threads, Restoring(t)
    PROVE  Quiet
<1>1. CASE Restore(t)
  <2>1. job[t] \in Pids
    BY <1>1 DEF Restore, IInv, JobInv
  <2> QED
    BY <1>1, <2>1 DEF Restore, Owns, Quiet, InFlight, repo
<1>2. CASE RestoreRemove(t)
  BY <1>2 DEF RestoreRemove, Quiet, InFlight, repo, IInv, TypeOK, ThreadInv, Knows
<1>3. CASE RestoreFails(t)
  BY <1>3 DEF RestoreFails, Quiet, InFlight, files, repo
<1> QED
  BY <1>1, <1>2, <1>3 DEF Restoring

\* What the operations an idle thread starts does to proposals and commits.
LEMMA BeginEffect ==
    ASSUME IInv, NEW t \in Threads, Begin(t)
    PROVE  Quiet
<1>1. ASSUME NEW p \in Pids, ResolveClaim(t, p) \/ RejectClaim(t, p)
      PROVE  Quiet
  <2>1. Unstamped \in ClaimRecord
    BY DEF Unstamped, Sidecar, ClaimRecord, Outcomes, Contexts
  <2>2. Unstamped # None
    BY <2>1, ConstantsAssumption
  <2> QED
    BY <1>1, <2>2 DEF ResolveClaim, RejectClaim, Claim, Quiet, InFlight, repo, IInv, TypeOK
<1>2. CASE \/ \E p \in Pids : EnqueueBegin(t, p)
           \/ \E w \in Autos : AutoCommit(t, w)
           \/ SweepBegin(t)
  BY <1>2 DEF EnqueueBegin, AutoCommit, SweepBegin, Quiet, InFlight, files, repo
<1> QED
  BY <1>1, <1>2 DEF Begin

\* What a step of the system can do to the proposals and the commits.
LEMMA NextEffect ==
    ASSUME IInv, [Next]_vars
    PROVE  \/ Quiet
           \/ \E t \in Threads : EnqueueWrite(t) \/ RejectFinishClaim(t) \/ Land(t)
           \/ \E p \in Pids : Close(p)
<1>1. CASE \E t \in Threads : Begin(t) \/ Step(t)
  BY <1>1, EnqueueingEffect, ClaimingEffect, SweepingEffect, CommittingEffect,
     RestoringEffect, BeginEffect DEF Step
<1>2. ASSUME NEW p \in Pids, Age(p)
      PROVE  Quiet
  <2>1. claim[p] \in ClaimRecord
    BY <1>2, ClaimFields DEF Age, IInv
  <2>2. Sidecar(claim[p].tok, TRUE, claim[p].ctx, claim[p].outcome) # None
    BY <2>1, SidecarUpdates
  <2> QED
    BY <1>2, <2>2 DEF Age, Quiet, InFlight, repo, IInv, TypeOK
<1>3. CASE GcOrphanLocks \/ ReclaimAutoLocks \/ Crash \/ Startup
  BY <1>3 DEF GcOrphanLocks, ReclaimAutoLocks, Crash, Startup, Quiet, InFlight, files, repo
<1>5. ASSUME NEW p \in Pids, Pull(p)
      PROVE  Quiet
  BY <1>5 DEF Pull, Quiet, InFlight, files
<1>4. CASE UNCHANGED vars
  BY <1>4 DEF vars, files, repo, Quiet, InFlight
<1> QED
  BY <1>1, <1>2, <1>3, <1>4, <1>5 DEF Next

-----------------------------------------------------------------------------
(* The properties of a step.                                               *)

\* An auto-commit holds its path's lock while it lands, so no proposal can be
\* in flight there (path_lock, PathProtected).
LEMMA LandedPathIsFree ==
    ASSUME IInv, NEW t \in Threads, pc[t] = "commit", job[t] \in Autos
    PROVE  \A p \in Pids : InFlight(p) => PathOf[p] # PathOf[job[t]]
<1>1. lock[PathOf[job[t]]] = job[t] /\ PathProtected
  BY DEF IInv, LockInv
<1> QED
  BY <1>1, ConstantsAssumption DEF PathProtected

\* No auto-commit lands on a path with a proposal in flight (path_lock).
THEOREM NeverClobbers == Spec => AutoNeverClobbers
<1> DEFINE Clean ==
        \A c \in commits' \ commits :
            c.id \in Autos => \A p \in Pids : InFlight(p) => PathOf[p] # PathOf[c.id]
<1>1. ASSUME IInv, [Next]_vars
      PROVE  Clean
  <2>1. CASE Quiet \/ \E p \in Pids : Close(p)
    BY <2>1 DEF Quiet, Close
  <2>2. ASSUME NEW t \in Threads, EnqueueWrite(t) \/ RejectFinishClaim(t)
        PROVE  Clean
    BY <2>2 DEF EnqueueWrite, RejectFinishClaim, repo
  <2>3. ASSUME NEW t \in Threads, Land(t)
        PROVE  Clean
    <3>1. \A c \in commits' \ commits : c.id = job[t]
      BY <2>3 DEF Land, Landed
    <3> QED
      BY <1>1, <2>3, <3>1, LandedPathIsFree DEF Land
  <2> QED
    BY <1>1, <2>1, <2>2, <2>3, NextEffect
<1>2. IInv /\ [Next]_vars => [Clean]_vars
  BY <1>1
<1> QED
  BY <1>2, Invariance, PTL DEF Spec, AutoNeverClobbers

\* An entry is consumed only when it is committed or rejected.
THEOREM OnlyDecidedConsumed == Spec => ConsumedOnlyDecided
<1> DEFINE Decided ==
        \A p \in Pids : InFlight(p) /\ ~InFlight(p)' => p \in CommittedPids \cup rejected'
<1>1. ASSUME IInv, [Next]_vars
      PROVE  Decided
  <2>1. CASE Quiet
    BY <2>1 DEF Quiet
  <2>2. ASSUME NEW p \in Pids, Close(p)
        PROVE  Decided
    BY <2>2 DEF Close
  <2>3. ASSUME NEW t \in Threads, EnqueueWrite(t)
        PROVE  Decided
    BY <2>3 DEF EnqueueWrite, InFlight
  <2>4. ASSUME NEW t \in Threads, RejectFinishClaim(t)
        PROVE  Decided
    BY <1>1, <2>4 DEF RejectFinishClaim, InFlight, IInv, TypeOK
  <2>5. ASSUME NEW t \in Threads, Land(t)
        PROVE  Decided
    BY <2>5 DEF Land
  <2> QED
    BY <1>1, <2>1, <2>2, <2>3, <2>4, <2>5, NextEffect
<1>2. IInv /\ [Next]_vars => [Decided]_vars
  BY <1>1
<1> QED
  BY <1>2, Invariance, PTL DEF Spec, ConsumedOnlyDecided

-----------------------------------------------------------------------------
(* The refinement: PendingClaims implements PathGate.                      *)

\* A quiet step is a stutter of PathGate, and so is closing a committed claim.
LEMMA QuietStutters ==
    ASSUME Quiet
    PROVE  Status' = Status /\ LandedAutos' = LandedAutos
BY DEF Quiet, Status, LandedAutos, CommittedPids, Committed

\* The proposal stays committed.
LEMMA CloseStutters ==
    ASSUME NEW p \in Pids, Close(p)
    PROVE  Status' = Status /\ LandedAutos' = LandedAutos
<1>1. ASSUME NEW q \in Pids
      PROVE  Status'[q] = Status[q]
  BY DEF Close, Status, CommittedPids, Committed
<1>2. Status' = Status
  BY <1>1 DEF Status
<1>3. LandedAutos' = LandedAutos
  BY DEF Close, LandedAutos
<1> QED
  BY <1>2, <1>3

\* The proposal that is being enqueued is the first to gate its path.
LEMMA EnqueueProposes ==
    ASSUME IInv, NEW t \in Threads, EnqueueWrite(t)
    PROVE  \E p \in Pids : Gate!Propose(p)
<1> DEFINE j == job[t]
<1>1. /\ j \in Pids /\ ~InFlight(j) /\ j \notin rejected /\ Uncommitted(j)
      /\ lock[PathOf[j]] = j
  BY DEF EnqueueWrite, IInv, JobInv, FreshInv, LockInv
<1>2. live' = live \cup {j} /\ UNCHANGED <<claim, commits, rejected>>
  BY DEF EnqueueWrite, repo
<1> HIDE DEF j
<1>3. Status[j] = "absent" /\ Status'[j] = "open"
  BY <1>1, <1>2 DEF Status, CommittedPids, Committed, InFlight, Uncommitted
<1>4. \A q \in Pids \ {j} : Status'[q] = Status[q]
  BY <1>2 DEF Status, CommittedPids, Committed, InFlight
<1>5. Status' = [Status EXCEPT ![j] = "open"]
  BY <1>1, <1>3, <1>4 DEF Status
<1>6. ASSUME NEW q \in Pids, Status[q] = "open"
      PROVE  PathOf[q] # PathOf[j]
  <2>1. InFlight(q) /\ q # j
    BY <1>6, <1>3 DEF Status
  <2>2. lock[PathOf[q]] = q
    BY <2>1 DEF IInv, LockInv, PathProtected
  <2> QED
    BY <1>1, <2>1, <2>2
<1>7. LandedAutos' = LandedAutos
  BY <1>2 DEF LandedAutos
<1> QED
  BY <1>1, <1>3, <1>5, <1>6, <1>7 DEF Gate!Propose, Gate!Gated

\* Consuming the claim is the rejection.
LEMMA RejectDecides ==
    ASSUME IInv, NEW t \in Threads, RejectFinishClaim(t)
    PROVE  \E p \in Pids : Gate!Decide(p, "rejected")
<1> DEFINE j == job[t]
<1>1. j \in Pids /\ j \notin live /\ claim[j] # None /\ Uncommitted(j) /\ j \notin rejected
  BY DEF RejectFinishClaim, IInv, JobInv, ThreadInv, Knows, RejectInv, InFlight
<1>2. /\ claim' = [claim EXCEPT ![j] = None] /\ rejected' = rejected \cup {j}
      /\ UNCHANGED <<live, commits>>
  BY DEF RejectFinishClaim, repo
<1> HIDE DEF j
<1>3. Status[j] = "open" /\ Status'[j] = "rejected"
  BY <1>1, <1>2 DEF Status, CommittedPids, Committed, InFlight, Uncommitted
<1>4. \A q \in Pids \ {j} : Status'[q] = Status[q]
  BY <1>1, <1>2 DEF Status, CommittedPids, Committed, InFlight, IInv, TypeOK
<1>5. Status' = [Status EXCEPT ![j] = "rejected"]
  BY <1>1, <1>3, <1>4 DEF Status
<1>6. LandedAutos' = LandedAutos
  BY <1>2 DEF LandedAutos
<1> QED
  BY <1>1, <1>3, <1>5, <1>6 DEF Gate!Decide

\* A commit decides its proposal, or is a direct write on a free path.
LEMMA LandImplements ==
    ASSUME IInv, NEW t \in Threads, Land(t)
    PROVE  \/ \E p \in Pids : Gate!Decide(p, "committed")
           \/ \E w \in Autos : Gate!Land(w)
<1> DEFINE j == job[t]
           c == [id |-> j, tok |-> token[t]]
<1>1. j \in Writes /\ j # None /\ Knows(t)
  BY ConstantsAssumption DEF Land, IInv, JobInv, ThreadInv
<1>2. Uncommitted(j) /\ (j \in Pids => claim[j] # None)
  BY <1>1 DEF Land, Knows, Undecided, Owns
<1>3. commits' = commits \cup {c} /\ c.id = j
  BY DEF Land, Landed
<1>4. UNCHANGED rejected /\ \A q \in Pids : InFlight(q)' <=> InFlight(q)
  BY DEF Land
<1> HIDE DEF j, c
<1>5. \A q \in Pids \ {j} : Status'[q] = Status[q]
  BY <1>3, <1>4 DEF Status, CommittedPids, Committed
<1>6. CASE j \in Pids
  <2>1. j \notin rejected /\ InFlight(j)
    BY <1>2, <1>6 DEF IInv, RejectInv, InFlight
  <2>2. Status[j] = "open" /\ Status'[j] = "committed"
    BY <1>2, <1>3, <1>6, <2>1 DEF Status, CommittedPids, Committed, Uncommitted
  <2>3. Status' = [Status EXCEPT ![j] = "committed"]
    BY <1>5, <1>6, <2>2 DEF Status
  <2>4. LandedAutos' = LandedAutos
    BY <1>3, <1>6, ConstantsAssumption DEF LandedAutos
  <2> QED
    BY <1>6, <2>2, <2>3, <2>4 DEF Gate!Decide
<1>7. CASE j \in Autos
  <2>1. j \notin LandedAutos /\ LandedAutos' = LandedAutos \cup {j}
    BY <1>2, <1>3, <1>7 DEF LandedAutos, Uncommitted
  <2>2. Status' = Status
    BY <1>5, <1>7, ConstantsAssumption DEF Status
  <2>3. \A p \in Pids : InFlight(p) => PathOf[p] # PathOf[j]
    BY <1>7, LandedPathIsFree DEF Land, j
  <2>4. ~Gate!Gated(PathOf[j])
    BY <2>3 DEF Gate!Gated, Status
  <2> QED
    BY <1>7, <2>1, <2>2, <2>4 DEF Gate!Land
<1> QED
  BY <1>1, <1>6, <1>7 DEF Writes

\* Whatever threads, sweeps, errors and crashes do to the files, the queue and
\* the write paths implement the gate.
THEOREM Refinement == Spec => ImplementsPathGate
<1>1. Init => Gate!Init
  BY DEF Init, Gate!Init, Status, LandedAutos, CommittedPids, Committed, InFlight
<1>2. ASSUME IInv, [Next]_vars
      PROVE  [Gate!Next]_<<Status, LandedAutos>>
  <2>1. CASE Quiet
    BY <2>1, QuietStutters
  <2>2. ASSUME NEW p \in Pids, Close(p)
        PROVE  [Gate!Next]_<<Status, LandedAutos>>
    BY <2>2, CloseStutters
  <2>3. ASSUME NEW t \in Threads, EnqueueWrite(t) \/ RejectFinishClaim(t) \/ Land(t)
        PROVE  [Gate!Next]_<<Status, LandedAutos>>
    <3>1. CASE EnqueueWrite(t)
      <4>1. \E p \in Pids : Gate!Propose(p)
        BY <1>2, <2>3, <3>1, EnqueueProposes
      <4> QED
        BY <4>1 DEF Gate!Next
    <3>2. CASE RejectFinishClaim(t)
      <4>1. \E p \in Pids : Gate!Decide(p, "rejected")
        BY <1>2, <2>3, <3>2, RejectDecides
      <4> QED
        BY <4>1 DEF Gate!Next
    <3>3. CASE Land(t)
      <4>1. \/ \E p \in Pids : Gate!Decide(p, "committed")
            \/ \E w \in Autos : Gate!Land(w)
        BY <1>2, <2>3, <3>3, LandImplements
      <4> QED
        BY <4>1 DEF Gate!Next
    <3> QED
      BY <2>3, <3>1, <3>2, <3>3
  <2> QED
    BY <1>2, <2>1, <2>2, <2>3, NextEffect
<1> QED
  BY <1>1, <1>2, Invariance, PTL DEF Spec, ImplementsPathGate, Gate!Spec
=============================================================================
