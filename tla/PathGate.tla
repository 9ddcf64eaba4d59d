------------------------------- MODULE PathGate -------------------------------
(***************************************************************************)
(* What the pending queue and the write paths promise about one another,   *)
(* without files, claims or crashes: a path is gated by at most one        *)
(* undecided proposal, a proposal is decided once and for good, and a      *)
(* direct write lands only on a path no undecided proposal gates.          *)
(***************************************************************************)
CONSTANTS Pids, Autos, PathOf

VARIABLES
    status,  \* the state of each proposal
    landed   \* the direct writes that were committed

Statuses == {"absent", "open", "committed", "rejected"}

TypeOK ==
    /\ status \in [Pids -> Statuses]
    /\ landed \subseteq Autos

Init ==
    /\ status = [p \in Pids |-> "absent"]
    /\ landed = {}

Gated(a) == \E p \in Pids : status[p] = "open" /\ PathOf[p] = a

\* A proposal is parked, and from now on gates its path.
Propose(p) ==
    /\ status[p] = "absent"
    /\ ~Gated(PathOf[p])
    /\ status' = [status EXCEPT ![p] = "open"]
    /\ UNCHANGED landed

\* Its decision: the only way a proposal stops gating its path.
Decide(p, decision) ==
    /\ status[p] = "open"
    /\ status' = [status EXCEPT ![p] = decision]
    /\ UNCHANGED landed

\* A direct write.
Land(w) ==
    /\ w \notin landed
    /\ ~Gated(PathOf[w])
    /\ landed' = landed \cup {w}
    /\ UNCHANGED status

\* Every action changes one of the two variables: the first conjunct only spares
\* TLC the search for an action under a step that is a stutter of the gate.
Next ==
    /\ <<status', landed'>> # <<status, landed>>
    /\ \/ \E p \in Pids : Propose(p) \/ Decide(p, "committed") \/ Decide(p, "rejected")
       \/ \E w \in Autos : Land(w)

Spec == Init /\ [][Next]_<<status, landed>>
=============================================================================
