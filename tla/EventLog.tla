-------------------------------- MODULE EventLog --------------------------------
(* What the audit log promises, without files, rotation, crashes or readers: one *)
(* sequence that only grows, each line readable and with the hash of the one     *)
(* before it; an event is acknowledged with its line or never. The promise ends  *)
(* when the log is spoilt, and says nothing from then on.                        *)
EXTENDS Naturals, Sequences

CONSTANT Events     \* numbers, which stand for the events and for their hashes

VARIABLES
    log,            \* its lines [ev, prev, whole]
    acknowledged,   \* the events whose callers were told that they are in it
    sound           \* nothing has spoilt it

vars == <<log, acknowledged, sound>>

Init == log = <<>> /\ acknowledged = {} /\ sound = TRUE

LastHash == IF log = <<>> THEN 0 ELSE log[Len(log)].ev

\* An event later than all of the log; its caller may die before it is told.
Record(e, told) ==
    /\ sound /\ e > LastHash
    /\ log' = Append(log, [ev |-> e, prev |-> LastHash, whole |-> TRUE])
    /\ acknowledged' = IF told THEN acknowledged \cup {e} ELSE acknowledged
    /\ UNCHANGED sound

Spoil ==
    /\ sound /\ sound' = FALSE
    /\ log' = <<>> /\ acknowledged' = {}

Next == Spoil \/ \E e \in Events, told \in BOOLEAN : Record(e, told)

Spec == Init /\ [][Next]_vars
================================================================================
