----------------------------- MODULE MCBootstrap -----------------------------
(* A workspace and one of its components, two sessions, and requests that   *)
(* overlap within a slot, across the two slots and across the sessions.     *)
EXTENDS Bootstrap, TLC

CONSTANTS n1, n2, ws, comp, s1, s2

MCCalls == {n1, n2}
MCKeys == {ws, comp}
MCSessions == {s1, s2}
MCFiles == {"README", "AGENTS", "component"}

MCRootOf == [f \in MCFiles |-> IF f = "component" THEN comp ELSE ws]
MCBelow == [k \in MCKeys |-> IF k = ws THEN MCKeys ELSE {comp}]
MCCanonical == [k \in MCKeys |-> IF k = ws THEN {"README", "AGENTS"} ELSE {"component"}]
MCNameOf == [f \in MCFiles |-> IF f = "README" THEN "README.md" ELSE "AGENTS.md"]

Ask(k, s, fs) == [key |-> k, session |-> s, files |-> fs]

MCRequests ==
    {Ask(ws, s1, {"README", "AGENTS"}),
     Ask(ws, s2, {"README", "component"}),
     Ask(comp, s2, {"component"}),
     Ask(comp, s1, {"README", "component"})}

MCForeignFiles == {"README"}

CallSymmetry == Permutations(Calls)
=============================================================================
