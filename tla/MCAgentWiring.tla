---------------------------- MODULE MCAgentWiring ----------------------------
(* Gemini's settings, which hold hooks and registration, Copilot's notes, the  *)
(* opencode plugin and the file of a CLI.                                      *)
EXTENDS AgentWiring, TLC

CONSTANTS settings, notes, plugin, cli, p1, p2, n1, u1, u2

MCEnforceOrder == <<settings, notes>>
\* Gemini alone; an agent with a CLI, and opencode; Copilot; everything at once.
MCMachines ==
    {[agents |-> <<<<settings, settings>>>>, enforced |-> {settings}, all |-> FALSE, runs |-> 2],
     [agents |-> <<<<cli, plugin>>>>, enforced |-> {plugin}, all |-> FALSE, runs |-> 3],
     [agents |-> <<>>, enforced |-> {notes}, all |-> FALSE, runs |-> 3],
     [agents |-> <<>>, enforced |-> {}, all |-> TRUE, runs |-> 2]}
Symmetry == Permutations({p1, p2}) \cup Permutations({u1, u2})
=============================================================================
