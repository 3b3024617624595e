-------------------------- MODULE MCAgentLifecycle --------------------------
(* Two agents on one folder, two keys, two certificates, two writes.        *)
EXTENDS AgentLifecycle, TLC

CONSTANTS a1, a2, k1, k2

MCAgents == {a1, a2}
MCKeys == {k1, k2}

\* Agents are alike, and so are keys.
Symmetry == Permutations(MCAgents) \cup Permutations(MCKeys)
=============================================================================
