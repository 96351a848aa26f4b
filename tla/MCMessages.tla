----------------------------- MODULE MCMessages -----------------------------
EXTENDS Messages, TLC

CONSTANTS a, b, g

MCPatterns == {{a, b}}
MCSpecs == {{a, b}, {g}, {{a, b}}}

Symmetry == Permutations(Agents) \cup Permutations(Calls)
=============================================================================
