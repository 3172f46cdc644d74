------------------------ MODULE MCPolicyActivation ------------------------
\* Two policies with the same repeat settings and one with other settings.
EXTENDS PolicyActivation, TLC

CONSTANTS p1, p2, p3, short, long

MCPolicies == {p1, p2, p3}
MCRepeat == (p1 :> short) @@ (p2 :> short) @@ (p3 :> long)
===========================================================================
