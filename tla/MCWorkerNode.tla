---------------------------- MODULE MCWorkerNode ----------------------------
\* Two requests on a node whose worker runs one task at a time.
EXTENDS WorkerNode, TLC

CONSTANTS q1, q2, c1, c2, b1, b2

MCRequests == {q1, q2}
MCCalls == {c1, c2}
MCBodies == {b1, b2}

\* Requests, connections and bodies are each interchangeable: no action compares
\* them with anything but one another, and CHOOSE only picks from a singleton.
Symmetry == Permutations(MCRequests) \cup Permutations(MCCalls) \cup Permutations(MCBodies)
=============================================================================
