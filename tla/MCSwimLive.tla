----------------------------- MODULE MCSwimLive -----------------------------
EXTENDS SwimLive, TLC

CONSTANTS p1, p2, p3

\* p1 is the healthy node with the smallest id, the owner comes second.
MCHub == (Owner :> p1) @@ (p1 :> Owner) @@ (p2 :> p1)

\* Links o - p1 - p2 - p3 with ids o < p3 < p1 < p2: p1 prefers o to p2 and
\* p2 prefers p3 to p1.
MCPairs == (Owner :> p1) @@ (p1 :> Owner) @@ (p2 :> p3) @@ (p3 :> p2)
=============================================================================
