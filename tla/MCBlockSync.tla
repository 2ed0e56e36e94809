----------------------------- MODULE MCBlockSync ----------------------------
(* The blocks:   1a - 2a - 3a      *)
(*                 \- 2b - 3b - 4b *)
EXTENDS BlockSync, TLC

CONSTANTS b1a, b2a, b3a, b2b, b3b, b4b, p1, p2

MCParent == b1a :> Genesis @@ b2a :> b1a @@ b3a :> b2a @@ b2b :> b1a @@ b3b :> b2b @@ b4b :> b3b
MCNumber == b1a :> 1 @@ b2a :> 2 @@ b3a :> 3 @@ b2b :> 2 @@ b3b :> 3 @@ b4b :> 4

Alone(h, r, d) == [heads |-> p1 :> h @@ p2 :> Genesis, reach |-> p1 :> r, drops |-> d]
Both(h, g, r, t, d) == [heads |-> p1 :> h @@ p2 :> g, reach |-> p1 :> r @@ p2 :> t, drops |-> d]

\* One peer whose chain grows and switches forks; two peers with the same blocks to
\* fetch, which may go away; two peers on different branches; two peers that get the same
\* new block while the node is in sync.
MCScenarios ==
    {Alone(b1a, {b2a, b3b, b4b}, 0),
     Both(b3b, b3b, {}, {}, 1),
     Both(b3a, b2b, {}, {}, 0),
     Both(b1a, b1a, {b2b}, {b2b}, 0)}
=============================================================================
