---------------------------- MODULE MCP2PExchange ---------------------------
(***************************************************************************)
(* One gateway, two clients and an arbitrator.  The gateway can serve one  *)
(* of two orders at a time; with 3 percent commission an order of 40 pays  *)
(* the arbitrator 1.  Times have width 16: the terms Wrapping run past it. *)
(***************************************************************************)
EXTENDS P2PExchange, TLC

CONSTANTS gate, ann, bob, judge

Advert(sells, approve, reply, deals) ==
    [adv_type |-> sells, min_cwd |-> 1, max_cwd |-> 100,
     min_account_status |-> 0, min_p2p_complete_deals |-> deals,
     timelimit_for_approve |-> approve, timelimit_for_reply |-> reply]

Selling  == Advert(TRUE, 1, 2, 0)
Buying   == Advert(FALSE, 2, 1, 0)
Wrapping == Advert(TRUE, 2, 15, 1)

MCTerms    == {Selling, Buying, Wrapping}
MCBalances == gate :> 60 @@ ann :> 40 @@ bob :> 40 @@ judge :> 0
MCStatusOf == gate :> 4 @@ ann :> 1 @@ bob :> 0 @@ judge :> 1
=============================================================================
