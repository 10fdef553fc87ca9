--------------------------- MODULE MCGoldPurchase ---------------------------
(* Three web processes and two purchases of any of these kinds. *)
EXTENDS GoldPurchase, TLC

MCDeals == {<<"stripe", "gift", 1>>, <<"stripe", "creddits", 12>>,
            <<"stripe", "code", 1>>, <<"invoice", "onetime", 1>>,
            <<"coinbase", "onetime", 12>>, <<"coinbase", "code", 1>>,
            <<"ipn", "gift", 1>>, <<"ipn", "creddits", 1>>, <<"ipn", "code", 1>>,
            <<"subscr", "onetime", 1>>, <<"spend", "gift", 1>>, <<"spend", "code", 1>>}

Alike == Permutations(Procs) \cup Permutations(Purchases)
=============================================================================
