------------------------- MODULE MCAnalyticsFanOut -------------------------
(* Two shards; two users of one country on different shards, a third of       *)
(* another country; a product that both shards sell and one with no buyer but *)
(* one; an order without items; thresholds that only the sum of the two       *)
(* shards passes, and averages that do not come out even.                     *)
EXTENDS AnalyticsFanOut

TheOrders  == {"o1", "o2", "o3", "o4"}
TheOwner   == [o1 |-> "ann", o2 |-> "ann", o3 |-> "bob", o4 |-> "cyd"]
TheAmount  == [o1 |-> 3, o2 |-> 4, o3 |-> 5, o4 |-> 2]
TheLines   == [o1 |-> [pen |-> 1, cup |-> 2], o2 |-> [pen |-> 2, cup |-> 0],
               o3 |-> [pen |-> 2, cup |-> 0], o4 |-> [pen |-> 0, cup |-> 0]]
ThePrice   == [pen |-> 2, cup |-> 3]
TheCountry == [ann |-> "fr", bob |-> "fr", cyd |-> "pe"]
TheHome    == [ann |-> 0, bob |-> 1, cyd |-> 1]
=============================================================================
