----------------------------- MODULE MCTePaths ------------------------------
(***************************************************************************)
(* A topology for TLC: a cycle of four switches and one chord, two hosts   *)
(* at the first switch, two at the third and one at the fourth.            *)
(***************************************************************************)
EXTENDS TePathsProps

MCEnds == [s1s2 |-> {"s1", "s2"}, s2s3 |-> {"s2", "s3"}, s3s4 |-> {"s3", "s4"},
           s1s4 |-> {"s1", "s4"}, s2s4 |-> {"s2", "s4"},
           a |-> {"h1", "s1"}, b |-> {"h2", "s1"}, c |-> {"h3", "s3"}, d |-> {"c4", "s3"},
           e |-> {"h5", "s4"}]

MCVertices == <<"s3", "s4", "s1", "s2">>
MCHostOrders == {<<"h1", "h2", "h3", "c4", "h5">>, <<"h2", "h1", "c4", "h3", "h5">>}
MCViews == {Links, Links \ {"s2s4"}, Links \ {"s1s4", "b"}}
=============================================================================
