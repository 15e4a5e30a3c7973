------------------------------ MODULE MCLowering -------------------------------
(* Small widths for Lowering: an int32 of 2 bits and an int64 of 4, and floats  *)
(* from an eighth of 1 to 16, with 1/8 * 1/8 too small for a float.            *)
EXTENDS Lowering

MCSignatures == {<<>>, <<"i32">>, <<"i32", "i32">>, <<"i32", "f32">>}
MCTable == {1}
MCMakingOrder == [k \in 1 .. 12 |-> <<LocalTypes[((k - 1) % 4) + 1], (k - 1) \div 4>>]
MCMakingOrders == {MCMakingOrder, Reverse(MCMakingOrder), <<>>, <<<<"f64", 0>>, <<"i32", 1>>, <<"i32", 0>>>>}
MCTops == {1, 8, 12, 24, 72, 128}
===============================================================================
