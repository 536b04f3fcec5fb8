----------------------- MODULE MCGraphRegisteredInputs ----------------------
(* Two ranks; captures of two registered calls with a staged call and a     *)
(* piecewise capture between; a second capture the row buffer has no room   *)
(* for; or captures of one call, which a rank that misses it does not       *)
(* register at all.                                                         *)
EXTENDS GraphRegisteredInputs

Graph(n) == [piecewise |-> FALSE, calls |-> [i \in 1 .. n |-> "small"]]
Mixed == [piecewise |-> FALSE, calls |-> <<"small", "large", "small">>]
Piecewise == [piecewise |-> TRUE, calls |-> <<"small">>]

MCCapturePlans ==
    {<<Mixed, Piecewise, Graph(2)>>, <<Graph(2), Graph(3)>>, <<Graph(1), Graph(1)>>}
=============================================================================
