------------------------------ MODULE MCTable ------------------------------
(* Table over keys of one and two bytes, 0 .. 2, between some of which     *)
(* there is room for a shorter separator.                                  *)
EXTENDS Table

MCUserKeys == {<<0>>, <<0, 1>>, <<1>>, <<2, 0>>, <<2, 2>>}
=============================================================================
