------------------------------- MODULE MCDohConn -------------------------------
(***************************************************************************)
(* Instances of DohConn: three exchanges over two streams, one of them too *)
(* long for a URI, on connections made for every kind of target.           *)
(***************************************************************************)
EXTENDS DohConn

CONSTANTS q1, q2, q3

MCExchanges == {q1, q2, q3}
MCTooLong == {q3}
===============================================================================
