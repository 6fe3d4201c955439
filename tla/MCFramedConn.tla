----------------------------- MODULE MCFramedConn -----------------------------
(***************************************************************************)
(* Instances of FramedConn: all exchanges ask the same question, since     *)
(* mismatched questions are the business of the correlator alone.          *)
(***************************************************************************)
EXTENDS FramedConn

CONSTANTS q1, q2, q3, a

MCExchanges == {q1, q2, q3}
MCQuestions == {a}
MCQuestionOf == [q \in MCExchanges |-> a]
===============================================================================
