----------------------------- MODULE MCCorrelator -----------------------------
(***************************************************************************)
(* An instance of Correlator small enough to exhaust: a pair of exchanges  *)
(* asks the same question, the others another one, the window is two.      *)
(***************************************************************************)
EXTENDS Correlator

CONSTANTS q1, q2, q3, a, b

MCExchanges == {q1, q2, q3}
MCQuestions == {a, b}
MCQuestionOf == q1 :> a @@ q2 :> a @@ q3 :> b
===============================================================================
