----------------------------- MODULE MCTranslator -----------------------------
(* Translator over an integer and a float type, and a few signatures, with the *)
(* inductive invariant of its proofs.                                          *)
EXTENDS TranslatorProofs

MCTypes == {"i32", "f64"}

MCSigs == {[params |-> <<>>, result |-> <<>>],
           [params |-> <<"f64", "i32">>, result |-> <<"f64">>]}

\* Either answer Cecil may give, or only the one the test of voidType expects.
MCVoidEither == {<<>>, <<"void">>}
MCVoidSkipped == {<<>>}
===============================================================================
