------------------------------ MODULE MCAdvice ------------------------------
EXTENDS Advice, TLC

CONSTANTS r1, r2, r3, c1, c2

Says(form, claims, counts) == [form |-> form, says |-> claims, counts |-> counts]
MCAnswers == {Says("object", {Stray} \cup Subject, TRUE),
              Says("fenced", {Stray} \cup Subject, FALSE), Says("prose", {}, FALSE)}

MCSymmetry == Permutations(Request)
=============================================================================
