------------------------------- MODULE Questions -------------------------------
(***************************************************************************)
(* Functions that keep no state are checked by asking: a kind of question  *)
(* is chosen and then a question, an input that a function may be given; a *)
(* property of the functions is an invariant about the question asked.     *)
(***************************************************************************)
EXTENDS Integers

CONSTANT QUESTIONS      \* QUESTIONS[kind]: inputs, records
VARIABLE asked          \* <<>>, then <<kind>>, then <<kind, question>>

NotAsked == asked = <<>>
AskKind == NotAsked /\ \E kind \in DOMAIN QUESTIONS : asked' = <<kind>>
AskOne == /\ DOMAIN asked = {1}
          /\ \E q \in QUESTIONS[asked[1]] : asked' = <<asked[1], q>>
AskSome == AskKind \/ AskOne

Asks(kind) == DOMAIN asked = {1, 2} /\ asked[1] = kind
Q == asked[2]
=============================================================================
