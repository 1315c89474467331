------------------------------- MODULE MCCart -------------------------------
(***************************************************************************)
(* The instances of Cart: every constant is a bound, which the             *)
(* configurations MCCart*.cfg set.  The large run keeps several profiles   *)
(* in one state space: many operations or many requests of a tab alone,    *)
(* and fewer of them when others change the cart or a header is saved.     *)
(***************************************************************************)
EXTENDS Cart

NewAmounts == \E i \in DOMAIN ops : ops[i].quantity > 1

Profile ==
    /\ created + sends <= 5
    /\ created + sends = 5 => foreign = 0
    /\ NewAmounts => created <= 2 /\ created + sends <= 4
    /\ foreign = 1 => created <= 2 /\ sends <= 2
    /\ headers = 1 => created <= 1 /\ sends + foreign <= 2
=============================================================================
