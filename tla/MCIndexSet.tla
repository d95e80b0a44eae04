----------------------------- MODULE MCIndexSet -----------------------------
(* Four slots and two items: every order in which slots can be freed. *)
EXTENDS IndexSet

CONSTANTS a, b

MCItem == {a, b}
=============================================================================
