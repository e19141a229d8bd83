------------------------------ MODULE MCForms ------------------------------
(* A small instance of Forms: the server has the rules a and b, in that    *)
(* order.                                                                  *)
EXTENDS Forms

CONSTANTS a, b

MCFirst == <<a, b>>

=============================================================================
