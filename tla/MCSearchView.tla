---------------------------- MODULE MCSearchView ----------------------------
(* A small instance of SearchView, with the one old link that matters: it  *)
(* names a category and a page.                                            *)
EXTENDS SearchView

MCLegacyLinks == {[filter |-> [text |-> "", category |-> "c", channel |-> ""], page |-> 2]}

=============================================================================
