------------------------- MODULE MCContextProvider -------------------------
(***************************************************************************)
(* Entries that are empty, shorter than a token, and just below two tokens *)
(* so that a separator costs one more.                                     *)
(***************************************************************************)
EXTENDS ContextProvider

SomeBudgets == { 1, 2, 4 }
SomeLengths == { 0, 3, 7 }
=============================================================================
