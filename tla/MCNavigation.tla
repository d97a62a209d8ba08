---------------------------- MODULE MCNavigation ----------------------------
(***************************************************************************)
(* A navigation of a tab that goes through two pages.                      *)
(***************************************************************************)
EXTENDS Navigation
=============================================================================
