---------------------------- MODULE MCHydration ----------------------------
(***************************************************************************)
(* Two IDs, with a name column each.                                       *)
(***************************************************************************)
EXTENDS Hydration

MCIdOf(c) == c
=============================================================================
