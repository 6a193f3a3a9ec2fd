--------------------------- MODULE MCConfigCache ---------------------------
(* ConfigCache on two sources, each with a few file states. *)
EXTENDS ConfigCache, TLC

\* Two readable versions of a file behave alike.
SymmetricStates == Permutations(Valid)
=============================================================================
