------------------------------- MODULE MCDoor -------------------------------
(***************************************************************************)
(* Every door with up to six events: it opens and closes several times.    *)
(* Handlers: chains of three helper calls, two actions, lists of up to two.*)
(***************************************************************************)
EXTENDS Door
=============================================================================
