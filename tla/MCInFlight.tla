----------------------------- MODULE MCInFlight -----------------------------
(***************************************************************************)
(* Three machines with one event of growth and one of chaos, and a drain   *)
(* that covers both; a small word, so that an underflow shows.             *)
(***************************************************************************)
EXTENDS InFlight
=============================================================================
