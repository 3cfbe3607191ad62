------------------------------ MODULE MCLedger ------------------------------
(***************************************************************************)
(* Two credits that together pass the limit, a debit and an append, up to  *)
(* seven deliveries: a credit can come often around other operations and   *)
(* restarts.  The mark is low enough for each of its three causes.         *)
(***************************************************************************)
EXTENDS Ledger

Op(kind, id, amount) == [kind |-> kind, id |-> id, amount |-> amount]
MCOperation == { Op("Credit", "c1", 3), Op("Credit", "c2", 2), Op("Debit", "d", 1), Op("Append", "a", 0) }
=============================================================================
