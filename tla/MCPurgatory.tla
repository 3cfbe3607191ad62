---------------------------- MODULE MCPurgatory ----------------------------
(***************************************************************************)
(* The tables of the three trials, two downstreams, batches of one and two *)
(* items, two of which may be handed over.  The timeout of Materializing   *)
(* is the shorter one.                                                     *)
(***************************************************************************)
EXTENDS Purgatory

MCVariant == {"Materializing", "Processing", "DrinkingKoolAid", "Dead"}
MCEvent == {"StartMaterialization", "ProcessBatch", "DrinkKoolAid"}
MCItem == {"m1", "m2", "m3"}
MCBatch == {<<"m1">>, <<"m2", "m3">>}

Table(rows, timeouts) ==
    [ transitions |-> rows, entry_handlers |-> {}, exit_handlers |-> {},
      timeout_handlers |-> timeouts, unhandled_handler |-> FALSE ]
Work == {<<"Materializing", "StartMaterialization">>, <<"Materializing", "ProcessBatch">>}
MCTables ==
    { Table(Work, [v \in {"Materializing", "Processing"} |-> IF v = "Materializing" THEN 1 ELSE 2]),
      Table({<<"Materializing", "StartMaterialization">>, <<"DrinkingKoolAid", "DrinkKoolAid">>},
            [v \in {"Materializing"} |-> 1]),
      Table(Work, <<>>) }
=============================================================================
