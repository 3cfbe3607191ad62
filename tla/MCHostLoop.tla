----------------------------- MODULE MCHostLoop -----------------------------
(***************************************************************************)
(* A worker with an active state that times out and a failed state, hooks  *)
(* on both, and an error event that the failed state does not handle       *)
(* itself.  The failed state's timeout is absent, immediate, or so long    *)
(* that no Instant can hold its deadline.                                  *)
(***************************************************************************)
EXTENDS HostLoop

MCVariant == {"Active", "Failed"}
MCState == {"active", "failed"}
MCVariantName == [s \in MCState |-> IF s = "active" THEN "Active" ELSE "Failed"]
MCEvent == {"work", "error"}

MCTables ==
    { [ transitions |-> {<<"Active", "work">>, <<"Active", "error">>, <<"Failed", "work">>},
        entry_handlers |-> {"Failed"}, exit_handlers |-> {"Active"},
        timeout_handlers |-> t, unhandled_handler |-> u ] :
      t \in { [v \in {"Active"} |-> 1],
               [v \in {"Active", "Failed"} |-> IF v = "Active" THEN 1 ELSE 0],
               [v \in {"Active", "Failed"} |-> IF v = "Active" THEN 1 ELSE 100] },
      u \in BOOLEAN }
=============================================================================
