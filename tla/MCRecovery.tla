----------------------------- MODULE MCRecovery -----------------------------
(***************************************************************************)
(* A: e leads to B, f back to A, a timeout to B.  B: e leads to A, and     *)
(* there is no row for f: it is an error, or goes to the unhandled hook,   *)
(* or to a wildcard row that leads to A.  With and without hooks.          *)
(***************************************************************************)
EXTENDS Recovery

MCState == {"a", "b"}
MCVariantName == [s \in MCState |-> IF s = "a" THEN "A" ELSE "B"]
MCNextOf == [s \in MCState |-> [e \in {"e", "f"} |-> IF s = "a" /\ e = "e" THEN "b" ELSE "a"]]
MCAfterTimeout == [s \in MCState |-> "b"]

Rows == {<<"A", "e">>, <<"A", "f">>, <<"B", "e">>}
Config(rows, entry, exit, timeouts, unhandled) ==
    [ transitions |-> rows, entry_handlers |-> entry, exit_handlers |-> exit,
      timeout_handlers |-> timeouts, unhandled_handler |-> unhandled ]
MCTables == { Config(Rows, {}, {}, [v \in {"A"} |-> 1], TRUE),
              Config(Rows, {"B"}, {"A"}, [v \in {"A"} |-> 1], FALSE),
              Config(Rows \cup {<<"_", "f">>}, {"A"}, {"A"},
                     [v \in {"A", "B"} |-> IF v = "A" THEN 1 ELSE 2], TRUE) }
=============================================================================
