--------------------------- MODULE MCStateMachine ---------------------------
(***************************************************************************)
(* A small machine: variants A and B, A with two payloads, two events, and *)
(* configurations with and without hooks, wildcard rows, the unhandled     *)
(* hook and timeouts, one of them with a duration no Instant can hold.     *)
(***************************************************************************)
EXTENDS StateMachine

MCVariant == {"A", "B"}
MCState == {"a1", "a2", "b"}
MCVariantName == [s \in MCState |-> IF s = "b" THEN "B" ELSE "A"]
MCEvent == {"e", "f"}

Config(rows, entry, exit, timeouts, unhandled) ==
    [ transitions |-> rows, entry_handlers |-> entry, exit_handlers |-> exit,
      timeout_handlers |-> timeouts, unhandled_handler |-> unhandled ]

Rows     == { {<<"A", "e">>, <<"B", "f">>}, {<<"A", "e">>, <<"_", "e">>} }
Hooks    == { <<{}, {"A"}>>, <<{"A", "B"}, {"A"}>> }
Timeouts == { [v \in {"A"} |-> 2],
              [v \in {"A", "B"} |-> IF v = "A" THEN 0 ELSE 1],
              [v \in {"B"} |-> 100] }

MCTables == { Config(r, h[1], h[2], t, u) :
                 r \in Rows, h \in Hooks, t \in Timeouts, u \in BOOLEAN }

\* Ordinary durations only, so that the only way to leave an entry unfinished
\* is a failing or dropped entry hook.
MCEntryTables == { Config({<<"A", "e">>}, {"B"}, {}, [v \in {"A"} |-> 2], FALSE) }
=============================================================================
