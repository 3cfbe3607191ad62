----------------------------- MODULE MCFsmMacro -----------------------------
(***************************************************************************)
(* Source texts of up to five clauses, which make at most four registering *)
(* calls, and chains of up to four such calls written by hand, over two    *)
(* states and two events, one of which the source misspells.  One of the   *)
(* two durations is out of range.  In the alias configuration the event    *)
(* may also be written under the name it was imported with.                *)
(***************************************************************************)
EXTENDS FsmMacro

MCVariant == {"A", "B"}
MCState == {"a"}
MCVariantName == [s \in MCState |-> "A"]
MCEvent == {"e", "go"}
MCDurations == {1, 100}

Path(variant, segment) == [variant |-> variant, segment |-> segment]
MCStatePath == {Path("A", "A"), Path("B", "B")}
MCEventPath == {Path("e", "e"), Path(None, "go")}
MCByHand == [n \in MCVariant \cup MCEvent |-> CASE n = "A" -> "B" [] n = "e" -> "go" [] OTHER -> n]
MCAliasPath == {Path("e", "e"), Path("e", "go")}
=============================================================================
