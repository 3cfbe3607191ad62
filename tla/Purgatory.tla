----------------------------- MODULE Purgatory -----------------------------
(***************************************************************************)
(* The machine of src/tests/circle_5_timeout_cancellation.rs around the    *)
(* engine: it buffers a batch of data under a timeout, sends it to every   *)
(* downstream channel, and condemns itself (DrinkingKoolAid) rather than   *)
(* lose data to a timeout or a closed channel.  Its three trials build it  *)
(* with three tables.  Actions the machine returns are not looked at: the  *)
(* state says whether it has condemned itself.                             *)
(*                                                                         *)
(* Handlers sleep and wait for room in a channel, and the host may drop a  *)
(* call while they do.                                                     *)
(***************************************************************************)
EXTENDS StateMachine, SequencesExt

CONSTANTS
    Item,           \* data
    Batch,          \* what StartMaterialization may carry: sequences of items
    Downstream,     \* how many channels there are
    MaxStarts,      \* bound: batches handed to the machine
    MaxDrops        \* bound: calls the host drops

VARIABLES
    event, payload, \* the event whose handler waits, and its data
    next,           \* ProcessBatch: <<i, tx>>, item i goes to channel tx next
    sent,           \* what came down each channel
    closed,         \* the channels whose receiver is gone
    \* auxiliary: the batches whose handle returned Ok, in order, how many were
    \* handed over, how many calls were dropped, and whether the machine ever
    \* condemned itself
    accepted, starts, drops, condemned

trial == <<event, payload, next, sent, closed, accepted, starts, drops, condemned>>
pvars == <<vars, trial>>

Channel == 1 .. Downstream
-----------------------------------------------------------------------------
Materializing(data) == [variant |-> "Materializing", data_buffer |-> data]
Plain(variant) == [variant |-> variant, data_buffer |-> <<>>]
Processing == Plain("Processing")
DrinkingKoolAid == Plain("DrinkingKoolAid")
Dead == Plain("Dead")

PurgatoryState == {Materializing(b) : b \in Batch \cup {<<>>}} \cup {Processing, DrinkingKoolAid, Dead}
PurgatoryName == [s \in PurgatoryState |-> s.variant]

\* The rows and the timeouts of the trials, no machine of which has hooks.
TrialTables(t) ==
    /\ t.transitions \subseteq { <<"Materializing", "StartMaterialization">>,
                                 <<"Materializing", "ProcessBatch">>,
                                 <<"DrinkingKoolAid", "DrinkKoolAid">> }
    /\ DOMAIN t.timeout_handlers \subseteq {"Materializing", "Processing"}
    /\ t.entry_handlers = {} /\ t.exit_handlers = {} /\ ~t.unhandled_handler

ASSUME PurgatoryAssumption ==
    /\ State = PurgatoryState /\ VariantName = PurgatoryName
    /\ {"StartMaterialization", "ProcessBatch", "DrinkKoolAid"} \subseteq Event
    /\ \A t \in Tables : TrialTables(t)
    /\ Batch \subseteq Seq(Item) /\ {Downstream, MaxStarts, MaxDrops} \subseteq Nat

PInit ==
    /\ Init
    /\ current_state = Materializing(<<>>)
    /\ event = None /\ payload = <<>> /\ next = <<1, 1>>
    /\ sent = [tx \in Channel |-> <<>>] /\ closed = {}
    /\ accepted = <<>> /\ starts = 0 /\ drops = 0 /\ condemned = FALSE
-----------------------------------------------------------------------------
\* The host hands over an event with its data; without a row for it handle
\* returns Err at once.
Give(e, data) ==
    /\ Handle(e)
    /\ IF pc' = "transition" THEN event' = e /\ payload' = data
                             ELSE UNCHANGED <<event, payload>>
    /\ next' = <<1, 1>>
    /\ UNCHANGED <<sent, closed, accepted, drops, condemned>>

Start(b) ==
    /\ starts < MaxStarts /\ starts' = starts + 1
    /\ Give("StartMaterialization", b)

ProcessBatch == Give("ProcessBatch", <<>>) /\ UNCHANGED starts
DrinkKoolAid == Give("DrinkKoolAid", <<>>) /\ UNCHANGED starts
CheckTimer   == CheckTimeout /\ UNCHANGED trial
-----------------------------------------------------------------------------
\* A handler returns, and the engine ends the call.
Becomes(s) ==
    /\ HandlerReturns(s)
    /\ event' = None /\ payload' = <<>> /\ next' = <<1, 1>>
    /\ condemned' = (condemned \/ s = DrinkingKoolAid)
    /\ UNCHANGED <<sent, closed, starts, drops>>

StartReturns ==
    /\ pc = "transition" /\ event = "StartMaterialization"
    /\ Becomes(Materializing(payload))
    /\ accepted' = Append(accepted, payload)

\* Each item of the buffer goes to every channel before the next item does.
Sending ==
    /\ pc = "transition" /\ event = "ProcessBatch"
    /\ Downstream > 0 /\ next[1] <= Len(current_state.data_buffer)

Send ==
    /\ Sending /\ next[2] \notin closed
    /\ sent' = [sent EXCEPT ![next[2]] = Append(@, current_state.data_buffer[next[1]])]
    /\ next' = IF next[2] < Downstream THEN <<next[1], next[2] + 1>> ELSE <<next[1] + 1, 1>>
    /\ UNCHANGED <<vars, event, payload, closed, accepted, starts, drops, condemned>>

\* Mutated form: a channel that is closed is passed over.
SendFailsSkipped ==
    /\ Sending /\ next[2] \in closed
    /\ next' = IF next[2] < Downstream THEN <<next[1], next[2] + 1>> ELSE <<next[1] + 1, 1>>
    /\ UNCHANGED <<vars, event, payload, sent, closed, accepted, starts, drops, condemned>>

SendFails ==
    /\ Sending /\ next[2] \in closed
    /\ Becomes(DrinkingKoolAid)
    /\ UNCHANGED accepted

ProcessReturns ==
    /\ pc = "transition" /\ event = "ProcessBatch" /\ ~Sending
    /\ Becomes(Processing)
    /\ UNCHANGED accepted

DrinkReturns ==
    /\ pc = "transition" /\ event = "DrinkKoolAid"
    /\ Becomes(Dead)
    /\ UNCHANGED accepted

\* The timeout of Materializing condemns the machine if there is data, the one of
\* Processing ends it.
TimeoutReturns ==
    /\ pc = "timeout"
    /\ Becomes(IF current_state.data_buffer # <<>> THEN DrinkingKoolAid ELSE Dead)
    /\ UNCHANGED accepted

Drop ==
    /\ drops < MaxDrops /\ drops' = drops + 1
    /\ Abort("dropped")
    /\ event' = None /\ payload' = <<>> /\ next' = <<1, 1>>
    /\ UNCHANGED <<sent, closed, accepted, starts, condemned>>

Close(tx) ==
    /\ closed' = closed \cup {tx}
    /\ UNCHANGED <<vars, event, payload, next, sent, accepted, starts, drops, condemned>>

TimePasses == Tick /\ UNCHANGED trial

PNext ==
    \/ \E b \in Batch : Start(b)
    \/ ProcessBatch \/ DrinkKoolAid \/ CheckTimer
    \/ StartReturns \/ Send \/ SendFails \/ ProcessReturns \/ DrinkReturns \/ TimeoutReturns
    \/ Drop \/ TimePasses
    \/ \E tx \in Channel : Close(tx)

PSpec == PInit /\ [][PNext]_pvars
-----------------------------------------------------------------------------
\* Batch b is where it can still be saved, or came down every channel whole and
\* in order, or its loss has been announced.
Safe(b) ==
    \/ condemned
    \/ current_state = Materializing(b)
    \/ current_state \in {Processing, Dead} /\ \A tx \in Channel : IsSuffix(b, sent[tx])

\* The batch the machine accepted last is never lost without a word, whatever
\* the order of events, polls, dropped calls and closing channels.
LastBatchSafe == accepted # <<>> => Safe(Last(accepted))
=============================================================================
