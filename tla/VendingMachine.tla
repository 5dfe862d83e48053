---------------------------- MODULE VendingMachine ----------------------------
(***************************************************************************)
(* The machine at the other end of the serial link: the AP 113's vending   *)
(* machine controller (VMC) with the PC2MDB adapter that forwards its      *)
(* messages.  It is not part of the repository: the model takes from it    *)
(* what the code and the bench results of src/MDB_HACKING.md rely on.      *)
(* The VMC acknowledges every frame, in order, and nothing in an ACK says  *)
(* which frame it is for.  Two answers of it are assumed: COMMAND OUT OF   *)
(* SEQUENCE makes it reset the reader (MDB_ACTOR_FOLLOW_UPS.md:84-87), and *)
(* it may answer any BEGIN SESSION with a reset, as one that came too soon *)
(* after END SESSION was (MDB_HACKING.md:254-256).  A BEGIN SESSION over a *)
(* session it already has is otherwise lost on it: the session goes on as  *)
(* it was (MDB_HACKING.md:248-252), and nothing is assumed to recover it.  *)
(***************************************************************************)
EXTENDS Naturals, Sequences

CONSTANTS
    MaxVends,    \* ids of vends an approval may name, as many as the reader's
    Patient,     \* customers select only when no answer is under way
    StartStates, \* what an earlier reader process may have left the VMC in
    MaxRequests, \* selections the customer makes (bound)
    MaxResets    \* resets and door openings of its own accord (bound)

VARIABLES
    vmc,       \* the state of the VMC's session with the reader
    serving,   \* the vend being dispensed, 0 for none and for an earlier process's
    product,   \* what physically became of each approved vend
    requests,  \* selections made
    resets,    \* resets and door openings
    line,      \* messages on their way to the reader
    bus        \* frames on their way to the VMC

machineVars == <<vmc, serving, product, requests, resets, line, bus>>

\* What this machine and its adapter say.
MachineMessages ==
    {"Ack", "Reset", "SetupConfiguration", "ReaderEnable", "ReaderDisable", "VendRequest",
     "VendCancel", "VendSuccess", "VendFailure", "SessionComplete"}

VmcStates == {"enabled", "session", "asking", "cancelling", "dispensing", "closing"}
Products == {"none", "dispensing", "dispensed", "failed", "unsettled"}

MachineInit ==
    /\ vmc \in StartStates /\ serving = 0
    /\ product = [v \in 1..MaxVends |-> "none"]
    /\ requests = 0 /\ resets = 0
    /\ line = <<>> /\ bus = <<>>

\* The VMC restarts the reader: what it was dispensing is left unsettled.
Reinitialize == <<"Reset", "SetupConfiguration", "ReaderEnable">>
Cut ==
    /\ vmc' = "enabled" /\ serving' = 0
    /\ product' = [v \in 1..MaxVends |-> IF v = serving THEN "unsettled" ELSE product[v]]

Settled(state) == vmc' = state /\ UNCHANGED <<serving, product>>

-----------------------------------------------------------------------------
(* Reading a frame: it is acknowledged, and answered if the state calls for it. *)

Acknowledge(consequences) ==
    /\ bus' = Tail(bus)
    /\ line' = Append(line, "Ack") \o consequences
    /\ UNCHANGED <<requests, resets>>

\* After a denial or a finished vend the AP 113 closes the session; other VMCs
\* keep it for the next selection.
MayClose(before) ==
    \/ Acknowledge(before) /\ Settled("session")
    \/ Acknowledge(Append(before, "SessionComplete")) /\ Settled("closing")

ReadFrame ==
    /\ bus # <<>>
    /\ LET f == Head(bus) IN
       \/ /\ f.name = "BeginSession" /\ vmc = "enabled"
          /\ Acknowledge(<<>>) /\ Settled("session")
       \/ /\ f.name \in {"BeginSession", "CommandOutOfSequence"}
          /\ Acknowledge(Reinitialize) /\ Cut
       \/ /\ f.name = "Approve" /\ vmc = "asking"
          /\ Acknowledge(<<>>)
          /\ vmc' = "dispensing" /\ serving' = f.vend
          /\ product' = [product EXCEPT ![f.vend] = "dispensing"]
       \/ /\ f.name = "Deny" /\ vmc \in {"asking", "cancelling"}
          /\ MayClose(<<>>)
       \/ /\ f.name = "SessionCancel" /\ vmc = "session"
          /\ Acknowledge(<<"SessionComplete">>) /\ Settled("closing")
       \/ /\ f.name = "EndSession" /\ vmc \in {"session", "closing"}
          /\ Acknowledge(<<>>) /\ Settled("enabled")
       \/ /\ \/ f.name \in {"DisplayRequest", "Cancelled"}
             \/ f.name = "BeginSession" /\ vmc # "enabled"
             \/ f.name = "Approve" /\ vmc # "asking"
             \/ f.name = "Deny" /\ vmc \notin {"asking", "cancelling"}
             \/ f.name = "SessionCancel" /\ vmc # "session"
             \/ f.name = "EndSession" /\ vmc \notin {"session", "closing"}
          /\ Acknowledge(<<>>) /\ Settled(vmc)

-----------------------------------------------------------------------------
(* What happens at the machine. *)

Tell(messages) == line' = line \o messages /\ UNCHANGED bus

\* The reader has read all that was said and no answer to an earlier selection
\* is under way: a patient customer takes that long to select again.
NoAnswerUnderWay ==
    line = <<>> /\ \A i \in DOMAIN bus : bus[i].name \notin {"Approve", "Deny"}

Select ==
    /\ vmc = "session" /\ requests < MaxRequests
    /\ Patient => NoAnswerUnderWay
    /\ requests' = requests + 1
    /\ Tell(<<"VendRequest">>) /\ Settled("asking") /\ UNCHANGED resets

\* The customer changes their mind before the answer.
CancelSelection ==
    /\ vmc = "asking"
    /\ Tell(<<"VendCancel">>) /\ Settled("cancelling") /\ UNCHANGED <<requests, resets>>

\* 60 seconds without an answer: 13 03, then 13 04.  Nothing stays on the link
\* that long; only an answer of this moment may still be under way.
GiveUp ==
    /\ vmc = "asking" /\ line = <<>> /\ Len(bus) <= 1
    /\ Tell(<<"VendFailure", "SessionComplete">>) /\ Settled("closing")
    /\ UNCHANGED <<requests, resets>>

Dispense ==
    /\ vmc = "dispensing"
    /\ \E fate \in {"dispensed", "failed"} :
         LET report == IF fate = "dispensed" THEN "VendSuccess" ELSE "VendFailure" IN
         /\ product' = [v \in 1..MaxVends |-> IF v = serving THEN fate ELSE product[v]]
         /\ \/ Tell(<<report>>) /\ vmc' = "session"
            \/ Tell(<<report, "SessionComplete">>) /\ vmc' = "closing"
    /\ serving' = 0
    /\ UNCHANGED <<requests, resets>>

\* The VMC closes an idle session (the customer takes the credit back).
CloseSession ==
    /\ vmc = "session"
    /\ Tell(<<"SessionComplete">>) /\ Settled("closing") /\ UNCHANGED <<requests, resets>>

\* A power cycle.
Restart ==
    /\ resets < MaxResets
    /\ resets' = resets + 1
    /\ Tell(Reinitialize) /\ Cut /\ UNCHANGED requests

\* The operator opens the door: READER DISABLE, whatever the reader is doing.
OpenDoor ==
    /\ resets < MaxResets
    /\ resets' = resets + 1
    /\ Tell(<<"ReaderDisable">>) /\ Settled(vmc) /\ UNCHANGED requests

MachineNext ==
    \/ ReadFrame \/ Select \/ CancelSelection \/ GiveUp \/ Dispense
    \/ CloseSession \/ Restart \/ OpenDoor
=============================================================================
