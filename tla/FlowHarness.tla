----------------------------- MODULE FlowHarness -----------------------------
(***************************************************************************)
(* The flow test of src/src/harness.rs as the application of the vending   *)
(* system: the round loop that arms a session, shows the selection, reads  *)
(* y or n from the terminal, decides the vend, watches what becomes of it  *)
(* and reports.  `pc` says where Harness::run is; every step of it is a    *)
(* client action of MdbClient, or a look at the terminal.  The operator    *)
(* presses keys and Ctrl+C at any time; timeouts may pass at any time.     *)
(* An operator name_variant ahead of `name` is a faulty variant of it.     *)
(***************************************************************************)
EXTENDS VendingSystem

CONSTANT MaxKeys  \* unread key presses (bound)

ASSUME HarnessAssumption == MaxKeys \in Nat

VARIABLES
    pc,          \* where run() and run_round() are
    interrupted, \* the flag Ctrl+C sets
    keys,        \* the terminal's input buffer
    vend,        \* the selection of this round, with its price
    payment,     \* PaymentResult of this round
    seen,        \* WatchResult of this round
    report,      \* what was reported of each vend
    pressed      \* vends for which y was pressed with their selection on screen (history)

harnessVars == <<pc, interrupted, keys, vend, payment, seen, report, pressed>>
flowVars == <<systemVars, harnessVars>>

NoSelection == [id |-> 0, price |-> 0]
Nothing == [success |-> FALSE, failure |-> FALSE]
Results == {"none", "Paid", "Declined", "Timeout", "Cancelled", "Interrupted"}
Places == {"round", "arming", "selecting", "refreshing",
           "ended", "rearming", "finished", "rebeginning", "showing",
           "paying", "reading", "decided", "deciding", "watching", "leaving",
           "closing", "dropping", "stopping", "over"}
Said == {"none", "vended", "did not vend", "approved", "no vend"}

Goto(place) == pc' = place
Same(others) == UNCHANGED <<interrupted, pressed, others>>

\* The round is left with Err: its session and vend are dropped with the stack,
\* and the error reaches main.
Bail == Goto("over")

-----------------------------------------------------------------------------
(* Harness::run and the arming of a session.                                 *)

\* The flow test never asks for the machine's maximum.
Arm(place) ==
    /\ BeginSession
    /\ Running => mailbox'[Len(mailbox')].arg = 0
    /\ Goto(place)

StartRound ==
    /\ pc = "round" /\ ~interrupted
    /\ Arm("arming")
    /\ vend' = NoSelection
    /\ Same(<<keys, payment, seen, report>>)

StopRounds ==
    /\ pc = "round" /\ interrupted
    /\ Shutdown /\ Goto("stopping")
    /\ Same(<<keys, vend, payment, seen, report>>)

\* The error of a refused session keeps the device alive until the process ends.
ArmReturns ==
    /\ pc \in {"arming", "rebeginning"}
    /\ BeginReturns
    /\ IF reply = "ok" THEN Goto("selecting") ELSE Bail
    /\ Same(<<keys, vend, payment, seen, report>>)

StopReturns ==
    /\ pc = "stopping"
    /\ ShutdownReturns /\ Goto("over")
    /\ Same(<<keys, vend, payment, seen, report>>)

-----------------------------------------------------------------------------
(* wait_for_selection                                                        *)

InterruptedBeforeSelection ==
    /\ pc = "selecting" /\ interrupted
    /\ Finish /\ Goto("closing")
    /\ payment' = "Interrupted"
    /\ Same(<<keys, vend, seen, report>>)

RefreshDisplay ==
    /\ pc = "selecting" /\ ~interrupted
    /\ SessionDisplay /\ Goto("refreshing")
    /\ Same(<<keys, vend, payment, seen, report>>)

RefreshReturns ==
    /\ pc = "refreshing"
    /\ SessionDisplayReturns
    /\ IF reply = "ok" THEN Goto("selecting") ELSE Bail
    /\ Same(<<keys, vend, payment, seen, report>>)

AwaitSelection ==
    /\ pc = "selecting" /\ ~interrupted
    /\ NextEvent
    /\ LET event == Head(events) IN
       /\ vend' = IF event.kind = "VendRequested"
                    THEN [id |-> event.vend, price |-> event.amount] ELSE vend
       /\ Goto(CASE event.kind = "VendRequested" -> "showing"
                 [] event.kind = "Ended" -> "ended"
                 [] OTHER -> "selecting")
    /\ Same(<<keys, payment, seen, report>>)

\* "-- re-arming": the ended session is finished and another one begun.
Rearm ==
    /\ pc = "ended"
    /\ Finish /\ Goto("rearming")
    /\ Same(<<keys, vend, payment, seen, report>>)

RearmFinished ==
    /\ pc = "rearming"
    /\ FinishReturns
    /\ IF reply = "ok" THEN Goto("finished") ELSE Bail
    /\ Same(<<keys, vend, payment, seen, report>>)

RearmBegins ==
    /\ pc = "finished"
    /\ Arm("rebeginning")
    /\ Same(<<keys, vend, payment, seen, report>>)

-----------------------------------------------------------------------------
(* wait_for_payment: interruption, timeout, events and keys, in that order.  *)

Prompt_keeps_input ==
    /\ pc = "showing"
    /\ Goto("paying")
    /\ UNCHANGED <<vars, keys>>
    /\ Same(<<vend, payment, seen, report>>)
flush_input == keys' = <<>>

\* What was typed before the selection was shown does not count.
Prompt ==
    /\ pc = "showing"
    /\ flush_input /\ Goto("paying")
    /\ UNCHANGED vars
    /\ Same(<<vend, payment, seen, report>>)

Settle(result, place) ==
    /\ payment' = result /\ Goto(place)
    /\ Same(<<vend, seen, report>>)

PaymentInterrupted ==
    /\ pc = "paying" /\ interrupted
    /\ Finish /\ Settle("Interrupted", "closing")
    /\ UNCHANGED keys

PaymentTimeout ==
    /\ pc = "paying" /\ ~interrupted
    /\ UNCHANGED <<vars, keys>> /\ Settle("Timeout", "decided")

\* Whatever the session says of the vend or of itself ends the round.
PaymentCancelled ==
    /\ pc = "paying" /\ ~interrupted
    /\ NextEvent
    /\ IF Head(events).kind = "VendRequested"
         THEN Goto("reading") /\ Same(<<keys, vend, payment, seen, report>>)
         ELSE Settle("Cancelled", "leaving") /\ UNCHANGED keys

NothingHappened ==
    /\ pc = "paying" /\ ~interrupted /\ events = <<>>
    /\ Goto("reading") /\ UNCHANGED vars
    /\ Same(<<keys, vend, payment, seen, report>>)

\* A vend offered to a loop that does not want it is dropped on the spot.
Unwanted == {v \in Vends : hand[v] = "held" /\ v # vend.id}

\* A key that is there, or none: the poll timed out or a signal interrupted it.
read_key(key) ==
    \/ keys # <<>> /\ key = Head(keys) /\ keys' = Tail(keys)
    \/ key = "none" /\ UNCHANGED keys

ReadKey ==
    /\ pc = "reading" /\ Unwanted = {}
    /\ UNCHANGED vars
    /\ \/ read_key("y") /\ Settle("Paid", "decided")
       \/ read_key("n") /\ Settle("Declined", "decided")
       \/ read_key("none") /\ Goto("paying") /\ Same(<<vend, payment, seen, report>>)

-----------------------------------------------------------------------------
(* The decision, the watch and the report.                                   *)

Decide ==
    /\ pc = "decided"
    /\ decide(vend.id, IF payment = "Paid" THEN Command("Approve", vend.id, vend.price)
                                           ELSE Command("Deny", vend.id, 0))
    /\ Goto("deciding")
    /\ Same(<<keys, vend, payment, seen, report>>)

DecisionReturned ==
    /\ pc = "deciding"
    /\ Decided(vend.id)
    /\ seen' = Nothing
    /\ IF verdict[vend.id] \in {"approved", "denied"} THEN Goto("watching") ELSE Bail
    /\ Same(<<keys, vend, payment, report>>)

DropUnwanted ==
    /\ pc \in {"reading", "watching"}
    /\ \E v \in Unwanted : DropVend(v)
    /\ Goto(pc)
    /\ Same(<<keys, vend, payment, seen, report>>)

\* WatchResult::record.
record(event) ==
    [success |-> seen.success \/ event.kind = "VendSucceeded",
     failure |-> seen.failure \/ event.kind = "VendFailed"]

report_result_unpaid(what) ==
    CASE what.success -> "vended"
      [] ~what.success /\ what.failure -> "did not vend"
      [] OTHER -> "no vend"
report_result(what) ==
    CASE what.success -> "vended"
      [] ~what.success /\ payment = "Paid" ->
           IF what.failure THEN "did not vend" ELSE "approved"
      [] OTHER -> "no vend"

Report(what) == report' = [report EXCEPT ![vend.id] = report_result(what)]

Watch ==
    /\ pc = "watching" /\ ~interrupted /\ Unwanted = {}
    /\ NextEvent
    /\ seen' = record(Head(events))
    /\ IF Head(events).kind = "Ended" THEN Goto("leaving") /\ Report(seen')
                                      ELSE Goto("watching") /\ UNCHANGED report
    /\ Same(<<keys, vend, payment>>)

\* SETTLE_WATCH is over, or Ctrl+C.
WatchEnds ==
    /\ pc = "watching" /\ Unwanted = {}
    /\ Finish /\ Goto("closing")
    /\ Report(seen)
    /\ Same(<<keys, vend, payment, seen>>)

\* finish() after the machine ended the round or the session.
Leave ==
    /\ pc = "leaving"
    /\ Finish /\ Goto("closing")
    /\ Same(<<keys, vend, payment, seen, report>>)

\* The session is finished, or the error ends run().
CloseReturns ==
    /\ pc = "closing"
    /\ FinishReturns
    /\ IF reply = "ok" THEN Goto("dropping") ELSE Bail
    /\ Same(<<keys, vend, payment, seen, report>>)

\* Only now the vend of an undecided round is dropped.
RoundReturns ==
    /\ pc = "dropping"
    /\ IF vend.id # 0 /\ hand[vend.id] = "held" THEN DropVend(vend.id) ELSE UNCHANGED vars
    /\ vend' = NoSelection /\ payment' = "none" /\ seen' = Nothing
    /\ Goto("round") /\ Same(<<keys, report>>)

-----------------------------------------------------------------------------
(* The end of the process.                                                   *)

\* The handles that an error left on the stack are dropped.
Unwind ==
    /\ pc = "over"
    /\ \/ DropSession \/ DropEvent
       \/ \E v \in Vends : DropVend(v)
    /\ UNCHANGED harnessVars

\* main returns, or process::exit: the actor's task goes with the process.
Quit ==
    /\ pc = "over" /\ Running
    /\ app \in {"device", "gone"} /\ events = <<>> /\ \A v \in Vends : hand[v] # "held"
    /\ alive' = "exited" /\ mailbox' = <<>> /\ wrote' = NoFrame
    /\ UNCHANGED <<status, active, completed, invalid, stopVars, configVars, events,
                   clientVars, reply, verdict, vendVars, answer, outcome>>
    /\ UNCHANGED harnessVars

-----------------------------------------------------------------------------
(* The operator.  A key typed between two prompts waits in the buffer, and    *)
(* Ctrl+C in its flag, until run() looks: that they come just before the look *)
(* loses nothing.                                                            *)

PressKey ==
    /\ Len(keys) < MaxKeys /\ pc \in {"selecting", "showing", "paying", "reading"}
    /\ \E key \in {"y", "n"} :
         /\ keys' = Append(keys, key)
         /\ pressed' = IF key = "y" /\ pc \in {"showing", "paying", "reading"}
                         THEN pressed \union {vend.id} ELSE pressed
    /\ UNCHANGED <<vars, pc, interrupted, vend, payment, seen, report>>

CtrlC ==
    /\ ~interrupted /\ pc \in {"round", "selecting", "paying", "watching"}
    /\ interrupted' = TRUE
    /\ UNCHANGED <<vars, pc, keys, vend, payment, seen, report, pressed>>

-----------------------------------------------------------------------------

HarnessInit ==
    /\ pc = "round" /\ interrupted = FALSE /\ keys = <<>>
    /\ vend = NoSelection /\ payment = "none" /\ seen = Nothing
    /\ report = [v \in Vends |-> "none"] /\ pressed = {}

\* The bound MaxSessions: no further session can be armed.
OutOfSessions == pc = "finished" /\ sid = MaxSessions

RunStep ==
    \/ StartRound \/ ArmReturns \/ StopRounds \/ StopReturns
    \/ InterruptedBeforeSelection \/ RefreshReturns \/ AwaitSelection
    \/ Rearm \/ RearmFinished \/ RearmBegins
    \/ Prompt \/ PaymentInterrupted \/ PaymentTimeout \/ PaymentCancelled
    \/ NothingHappened \/ ReadKey
    \/ Decide \/ DecisionReturned \/ DropUnwanted \/ Watch \/ WatchEnds
    \/ Leave \/ CloseReturns \/ RoundReturns
    \/ pc # "over" /\ DropEvent /\ UNCHANGED harnessVars
    \/ Unwind

FlowNext ==
    \/ ReaderReceives /\ UNCHANGED harnessVars
    \/ ReaderActs /\ UNCHANGED harnessVars
    \/ MachineActs /\ UNCHANGED harnessVars
    \/ RunStep /\ UNCHANGED machineVars
    \/ RefreshDisplay /\ Len(bus) + Len(line) < MaxBacklog /\ UNCHANGED machineVars
    \/ Quit /\ UNCHANGED machineVars
    \/ (PressKey \/ CtrlC) /\ UNCHANGED machineVars
    \/ OutOfSessions /\ UNCHANGED flowVars
    \/ pc = "over" /\ ~Running /\ UNCHANGED flowVars

FlowSpec == SystemInit /\ HarnessInit /\ [][FlowNext]_flowVars

-----------------------------------------------------------------------------
(* Properties. *)

\* The variables of the flow test and of the system under it keep their types.
HarnessTypeOK ==
    /\ SystemTypeOK
    /\ pc \in Places /\ interrupted \in BOOLEAN
    /\ keys \in Seq({"y", "n"})
    /\ vend \in [id : 0..MaxVends, price : Cash]
    /\ payment \in Results
    /\ seen \in [success : BOOLEAN, failure : BOOLEAN]
    /\ report \in [Vends -> Said]
    /\ pressed \subseteq Vends

\* A vend is approved only for a y pressed while its own selection was on the
\* screen: no key of an earlier round pays for it (flush_input, wait_for_payment).
PaidForThisVend == \A v \in Vends : Approved(v) => v \in pressed

\* What the round reports is what became of the product: nothing is dispensed
\* after "nothing charged" or "DID NOT VEND", and what "vended" was dispensed,
\* unless a reset made the reader assume so (report_result).
ReportsHonest ==
    \A v \in Vends :
      /\ report[v] = "no vend" => product[v] = "none"
      /\ report[v] = "did not vend" => product[v] \in {"none", "failed"}
      /\ report[v] = "vended" =>
           product[v] = "dispensed" \/ outcome[v][1].why = "AssumedAfterReset"

\* "machine ended the session before a selection -- re-arming" (harness.rs:267):
\* a session that the machine ends is followed by another one.
RearmsAfterEnd == [][pc = "rebeginning" => pc' # "over"]_flowVars
=============================================================================
