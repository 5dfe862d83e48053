------------------------------ MODULE MdbClient ------------------------------
(***************************************************************************)
(* The application's side of src/src/device.rs composed with its actor:    *)
(* the owned handles MdbDevice, MdbSession and PendingVend, the futures    *)
(* their methods return, and what dropping any of them does.  A handle is  *)
(* owned by one place at a time, so `app` says where the DeviceHandle is   *)
(* and `hand` where each PendingVend is.                                   *)
(***************************************************************************)
EXTENDS MdbActor, FiniteSets

AppStates == {"device", "beginning", "displayingDevice", "session",
              "displayingSession", "finishing", "stopping", "gone"}
HandStates == {"none", "queued", "held", "deciding", "gone"}

Command(op, id, arg) == [op |-> op, id |-> id, arg |-> arg]

\* Sending into the channel of a stopped actor fails.
Post(command) ==
    mailbox' = IF alive = "running" THEN Append(mailbox, command) ELSE mailbox

ActorRests ==
    /\ wrote' = NoFrame
    /\ UNCHANGED <<alive, status, active, completed, invalid, stopVars, configVars,
                   vid, home, answer, outcome>>

\* A call on the DeviceHandle: the command goes out and its reply is awaited.
Call(state, command) ==
    /\ app' = state
    /\ Post(command)
    /\ reply' = IF alive = "running" THEN "none" ELSE "err"
    /\ ActorRests /\ UNCHANGED <<hand, verdict>>

\* An awaited call returns and leaves the handle in `state`.
Return(state) ==
    /\ reply # "none"
    /\ app' = state
    /\ reply' = "none"
    /\ ActorRests /\ UNCHANGED <<sid, hand, verdict, mailbox, events>>

-----------------------------------------------------------------------------
(* MdbDevice *)

BeginSession ==
    /\ app = "device" /\ sid < MaxSessions
    /\ sid' = sid + 1
    /\ events' = <<>>
    /\ \E funds \in {0, 1} : Call("beginning", Command("BeginSession", sid + 1, funds))

BeginReturns ==
    /\ app = "beginning"
    /\ Return(IF reply = "ok" THEN "session" ELSE "device")

Shutdown ==
    /\ app = "device"
    /\ Call("stopping", Command("Shutdown", 0, 0))
    /\ UNCHANGED <<sid, events>>

ShutdownReturns == app = "stopping" /\ Return("gone")

DeviceDisplay ==
    /\ app = "device"
    /\ Call("displayingDevice", Command("DisplayMessage", 0, 0))
    /\ UNCHANGED <<sid, events>>

DeviceDisplayReturns == app = "displayingDevice" /\ Return("device")

DropDevice ==
    /\ app = "device"
    /\ app' = "gone"
    /\ ActorRests /\ UNCHANGED <<sid, hand, reply, verdict, mailbox, events>>

-----------------------------------------------------------------------------
(* MdbSession *)

SessionDisplay ==
    /\ app = "session"
    /\ Call("displayingSession", Command("DisplayMessage", sid, 0))
    /\ UNCHANGED <<sid, events>>

SessionDisplayReturns == app = "displayingSession" /\ Return("session")

\* try_event, next_event and receive_event.
NextEvent ==
    /\ app = "session" /\ events # <<>>
    /\ events' = Tail(events)
    /\ hand' = IF Head(events).kind = "VendRequested"
                 THEN [hand EXCEPT ![Head(events).vend] = "held"] ELSE hand
    /\ ActorRests /\ UNCHANGED <<app, sid, reply, verdict, mailbox>>

Finish ==
    /\ app = "session"
    /\ Call("finishing", Command("EndSession", sid, 1))
    /\ UNCHANGED <<sid, events>>

\* finish() owns the receiver until it returns.
FinishReturns ==
    /\ app = "finishing" /\ events = <<>>
    /\ Return(IF reply = "ok" THEN "device" ELSE "gone")

\* Drop for MdbSession: the end is requested, nobody waits for the summary.
DropSession ==
    /\ app = "session"
    /\ app' = "gone"
    /\ Post(Command("EndSession", sid, 0))
    /\ ActorRests /\ UNCHANGED <<sid, hand, reply, verdict, events>>

\* The future of begin_session(), finish() or shutdown() is dropped, and the
\* DeviceHandle with it.
DropFuture ==
    /\ app \in {"beginning", "finishing", "stopping"}
    /\ app' = "gone"
    /\ ActorRests /\ UNCHANGED <<sid, hand, reply, verdict, mailbox, events>>

\* A receiver that is dropped drops what is queued in it, one event at a time.
DropEvent ==
    /\ app = "gone" \/ (app = "finishing" /\ reply # "none")
    /\ events # <<>>
    /\ events' = Tail(events)
    /\ IF Head(events).kind = "VendRequested"
         THEN /\ hand' = [hand EXCEPT ![Head(events).vend] = "gone"]
              /\ Post(Command("AbandonVend", Head(events).vend, 0))
         ELSE UNCHANGED <<hand, mailbox>>
    /\ ActorRests /\ UNCHANGED <<app, sid, reply, verdict>>

-----------------------------------------------------------------------------
(* PendingVend *)

decide(v, command) ==
    /\ hand[v] = "held"
    /\ hand' = [hand EXCEPT ![v] = "deciding"]
    /\ Post(command)
    /\ verdict' = IF alive = "running" THEN verdict
                  ELSE [verdict EXCEPT ![v] = "Disconnected"]
    /\ ActorRests /\ UNCHANGED <<app, sid, reply, events>>

\* approve() takes the requested price, approve_for() any amount.
Approve(v) == \E amount \in Amounts : decide(v, Command("Approve", v, amount))

Deny(v) == decide(v, Command("Deny", v, 0))

Decided(v) ==
    /\ hand[v] = "deciding" /\ verdict[v] # "none"
    /\ hand' = [hand EXCEPT ![v] = "gone"]
    /\ ActorRests /\ UNCHANGED <<app, sid, reply, verdict, mailbox, events>>

\* The future of decide() is dropped: `decided` is set, so nothing is sent.
DropDecision(v) ==
    /\ hand[v] = "deciding" /\ verdict[v] = "none"
    /\ hand' = [hand EXCEPT ![v] = "gone"]
    /\ ActorRests /\ UNCHANGED <<app, sid, reply, verdict, mailbox, events>>

DropVend_silent(v) ==
    /\ hand[v] = "held"
    /\ hand' = [hand EXCEPT ![v] = "gone"]
    /\ ActorRests /\ UNCHANGED <<app, sid, reply, verdict, mailbox, events>>
\* Drop for PendingVend.
DropVend(v) ==
    /\ hand[v] = "held"
    /\ hand' = [hand EXCEPT ![v] = "gone"]
    /\ Post(Command("AbandonVend", v, 0))
    /\ ActorRests /\ UNCHANGED <<app, sid, reply, verdict, events>>

-----------------------------------------------------------------------------

Init ==
    /\ ActorInit
    /\ app = "device" /\ sid = 0 /\ reply = "none"
    /\ hand = [v \in Vends |-> "none"]
    /\ verdict = [v \in Vends |-> "none"]

ClientStep ==
    \/ BeginSession \/ BeginReturns \/ Shutdown \/ ShutdownReturns
    \/ DeviceDisplay \/ DeviceDisplayReturns \/ DropDevice
    \/ SessionDisplay \/ SessionDisplayReturns \/ NextEvent
    \/ Finish \/ FinishReturns \/ DropSession \/ DropFuture \/ DropEvent
    \/ \E v \in Vends : Approve(v) \/ Deny(v) \/ Decided(v) \/ DropDecision(v) \/ DropVend(v)

\* The steps of the actor that need no message from the machine.
ActorStep ==
    \/ ReceiveCommand \/ CommandChannelClosed \/ VendDeadline \/ ExitDeadline
    \/ LinkClosed \/ Exit

\* Everything has been dropped and the actor has ended.
Stopped ==
    /\ alive # "running" /\ app = "gone" /\ events = <<>>
    /\ \A v \in Vends : hand[v] \in {"none", "gone"}
    /\ UNCHANGED vars

Next ==
    \/ \E m \in Messages : ReceiveMessage(m)
    \/ ActorStep
    \/ ClientStep
    \/ Stopped

Spec == Init /\ [][Next]_vars

\* select! polls its arms in random order, so an arm that stays ready is taken;
\* deadlines come; a dropped receiver finishes being dropped.
Fairness ==
    /\ WF_vars(ReceiveCommand) /\ WF_vars(CommandChannelClosed)
    /\ WF_vars(VendDeadline) /\ WF_vars(ExitDeadline) /\ WF_vars(Exit)
    /\ WF_vars(DropEvent)

FairSpec == Spec /\ Fairness

-----------------------------------------------------------------------------
(* Types. *)

VendRecords == [id : 0..MaxVends, price : Cash, amount : Cash]
Summaries == [id : 0..MaxSessions, reason : Reasons,
              successes : Nat, failures : Nat, cancels : Nat]
SessionRecords == [id : 0..MaxSessions, phase : Phases, vend : VendRecords,
                   endReason : Reasons, summary : Summaries,
                   endRequested : BOOLEAN, waiting : BOOLEAN]
SessionOps == {"BeginSession", "DisplayMessage", "EndSession", "Shutdown"}
VendOps == {"Approve", "Deny", "AbandonVend"}
Commands == [op : SessionOps, id : 0..MaxSessions, arg : {0, 1}]
            \union [op : VendOps, id : 0..MaxVends, arg : Cash]
FrameNames == {"None", "BeginSession", "SessionCancel", "Approve", "Deny", "EndSession",
               "Cancelled", "CommandOutOfSequence", "DisplayRequest"}
Frames == [name : FrameNames, vend : 0..MaxVends, amount : Cash]
EventKinds == Outcomes \union {"VendRequested", "VendCancelled", "VendDecisionExpired", "Ended"}
Whys == Reasons \union DecisionErrors \union {"", "Confirmed", "AssumedAfterReset"}
Events == [kind : EventKinds, vend : 0..MaxVends, amount : Cash, why : Whys]
InvalidEntries == [id : 0..MaxVends, error : DecisionErrors]
Verdicts == DecisionErrors \union {"none", "approved", "denied", "AlreadyDecided", "Disconnected"}

ActorTypeOK ==
    /\ alive \in {"running", "exited", "failed"}
    /\ status \in Statuses
    /\ active \in SessionRecords
    /\ completed \in Summaries
    /\ invalid \in Seq(InvalidEntries)
    /\ closed \in BOOLEAN /\ exitArmed \in BOOLEAN /\ stopWaiter \in BOOLEAN
    /\ maximumKnown \in BOOLEAN
    /\ display \in DisplayStates
    /\ wrote \in Frames
    /\ vid \in 0..MaxVends
    /\ home \in [Vends -> 0..MaxSessions]
    /\ answer \in [Vends -> Seq(Frames)]
    /\ outcome \in [Vends -> Seq(Events)]

ClientTypeOK ==
    /\ mailbox \in Seq(Commands)
    /\ events \in Seq(Events)
    /\ app \in AppStates
    /\ sid \in 0..MaxSessions
    /\ reply \in {"none", "ok", "err"}
    /\ hand \in [Vends -> HandStates]
    /\ verdict \in [Vends -> Verdicts]

\* Every variable keeps its type, at every step of the actor and the handles.
TypeOK == ActorTypeOK /\ ClientTypeOK

-----------------------------------------------------------------------------
(* Safety. *)

Approved(v) == \E i \in DOMAIN answer[v] : answer[v][i].name = "Approve"
ApprovedIn(s) == Cardinality({v \in Vends : home[v] = s /\ Approved(v)})
Running == alive = "running"

\* Once the application has asked for the session to end, no vend is offered
\* any more: whatever was open is settled first and the session never goes
\* back to the phase that accepts a VEND REQUEST (initiate_end and the
\* end_requested checks after VEND SUCCESS and VEND FAILURE).
NoVendAfterEndRequest ==
    active.endRequested => active.phase \notin {"None", "Idle", "VendPending"}

\* No approved vend gets lost from the books: in a live session the vends
\* approved on the wire are those counted as succeeded or failed, and the one
\* still open; the summary of a completed session has no open one.
ApprovedVendAccounted ==
    Running =>
      /\ active # NoSession =>
           ApprovedIn(active.id) = active.summary.successes + active.summary.failures
                                   + (IF ApprovedVend(active) = NoVend THEN 0 ELSE 1)
      /\ completed.id # 0 =>
           ApprovedIn(completed.id) = completed.successes + completed.failures

\* The machine gets at most one VEND APPROVED or VEND DENIED for each VEND
\* REQUEST, whoever races: application, deadline, cancel, drop, end.
SingleAnswer == \A v \in Vends : Len(answer[v]) <= 1

\* decide() tells the truth: Ok means that very answer was written, and any
\* error but Disconnected means that no approval was or will be.
DecisionHonest ==
    \A v \in Vends :
      /\ verdict[v] = "approved" => Approved(v)
      /\ verdict[v] = "denied" => answer[v] # <<>> /\ ~Approved(v)
      /\ Approved(v) => \/ verdict[v] \in {"approved", "Disconnected"}
                         \/ (verdict[v] = "none" /\ alive = "failed")

\* An outcome is reported at most once, only for an approved vend, and with
\* the amount that was approved on the wire, not the one requested.
OutcomeConsistent ==
    \A v \in Vends :
      /\ Len(outcome[v]) <= 1
      /\ outcome[v] # <<>> =>
           /\ answer[v] # <<>> /\ answer[v][1].name = "Approve"
           /\ outcome[v][1].amount = answer[v][1].amount

\* Ownership: while the application holds the MdbDevice, the actor has no
\* session, so begin_session() is never refused for one and shutdown() never
\* has one to close.
DeviceMeansNoSession ==
    app \in {"device", "displayingDevice", "stopping"} /\ Running => active = NoSession

\* invalid_vends stays within its capacity, holds one entry for a vend, and
\* never one for the vend that is pending or approved: an entry left there
\* would refuse a valid decision.
InvalidTable ==
    /\ Len(invalid) <= InvalidCap
    /\ \A i, j \in DOMAIN invalid : invalid[i].id = invalid[j].id => i = j
    /\ Running /\ (Pending \/ ApprovedVend(active) # NoVend) => active.vend.id \notin InvalidIds

InMailbox(ops, id) == \E i \in DOMAIN mailbox : mailbox[i].op \in ops /\ mailbox[i].id = id

\* No call waits for a reply nobody will send: its command is still queued or
\* the actor keeps the waiter, and a dead actor leaves nobody waiting.
NoLostWaiter ==
    /\ app \in Awaiting /\ reply = "none" =>
         /\ Running
         /\ \/ app = "beginning" /\ InMailbox({"BeginSession"}, sid)
            \/ app \in {"displayingDevice", "displayingSession"}
               /\ \E i \in DOMAIN mailbox : mailbox[i].op = "DisplayMessage"
            \/ app = "finishing" /\ InMailbox({"EndSession"}, sid)
            \/ app = "finishing" /\ active.id = sid /\ active.waiting
            \/ app = "stopping" /\ (stopWaiter \/ InMailbox({"Shutdown"}, 0))
    /\ \A v \in Vends :
         hand[v] = "deciding" /\ verdict[v] = "none" =>
           Running /\ InMailbox({"Approve", "Deny"}, v)

\* A pending vend is in somebody's hands: the application's, or those of a
\* command on its way that decides or abandons it.
PendingHasDecider ==
    Running /\ Pending =>
      \/ hand[active.vend.id] \in {"queued", "held"}
      \/ InMailbox({"Approve", "Deny", "AbandonVend"}, active.vend.id)

\* The published DeviceStatus and the session agree: SessionActive outlives
\* the session only when the grace period of a closing actor ran out, and only
\* a SETUP within a session publishes anything but SessionActive.
StatusMatchesSession ==
    Running =>
      /\ status = "SessionActive" => (active # NoSession \/ closed)
      /\ active # NoSession => status \in {"SessionActive", "Disabled"}
      /\ status # "Disconnected"

-----------------------------------------------------------------------------
(* The contract the actor and its handles keep. *)

\* What the contract calls each vend.
Entry(v) ==
    CASE home[v] = 0 -> "none"
      [] outcome[v] # <<>> -> outcome[v][1].kind
      [] outcome[v] = <<>> /\ Ready /\ Pending /\ active.vend.id = v -> "offered"
      [] outcome[v] = <<>> /\ Ready /\ ApprovedVend(active).id = v -> "approved"
      [] OTHER -> IF Approved(v) THEN "lost" ELSE "declined"

Ledger == INSTANCE VendLedger WITH
            ledger <- [v \in Vends |-> Entry(v)],
            serving <- Ready

\* Actor and handles together implement the vend ledger: no interleaving of
\* commands, messages, deadlines, drops and failures approves a declined vend,
\* opens a second one, changes an outcome or forgets an approved vend.
KeepsLedger == Ledger!Spec

-----------------------------------------------------------------------------
(* Action properties. *)

\* A VEND REQUEST is offered to the application or denied, also when nobody
\* is left to decide it (the doc of PendingVend, device.rs:568).
VendRequestAnswered ==
    [][vid' > vid => active'.phase \in {"VendPending"} \/ wrote'.name = "Deny"]_vars

-----------------------------------------------------------------------------
(* Liveness. *)

\* approve() and deny() return, whatever becomes of the vend and the actor.
DecisionReturns ==
    \A v \in Vends : hand[v] = "deciding" ~> verdict[v] # "none" \/ hand[v] = "gone"

\* No vend stays pending: decided, cancelled, abandoned or timed out.
VendBounded ==
    \A v \in Vends : Pending /\ active.vend.id = v ~> ~(Pending /\ active.vend.id = v)

\* An actor without handles ends, even if the machine never closes the session.
ActorStops == ~HasSender ~> ~Running
=============================================================================
