------------------------------- MODULE MdbActor -------------------------------
(***************************************************************************)
(* The Tokio actor of src/src/device.rs: the task that owns the serial     *)
(* link, executes the commands of the application's handles and reacts to  *)
(* the machine.  One action per arm of its select! loop and one operator   *)
(* per handler.  MdbClient adds the application's side of the channels.    *)
(* An operator name_variant ahead of `name` is a faulty variant of it: a    *)
(* plausible bug that the properties must notice, used nowhere else.       *)
(***************************************************************************)
EXTENDS Integers, Sequences

CONSTANTS
    MaxSessions,      \* sessions the application may begin (bound)
    MaxVends,         \* vends the machine may request (bound)
    MaxCancels,       \* cancels counted in one session (bound)
    InvalidCap,       \* entries invalid_vends keeps (32 in the code)
    Amounts,          \* Level1Amount: prices and approved amounts
    Messages,         \* what this machine may send
    FallbackDisplay,  \* DisplayState::from_fallback of the configuration
    SetupDisplays,    \* DisplayStates a SETUP of this machine can produce
    LinkMayFail       \* whether the serial link can break

DisplayStates == {"Unknown", "Unavailable", "Unsupported", "Available"}

AdapterMessages ==
    {"Ack", "Nak", "Reset", "SetupConfiguration", "SetupPrices", "ReaderEnable",
     "ReaderDisable", "ReaderCancel", "VendRequest", "VendCancel",
     "VendSuccess", "VendFailure", "SessionComplete", "Other"}

ASSUME BoundsAssumption ==
    /\ MaxSessions \in Nat /\ MaxVends \in Nat /\ MaxCancels \in Nat
    /\ InvalidCap \in Nat \ {0}
    /\ Amounts \subseteq Nat \ {0}
ASSUME DisplayAssumption ==
    /\ FallbackDisplay \in {"Unknown", "Available"}
    /\ SetupDisplays \subseteq DisplayStates \ {"Unknown"}
ASSUME LinkAssumption == LinkMayFail \in BOOLEAN /\ Messages \subseteq AdapterMessages

VARIABLES
    (* the actor's own state *)
    alive,        \* "running", or how run() ended
    status,       \* DeviceStatus, the watch channel's value
    active,       \* active: Option<ActiveSession>
    completed,    \* completed: Option<SessionSummary>
    invalid,      \* invalid_vends
    closed,       \* command_channel_closed
    exitArmed,    \* exit_deadline.is_some()
    stopWaiter,   \* shutdown_waiters is not empty
    maximumKnown, \* machine_maximum.is_some()
    display,      \* display: DisplayState
    (* what it shares with the application *)
    mailbox,      \* the command channel
    events,       \* the event channel of the application's session
    app,          \* who owns the DeviceHandle, and the call in progress
    sid,          \* SessionIds handed out: the latest is the application's
    reply,        \* the oneshot of the application's call in progress
    hand,         \* where each PendingVend is
    verdict,      \* what each decide() was answered
    (* the wire, and the history the properties are about *)
    wrote,        \* the frame written by the last step
    vid,          \* VendIds handed out
    home,         \* the session each vend belongs to
    answer,       \* Approve and Deny frames written for each vend
    outcome       \* VendSucceeded and VendFailed events of each vend

stopVars == <<closed, exitArmed, stopWaiter>>
configVars == <<maximumKnown, display>>
clientVars == <<app, sid>>
vendVars == <<vid, home, hand>>
vars == <<alive, status, active, completed, invalid, stopVars, configVars,
          mailbox, events, clientVars, reply, verdict, wrote, vendVars,
          answer, outcome>>

-----------------------------------------------------------------------------
(* Data. *)

Sessions == 1..MaxSessions
Vends == 1..MaxVends
Cash == Amounts \union {0}        \* 0 stands for None

Statuses == {"Inactive", "Disabled", "Enabled", "SessionActive", "Disconnected"}
Reasons == {"Completed", "ApplicationRequested", "Reset", "Disconnected"}
DecisionErrors == {"Cancelled", "TimedOut", "SessionEnded", "Abandoned"}
Phases == {"None", "Idle", "VendPending", "DenyingForEnd", "AwaitingVendResult",
           "AwaitingSessionComplete", "AwaitingEndSessionAck", "AwaitingReset"}

NoVend == [id |-> 0, price |-> 0, amount |-> 0]
NoSummary == [id |-> 0, reason |-> "Completed",
              successes |-> 0, failures |-> 0, cancels |-> 0]

\* ActiveSession::new.  `vend` is the record the phase carries, `endReason` the
\* reason AwaitingEndSessionAck carries, `waiting` says that the application's
\* finish() is among end_waiters.
NewSession(id) ==
    [id |-> id, phase |-> "Idle", vend |-> NoVend, endReason |-> "Completed",
     summary |-> [NoSummary EXCEPT !.id = id],
     endRequested |-> FALSE, waiting |-> FALSE]
NoSession == [NewSession(0) EXCEPT !.phase = "None"]

\* A frame names the vend it answers; the wire does not carry that field.
VendFrame(name, v, amount) == [name |-> name, vend |-> v, amount |-> amount]
Frame(name) == VendFrame(name, 0, 0)
NoFrame == Frame("None")

VendEvent(kind, v, amount, why) ==
    [kind |-> kind, vend |-> v, amount |-> amount, why |-> why]
Ended(reason) == VendEvent("Ended", 0, 0, reason)
Outcomes == {"VendSucceeded", "VendFailed"}

Awaiting == {"beginning", "displayingDevice", "displayingSession",
             "finishing", "stopping"}
HasReceiver == {"beginning", "session", "displayingSession", "finishing"}

\* The MdbSession of the actor's session still exists, so events reach it.
Listening == app \in HasReceiver /\ active.id = sid
\* Some strong sender of the command channel is left: the DeviceHandle or a
\* PendingVend.
HasSender == app # "gone" \/ \E v \in Vends : hand[v] \in {"queued", "held", "deciding"}

Pending == active.phase = "VendPending"
ApprovedVend_forgets(s) == IF s.phase = "AwaitingVendResult" THEN s.vend ELSE NoVend
\* The vend whose outcome is open in session s, as command_out_of_sequence and
\* handle_reset look for it.
ApprovedVend(s) ==
    IF s.phase \in {"AwaitingVendResult", "AwaitingReset"} THEN s.vend ELSE NoVend

shouldExit == (closed \/ stopWaiter) /\ active = NoSession
Ready == alive = "running" /\ ~shouldExit

-----------------------------------------------------------------------------
(* Building blocks of the handlers. *)

Emit(evs) ==
    /\ events' = IF Listening THEN events \o evs ELSE events
    /\ outcome' = IF evs # <<>> /\ evs[1].kind \in Outcomes
                    THEN [outcome EXCEPT ![evs[1].vend] = Append(@, evs[1])]
                    ELSE outcome

\* The actor ends: shutdown() hears `stopped`, and every other oneshot sender is
\* dropped without an answer, which reads as Disconnected.
DropReplies(stopped) ==
    /\ reply' = IF app \notin Awaiting \/ reply # "none" THEN reply
                ELSE IF app = "stopping" /\ stopWaiter THEN stopped ELSE "err"
    /\ verdict' = [v \in Vends |->
         IF hand[v] = "deciding" /\ verdict[v] = "none" THEN "Disconnected" ELSE verdict[v]]

\* The actor stops on an error; what it keeps to itself dies with it.
fail(before) ==
    /\ alive' = "failed"
    /\ status' = "Disconnected"
    /\ Emit(before \o IF active = NoSession THEN <<>> ELSE <<Ended("Disconnected")>>)
    /\ active' = NoSession
    /\ DropReplies("err")
    /\ UNCHANGED <<completed, invalid, configVars, clientVars>>

\* A stopped actor drops its end of the command channel, and what is in it.
Queue(q) == mailbox' = IF alive' = "running" THEN q ELSE <<>>

\* The answer to the call the application is awaiting, if it still is.
Reply(states, result) == reply' = IF app \in states THEN result ELSE reply

Logged(frame) ==
    answer' = IF frame.vend = 0 THEN answer
              ELSE [answer EXCEPT ![frame.vend] = Append(@, frame)]

\* Link::send followed by `Then`; `before` are the events sent ahead of it.  A
\* failed write may still have reached the adapter, and kills the actor.
Send(frame, before, Then) ==
    \/ wrote' = frame /\ Logged(frame) /\ Then
    \/ /\ LinkMayFail
       /\ \E sent \in {frame, NoFrame} : wrote' = sent /\ Logged(sent)
       /\ fail(before)

Quiet(evs) == wrote' = NoFrame /\ UNCHANGED answer /\ Emit(evs)

InvalidIds == {invalid[i].id : i \in DOMAIN invalid}

invalidate_vend_overfull(id, error) ==
    LET grown == Append(invalid, [id |-> id, error |-> error]) IN
    IF Len(grown) > InvalidCap + 1 THEN Tail(grown) ELSE grown
\* The table after invalidate_vend(id, error).
invalidate_vend(id, error) ==
    LET grown == Append(invalid, [id |-> id, error |-> error]) IN
    IF id \in InvalidIds
      THEN [i \in DOMAIN invalid |->
              IF invalid[i].id = id THEN [id |-> id, error |-> error] ELSE invalid[i]]
      ELSE IF Len(grown) > InvalidCap THEN Tail(grown) ELSE grown

\* The table after take_invalid_vend(id) found an entry.
take_invalid_vend(id) ==
    LET i == CHOOSE j \in DOMAIN invalid : invalid[j].id = id
    IN  [j \in 1..(Len(invalid) - 1) |-> IF j < i THEN invalid[j] ELSE invalid[j + 1]]

\* What most handlers leave alone once the link has taken their frame.
Calm == UNCHANGED <<alive, status, completed, configVars, clientVars, reply, verdict>>

Idling(s) == [s EXCEPT !.phase = "Idle", !.vend = NoVend]

\* (As if the waiter were kept somewhere: a dropped one reads as Disconnected.)
complete_active_silent(s, reason) ==
    /\ active' = NoSession
    /\ completed' = [s.summary EXCEPT !.reason = reason]
    /\ UNCHANGED reply
complete_active(s, reason) ==
    /\ active' = NoSession
    /\ completed' = [s.summary EXCEPT !.reason = reason]
    /\ reply' = IF s.waiting /\ app = "finishing" THEN "ok" ELSE reply

-----------------------------------------------------------------------------
(* Ending a session. *)

initiate_end(s, before) ==
    LET e == [s EXCEPT !.endRequested = TRUE,
                       !.summary.reason = "ApplicationRequested"]
    IN
    \/ /\ s.phase = "Idle"
       /\ Send(Frame("SessionCancel"), before,
               /\ active' = [e EXCEPT !.phase = "AwaitingSessionComplete"]
               /\ Emit(before)
               /\ UNCHANGED invalid /\ Calm)
    \/ /\ s.phase = "VendPending"
       /\ Send(VendFrame("Deny", s.vend.id, 0), before,
               /\ invalid' = invalidate_vend(s.vend.id, "SessionEnded")
               /\ active' = [e EXCEPT !.phase = "DenyingForEnd"]
               /\ Emit(before)
               /\ Calm)
    \/ /\ s.phase \notin {"Idle", "VendPending"}
       /\ active' = IF s.phase = "None" THEN s ELSE e
       /\ Quiet(before) /\ UNCHANGED invalid /\ Calm

command_out_of_sequence ==
    LET expired == IF Pending
                     THEN <<VendEvent("VendDecisionExpired", active.vend.id, 0, "SessionEnded")>>
                     ELSE <<>>
    IN
    Send(Frame("CommandOutOfSequence"), expired,
         /\ active' = IF active.phase = "None" THEN active
                      ELSE [active EXCEPT !.phase = "AwaitingReset",
                                          !.vend = ApprovedVend(active)]
         /\ invalid' = IF Pending THEN invalidate_vend(active.vend.id, "SessionEnded")
                                  ELSE invalid
         /\ Emit(expired)
         /\ Calm)

StatusAfter_completed(reason) == IF reason = "Completed" THEN "Enabled" ELSE status
\* The status complete_active publishes.
StatusAfter(reason) ==
    IF reason \in {"Completed", "ApplicationRequested"} THEN "Enabled" ELSE status

-----------------------------------------------------------------------------
(* The machine's messages. *)

handle_ack_of_end ==
    \/ /\ active.phase = "AwaitingEndSessionAck"
       /\ Quiet(<<Ended(active.endReason)>>)
       /\ complete_active(active, active.endReason)
       /\ status' = StatusAfter(active.endReason)
       /\ UNCHANGED <<alive, invalid, configVars, clientVars, verdict>>
    \/ /\ active.phase # "AwaitingEndSessionAck"
       /\ Quiet(<<>>) /\ UNCHANGED <<active, invalid>> /\ Calm
\* An ACK counts for whatever the session is waiting for: nothing tells which
\* frame it acknowledges.
handle_ack ==
    \/ /\ active.phase = "DenyingForEnd"
       /\ Send(Frame("SessionCancel"), <<>>,
               /\ active' = [active EXCEPT !.phase = "AwaitingSessionComplete",
                                           !.vend = NoVend]
               /\ Emit(<<>>) /\ UNCHANGED invalid /\ Calm)
    \/ /\ active.phase = "AwaitingEndSessionAck"
       /\ Quiet(<<Ended(active.endReason)>>)
       /\ complete_active(active, active.endReason)
       /\ status' = StatusAfter(active.endReason)
       /\ UNCHANGED <<alive, invalid, configVars, clientVars, verdict>>
    \/ /\ active.phase \notin {"DenyingForEnd", "AwaitingEndSessionAck"}
       /\ Quiet(<<>>) /\ UNCHANGED <<active, invalid>> /\ Calm

handle_reset ==
    LET vend == ApprovedVend(active)
        assumed == IF vend = NoVend THEN <<>>
                   ELSE <<VendEvent("VendSucceeded", vend.id, vend.amount, "AssumedAfterReset")>>
        s == [active EXCEPT !.summary.successes = @ + Len(assumed)]
    IN
    /\ IF active = NoSession
         THEN Quiet(<<>>) /\ UNCHANGED <<active, completed, reply>>
         ELSE Quiet(Append(assumed, Ended("Reset"))) /\ complete_active(s, "Reset")
    /\ invalid' = IF Pending THEN invalidate_vend(active.vend.id, "SessionEnded") ELSE invalid
    /\ display' = FallbackDisplay
    /\ status' = "Inactive"
    /\ UNCHANGED <<alive, maximumKnown, clientVars, verdict>>

\* SETUP: the configuration block and the price block.
handle_setup_configuration ==
    /\ display' \in SetupDisplays
    /\ status' = "Disabled"
    /\ Quiet(<<>>)
    /\ UNCHANGED <<alive, active, completed, invalid, maximumKnown, clientVars, reply, verdict>>

handle_setup_prices ==
    /\ maximumKnown' \in BOOLEAN
    /\ Quiet(<<>>)
    /\ UNCHANGED <<alive, status, active, completed, invalid, display, clientVars,
                   reply, verdict>>

\* READER ENABLE and DISABLE, which are out of sequence within a session.
handle_reader_control(newStatus) ==
    \/ active # NoSession /\ command_out_of_sequence
    \/ /\ active = NoSession
       /\ status' = newStatus
       /\ Quiet(<<>>)
       /\ UNCHANGED <<alive, active, completed, invalid, configVars, clientVars,
                      reply, verdict>>

handle_reader_cancel ==
    \/ active # NoSession /\ command_out_of_sequence
    \/ /\ active = NoSession
       /\ Send(Frame("Cancelled"), <<>>, Emit(<<>>) /\ UNCHANGED <<active, invalid>> /\ Calm)

\* A vend in an idle session is offered as a PendingVend; a session whose
\* receiver is gone denies it at once; without any sender left the PendingVend
\* cannot be built and the actor stops on MdbError::Disconnected.
handle_vend_request ==
    LET v == vid + 1
        Offer(place) == /\ vid' = v
                        /\ home' = [home EXCEPT ![v] = active.id]
                        /\ hand' = [hand EXCEPT ![v] = place]
    IN
    \/ /\ active.phase # "Idle"
       /\ command_out_of_sequence
       /\ UNCHANGED vendVars /\ Queue(mailbox)
    \/ /\ active.phase = "Idle" /\ vid < MaxVends
       /\ HasSender /\ Listening
       /\ \E price \in Amounts :
            /\ active' = [active EXCEPT !.phase = "VendPending",
                                        !.vend = [id |-> v, price |-> price, amount |-> 0]]
            /\ Quiet(<<VendEvent("VendRequested", v, price, "")>>)
       /\ Offer("queued")
       /\ UNCHANGED invalid /\ Calm /\ Queue(mailbox)
    \/ /\ active.phase = "Idle" /\ vid < MaxVends
       /\ HasSender /\ ~Listening
       /\ Offer("gone")
       /\ Send(VendFrame("Deny", v, 0), <<>>,
               /\ invalid' = invalidate_vend(v, "Abandoned")
               /\ Emit(<<>>) /\ UNCHANGED active /\ Calm)
       /\ Queue(Append(mailbox, [op |-> "AbandonVend", id |-> v, arg |-> 0]))
    \/ /\ active.phase = "Idle" /\ vid < MaxVends
       /\ ~HasSender
       /\ Offer("gone")
       /\ wrote' = NoFrame /\ UNCHANGED answer /\ fail(<<>>)
       /\ Queue(mailbox)

handle_vend_cancel ==
    LET cancelled(s) == [s EXCEPT !.summary.cancels = @ + 1]
        told == <<VendEvent("VendCancelled", active.vend.id, 0, "")>>
    IN
    \/ /\ Pending /\ active.summary.cancels < MaxCancels
       /\ Send(VendFrame("Deny", active.vend.id, 0), <<>>,
               /\ invalid' = invalidate_vend(active.vend.id, "Cancelled")
               /\ active' = cancelled(Idling(active))
               /\ Emit(told) /\ Calm)
    \/ /\ active.phase = "DenyingForEnd" /\ active.summary.cancels < MaxCancels
       /\ invalid' = invalidate_vend(active.vend.id, "Cancelled")
       /\ active' = cancelled(active)
       /\ Quiet(told) /\ Calm
    \/ /\ active.phase \notin {"VendPending", "DenyingForEnd"}
       /\ command_out_of_sequence

handle_session_complete ==
    \/ /\ active.phase \in {"VendPending", "AwaitingVendResult", "AwaitingReset"}
       /\ command_out_of_sequence
    \/ /\ active.phase \notin {"VendPending", "AwaitingVendResult", "AwaitingReset"}
       /\ Send(Frame("EndSession"), <<>>,
               /\ active' = IF active = NoSession THEN active
                            ELSE [active EXCEPT !.phase = "AwaitingEndSessionAck",
                                                !.vend = NoVend,
                                                !.endReason = active.summary.reason]
               /\ Emit(<<>>) /\ UNCHANGED invalid /\ Calm)

VendResult_forgets(kind, why, counted) ==
    LET told == <<VendEvent(kind, active.vend.id, active.vend.amount, why)>> IN
    \/ active.phase # "AwaitingVendResult" /\ command_out_of_sequence
    \/ /\ active.phase = "AwaitingVendResult"
       /\ active' = Idling(counted) /\ Quiet(told) /\ UNCHANGED invalid /\ Calm
VendResult_priced(kind, why, counted) ==
    LET told == <<VendEvent(kind, active.vend.id, active.vend.price, why)>> IN
    \/ active.phase # "AwaitingVendResult" /\ command_out_of_sequence
    \/ /\ active.phase = "AwaitingVendResult"
       /\ IF active.endRequested
            THEN initiate_end(Idling(counted), told)
            ELSE active' = Idling(counted) /\ Quiet(told) /\ UNCHANGED invalid /\ Calm
\* VEND SUCCESS and VEND FAILURE: the outcome is counted and reported, and an
\* end requested meanwhile is started now.
VendResult(kind, why, counted) ==
    LET told == <<VendEvent(kind, active.vend.id, active.vend.amount, why)>> IN
    \/ active.phase # "AwaitingVendResult" /\ command_out_of_sequence
    \/ /\ active.phase = "AwaitingVendResult"
       /\ IF active.endRequested
            THEN initiate_end(Idling(counted), told)
            ELSE active' = Idling(counted) /\ Quiet(told) /\ UNCHANGED invalid /\ Calm

handle_vend_success ==
    VendResult("VendSucceeded", "Confirmed", [active EXCEPT !.summary.successes = @ + 1])

handle_vend_failure_miscounted ==
    VendResult("VendFailed", "", [active EXCEPT !.summary.failures = @ - 1])
handle_vend_failure_confirmed ==
    VendResult("VendSucceeded", "Confirmed", [active EXCEPT !.summary.failures = @ + 1])
handle_vend_failure ==
    VendResult("VendFailed", "", [active EXCEPT !.summary.failures = @ + 1])

handle_adapter_message(m) ==
    \/ m = "Ack" /\ handle_ack
    \/ m = "Reset" /\ handle_reset
    \/ m = "SetupConfiguration" /\ handle_setup_configuration
    \/ m = "SetupPrices" /\ handle_setup_prices
    \/ m = "ReaderEnable" /\ handle_reader_control("Enabled")
    \/ m = "ReaderDisable" /\ handle_reader_control("Disabled")
    \/ m = "ReaderCancel" /\ handle_reader_cancel
    \/ m = "VendCancel" /\ handle_vend_cancel
    \/ m = "VendSuccess" /\ handle_vend_success
    \/ m = "VendFailure" /\ handle_vend_failure
    \/ m = "SessionComplete" /\ handle_session_complete
    \/ /\ m \in {"Nak", "Other"}
       /\ Quiet(<<>>) /\ UNCHANGED <<active, invalid>> /\ Calm

-----------------------------------------------------------------------------
(* The application's commands: records [op, id, arg]. *)

BeginReply(result) == Reply({"beginning"}, result)

\* arg = 1 asks for SessionFunds::MachineMaximum, which SETUP must have told.
begin_session(c) ==
    LET refused == \/ active # NoSession
                   \/ status \in {"Disabled", "Inactive", "Disconnected"}
                   \/ c.arg = 1 /\ ~maximumKnown
    IN
    \/ /\ refused
       /\ BeginReply("err")
       /\ Quiet(<<>>)
       /\ UNCHANGED <<alive, status, active, completed, invalid, configVars, clientVars, verdict>>
    \/ /\ ~refused
       /\ Send(Frame("BeginSession"), <<>>,
               /\ completed' = NoSummary
               /\ active' = NewSession(c.id)
               /\ status' = "SessionActive"
               /\ BeginReply("ok")
               /\ Emit(<<>>)
               /\ UNCHANGED <<alive, invalid, configVars, clientVars, verdict>>)

\* c.id = 0 is a message outside any session.  Whether the text is one this
\* display can show is left open, so a refusal is always possible.
display_message(c) ==
    LET shown == /\ IF c.id = 0 THEN active = NoSession
                    ELSE active.id = c.id /\ active.phase = "Idle"
                 /\ status # "Inactive"
                 /\ display = "Available"
        DisplayReply(result) == Reply({"displayingDevice", "displayingSession"}, result)
        Same == UNCHANGED <<alive, status, active, completed, invalid, configVars,
                            clientVars, verdict>>
    IN
    \/ DisplayReply("err") /\ Quiet(<<>>) /\ Same
    \/ /\ shown
       /\ Send(Frame("DisplayRequest"), <<>>, DisplayReply("ok") /\ Emit(<<>>) /\ Same)

PendingIs(v) == Pending /\ active.vend.id = v
Answered(v, result) == verdict' = [verdict EXCEPT ![v] = result]
DecisionRest == UNCHANGED <<alive, status, completed, configVars, clientVars, reply>>

write_decision(c) ==
    \/ /\ c.op = "Approve"
       /\ Send(VendFrame("Approve", c.id, c.arg), <<>>,
               /\ active' = [active EXCEPT !.phase = "AwaitingVendResult",
                                           !.vend.amount = c.arg]
               /\ Answered(c.id, "approved")
               /\ Emit(<<>>) /\ UNCHANGED invalid /\ DecisionRest)
    \/ /\ c.op = "Deny"
       /\ Send(VendFrame("Deny", c.id, 0), <<>>,
               /\ active' = Idling(active)
               /\ Answered(c.id, "denied")
               /\ Emit(<<>>) /\ UNCHANGED invalid /\ DecisionRest)

decide_vend_lenient(c) ==
    \/ PendingIs(c.id) /\ write_decision(c)
    \/ /\ ~PendingIs(c.id)
       /\ Answered(c.id, IF c.op = "Approve" THEN "approved" ELSE "denied")
       /\ Quiet(<<>>) /\ UNCHANGED <<active, invalid>> /\ DecisionRest
\* (As if the sender were kept somewhere: a dropped one reads as Disconnected.)
decide_vend_silent(c) ==
    \/ PendingIs(c.id) /\ write_decision(c)
    \/ /\ ~PendingIs(c.id)
       /\ Quiet(<<>>) /\ UNCHANGED <<active, invalid, verdict>> /\ DecisionRest
decide_vend(c) ==
    \/ /\ c.id \in InvalidIds
       /\ Answered(c.id, invalid[CHOOSE i \in DOMAIN invalid : invalid[i].id = c.id].error)
       /\ invalid' = take_invalid_vend(c.id)
       /\ Quiet(<<>>) /\ UNCHANGED active /\ DecisionRest
    \/ /\ c.id \notin InvalidIds /\ ~PendingIs(c.id)
       /\ Answered(c.id, "AlreadyDecided")
       /\ Quiet(<<>>) /\ UNCHANGED <<active, invalid>> /\ DecisionRest
    \/ /\ c.id \notin InvalidIds /\ PendingIs(c.id)
       /\ write_decision(c)

refuse_vend_stays(v, error) ==
    Send(VendFrame("Deny", v, 0), <<>>,
         /\ invalid' = invalidate_vend(v, error)
         /\ UNCHANGED active /\ Emit(<<>>) /\ Calm)
refuse_vend_mute(v, error) ==
    /\ invalid' = invalidate_vend(v, error)
    /\ active' = Idling(active)
    /\ Quiet(<<VendEvent("VendDecisionExpired", v, 0, error)>>) /\ Calm
\* The pending vend v is denied on the application's behalf.
refuse_vend(v, error) ==
    LET told == <<VendEvent("VendDecisionExpired", v, 0, error)>> IN
    Send(VendFrame("Deny", v, 0), <<>>,
         /\ invalid' = invalidate_vend(v, error)
         /\ active' = Idling(active)
         /\ Emit(told) /\ Calm)

abandon_vend(c) ==
    \/ PendingIs(c.id) /\ refuse_vend(c.id, "Abandoned")
    \/ /\ ~PendingIs(c.id)
       /\ Quiet(<<>>) /\ UNCHANGED <<active, invalid>> /\ Calm

request_end_early(c) ==
    /\ Reply({"finishing"}, "ok")
    /\ Quiet(<<>>)
    /\ UNCHANGED <<alive, status, active, completed, invalid, configVars, clientVars, verdict>>
\* arg = 1 when the caller waits for the summary, 0 for Drop's ignored reply.
request_end(c) ==
    LET EndReply(result) == IF c.arg = 1 THEN Reply({"finishing"}, result) ELSE UNCHANGED reply
        Same == UNCHANGED <<alive, status, active, completed, invalid, configVars,
                            clientVars, verdict>>
    IN
    \/ completed.id = c.id /\ EndReply("ok") /\ Quiet(<<>>) /\ Same
    \/ completed.id # c.id /\ active.id # c.id /\ EndReply("err") /\ Quiet(<<>>) /\ Same
    \/ /\ completed.id # c.id /\ active.id = c.id
       /\ initiate_end([active EXCEPT !.waiting = @ \/ c.arg = 1], <<>>)

handle_command(c) ==
    \/ c.op = "BeginSession" /\ begin_session(c) /\ UNCHANGED stopVars
    \/ c.op = "DisplayMessage" /\ display_message(c) /\ UNCHANGED stopVars
    \/ c.op \in {"Approve", "Deny"} /\ decide_vend(c) /\ UNCHANGED stopVars
    \/ c.op = "AbandonVend" /\ abandon_vend(c) /\ UNCHANGED stopVars
    \/ c.op = "EndSession" /\ request_end(c) /\ UNCHANGED stopVars
    \/ /\ c.op = "Shutdown"
       /\ initiate_end(active, <<>>)
       /\ exitArmed' = TRUE /\ stopWaiter' = TRUE /\ UNCHANGED closed

-----------------------------------------------------------------------------
(* The arms of the select! in run().  It is unbiased: any arm that is ready  *)
(* may be the one taken.                                                     *)

ReceiveMessage(m) ==
    /\ Ready
    /\ \/ m = "VendRequest" /\ handle_vend_request
       \/ /\ m # "VendRequest"
          /\ handle_adapter_message(m)
          /\ UNCHANGED vendVars /\ Queue(mailbox)
    /\ UNCHANGED stopVars

ReceiveCommand ==
    /\ Ready /\ ~closed /\ mailbox # <<>>
    /\ handle_command(Head(mailbox))
    /\ UNCHANGED vendVars /\ Queue(Tail(mailbox))

\* recv() yields None once every sender is gone and the queue is empty.
CommandChannelClosed ==
    /\ Ready /\ ~closed /\ mailbox = <<>> /\ ~HasSender
    /\ initiate_end(active, <<>>)
    /\ closed' = TRUE /\ exitArmed' = TRUE
    /\ UNCHANGED <<stopWaiter, vendVars>> /\ Queue(mailbox)

VendDeadline_exiting ==
    /\ Ready /\ Pending /\ exitArmed
    /\ refuse_vend(active.vend.id, "TimedOut")
    /\ UNCHANGED <<stopVars, vendVars>> /\ Queue(mailbox)
VendDeadline ==
    /\ Ready /\ Pending
    /\ refuse_vend(active.vend.id, "TimedOut")
    /\ UNCHANGED <<stopVars, vendVars>> /\ Queue(mailbox)

ExitDeadline_waits ==
    /\ Ready /\ exitArmed
    /\ stopWaiter' = FALSE
    /\ reply' = IF app = "stopping" /\ stopWaiter THEN "err" ELSE reply
    /\ Quiet(<<>>)
    /\ UNCHANGED <<alive, status, active, completed, invalid, closed, exitArmed,
                   configVars, mailbox, clientVars, verdict, vendVars>>
\* ACTOR_SHUTDOWN_GRACE is over: the session is dropped where it stands, with
\* its waiters and without an Ended event.
ExitDeadline ==
    /\ Ready /\ exitArmed
    /\ active' = NoSession
    /\ stopWaiter' = FALSE
    /\ reply' = IF \/ app = "stopping" /\ stopWaiter
                   \/ app = "finishing" /\ active.waiting
                 THEN "err" ELSE reply
    /\ Quiet(<<>>)
    /\ UNCHANGED <<alive, status, completed, invalid, closed, exitArmed, configVars,
                   mailbox, clientVars, verdict, vendVars>>

LinkClosed ==
    /\ Ready /\ LinkMayFail
    /\ wrote' = NoFrame /\ UNCHANGED answer
    /\ fail(<<>>)
    /\ UNCHANGED <<stopVars, vendVars>> /\ Queue(mailbox)

\* should_exit() at the top of the loop.
Exit ==
    /\ alive = "running" /\ shouldExit
    /\ alive' = "exited"
    /\ stopWaiter' = FALSE
    /\ DropReplies("ok")
    /\ Quiet(<<>>)
    /\ Queue(mailbox)
    /\ UNCHANGED <<status, active, completed, invalid, closed, exitArmed, configVars,
                   clientVars, vendVars>>

\* spawn_actor: the adapter is taken to have been enabled already.
ActorInit ==
    /\ alive = "running" /\ status = "Enabled"
    /\ active = NoSession /\ completed = NoSummary /\ invalid = <<>>
    /\ closed = FALSE /\ exitArmed = FALSE /\ stopWaiter = FALSE
    /\ maximumKnown = FALSE /\ display = FallbackDisplay
    /\ mailbox = <<>> /\ events = <<>>
    /\ wrote = NoFrame /\ vid = 0
    /\ home = [v \in Vends |-> 0]
    /\ answer = [v \in Vends |-> <<>>]
    /\ outcome = [v \in Vends |-> <<>>]
=============================================================================
