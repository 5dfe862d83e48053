----------------------------- MODULE DeviceEvents -----------------------------
(***************************************************************************)
(* What MdbDevice lets an application observe, and when: status() reads a  *)
(* watch channel, subscribe() opens a broadcast channel of bounded length, *)
(* and the actor of src/src/device.rs updates the two one after the other, *)
(* while the application runs on another thread.  A handler is its effect  *)
(* on the actor's state and the publications it makes, one step each.      *)
(* Sessions are reduced to whether there is one; MdbActor has their phases.*)
(* The machine's messages are bytes, and so are the DISPLAY REQUESTs.      *)
(* An operator name_variant ahead of `name` is a faulty variant of it.     *)
(***************************************************************************)
EXTENDS WireProtocol

CONSTANTS
    RingSize,   \* events the broadcast channel retains (32 in the code)
    Fallback,   \* the display of with_display_fallback
    Incoming,   \* the machine's messages, decoded from hex
    Texts       \* texts the application asks the display to show

Available(columns, rows, characterSet) ==
    [kind |-> "Available", columns |-> columns, rows |-> rows, characterSet |-> characterSet]
Missing(kind) == [Available(0, 0, 0) EXCEPT !.kind = kind]

\* DisplayState: an available display has two sides and a known character set.
Displays == [kind : {"Available"}, columns : Bytes \ {0}, rows : Bytes \ {0},
             characterSet : {0, 1}]
            \union {Missing(kind) : kind \in {"Unavailable", "Unsupported", "Unknown"}}

ASSUME RingAssumption == RingSize \in Nat /\ RingSize >= 2
ASSUME InputAssumption == Incoming \subseteq Seq(Bytes) /\ Texts \subseteq Seq(Nat)
ASSUME FallbackAssumption ==
    Fallback \in Displays /\ Fallback.kind \in {"Available", "Unknown"}

VARIABLES
    (* the actor *)
    alive,       \* "running", "failed" or "exited"
    session,     \* active.is_some()
    status,      \* the watch channel's value
    display,     \* display: DisplayState
    publishing,  \* what the handler in progress has yet to publish
    written,     \* the frame the last handler wrote
    setup,       \* the last SETUP since the last RESET, <<>> if none (history)
    (* the application *)
    owner,       \* what it owns of the device
    queue,       \* retained events its DeviceEvents has not returned yet
    missed,      \* the ring overwrote one of them
    subscribed,  \* it has a DeviceEvents
    over,        \* next_event() returned Err(Disconnected)
    view,        \* the status it believes in, "None" before it knows
    asked,       \* it read status() since it subscribed
    synced       \* asked, and no event missed since

actorVars == <<alive, session, status, display, publishing, written, setup>>
readerVars == <<queue, missed, subscribed, over, view, asked, synced>>
deviceVars == <<actorVars, owner, readerVars>>

Statuses == {"Inactive", "Disabled", "Enabled", "SessionActive", "Disconnected"}
Owners == {"device", "session", "finishing", "gone"}

-----------------------------------------------------------------------------
(* Publications. *)

Step(kind, value) == [kind |-> kind, value |-> value]
Kinds == {"Set", "StatusChanged", "Reinitialized", "CashSale", "Fault", "Return", "Close"}
Steps == [kind : Kinds, value : Statuses \union {"", "device", "gone", "failed"}]
Events == {e \in Steps : e.kind \in {"StatusChanged", "Reinitialized", "CashSale", "Fault"}}
IsStatus(e) == e.kind = "StatusChanged"

publish_status_swapped(s) == <<Step("StatusChanged", s), Step("Set", s)>>
publish_status(s) == <<Step("Set", s), Step("StatusChanged", s)>>

\* complete_active answers finish() before it publishes anything.
AnswerFinish(handle) == IF owner = "finishing" THEN <<Step("Return", handle)>> ELSE <<>>

\* broadcast::Sender::send as the subscriber sees it: with RingSize events
\* unread, the oldest of them is overwritten.
Broadcast(e) ==
    /\ queue' = IF ~subscribed THEN queue
                ELSE Append(IF Len(queue) = RingSize THEN Tail(queue) ELSE queue, e)
    /\ missed' = (missed \/ (subscribed /\ Len(queue) = RingSize))
    /\ UNCHANGED <<subscribed, over, view, asked, synced>>

Publish ==
    /\ publishing # <<>>
    /\ publishing' = Tail(publishing)
    /\ LET step == Head(publishing) IN
       /\ status' = IF step.kind = "Set" THEN step.value ELSE status
       /\ owner' = IF step.kind = "Return" THEN step.value ELSE owner
       /\ alive' = IF step.kind = "Close" THEN "failed" ELSE alive
       /\ IF step \in Events THEN Broadcast(step) ELSE UNCHANGED readerVars
    /\ UNCHANGED <<session, display, written, setup>>

-----------------------------------------------------------------------------
(* The actor's handlers.  One runs to its end before the next starts.        *)

Handling == alive = "running" /\ publishing = <<>>
Writes(bytes) == written' = bytes

from_setup_any_size(columns, rows, characterSet) ==
    IF characterSet \in {0, 1} THEN Available(columns, rows, characterSet)
                               ELSE Missing("Unsupported")
from_setup(columns, rows, characterSet) ==
    IF columns = 0 \/ rows = 0 THEN Missing("Unavailable")
    ELSE IF characterSet \in {0, 1} THEN Available(columns, rows, characterSet)
    ELSE Missing("Unsupported")

handle_reset_keeps_display ==
    /\ session' = FALSE /\ setup' = <<>>
    /\ publishing' = AnswerFinish("device") \o publish_status("Inactive")
                     \o <<Step("Reinitialized", "")>>
    /\ UNCHANGED display
handle_reset ==
    /\ session' = FALSE /\ setup' = <<>>
    /\ display' = Fallback
    /\ publishing' = AnswerFinish("device") \o publish_status("Inactive")
                     \o <<Step("Reinitialized", "")>>

handle_setup_configuration(numbers) ==
    /\ display' = from_setup(numbers[2], numbers[3], numbers[4])
    /\ setup' = numbers
    /\ publishing' = publish_status("Disabled")
    /\ UNCHANGED session

\* Within a session this is out of sequence, which publishes nothing.
handle_reader_control(s) ==
    /\ publishing' = IF session THEN <<>> ELSE publish_status(s)
    /\ UNCHANGED <<session, display, setup>>

handle_cash_sale ==
    /\ publishing' = <<Step("CashSale", "")>>
    /\ UNCHANGED <<session, display, setup>>

\* The other messages, and bytes that are none, publish nothing.
handle_vmc_event(message) ==
    \/ message.name = "Reset" /\ handle_reset
    \/ message.name = "SetupConfiguration" /\ handle_setup_configuration(message.numbers)
    \/ message.name = "ReaderEnable" /\ handle_reader_control("Enabled")
    \/ message.name = "ReaderDisable" /\ handle_reader_control("Disabled")
    \/ message.name = "CashSale" /\ handle_cash_sale

ReceiveEvent ==
    /\ Handling
    /\ \E bytes \in Incoming : handle_vmc_event(parse_adapter_message(bytes))
    /\ Writes(<<>>)
    /\ UNCHANGED <<alive, status, owner, readerVars>>

\* begin_session, when the reader is ready for one.
BeginSession ==
    /\ Handling /\ owner = "device" /\ ~session
    /\ status \in {"Enabled", "SessionActive"}
    /\ session' = TRUE /\ owner' = "session"
    /\ publishing' = publish_status("SessionActive")
    /\ Writes(frame("BeginSession", <<UNKNOWN_AMOUNT>>))
    /\ UNCHANGED <<alive, status, display, setup, readerVars>>

\* complete_active on the ACK of END SESSION.
CompleteActive ==
    /\ Handling /\ session
    /\ session' = FALSE
    /\ publishing' = AnswerFinish("device") \o publish_status("Enabled")
    /\ Writes(<<>>)
    /\ UNCHANGED <<alive, status, display, setup, owner, readerVars>>

\* The set a text must be drawn from: printable ASCII, or its basic part.
CharacterSet(characterSet) ==
    IF characterSet = 0 THEN {32, 46} \union 48..57 \union 65..90 ELSE 32..126
Padded(text, length) == [i \in 1..length |-> IF i <= Len(text) THEN text[i] ELSE 32]
DISPLAY_TIME_MAX == 255

\* display_message, when it is not refused; in a session only while it is idle.
DisplayMessage ==
    /\ Handling /\ owner \in {"device", "session"}
    /\ (owner = "session") = session
    /\ status # "Inactive"
    /\ display.kind = "Available"
    /\ \E text \in Texts :
         /\ \A i \in DOMAIN text : text[i] \in CharacterSet(display.characterSet)
         /\ Len(text) <= capacity(display.columns, display.rows)
         /\ Writes(frame("DisplayRequest",
                         <<DISPLAY_TIME_MAX>>
                         \o Padded(text, capacity(display.columns, display.rows))))
    /\ UNCHANGED <<alive, session, status, display, publishing, setup, owner, readerVars>>

\* fail: the link is closed or broken.
Fail ==
    /\ Handling
    /\ session' = FALSE
    /\ publishing' = AnswerFinish("gone") \o publish_status("Disconnected")
                     \o <<Step("Fault", ""), Step("Close", "")>>
    /\ Writes(<<>>)
    /\ UNCHANGED <<alive, status, display, setup, owner, readerVars>>

\* The exit deadline drops the session without a word.
ExitDeadline ==
    /\ Handling /\ owner = "gone" /\ session
    /\ session' = FALSE
    /\ Writes(<<>>)
    /\ UNCHANGED <<alive, status, display, publishing, setup, owner, readerVars>>

Exit ==
    /\ Handling /\ owner = "gone" /\ ~session
    /\ alive' = "exited"
    /\ Writes(<<>>)
    /\ UNCHANGED <<session, status, display, publishing, setup, owner, readerVars>>

-----------------------------------------------------------------------------
(* The application.  DeviceEvents outlives the MdbDevice it came from.       *)

Subscribe ==
    /\ owner = "device"
    /\ subscribed' = TRUE /\ queue' = <<>> /\ missed' = FALSE /\ over' = FALSE
    /\ asked' = FALSE /\ synced' = FALSE
    /\ UNCHANGED <<actorVars, owner, view>>

ReadStatus ==
    /\ owner = "device"
    /\ view' = status
    /\ asked' = subscribed /\ synced' = subscribed
    /\ UNCHANGED <<actorVars, owner, queue, missed, subscribed, over>>

Believe == view' = IF IsStatus(Head(queue)) THEN Head(queue).value ELSE view

next_event_fails_on_lag ==
    \/ /\ missed /\ over' = TRUE
       /\ UNCHANGED <<queue, missed, view, synced>>
    \/ /\ ~missed /\ ~over /\ queue # <<>>
       /\ queue' = Tail(queue) /\ Believe
       /\ UNCHANGED <<missed, over, synced>>
    \/ /\ ~missed /\ queue = <<>> /\ alive # "running" /\ over' = TRUE
       /\ UNCHANGED <<queue, missed, view, synced>>
\* recv() reports a lag once and goes on with the oldest event retained; only
\* an empty channel without a sender is closed.
next_event ==
    \/ /\ queue # <<>>
       /\ queue' = Tail(queue) /\ Believe
       /\ missed' = FALSE /\ synced' = (synced /\ ~missed)
       /\ UNCHANGED over
    \/ /\ queue = <<>> /\ alive # "running"
       /\ over' = TRUE
       /\ UNCHANGED <<queue, missed, view, synced>>

NextEvent ==
    /\ subscribed
    /\ next_event
    /\ UNCHANGED <<actorVars, owner, subscribed, asked>>

Finish ==
    /\ owner = "session"
    /\ owner' = "finishing"
    /\ UNCHANGED <<actorVars, readerVars>>

\* request_end finds the session completed already, or nobody answers.
FinishAnswered ==
    /\ owner = "finishing" /\ ~session /\ publishing = <<>>
    /\ owner' = IF alive = "running" THEN "device" ELSE "gone"
    /\ UNCHANGED <<actorVars, readerVars>>

\* The device, the session or the future that owns it is dropped; shutdown().
\* Nobody takes the answer to finish(), which comes first, any more.
LetGo ==
    /\ owner # "gone"
    /\ owner' = "gone"
    /\ publishing' = IF publishing # <<>> /\ Head(publishing).kind = "Return"
                      THEN Tail(publishing) ELSE publishing
    /\ UNCHANGED <<alive, session, status, display, written, setup, readerVars>>

-----------------------------------------------------------------------------

DeviceInit ==
    /\ alive = "running" /\ session = FALSE /\ status = "Enabled"
    /\ display = Fallback /\ publishing = <<>> /\ written = <<>> /\ setup = <<>>
    /\ owner = "device"
    /\ queue = <<>> /\ missed = FALSE /\ subscribed = FALSE /\ over = FALSE
    /\ view = "None" /\ asked = FALSE /\ synced = FALSE

\* The actor has ended and nothing is left of the device.
Stopped ==
    /\ alive # "running" /\ owner = "gone" /\ ~subscribed
    /\ UNCHANGED deviceVars

DeviceNext ==
    \/ Publish \/ ReceiveEvent \/ BeginSession \/ CompleteActive \/ DisplayMessage
    \/ Fail \/ ExitDeadline \/ Exit
    \/ Subscribe \/ ReadStatus \/ NextEvent \/ Finish \/ FinishAnswered \/ LetGo
    \/ Stopped

DeviceSpec == DeviceInit /\ [][DeviceNext]_deviceVars

-----------------------------------------------------------------------------
(* Properties. *)

\* Every variable keeps its type.
DeviceTypeOK ==
    /\ alive \in {"running", "failed", "exited"}
    /\ session \in BOOLEAN
    /\ status \in Statuses
    /\ display \in Displays
    /\ publishing \in Seq(Steps)
    /\ written \in Seq(Nat) /\ setup \in Seq(Nat)
    /\ owner \in Owners
    /\ queue \in Seq(Events)
    /\ missed \in BOOLEAN /\ subscribed \in BOOLEAN /\ over \in BOOLEAN
    /\ view \in Statuses \union {"None"}
    /\ asked \in BOOLEAN /\ synced \in BOOLEAN

\* An application that subscribes, then reads status(), and then follows the
\* events without a lag ends up with the reader's status, whatever the actor
\* was publishing meanwhile: publish_status stores before it broadcasts.
ViewConverges ==
    synced /\ queue = <<>> /\ publishing = <<>> => view = status

\* When next_event() gives up, the application knows whether the reader failed
\* or was closed in order, also if it lagged before: the last two events of a
\* failing actor are still in the ring (DeviceEvents::next_event, Actor::fail).
EndUnderstood ==
    over /\ asked => (alive = "failed" <=> view = "Disconnected")

\* A DISPLAY REQUEST fits the display of the last SETUP since the last RESET,
\* and the configured one without such a SETUP: exactly its capacity, never
\* more than 32 characters, all of its character set.
Fits(bytes, columns, rows, characterSet) ==
    /\ Len(bytes) = capacity(columns, rows) + 3
    /\ Len(bytes) <= MAX_DISPLAY_DATA_LENGTH + 3
    /\ \A i \in 3..(Len(bytes) - 1) : bytes[i] \in CharacterSet(characterSet)
DisplayHonoured ==
    written # <<>> /\ written[1] = 2 =>
      IF setup = <<>> THEN Fits(written, Fallback.columns, Fallback.rows, Fallback.characterSet)
      ELSE Fits(written, setup[2], setup[3], setup[4])
=============================================================================
