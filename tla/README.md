# LV_2.0: TLA+ models of the MDB cashless reader

The repository drives a cashless payment reader on a vending machine's MDB bus.
A Rust crate talks to a PC2MDB adapter over a serial line; the adapter forwards
what the vending machine controller (VMC) of an AP 113 says and takes the
reader's answers. An application (today the flow test harness, later a
Lightning payment backend) owns the reader through three handles, `MdbDevice`,
`MdbSession` and `PendingVend`, and an actor task executes their commands.

This directory holds the formal models of that program, the instances that TLC
checks and the theorems that TLAPS proves. Paths are relative to the repository
root (`src/` here): `src/src/device.rs` is the file the core is translated from.

## Inventory

| Part | State | Operations | What makes it correct |
|---|---|---|---|
| **Actor** (`src/src/device.rs`, `Actor::run` and its handlers) | `status`, `active` session with its `SessionPhase` and summary, `completed` summary, `invalid_vends`, display and maximum price learned from SETUP, `exit_deadline`, `shutdown_waiters` | one `select!` over the serial link, the command channel and the nearest deadline; a handler for each command and VMC message | each vend answered once and counted once; truthful replies; a session never offers a vend after its end was requested; no caller waits for ever; status and session agree |
| **Handles** (`src/src/device.rs`, `MdbDevice`, `MdbSession`, `PendingVend`) | who owns the `DeviceHandle`, the receiver of session events, each `PendingVend` | `begin_session`, `shutdown`, `display_message`, `next_event`, `finish`, `approve`/`approve_for`/`deny`, and the `Drop` of each handle and of each future | exclusive ownership: an `MdbDevice` means there is no session; a pending vend is always in somebody's hands |
| **Serial link** (`src/src/link.rs`) | decoder buffer, decoded frames | `send`, `receive` | FIFO; a read or write error ends the actor |
| **Wire protocol** (`src/src/protocol.rs`) | `FrameDecoder.buffer` | framing, ASCII hex, checksum, message parsing, amounts | the same messages whatever the chunking; no reserved amount gets through |
| **Display validation** (`display_message`, `DisplayState`) | display geometry and character set | from SETUP or the fallback, check of a text | nothing is sent that the VMC's display cannot show |
| **Device events** (`DeviceEvents`, `publish_status`) | watch value, broadcast ring of 32 | `status`, `subscribe`, `next_event` | a follower ends up with the reader's status and learns how the reader ended, although a lag is skipped silently |
| **Flow test harness** (`src/src/harness.rs`, `src/src/terminal.rs`) | the round in progress, the terminal's input buffer, the Ctrl+C flag | arm, wait for a selection, wait for the simulated payment, watch the outcome, report, re-arm | only a key pressed for this selection pays for it; the report agrees with the product; the loop survives resets and door openings |
| **Command line** (`src/src/bin/mdb_flow_test.rs`) | none | argument parsing | – |
| **Bench scripts** (`src/mdb/*.py`) | – | hardware bring-up, superseded by the crate | – |
| **VMC and adapter** (outside the repository; `src/MDB_HACKING.md`) | the VMC's view of the session, the product being dispensed | selections, cancels, dispensing, resets, door | environment |

How they interact. Commands go from handles to the actor through an unbounded
channel, each with a oneshot for its reply. Session events come back through an
unbounded channel created per session. A `PendingVend` travels *inside* a
session event, so dropping a queue drops vends, and each dropped vend sends
`AbandonVend` back. The actor holds only a weak sender of its own command
channel: when the last handle is gone the channel closes and the actor ends the
session by itself, within a grace period. On the other side the actor writes a
frame per answer and reads messages in order; ACKs carry no reference to the
frame they acknowledge.

Hard behaviours: the unbiased `select!` (an approval and a VEND CANCEL that are
both ready), deadlines racing decisions, drops at every point, write errors
after which the frame may or may not be on the wire, uncorrelated ACKs, resets
at any time, and the out-of-sequence detour that must remember an approved
vend. `PROJECT.json` lists the hazards at their lines with the property that
would notice each going wrong.

## Modules

| Module | Contents |
|---|---|
| `MdbActor` | the actor: one operator per handler, one action per arm of `select!` |
| `MdbClient` | extends `MdbActor` with the handles, the futures and their drops; the specification, its types and properties |
| `VendLedger` | the abstract contract: offered once, approved at most once and never after a decline, one outcome, one open vend at a time |
| `VendingMachine` | the VMC and adapter, an external environment |
| `VendingSystem` | reader, application and VMC over two FIFO wires |
| `FlowHarness` | extends `VendingSystem`: the flow test as the application, with its operator at the terminal |
| `WireProtocol` | the bytes of `protocol.rs`: hex, checksum, parsing, command frames, display capacity |
| `MessageLine` | the abstract contract of the link: what is said comes out once and in order, and what is not understood is left out |
| `AdapterLink` | extends `WireProtocol`: `Link::receive` and the frame decoder over a chunked, noisy byte stream |
| `DeviceEvents` | extends `WireProtocol`: `status()`, `subscribe()` and `next_event()` beside the actor that publishes, and what a DISPLAY REQUEST may carry |
| `MC...` | sets of messages, displays, texts and start states for the TLC instances |
| `MdbClientProofs` | typing of every handler and step and the inductive invariant `SessionSafe`; theorems `TypeCorrect`, `OneAnswer` and `EndIsFinal`; then the inductive invariant `BooksOK`; theorems `OutcomesAreTrue` and `BooksBalance` |
| `HandleProofs` | the inductive invariants `OwnerOK` of the handles and `StatusOK` of the status, and the refinement; theorems `DeviceHasNoSession`, `StatusTellsSession` and `LedgerIsKept` |
| `DecisionProofs` | the inductive invariants `TableOK`, `DecisionOK` and `WaitersOK`; theorems `TableIsValid`, `PendingIsDecided`, `DecisionsAreHonest` and `NobodyWaitsInVain` |
| `SystemProofs` | the inductive invariant `WiresOK` of reader, wires and machine; theorems `SystemTypes`, `SystemIsClient` and `ReportsAreTrue` |
| `HarnessProofs` | the inductive invariant `FlowOK` of the flow test; theorems `HarnessTypes`, `FlowReportsAreTrue`, `VendsArePaidFor` and `RoundsReportHonestly` |
| `WireProtocolProofs` | induction and recursion from well-foundedness, and what the recursive functions of `WireProtocol` compute; theorems `OneByteChangeCaught` and `HexRoundTrip` |
| `AdapterLinkProofs` | the inductive invariants `LinkInv` and `CoveredOK` of the decoder, `SparingInv` and `TakenInv` of what gets through, and the refinement; theorems `NoFrameWithheld`, `FramesComeFromStream`, `EveryFrameIsFound`, `LinkTypesKept`, `ChunkingNeverMatters`, `FaultsCostLittle`, `LinkIsFifo` and `LinkImplementsLine` |
| `DeviceEventsProofs` | the inductive invariants `DeviceInv` of the two channels, `DisplayOK` of the display and `DeviceTypes`; theorems `FollowerConverges`, `FollowerKnowsTheEnd`, `DisplayAlwaysHonoured` and `DeviceTypesKept` |

Composition. `MdbActor` and `MdbClient` see the link as a source of messages in
any order. `VendingSystem` puts a VMC at the other end of it, and `FlowHarness`
puts one real application in the place of the arbitrary one: every step of it is a
client action of `MdbClient` together with the place it takes in the code.
Below, `AdapterLink` is how the bytes become those messages; that it implements
`MessageLine` over a line without faults is what the FIFO wires of `VendingSystem`
stand on. `DeviceEvents` is a
second view of the actor: there a handler's publications are steps of their own,
because an application on another thread reads `status()` between them, while
the session is reduced to whether there is one.

### State and code

| Variable | Code |
|---|---|
| `alive` | the task: `"running"`, or ended by `should_exit` (`"exited"`) or `fail` (`"failed"`) |
| `status` | `DeviceStatus` in the watch channel |
| `active` | `Option<ActiveSession>`; phase `"None"` is `None`. `vend` is the `VendRecord` the phase carries, `endReason` the reason `AwaitingEndSessionAck` carries, `waiting` says whether `end_waiters` holds the application's oneshot |
| `completed`, `invalid` | `completed`, `invalid_vends` (ids with their errors, in order) |
| `closed`, `exitArmed`, `stopWaiter` | `command_channel_closed`, `exit_deadline.is_some()`, `shutdown_waiters` |
| `maximumKnown`, `display` | `machine_maximum.is_some()`, `DisplayState` without its numbers |
| `mailbox` | the command channel; a command is `[op, id, arg]` |
| `events` | the session's event channel |
| `app` | which value owns the `DeviceHandle`, or which future is awaiting its reply |
| `hand[v]` | where `PendingVend` v is: queued in an event, held, inside `decide()`, gone |
| `reply`, `verdict[v]` | the oneshots of the call in progress and of each `decide()` |
| `sid`, `vid` | session and vend ids, numbered in the order they are made (the code uses random UUIDs, so equality is all they offer) |
| `wrote`, `answer`, `outcome`, `home` | observation only: the frame of the last step, and per vend its answers on the wire, its reported outcomes and its session |

A handler is one atomic action, `await` on the link included: the actor task is
the only one to touch its state, nothing else runs inside a handler, and what
other tasks do meanwhile (queueing a command, dropping a handle) commutes with
the part of the handler that follows the write. A write either succeeds or
fails; a failed one may have reached the adapter, so `Send` leaves open whether
the frame is on the wire, and then the actor takes `fail`.

Deadlines are left to fire at any time while they are armed; the harness's 45 s
payment window, the response time of the reader (46 s in the harness, 7 s by
default), the 5 s of `ACTOR_SHUTDOWN_GRACE` and the VMC's own 60 s are not compared.

What is assumed of the machine:

* When the VMC gives up on a selection after 60 s (`GiveUp`), nothing has been under
  way on the link that long, so its line is empty and at most one answer of this
  moment is on the bus.
* COMMAND OUT OF SEQUENCE makes it reset the reader (`MDB_ACTOR_FOLLOW_UPS.md:84-87`).
* BEGIN SESSION opens a session when the machine has none. It *may* always be
  answered by a reset instead, as the bench saw one that came too soon after END
  SESSION (`MDB_HACKING.md:254-256`). Over a session the machine already has it is
  otherwise acknowledged and lost: such a session parks the machine
  (`MDB_HACKING.md:248-252`), its recovery is an open point of the repository
  (`MDB_ACTOR_FOLLOW_UPS.md:52-61`), and the model assumes none.
* `Patient` says whether a customer selects only when the reader has read what the
  VMC said before and no answer of it is still under way (`NoAnswerUnderWay`). A VEND
  APPROVED names no vend, so the protocol itself cannot tell an answer to an earlier
  selection from one to this. The passing runs do **not** assume it (`Patient = FALSE`):
  between a machine and a reader that start together the reports stay true without
  it in their instances. The theorems about reports and product do
  (`Patient => ...`), since they hold for every start state: over a machine that an
  earlier process left dispensing (`StartStates = {"dispensing"}`, two sessions, two
  selections, `Patient = FALSE`) TLC finds an approval of the first selection that is
  still on the link and pays for the second.

`FlowHarness`: `pc` is the place in `run()`, `run_round()` and the waits they
call; `keys` is the terminal's input buffer, `interrupted` the Ctrl+C flag,
`payment` and `seen` the locals of a round. An error that `?` passes up goes to
`"over"`, where Rust drops what was left on the stack (`Unwind`) and the process
ends (`Quit`). Keys and Ctrl+C arrive just before the code looks at them, which
loses no behaviour since nothing else reads them.

`DeviceEvents`: `status` is the watch channel, `queue` the part of the broadcast
ring the subscriber has not read, `missed` its lag, `publishing` what the handler
in progress still has to publish. `AdapterLink`: `stream`, `used`, `spans` and
`sent` are history that the properties compare the decoder with.

Drops are modelled where Rust runs them. `DropSession` is `Drop for MdbSession`
(the `EndSession` command whose reply nobody reads); its receiver is then
drained by `DropEvent`, one queued `PendingVend` at a time. `DropFuture` drops a
`begin_session()`, `shutdown()` or `finish()` future while it is awaiting, with
the handle it owns. `DropDecision` drops a `decide()` future, which sends
nothing because `decided` was set before. A `display_message()` borrows its handle,
so its future is always followed to its end; a caller that drops it holds the
handle again, which is the same as a return the model already has, one reply
late. `MdbDevice` handed back by `BeginSessionError` and `EndedSession` are the
owner state `"device"`.

An operator called `name_variant` next to `name` is a deliberately wrong version
of it that no specification uses: replacing `name` by it must break the property
named in `PROJECT.json`.

## Properties and runs

| Run | Question | Instance and why it is enough |
|---|---|---|
| `handles` | Do ownership, replies, reported outcomes and the published status stay consistent? `TypeOK`, `DeviceMeansNoSession`, `NoLostWaiter`, `StatusMatchesSession`, `OutcomeConsistent` | two sessions (a stale command or waiter of the first can meet the second), one vend, two amounts (so an approval may name another amount than the price), every VMC message in any order, a link that may break; 564 000 states |
| `vends` | Is each vend answered once, truthfully, counted and decided? `NoVendAfterEndRequest`, `ApprovedVendAccounted`, `SingleAnswer`, `DecisionHonest`, `InvalidTable`, `PendingHasDecider` | one session with two vends and room for a single entry in `invalid_vends`, so the second entry evicts the first; 1.3 million states |
| `ledger` | Do actor and handles implement `VendLedger`, and does everything that was begun end? `KeepsLedger`, `DecisionReturns`, `VendBounded`, `ActorStops` | two vends, a link that may break at any write, no SESSION COMPLETE (sessions end by reset or exit), fair arms; 269 000 states |
| `system` | Do reports agree with what the machine dispensed? `SystemTypeOK`, `ReportsMatchProduct` | VMC, two sessions, one selection, one power cycle or door opening, resets in answer to a BEGIN SESSION, any application; 1.5 million states |
| `system_liveness` | `FinishReturnsEventually`, `MachineReleased` | does `finish()` come back, and is a waiting machine answered? One session and one selection, any application, fair VMC and reader, resets in answer to a BEGIN SESSION; 42 000 states |
| `harness` | Does the flow test pay only for what was paid, and report what happened? `HarnessTypeOK`, `PaidForThisVend`, `ReportsHonest`, `ReportsMatchProduct` | two sessions and two selections, the second possibly while the answer to the first is under way, a display refresh, one unread key, Ctrl+C and timeouts at any time; 2.2 million states |
| `link` | Does the decoder find what was sent? `LinkTypeOK`, `NothingWithheld`, `FramesFromStream`, `EveryFrameFound`, `ChunkingIrrelevant`, `NothingInvented`, `LossBounded`, and `KeepsFifo`: until a fault, is it a first-in-first-out line of messages? | three frames, some refused by the parser, cut into reads of up to 8 characters in every way, so that a read holds part of a frame or two short ones; one character lost, changed or added; a buffer of 8 characters, so that one message behind a lost ETX overflows it; 838 000 states |
| `device` | Does a follower of `DeviceEvents` understand the reader? `DeviceTypeOK`, `ViewConverges`, `EndUnderstood`, `DisplayHonoured` | a ring of 3 (a failing actor makes 2 events, so it overflows and just retains them), RESET, SETUPs of four displays, enabling, cash sales, texts that fit and texts that do not; 388 000 states |
| `unanswered`, `refund`, `early_ack`, `rearm` | the four disagreements below | the smallest instance that shows each |

Bounds. `MaxSessions`, `MaxVends`, `MaxRequests` and `MaxResets` limit how often
the environment acts; ids are never reused, so more of them repeat what two
show. `MaxCancels` stops the VMC from repeating VEND CANCEL for ever.
`InvalidCap` stands for the code's 32, `RingSize` for the 32 of the broadcast
channel, `MaxBuffer` and `MaxChunk` for the 4096 and 256 of the link. `MaxBacklog`
limits display requests, the only frames the application can produce without the
VMC. `MaxSent` and `MaxFaults` bound the byte stream, `MaxKeys` the unread keys. The
run `handles` has two amounts, so that `approve_for()` may name another amount than
the price and `OutcomeConsistent` can tell the amount on the wire from the price;
elsewhere no property depends on how many amounts there are, and one is enough.

`StartStates` is what the VMC may be in when the reader process starts. The code
takes it to be enabled (`spawn_actor`, `device.rs:808`), and so do all runs of the
system. The theorems about the system hold for any set of start states: over a
stale session too, a report is what became of the product. Liveness does not, and
is not claimed: with `StartStates = {"closing"}` or `{"cancelling"}` TLC finds a
`finish()` that never returns, because the machine has no reason to say SESSION
COMPLETE again, and a machine left asking waits for as long as no customer or
timeout of its own moves it. That is the gap that `MDB_ACTOR_FOLLOW_UPS.md:52-61`
describes ("Resynchronize after startup or process restart").

Deadlock is checked in every run but `link`, where the adapter has nothing more to
send when its bound is reached. Elsewhere the only states without a proper
successor are those with the actor ended and every handle dropped, and, in
`FlowHarness`, a round that would need a session beyond the bound.

Fairness. `FairSpec` has weak fairness of the actor's arms: `select!` picks among
ready arms at random and each handler returns, so an arm that stays ready is
taken. Deadlines fire because they are timers. `DropEvent` is fair because a
receiver being dropped finishes dropping. Nothing is assumed of the application
(it may hold a vend for ever) nor, in `ledger`, of the VMC. `FairSystem` adds
that the reader reads its line, that the VMC reads its bus and finishes what it
dispenses, and that a `finish()` whose reply is there returns; it does not assume
that the VMC gives up on a selection. That the flow test ends after Ctrl+C is not
a run of its own: every wait of it but `finish()` looks at the flag or a timeout,
and `finish()` is `FinishReturnsEventually`.

What the passing runs show, beyond the wording of each property in the modules:
whichever of application, deadline, cancel, drop and end reaches the pending vend
first, the others find it gone; `Err` from `approve()` other than `Disconnected`
really means that no approval was written; a session's summary counts every
approved vend exactly once; a closing actor leaves no caller behind; a stale key
never pays; a chunk boundary is never seen; one damaged character costs at most
the messages it touches; and an application that subscribes *before* it reads
`status()` needs nothing else to stay right until it lags.

### Disagreements

1. `unanswered`: when the `begin_session()` future is dropped after the actor has
   begun the session, no strong sender is left. A VEND REQUEST read before the
   closed channel is noticed makes `upgrade()` fail; the actor stops with
   `Disconnected` and writes nothing (`device.rs:1375`), against "the machine is
   always released, on every path" (`PAYMENT_INTERFACE.md:122`).
2. `refund`: after an approval, a READER DISABLE (the door) moves the session to
   `AwaitingReset`; the VEND FAILURE that follows is out of sequence too, and the
   RESET reports the vend as a success (`device.rs:1501`), against
   `PAYMENT_INTERFACE.md:131`.
3. `early_ack`: the ACK of an earlier frame, such as SESSION CANCEL, completes a
   session whose END SESSION the VMC has not read yet (`device.rs:1281`), against
   `MDB_ACTOR_FOLLOW_UPS.md:114`. `VendingMachine` acknowledges every frame, in
   order; that is the assumption this rests on.
4. `rearm`: a RESET before the selection ends the session; the flow test logs
   "re-arming" (`harness.rs:267`), finishes and asks for a new session at once. The
   VMC enables the reader only some messages after its RESET, until then
   `begin_session()` is refused, and the error ends the program
   (`harness.rs:271`).

One known gap of the code is part of the models and of no property: with a VEND
CANCEL already buffered, `select!` may take an approval first; the cancel is then out of
sequence and the following RESET reports a success (`MDB_ACTOR_FOLLOW_UPS.md`,
point 2). `ReportsMatchProduct` and `ReportsHonest` therefore leave out what a
reset makes the reader assume.

## Theorems

Those about actor and handles hold for every value of the constants that satisfies
`BoundsAssumption`, `DisplayAssumption` and `LinkAssumption` of `MdbActor`: naturals for the
bounds, a positive capacity, positive amounts, displays SETUP can produce and
messages of the protocol. Those about the system add `MachineAssumption` (the
reader knows the machine's messages, the start states are states of the VMC, and there
are no more selections than ids for vends) and those about the flow test
`HarnessAssumption`. Those about bytes, link and events name theirs below.

* `TypeCorrect`: `Spec => []TypeOK`. `TypeOK` is inductive as it stands. It is cut
  into what a step shows to the outside (`OutputOK`), what most handlers leave
  alone (`KeptOK`), the session and the table of invalid vends, and what only the
  arms and the application touch (`ArmsOK`). There is one lemma per building block
  (`Emit`, `Logged`, `fail`, the two table operators), one per handler on top of
  them, and the theorem combines them step by step.
* `SessionStaysSafe`: `Spec => []SessionSafe`, the inductive invariant behind the
  two properties below. `SingleAnswer` is not inductive: it needs to know that the
  pending vend has no answer yet and that a vend not yet requested has none
  (`AnswerOK`); `NoVendAfterEndRequest` is inductive given the types. The argument
  is that a handler either writes no answer and makes no other vend pending, or
  answers the pending vend and leaves its phase in the same step, also when the
  write fails.
* `OneAnswer`: `Spec => []SingleAnswer`, and `EndIsFinal`:
  `Spec => []NoVendAfterEndRequest`, its two consequences.

* `BooksStayInOrder`: `Spec => []BooksOK`, behind `OutcomesAreTrue`
  (`Spec => []OutcomeConsistent`) and `BooksBalance`
  (`Spec => []ApprovedVendAccounted`). Neither is inductive. A report must find its
  vend approved for the amount the session remembers, and without an outcome
  (`OpenVendOK`); an approval must find its vend in the session that is counted;
  and a new session must not share its id with one whose vends are on the books,
  which holds because ids are handed out in order and the command channel keeps
  that order (`BegunInOrder`). The argument has two halves. Every step, of the actor
  and of the application, has one of four shapes (`BookStep`): nothing is answered or
  reported, the pending vend is answered, the outcome of the open vend is reported and
  counted, or a new vend is requested; this takes one lemma per handler. The
  invariant is then proved of the shapes alone, with the cardinality of a session's
  approved vends growing by one exactly when its vend opens. The balance even
  holds of an actor that failed; `ApprovedVendAccounted` claims it of a running one.

* `OwnerStaysRight`: `Spec => []OwnerOK`, behind `DeviceHasNoSession`
  (`Spec => []DeviceMeansNoSession`). That the owner of the `MdbDevice` has no session
  depends on what is still in the command channel and on what was already replied:
  at most one `BeginSession` is on its way, and only while its future or nobody is
  left; `begin_session()` is told "ok" only with a session and `finish()` only
  without one; after `shutdown()` no session can begin, and the exit deadline is
  armed only for a closed channel or a `shutdown()`.

* `LedgerIsKept`: `Spec => KeepsLedger`, the refinement of `VendLedger` under
  the mapping of `MdbClient`. The four shapes of `BookStep` are the steps of the
  ledger: a request is an `Offer`, an answer to the pending vend an `Approve` or
  a `Decline`, a reported outcome a `Settle`; a session that vanishes without a
  report does so only as its actor stops, which is `Lose`, and everything else
  is a stutter. The invariant `LedgerOK` ties each vend that is open to the
  phase of the session.

* `TableStaysRight`: `Spec => []TableOK`, behind `TableIsValid` (`Spec =>
  []InvalidTable`). The table of invalid vends gets an entry only in a step that
  takes this vend out of the session (`TableStep`, one lemma per handler), knows
  only requested vends, and new ids are above them; so no entry can speak of the
  vend that is open. That `take_invalid_vend` and the eviction of the oldest
  entry keep one entry per vend is proved of the sequences themselves
  (`Invalidated`, `Taken`).
* `PendingIsDecided`: `Spec => []PendingHasDecider`. The handle of a pending vend only
  leaves the application's hands by sending a command in the same step, the channel
  keeps it, and when the actor takes it the table has no entry for this vend, so
  the vend is decided then and there.
* `DecisionsStayRight`: `Spec => []DecisionOK`, behind `DecisionsAreHonest`
  (`Spec => []DecisionHonest`). What `decide()` returned says nothing by itself
  of how often a vend was decided, so `DecisionOK` adds where its handle is: a
  vend still in the event queue is there once and queued, a decision in the
  channel is of an undecided vend and the only one of it, a handle not used yet
  has no verdict, and no handle has an id that was not given out. Each step of
  the actor is then of one of three shapes (`Steady`, `Offered`, `Decision`) and
  each step of the application of one of four (`Leaves`, `Takes`, `Lets`,
  `Asks`), and one lemma covers each.
* `StatusStaysRight`: `Spec => []StatusOK`, behind `StatusTellsSession`
  (`Spec => []StatusMatchesSession`). `complete_active` publishes `Enabled` for some
  reasons only, so `StatusOK` adds that the reasons a session carries are among
  them (`ReasonsOK`). Each handler then either keeps the session and the status
  (`GoesOnFrom`), ends it (`Closes`), begins one (`Opens`) or sets up the reader
  (`Controls`), with one lemma per handler; the grace period, which drops a
  session and leaves the status alone, takes `OwnerOK` to know that the channel
  is closed.
* `WaitersStayHeard`: `Spec => []WaitersOK`, behind `NobodyWaitsInVain` (`Spec
  => []NoLostWaiter`). A queued EndSession might be the one that a dropped
  session sent and that answers nobody, so `WaitersOK` adds that the queue holds
  none for a session still in use and that the one of a session in `finish()`
  asks for an answer (`EndsOK`). A step that stops the actor answers everybody
  and no other takes an answer back (`Talks`); the command that a running actor
  takes is answered or its waiter kept (`CommandAnswers`), and a kept waiter is
  kept or answered by every later handler, which is `StatusStep` again.

* `SystemTypes`: `SystemSpec => []SystemTypeOK /\ []LineOK`: only what the machine
  says is ever on its line.
* `SystemIsClient`: `SystemSpec => Spec`. Wired to the machine the reader takes no step
  that it could not take alone, so everything proved of `MdbClient`, the
  ledger included, holds in the system.
* `WiresStayRight`: `Patient => (SystemSpec => []WiresOK)`, behind `ReportsAreTrue`
  (`Patient => (SystemSpec => []ReportsMatchProduct)`). What a VEND SUCCESS or VEND FAILURE
  means depends on what else is on the wires: an approval the reader has written
  may cross a cancel, a reset or an end of session. `WiresOK` has a part for
  each stage of a vend: a selection not read yet is the only one and no earlier
  answer can meet it (`SelectionOK`); while a vend is offered no answer to it is
  under way (`OfferedOK`); while its outcome is awaited, the approval is on the
  bus, or the machine is dispensing this very vend, or an outcome on the line is
  its own (`AwaitedOK`); and an approval the machine can still act on is of a
  vend without an outcome (`ApprovalOK`). Reader and machine either agree on the
  selection (`Agreed`) or something on the wires ends it (`Parted`). Each step
  of the machine and each step of the reader then has one of a few shapes
  (`MachineShape`, `Reacts`), and the invariant is proved of the shapes. TLC
  checked `WiresOK` before, on the instance of `system` and, while it was being
  found, on start states of every kind and on random behaviours of three
  sessions.
* `FlowStaysRight`: `FlowSpec => [](SystemOK /\ FlowTypeOK /\ FlowOK)`, behind
  `HarnessTypes`, `FlowReportsAreTrue`, `VendsArePaidFor` (`[]PaidForThisVend`)
  and `RoundsReportHonestly` (`[]ReportsHonest`). The second and the last are proved
  of patient customers, since `SystemOK` has `Patient => WiresOK`. What a round reports is put
  together from the events it happened to see, so the invariant speaks of what
  the session has still to say: every vend that is approved, or whose approval
  is on its way to the actor, was paid for on its own screen (`Bought`,
  `PaidOK`); a session has no such vend but that of the round in progress
  (`RoundOK`), so that every outcome it hears of is of this one; each event in
  the channel tells the truth of a vend of this session (`NewsOK`), and so does
  what a round has seen and reported (`SeenOK`, `ReportedOK`). There is one
  lemma for the steps of actor, machine and process around the flow test, which
  touch nothing of it (`Surrounds`), and one for each step of `run()`,
  `run_round()` and their waits. `Quit`, the end of the process, is no step of
  the system, so what `WiresOK` says is proved of it again. TLC checked the
  invariant on the instance of `harness` first, and on random behaviours of
  three sessions with a reset and a link that breaks.

* `LinkStaysSound`: the inductive invariant of `AdapterLink` under
  `LinkBoundsAssumption` and `LineAssumption`, for any chunk size, noise and
  buffer limit: the buffer is the unread end of the stream, and each decoded frame
  was cut out of it whole, behind the frame before it. `NoFrameWithheld`
  (`NothingWithheld`) and `FramesComeFromStream` (`FramesFromStream`) follow.
* `EveryFrameIsFound`: `LinkSpec => []EveryFrameFound`, from `CoveredOK`: what
  has left the buffer, unless it was given up, was part of a frame or no STX.
* `ChunkingNeverMatters`: `LinkSpec => []ChunkingIrrelevant`. The two theorems
  before it (frames end at their first ETX and do not overlap; no STX with an
  ETX behind it is overlooked) leave one way to cut the frames out of a stream.
  `Listened`, the reader that looks at one character at a time, is followed along the
  stream: after each character it is `Behind` the spans, that is, it has the
  texts of the spans that have ended and is inside the next one or between two.
* `FaultsCostLittle`: `LinkSpec => []LossBounded`. `SparingInv` says where in the
  stream each message was put: there are positions `cut` (`Placed`), monotone, from
  0 to the last character on the line, at which each ungarbled message stands
  digit by digit; and a message that is ungarbled and follows an ungarbled one has
  either not left the buffer yet or is one of the spans from its STX to its ETX
  (`Sifted`). That is what the ETX right ahead of it is for: a frame that began
  before it has ended before it. That the buffer is never cleared with such a
  message complete in it, but unread, is where `LineAssumption` comes in (a frame
  fits the buffer). `TakenInv` says that the frames in `frames` are the texts of the
  last spans and that the good ones among the others were delivered, in order.
  When all is read and taken, `NothingWithheld` rules out that such a message
  is still in the buffer, its span's text is `Digits` of its bytes, and
  `HexRoundTrip` makes of it what was sent.
* `LinkIsFifo`: `LinkSpec => KeepsFifo`: until the line garbles something, each step is
  one of `MessageLine` or a stutter; and `LinkImplementsLine`: `LinkSpec => Fifo!LineSpec`
  if `MaxFaults = 0`, the refinement. A message is said when the adapter sends it and taken when
  `receive()` looks at its frame, so what was taken is `Len(spans) - Len(frames)`;
  reading, decoding and the end of file are stutters. Without faults every character
  is one of some message (`WhichMessage`), so a span can only be a whole message
  (`SpanIsMessage`), and with `SparingInv` the k-th span is the k-th message
  (`SpansAreMessages`): none was passed over, none found twice. Behind a fault this is
  false, and `FaultsCostLittle` says what is left of it.
* `LinkTypesKept`: `LinkSpec => []LinkTypeOK`; its point is the last conjunct, that no
  error of `parse_adapter_message` is delivered as a message (`MeaningNamed`).
* `OneByteChangeCaught`: a message with a right checksum in which one byte, the
  checksum's own included, was changed is a `BadChecksum` to
  `parse_adapter_message`. It rests on `ChecksumSums` (the recursive `checksum` adds
  up) and `SumsDiffer` (one byte changes the sum by less than 256).
* `HexRoundTrip`: `compact` keeps what the adapter writes and `decode` reads the
  same bytes back, for every sequence of bytes.

* `ObserversStayInStep`: `DeviceSpec => []DeviceInv`, under `RingAssumption` (the
  ring holds two events at least), `InputAssumption` and `FallbackAssumption`.
  Neither property below is inductive. `DeviceInv` adds what the handler in progress
  has yet to publish: each status stored and then sent with nothing in between
  (`PairsOK`), a failing actor's status, fault and end in this order and last
  (`EndingOK`), and, for the ring, that the last status in it is the reader's
  (`LastStatusOK`) and that the fault cannot overwrite it (`FaultOK`). A broadcast
  either appends to the follower's queue or drops its oldest event first
  (`Pushed`); the rest is one lemma per step. `FollowerConverges`
  (`ViewConverges`) and `FollowerKnowsTheEnd` (`EndUnderstood`) follow.
* `DisplayAlwaysHonoured`: `DeviceSpec => []DisplayHonoured`. The invariant
  `DisplayOK` ties `display` to the last SETUP, or to the fallback without one;
  that a SETUP always names a size follows from the parser (`SetupNumbers`), and
  that a padded text has exactly the capacity, and its characters stay in their
  set, from `PaddedFits`.
* `DeviceTypesKept`: `DeviceSpec => []DeviceTypeOK`. What a handler publishes are
  well-formed steps (`RightSteps`), a frame it writes is a sequence of numbers,
  its checksum included (`ChecksumType`), and the follower only gets what was
  published.

Induction. The library's induction theorems take an operator as a parameter,
which the provers at hand cannot instantiate, and a recursive function is a
`CHOOSE` to them. `WireProtocolProofs` therefore proves both once about sets: a
non-empty set of naturals has a least element (`LeastElement`, from the
well-foundedness of `<`), so a set that contains 0 and the successor of each of its
members up to n contains n (`UpTo`), and a function with a given first value and a
given step exists on 0..n (`Recursion`). `ChecksumSums`, `CompactKeeps`,
`ListenedHeard` and `SpansOrdered` are what they are used for. For this `checksum`,
`compact` and `Listened` are recursive functions and no folds.

Every invariant that the runs check is so proved for all sizes but one
(`ReportsMatchProduct` and `ReportsHonest` of patient customers), and so are the
refinements of `VendLedger` and `MessageLine`. Only model-checked are:

* `ReportsMatchProduct` and `ReportsHonest` of customers who select while an answer
  to an earlier selection is under way (`system`, `harness`);
* all liveness (`DecisionReturns`, `VendBounded`, `ActorStops`,
  `FinishReturnsEventually`, `MachineReleased`), which the proof system does not
  cover under fairness;
* `NothingInvented`, because it does not hold of every set of payloads: the
  checksum has 8 bits, and a frame that a fault cuts short or runs into the next
  one can have a right one by accident. The run shows that it does not happen
  with the payloads of its instance; what the checksum excludes for every
  message is `OneByteChangeCaught`.

Where the guards of a choice overlap, as in `parse_adapter_message` and
`from_setup`, the definition is an `IF` and no `CASE`: TLC takes the first guard
that holds, as the code does, but to the logic a `CASE` would leave the choice
open.

## Not modelled

Item numbers and the advertised funds beyond "the maximum is known" in the
session models (their bytes are in `WireProtocol`); real time, but for the
assumptions on `GiveUp` and `Select` above; NAK and RETRANSMIT beyond being
ignored, as the code does; a link that breaks under the flow test; the drawing
of the console, the countdown and the terminal's modes; the command line, which
only parses arguments; the Python bench scripts, which the crate replaces. A
VEND REQUEST with the reserved price 0xFFFF is a parse error that the VMC gets
no answer to; it is in `WireProtocol`, and no property claims an answer. The
32-bit counters of the summary are natural numbers: a session would need four
billion vends.
