----------------------------- MODULE HandleProofs -----------------------------
(***************************************************************************)
(* What owning a handle of MdbClient means: while the application holds    *)
(* the MdbDevice its actor has no session.  The reason is what each call    *)
(* leaves in the command channel and what the actor has told its caller.   *)
(* From there, what the published status says of the session, and the      *)
(* refinement of VendLedger.                                                *)
(***************************************************************************)
EXTENDS MdbClientProofs

\* The channel holds a command of this kind, or one at most.
Has(q, op) == \E i \in DOMAIN q : q[i].op = op
Alone(q, op) == \A i, j \in DOMAIN q : q[i].op = op /\ q[j].op = op => i = j

NoBegin == ~Has(mailbox, "BeginSession")

\* shutdown() has been called, whether the actor knows it yet or not.
ShutdownAsked == stopWaiter \/ Has(mailbox, "Shutdown")

\* begin_session() is the only call that leaves a session behind, one is under
\* way at most, and the handle comes back only from a session that is over.
OwnerOK ==
    Running =>
      /\ app \notin {"beginning", "gone"} => NoBegin
      /\ app = "beginning" /\ reply # "none" => NoBegin
      /\ Alone(mailbox, "BeginSession")
      /\ app \in {"device", "displayingDevice", "stopping"} => active = NoSession
      /\ app = "beginning" /\ reply # "ok" => active = NoSession
      /\ app = "finishing" /\ reply = "ok" => active = NoSession
      /\ ShutdownAsked => app \in {"stopping", "gone"} /\ NoBegin /\ active = NoSession
      /\ exitArmed => closed \/ stopWaiter

-----------------------------------------------------------------------------
(* Who is answered by a step of the actor. *)

\* Nobody, or the actor is no longer there.
NoReply == UNCHANGED reply \/ alive' # "running"

\* The caller of finish() hears "ok" from a session that is over only.
FinishReply == app = "finishing" /\ (reply' = "ok" => active' = NoSession)

\* The caller of begin_session().
BeginReplied ==
    /\ app = "beginning"
    /\ \/ reply' = "ok"
       \/ reply' = "err" /\ UNCHANGED active

LEMMA QuietHandlers ==
    /\ \A before : fail(before) => NoReply
    /\ \A s, before : initiate_end(s, before) => NoReply
    /\ command_out_of_sequence => NoReply
    /\ \A v, error : refuse_vend(v, error) => NoReply
<1>1. \A before : fail(before) => NoReply
  BY DEF fail, NoReply
<1>2. ASSUME NEW s, NEW before, initiate_end(s, before)
      PROVE  NoReply
  BY <1>1, <1>2 DEF initiate_end, Send, Calm, NoReply
<1>3. command_out_of_sequence => NoReply
  BY <1>1 DEF command_out_of_sequence, Send, Calm, NoReply
<1>4. \A v, error : refuse_vend(v, error) => NoReply
  BY <1>1 DEF refuse_vend, Send, Calm, NoReply
<1> QED BY <1>1, <1>2, <1>3, <1>4

LEMMA MessageReplies ==
    ASSUME NEW m, handle_adapter_message(m)
    PROVE  NoReply \/ FinishReply
<1>1. handle_ack => NoReply \/ FinishReply
  BY QuietHandlers DEF handle_ack, Send, Calm, complete_active, NoReply, FinishReply
<1>2. handle_reset => NoReply \/ FinishReply
  BY DEF handle_reset, complete_active, NoReply, FinishReply
<1>3. handle_setup_configuration \/ handle_setup_prices => NoReply
  BY DEF handle_setup_configuration, handle_setup_prices, NoReply
<1>4. \A newStatus : handle_reader_control(newStatus) => NoReply
  BY QuietHandlers DEF handle_reader_control, NoReply
<1>5. handle_reader_cancel => NoReply
  BY QuietHandlers DEF handle_reader_cancel, Send, Calm, NoReply
<1>6. handle_vend_cancel => NoReply
  BY QuietHandlers DEF handle_vend_cancel, Send, Calm, NoReply
<1>7. handle_session_complete => NoReply
  BY QuietHandlers DEF handle_session_complete, Send, Calm, NoReply
<1>8. \A kind, why, counted : VendResult(kind, why, counted) => NoReply
  BY QuietHandlers DEF VendResult, Calm, NoReply
<1>9. Calm => NoReply
  BY DEF Calm, NoReply
<1> QED
  BY <1>1, <1>2, <1>3, <1>4, <1>5, <1>6, <1>7, <1>8, <1>9
     DEF handle_adapter_message, handle_vend_success, handle_vend_failure

LEMMA VendRequestReplies == handle_vend_request => NoReply
BY QuietHandlers DEF handle_vend_request, Send, Calm, NoReply

LEMMA BeginReplies ==
    ASSUME NEW c, begin_session(c)
    PROVE  \/ alive' # "running"
           \/ app # "beginning" /\ UNCHANGED reply
           \/ BeginReplied
BY QuietHandlers DEF begin_session, Send, fail, BeginReply, Reply, BeginReplied

LEMMA CommandReplies ==
    ASSUME SessionOK, NEW c, c.op = "EndSession" => c.id # 0, handle_command(c)
    PROVE  \/ NoReply \/ FinishReply
           \/ app \in {"displayingDevice", "displayingSession"}
           \/ c.op = "BeginSession" /\ BeginReplied
<1>1. CASE c.op = "BeginSession" /\ begin_session(c)
  BY <1>1, BeginReplies DEF NoReply
<1>2. CASE display_message(c)
  BY <1>2, QuietHandlers DEF display_message, Send, Reply, NoReply
<1>3. CASE decide_vend(c)
  BY <1>3, QuietHandlers DEF decide_vend, write_decision, Send, DecisionRest, NoReply
<1>4. CASE abandon_vend(c)
  BY <1>4, QuietHandlers DEF abandon_vend, Calm, NoReply
<1>5. CASE c.op = "EndSession" /\ request_end(c)
  <2>1. c.id # 0
    BY <1>5
  <2>2. completed.id = c.id => active = NoSession
    BY <2>1 DEF SessionOK
  <2> QED BY <1>5, <2>2, QuietHandlers DEF request_end, Reply, NoReply, FinishReply
<1>6. CASE initiate_end(active, <<>>)
  BY <1>6, QuietHandlers
<1> QED BY <1>1, <1>2, <1>3, <1>4, <1>5, <1>6 DEF handle_command

-----------------------------------------------------------------------------
(* The steps of the actor. *)

LEMMA QueueRuns ==
    ASSUME NEW q, Queue(q), alive' = "running"
    PROVE  mailbox' = q
BY DEF Queue

\* A running actor takes the first command or adds an abandoned vend.
LEMMA ActorMailbox ==
    ASSUME TypeOK, ActorStep \/ \E m : ReceiveMessage(m), alive' = "running"
    PROVE  \/ UNCHANGED mailbox
           \/ ReceiveCommand /\ mailbox # <<>> /\ mailbox' = Tail(mailbox)
           \/ \E c \in Commands : c.op = "AbandonVend" /\ mailbox' = Append(mailbox, c)
<1>1. CASE ReceiveCommand
  BY <1>1, QueueRuns DEF ReceiveCommand
<1>2. CASE CommandChannelClosed \/ VendDeadline \/ LinkClosed \/ Exit
  BY <1>2, QueueRuns DEF CommandChannelClosed, VendDeadline, LinkClosed, Exit
<1>3. CASE ExitDeadline
  BY <1>3 DEF ExitDeadline
<1>4. ASSUME NEW m, ReceiveMessage(m), m # "VendRequest"
      PROVE  UNCHANGED mailbox
  BY <1>4, QueueRuns DEF ReceiveMessage
<1>5. CASE handle_vend_request
  <2> DEFINE c == [op |-> "AbandonVend", id |-> vid + 1, arg |-> 0]
  <2>1. Queue(mailbox) \/ (vid < MaxVends /\ Queue(Append(mailbox, c)))
    BY <1>5 DEF handle_vend_request
  <2>2. vid < MaxVends => c \in Commands /\ c.op = "AbandonVend"
    <3>1. vid < MaxVends => vid + 1 \in 0..MaxVends
      BY BoundsAssumption DEF TypeOK, ActorTypeOK
    <3> QED BY <3>1 DEF Commands, VendOps, Cash
  <2> HIDE DEF c
  <2> QED BY <2>1, <2>2, QueueRuns
<1> QED BY <1>1, <1>2, <1>3, <1>4, <1>5 DEF ActorStep, ReceiveMessage

LEMMA TailHas ==
    ASSUME NEW S, NEW q \in Seq(S), q # <<>>
    PROVE  /\ 1 \in DOMAIN q /\ Head(q) = q[1]
           /\ \A i \in DOMAIN Tail(q) : i \in Nat \ {0} /\ i + 1 \in DOMAIN q /\ Tail(q)[i] = q[i + 1]
<1> DEFINE t == Tail(q)
<1>1. /\ Len(q) \in Nat /\ Len(q) # 0 /\ DOMAIN q = 1..Len(q)
      /\ t \in Seq(S) /\ Len(t) = Len(q) - 1 /\ DOMAIN t = 1..Len(t)
      /\ Head(q) = q[1] /\ \A i \in 1..Len(t) : t[i] = q[i + 1]
  BY HeadTailProperties, LenProperties, EmptySeq
<1> HIDE DEF t
<1>2. \A i \in DOMAIN t : i \in Nat \ {0} /\ i + 1 \in DOMAIN q /\ t[i] = q[i + 1]
  BY <1>1
<1> QED BY <1>1, <1>2 DEF t

LEMMA AppendHas ==
    ASSUME NEW S, NEW q \in Seq(S), NEW c \in S
    PROVE  \A i \in DOMAIN Append(q, c) :
             \/ i \in DOMAIN q /\ Append(q, c)[i] = q[i]
             \/ i = Len(q) + 1 /\ Append(q, c)[i] = c
<1> DEFINE a == Append(q, c)
<1>1. /\ Len(q) \in Nat /\ DOMAIN q = 1..Len(q)
      /\ a \in Seq(S) /\ Len(a) = Len(q) + 1 /\ DOMAIN a = 1..Len(a)
      /\ a[Len(q) + 1] = c /\ \A i \in 1..Len(q) : a[i] = q[i]
  BY AppendProperties, LenProperties
<1> HIDE DEF a
<1>2. \A i \in DOMAIN a : (i \in DOMAIN q /\ a[i] = q[i]) \/ (i = Len(q) + 1 /\ a[i] = c)
  BY <1>1
<1> QED BY <1>2 DEF a

\* What taking the first command makes of the channel's contents.
LEMMA TakenFrom ==
    ASSUME NEW q \in Seq(Commands), q # <<>>, NEW op
    PROVE  /\ Has(Tail(q), op) => Has(q, op)
           /\ Alone(q, op) => Alone(Tail(q), op)
           /\ Alone(q, op) /\ Head(q).op = op => ~Has(Tail(q), op)
<1> DEFINE t == Tail(q)
<1>1. /\ 1 \in DOMAIN q /\ Head(q) = q[1]
      /\ \A i \in DOMAIN t : i \in Nat \ {0} /\ i + 1 \in DOMAIN q /\ t[i] = q[i + 1]
  BY TailHas
<1> HIDE DEF t
<1>2. /\ \A i \in DOMAIN t : i + 1 # 1
      /\ \A i, j \in DOMAIN t : i + 1 = j + 1 => i = j
  BY <1>1
<1>3. Has(t, op) => Has(q, op)
  BY <1>1 DEF Has
<1>4. Alone(q, op) => Alone(t, op)
  BY <1>1, <1>2 DEF Alone
<1>5. Alone(q, op) /\ Head(q).op = op => ~Has(t, op)
  BY <1>1, <1>2 DEF Alone, Has
<1> QED BY <1>3, <1>4, <1>5 DEF t

\* What sending a command makes of them.
LEMMA SentTo ==
    ASSUME NEW q \in Seq(Commands), NEW c \in Commands, NEW op
    PROVE  /\ c.op # op /\ Has(Append(q, c), op) => Has(q, op)
           /\ (c.op # op \/ ~Has(q, op)) /\ Alone(q, op) => Alone(Append(q, c), op)
<1> DEFINE a == Append(q, c)
<1>1. \A i \in DOMAIN a : (i \in DOMAIN q /\ a[i] = q[i]) \/ (i = Len(q) + 1 /\ a[i] = c)
  BY AppendHas
<1> HIDE DEF a
<1>2. c.op # op /\ Has(a, op) => Has(q, op)
  BY <1>1 DEF Has
<1>3. (c.op # op \/ ~Has(q, op)) /\ Alone(q, op) => Alone(a, op)
  BY <1>1 DEF Has, Alone
<1> QED BY <1>2, <1>3 DEF a

\* What a step of the running actor can make of them.
LEMMA ActorChannel ==
    ASSUME TypeOK, ActorStep \/ \E m : ReceiveMessage(m), alive' = "running"
    PROVE  /\ \A op : op # "AbandonVend" =>
                /\ Has(mailbox', op) => Has(mailbox, op)
                /\ Alone(mailbox, op) => Alone(mailbox', op)
           /\ Begins => ReceiveCommand
           /\ ReceiveCommand => /\ Has(mailbox, Head(mailbox).op)
                                /\ \A op : Alone(mailbox, op) /\ Head(mailbox).op = op => ~Has(mailbox', op)
<1>1. mailbox \in Seq(Commands) /\ Len(mailbox) \in Nat
  BY LenProperties DEF TypeOK, ClientTypeOK
<1>2. CASE UNCHANGED mailbox /\ ~ReceiveCommand
  <2>1. ~Begins
    <3>1. mailbox # <<>> => Len(Tail(mailbox)) # Len(mailbox)
      BY <1>1, HeadTailProperties
    <3> QED BY <1>2, <3>1 DEF Begins
  <2> QED BY <1>2, <2>1
<1>3. CASE ReceiveCommand
  <2>1. mailbox # <<>> /\ mailbox' = Tail(mailbox)
    BY <1>3, QueueRuns DEF ReceiveCommand
  <2>2. Has(mailbox, Head(mailbox).op)
    BY <1>1, <2>1, TailHas DEF Has
  <2> QED BY <1>1, <1>3, <2>1, <2>2, TakenFrom
<1>4. CASE ~ReceiveCommand /\ \E c \in Commands : c.op = "AbandonVend" /\ mailbox' = Append(mailbox, c)
  <2>1. PICK c \in Commands : c.op = "AbandonVend" /\ mailbox' = Append(mailbox, c)
    BY <1>4
  <2>2. ~Begins
    <3>1. Len(Append(mailbox, c)) = Len(mailbox) + 1
      BY <1>1, AppendProperties
    <3>2. mailbox # <<>> => Len(Tail(mailbox)) = Len(mailbox) - 1
      BY <1>1, HeadTailProperties
    <3>3. mailbox # <<>> => Tail(mailbox) # Append(mailbox, c)
      BY <1>1, <3>1, <3>2
    <3> QED BY <2>1, <3>3 DEF Begins
  <2> QED BY <1>1, <1>4, <2>1, <2>2, SentTo
<1> QED BY <1>2, <1>3, <1>4, ActorMailbox

LEMMA ActorReplies ==
    ASSUME SessionOK, BegunInOrder, TypeOK, ActorStep \/ \E m : ReceiveMessage(m), alive' = "running"
    PROVE  \/ UNCHANGED reply \/ FinishReply
           \/ app \in {"displayingDevice", "displayingSession"}
           \/ ReceiveCommand /\ Head(mailbox).op = "BeginSession" /\ BeginReplied
           \/ ExitDeadline
<1>1. CASE ReceiveCommand
  <2>1. mailbox \in Seq(Commands) /\ mailbox # <<>> /\ handle_command(Head(mailbox))
    BY <1>1 DEF ReceiveCommand, TypeOK, ClientTypeOK
  <2>2. 1 \in DOMAIN mailbox /\ Head(mailbox) = mailbox[1]
    BY <2>1, TailHas
  <2>3. Head(mailbox).op = "EndSession" => Head(mailbox).id # 0
    BY <2>2 DEF BegunInOrder
  <2> QED BY <1>1, <2>1, <2>3, CommandReplies DEF NoReply
<1>2. CASE CommandChannelClosed \/ VendDeadline \/ LinkClosed \/ Exit
  BY <1>2, QuietHandlers DEF CommandChannelClosed, VendDeadline, LinkClosed, Exit, NoReply, fail
<1>3. ASSUME NEW m, ReceiveMessage(m)
      PROVE  NoReply \/ FinishReply
  BY <1>3, MessageReplies, VendRequestReplies DEF ReceiveMessage
<1> QED BY <1>1, <1>2, <1>3 DEF ActorStep, NoReply

LEMMA StopsKnown ==
    ASSUME ActorStep \/ \E m : ReceiveMessage(m), alive' = "running"
    PROVE  \/ UNCHANGED stopVars
           \/ ReceiveCommand /\ Head(mailbox).op = "Shutdown" /\ stopWaiter'
           \/ closed' /\ UNCHANGED stopWaiter
           \/ ExitDeadline
<1>1. CASE ReceiveCommand
  BY <1>1 DEF ReceiveCommand, handle_command
<1>2. CASE CommandChannelClosed
  BY <1>2 DEF CommandChannelClosed
<1>3. CASE VendDeadline \/ LinkClosed
  BY <1>3 DEF VendDeadline, LinkClosed
<1>4. CASE Exit
  BY <1>4 DEF Exit
<1>5. ASSUME NEW m, ReceiveMessage(m)
      PROVE  UNCHANGED stopVars
  BY <1>5 DEF ReceiveMessage
<1> QED BY <1>1, <1>2, <1>3, <1>4, <1>5 DEF ActorStep

LEMMA ActorOwner ==
    ASSUME TypeOK, SessionOK, BegunInOrder, BookStep, OwnerOK,
           ActorStep \/ \E m \in Messages : ReceiveMessage(m)
    PROVE  OwnerOK'
<1> SUFFICES ASSUME alive' = "running" PROVE OwnerOK'
  BY DEF OwnerOK, Running
<1>1. /\ app \notin {"beginning", "gone"} => NoBegin
      /\ app = "beginning" /\ reply # "none" => NoBegin
      /\ Alone(mailbox, "BeginSession")
      /\ app \in {"device", "displayingDevice", "stopping"} => active = NoSession
      /\ app = "beginning" /\ reply # "ok" => active = NoSession
      /\ app = "finishing" /\ reply = "ok" => active = NoSession
      /\ ShutdownAsked => app \in {"stopping", "gone"} /\ NoBegin /\ active = NoSession
      /\ exitArmed => closed \/ stopWaiter
  <2>1. alive = "running"
    BY DEF ActorStep, ReceiveMessage, ReceiveCommand, CommandChannelClosed, VendDeadline,
           ExitDeadline, LinkClosed, Exit, Ready
  <2> QED BY <2>1 DEF OwnerOK, Running
<1>2. UNCHANGED app
  BY ActorMail
<1>3. /\ NoBegin => NoBegin' /\ ~Begins
      /\ Alone(mailbox', "BeginSession")
      /\ Has(mailbox', "Shutdown") => Has(mailbox, "Shutdown")
      /\ Begins => ReceiveCommand
      /\ ReceiveCommand => Has(mailbox, Head(mailbox).op)
      /\ ReceiveCommand /\ Head(mailbox).op = "BeginSession" => NoBegin'
  BY <1>1, ActorChannel DEF NoBegin, Begins
<1>4. active = NoSession /\ ~Begins => active' = NoSession
  BY BookShapes, NoSessionFacts DEF Continues, Completes, Vanishes
<1>5. \/ UNCHANGED reply \/ FinishReply
      \/ app \in {"displayingDevice", "displayingSession"}
      \/ ReceiveCommand /\ Head(mailbox).op = "BeginSession" /\ BeginReplied
      \/ ExitDeadline
  BY ActorReplies
<1>6. ExitDeadline => active' = NoSession /\ (app = "beginning" => UNCHANGED reply)
  BY DEF ExitDeadline
<1>7. ShutdownAsked' => ShutdownAsked
  <2>1. stopWaiter' => ShutdownAsked
    BY <1>3, StopsKnown DEF stopVars, ExitDeadline, ShutdownAsked
  <2> QED BY <1>3, <2>1 DEF ShutdownAsked
<1>8. exitArmed' => closed' \/ stopWaiter'
  <2>1. CASE ExitDeadline
    BY <1>1, <2>1 DEF ExitDeadline, Ready, shouldExit, ShutdownAsked
  <2>2. CASE ~ExitDeadline
    BY <1>1, <2>2, StopsKnown DEF stopVars
  <2> QED BY <2>1, <2>2
<1>9. CASE NoBegin
  <2>1. /\ NoBegin' /\ (active = NoSession => active' = NoSession)
        /\ ~(ReceiveCommand /\ Head(mailbox).op = "BeginSession")
    BY <1>3, <1>4, <1>9 DEF NoBegin
  <2>2. app = "beginning" /\ reply' # "ok" => active' = NoSession
    BY <1>1, <1>5, <1>6, <2>1 DEF FinishReply
  <2>3. app = "finishing" /\ reply' = "ok" => active' = NoSession
    BY <1>1, <1>5, <1>6, <2>1 DEF FinishReply
  <2> QED BY <1>1, <1>2, <1>3, <1>7, <1>8, <2>1, <2>2, <2>3 DEF OwnerOK
<1>10. CASE ~NoBegin
  <2>1. /\ app \in {"beginning", "gone"} /\ ~ShutdownAsked
        /\ app = "beginning" => reply = "none" /\ active = NoSession
    BY <1>1, <1>10
  <2>2. app = "beginning" /\ reply' # "none" => NoBegin'
    BY <1>3, <1>5, <1>6, <2>1 DEF FinishReply
  <2>3. app = "beginning" /\ Begins => reply' = "ok"
    <3>1. SUFFICES ASSUME app = "beginning", Begins PROVE reply' = "ok"
      OBVIOUS
    <3>2. Head(mailbox).op = "BeginSession" /\ active = NoSession /\ active' # NoSession
      BY <3>1, NoSessionFacts DEF Begins, NewSession
    <3>3. begin_session(Head(mailbox))
      BY <1>3, <3>1, <3>2 DEF ReceiveCommand, handle_command
    <3> QED BY <3>1, <3>2, <3>3, BeginReplies DEF BeginReplied
  <2>4. app = "beginning" /\ reply' # "ok" => active' = NoSession
    BY <1>4, <2>1, <2>3
  <2> QED BY <1>1, <1>2, <1>3, <1>7, <1>8, <2>1, <2>2, <2>4 DEF OwnerOK
<1> QED BY <1>9, <1>10

-----------------------------------------------------------------------------
(* The steps of the application. *)

\* What a step that begins no session and shuts nothing down leaves in the channel.
ChannelKept ==
    /\ Has(mailbox', "BeginSession") => Has(mailbox, "BeginSession")
    /\ Alone(mailbox, "BeginSession") => Alone(mailbox', "BeginSession")
    /\ Has(mailbox', "Shutdown") => Has(mailbox, "Shutdown")

LEMMA PostKeeps ==
    ASSUME TypeOK, NEW c \in Commands, c.op \notin {"BeginSession", "Shutdown"}, Post(c)
    PROVE  ChannelKept
<1>1. mailbox \in Seq(Commands)
  BY DEF TypeOK, ClientTypeOK
<1>2. CASE mailbox' = Append(mailbox, c)
  BY <1>1, <1>2, SentTo DEF ChannelKept
<1> QED BY <1>2 DEF Post, ChannelKept

LEMMA RestKeeps == UNCHANGED mailbox => ChannelKept
BY DEF ChannelKept

\* Between calls the handle moves as its owner says.
LEMMA DeviceOwner ==
    ASSUME TypeOK, OwnerOK,
           \/ BeginReturns \/ ShutdownReturns
           \/ DeviceDisplay \/ DeviceDisplayReturns \/ DropDevice \/ DropFuture
    PROVE  OwnerOK'
<1>1. ActorRests /\ ChannelKept
  <2>1. CASE DeviceDisplay
    <3> DEFINE c == Command("DisplayMessage", 0, 0)
    <3>0. 0 \in 0..MaxSessions
      BY BoundsAssumption
    <3>1. c \in Commands /\ c.op = "DisplayMessage"
      BY <3>0, SessionCommandType DEF SessionOps, Command
    <3> QED BY <2>1, <3>1, PostKeeps DEF DeviceDisplay, Call
  <2> QED BY <2>1, RestKeeps
          DEF BeginReturns, ShutdownReturns, DeviceDisplayReturns, Return, DropDevice, DropFuture
<1> SUFFICES ASSUME Running, UNCHANGED <<alive, active, closed, exitArmed, stopWaiter>> PROVE OwnerOK'
  BY <1>1 DEF ActorRests, stopVars, OwnerOK, Running
<1>2. CASE BeginReturns
  BY <1>1, <1>2 DEF BeginReturns, Return, OwnerOK, ChannelKept, NoBegin, ShutdownAsked
<1>3. CASE ShutdownReturns \/ DeviceDisplayReturns
  BY <1>1, <1>3 DEF ShutdownReturns, DeviceDisplayReturns, Return, OwnerOK, ChannelKept,
                    NoBegin, ShutdownAsked
<1>4. CASE DeviceDisplay
  BY <1>1, <1>4 DEF DeviceDisplay, Call, OwnerOK, ChannelKept, NoBegin, ShutdownAsked
<1>5. CASE DropDevice \/ DropFuture
  BY <1>1, <1>5 DEF DropDevice, DropFuture, OwnerOK, ChannelKept, NoBegin, ShutdownAsked
<1> QED BY <1>2, <1>3, <1>4, <1>5

LEMMA SessionOwner ==
    ASSUME TypeOK, OwnerOK,
           \/ SessionDisplay \/ SessionDisplayReturns \/ NextEvent \/ Finish
           \/ FinishReturns \/ DropSession \/ DropEvent
    PROVE  OwnerOK'
<1>1. ActorRests /\ ChannelKept
  <2>1. sid \in 0..MaxSessions
    BY DEF TypeOK, ClientTypeOK
  <2>2. CASE SessionDisplay
    <3> DEFINE c == Command("DisplayMessage", sid, 0)
    <3>1. c \in Commands /\ c.op = "DisplayMessage"
      BY <2>1, SessionCommandType DEF SessionOps, Command
    <3> QED BY <2>2, <3>1, PostKeeps DEF SessionDisplay, Call
  <2>3. CASE Finish \/ DropSession
    <3>1. PICK arg \in {0, 1} : Post(Command("EndSession", sid, arg))
      BY <2>3 DEF Finish, DropSession, Call
    <3> DEFINE c == Command("EndSession", sid, arg)
    <3>2. c \in Commands /\ c.op = "EndSession"
      BY <2>1, SessionCommandType DEF SessionOps, Command
    <3> QED BY <2>3, <3>1, <3>2, PostKeeps DEF Finish, DropSession, Call
  <2>4. CASE DropEvent
    <3> DEFINE c == Command("AbandonVend", Head(events).vend, 0)
    <3>1. Head(events).vend \in 0..MaxVends /\ 0 \in Cash
      BY <2>4, HeadEventType DEF DropEvent, Events, Cash
    <3>2. c \in Commands /\ c.op = "AbandonVend"
      BY <3>1, VendCommandType DEF VendOps, Command
    <3> QED BY <2>4, <3>2, PostKeeps, RestKeeps DEF DropEvent
  <2> QED BY <2>2, <2>3, <2>4, RestKeeps DEF SessionDisplayReturns, NextEvent, FinishReturns, Return
<1> SUFFICES ASSUME Running, UNCHANGED <<alive, active, closed, exitArmed, stopWaiter>> PROVE OwnerOK'
  BY <1>1 DEF ActorRests, stopVars, OwnerOK, Running
<1>2. CASE SessionDisplay \/ Finish
  BY <1>1, <1>2 DEF SessionDisplay, Finish, Call, OwnerOK, ChannelKept, NoBegin, ShutdownAsked,
                    Running
<1>3. CASE SessionDisplayReturns \/ FinishReturns
  BY <1>1, <1>3 DEF SessionDisplayReturns, FinishReturns, Return, OwnerOK, ChannelKept,
                    NoBegin, ShutdownAsked
<1>4. CASE NextEvent \/ DropSession \/ DropEvent
  BY <1>1, <1>4 DEF NextEvent, DropSession, DropEvent, OwnerOK, ChannelKept, NoBegin, ShutdownAsked
<1> QED BY <1>2, <1>3, <1>4

LEMMA VendOwner ==
    ASSUME TypeOK, OwnerOK, NEW v \in Vends,
           Approve(v) \/ Deny(v) \/ Decided(v) \/ DropDecision(v) \/ DropVend(v)
    PROVE  OwnerOK'
<1>1. v \in 0..MaxVends /\ 0 \in Cash /\ Amounts \subseteq Cash
  BY BoundsAssumption DEF Vends, Cash
<1>2. UNCHANGED <<app, reply>> /\ ActorRests
  BY DEF Approve, Deny, decide, Decided, DropDecision, DropVend
<1>3. UNCHANGED mailbox \/ \E op \in VendOps, arg \in Cash : Post(Command(op, v, arg))
  BY <1>1 DEF Approve, Deny, decide, Decided, DropDecision, DropVend, VendOps
<1>4. \A op \in VendOps, arg \in Cash :
        Command(op, v, arg) \in Commands /\ Command(op, v, arg).op \notin {"BeginSession", "Shutdown"}
  BY <1>1, VendCommandType DEF VendOps, Command
<1>5. ChannelKept
  BY <1>3, <1>4, PostKeeps, RestKeeps
<1> QED BY <1>2, <1>5 DEF ActorRests, stopVars, OwnerOK, Running, ChannelKept, NoBegin, ShutdownAsked

\* begin_session() takes the device, and so does shutdown().
LEMMA CallOwner ==
    ASSUME TypeOK, OwnerOK, BeginSession \/ Shutdown
    PROVE  OwnerOK'
<1>1. ActorRests /\ app = "device" /\ mailbox \in Seq(Commands) /\ sid \in Nat
  BY BoundsAssumption DEF BeginSession, Shutdown, Call, TypeOK, ClientTypeOK
<1> SUFFICES ASSUME Running, UNCHANGED <<alive, active, closed, exitArmed, stopWaiter>> PROVE OwnerOK'
  BY <1>1 DEF ActorRests, stopVars, OwnerOK, Running
<1>2. /\ NoBegin /\ active = NoSession /\ ~ShutdownAsked
      /\ exitArmed => closed \/ stopWaiter
  BY <1>1 DEF OwnerOK
<1>3. CASE BeginSession
  <2>1. PICK funds \in {0, 1} : Call("beginning", Command("BeginSession", sid + 1, funds))
    BY <1>3 DEF BeginSession
  <2> DEFINE c == Command("BeginSession", sid + 1, funds)
  <2>2. c \in Commands /\ c.op = "BeginSession"
    <3>1. sid + 1 \in 0..MaxSessions
      BY <1>1, <1>3, BoundsAssumption DEF BeginSession
    <3> QED BY <3>1, SessionCommandType DEF SessionOps, Command
  <2>3. app' = "beginning" /\ reply' = "none" /\ mailbox' = Append(mailbox, c)
    BY <2>1 DEF Call, Post, Running
  <2> HIDE DEF c
  <2>4. Alone(mailbox, "BeginSession")
    BY <1>2 DEF NoBegin, Has, Alone
  <2>5. Alone(mailbox', "BeginSession") /\ ~Has(mailbox', "Shutdown")
    BY <1>1, <1>2, <2>2, <2>3, <2>4, SentTo DEF NoBegin, ShutdownAsked
  <2> QED BY <1>2, <2>3, <2>5 DEF OwnerOK, ShutdownAsked
<1>4. CASE Shutdown
  <2> DEFINE c == Command("Shutdown", 0, 0)
  <2>0. 0 \in 0..MaxSessions
    BY BoundsAssumption
  <2>1. c \in Commands /\ c.op = "Shutdown"
    BY <2>0, SessionCommandType DEF SessionOps, Command
  <2>2. app' = "stopping" /\ mailbox' = Append(mailbox, c)
    BY <1>4 DEF Shutdown, Call, Post, Running
  <2> HIDE DEF c
  <2>3. Alone(mailbox, "BeginSession")
    BY <1>2 DEF NoBegin, Has, Alone
  <2>4. NoBegin' /\ Alone(mailbox', "BeginSession")
    BY <1>1, <1>2, <2>1, <2>2, <2>3, SentTo DEF NoBegin
  <2> QED BY <1>2, <2>2, <2>4 DEF OwnerOK
<1> QED BY <1>3, <1>4

-----------------------------------------------------------------------------
(* The theorem. *)

LEMMA InitOwner == Init => OwnerOK
BY DEF Init, ActorInit, OwnerOK, NoBegin, ShutdownAsked, Has, Alone

\* What a handle that is owned, or a call that has returned, says of the actor:
\* one BeginSession command is on its way at most, and complete_active, the
\* refusals of begin_session and request_end, and the grace period answer their
\* callers only once the session is gone.
THEOREM OwnerStaysRight == Spec => []OwnerOK
<1>1. ASSUME TypeOK, SessionSafe, BooksOK, OwnerOK, [Next]_vars
      PROVE  OwnerOK'
  <2>1. SessionOK /\ BegunInOrder /\ BookStep
    <3>1. SessionOK /\ BegunInOrder /\ OpenVendOK /\ AnswerOK
      BY <1>1 DEF BooksOK, SessionSafe
    <3> QED BY <1>1, <3>1, StepBooks DEF Base
  <2>2. CASE ActorStep \/ \E m \in Messages : ReceiveMessage(m)
    BY <1>1, <2>1, <2>2, ActorOwner
  <2>3. CASE ClientStep
    BY <1>1, <2>3, DeviceOwner, SessionOwner, VendOwner, CallOwner DEF ClientStep
  <2>4. CASE Stopped \/ UNCHANGED vars
    BY <1>1, <2>4 DEF Stopped, vars, stopVars, clientVars, OwnerOK, Running, NoBegin, ShutdownAsked
  <2> QED BY <1>1, <2>2, <2>3, <2>4 DEF Next
<1> QED BY InitOwner, TypeCorrect, SessionStaysSafe, BooksStayInOrder, <1>1, PTL DEF Spec

\* Ownership is the whole protocol: begin_session() is never refused because of
\* a session, and shutdown() never has one to close, in any interleaving of the
\* application, the machine and the actor.
THEOREM DeviceHasNoSession == Spec => []DeviceMeansNoSession
<1>1. OwnerOK => DeviceMeansNoSession
  BY DEF OwnerOK, DeviceMeansNoSession
<1> QED BY OwnerStaysRight, <1>1, PTL

-----------------------------------------------------------------------------
(* What a step makes of the status, and of a session somebody waits for. *)

Ends == {"Completed", "ApplicationRequested"}

\* A session ends for a reason that enables the reader again, or by a reset.
ReasonsOK(s) ==
    /\ s.summary.reason \in Ends
    /\ s.phase = "AwaitingEndSessionAck" => s.endReason \in Ends

\* The session goes on from s, and its waiter is kept.
GoesOnFrom(s) ==
    /\ UNCHANGED status /\ ReasonsOK(active')
    /\ active'.phase = "None" <=> s.phase = "None"
    /\ active'.id = s.id /\ (s.waiting => active'.waiting)

\* It is over, and the reader ready for another once it is enabled.
Closes ==
    /\ active' = NoSession /\ status' \in {"Enabled", "Inactive"}
    /\ active.waiting /\ app = "finishing" => reply' # "none"

\* The reader is set up, enabled, disabled or reset.
Controls ==
    /\ UNCHANGED active
    /\ status' = "Disabled" \/ (status' \in {"Enabled", "Inactive"} /\ active = NoSession)

Opens ==
    /\ active = NoSession /\ status' = "SessionActive"
    /\ \E id \in 0..MaxSessions : active' = NewSession(id)

StatusStep ==
    alive' # "running" \/ GoesOnFrom(active) \/ Closes \/ Controls \/ Opens

LEMMA FailsAway == ASSUME NEW before, fail(before) PROVE alive' # "running"
BY DEF fail

LEMMA EndStatus ==
    ASSUME NEW s \in SessionRecords, ReasonsOK(s), NEW before, initiate_end(s, before)
    PROVE  alive' # "running" \/ GoesOnFrom(s)
<1> DEFINE e == [s EXCEPT !.endRequested = TRUE, !.summary.reason = "ApplicationRequested"]
           cancelled == [e EXCEPT !.phase = "AwaitingSessionComplete"]
           denying == [e EXCEPT !.phase = "DenyingForEnd"]
<1>1. /\ e.phase = s.phase /\ e.id = s.id /\ e.waiting = s.waiting
      /\ e.summary.reason = "ApplicationRequested" /\ e.endReason = s.endReason
      /\ \A p : LET t == [e EXCEPT !.phase = p]
                IN  /\ t.phase = p /\ t.id = s.id /\ t.waiting = s.waiting
                    /\ t.summary.reason = "ApplicationRequested"
  BY DEF SessionRecords, Summaries
<1>2. /\ cancelled.phase = "AwaitingSessionComplete" /\ denying.phase = "DenyingForEnd"
      /\ \A t \in {cancelled, denying} :
           t.id = s.id /\ t.waiting = s.waiting /\ t.summary.reason = "ApplicationRequested"
  <2> HIDE DEF e
  <2> QED BY <1>1
<1>3. alive' = "running" =>
        /\ UNCHANGED status
        /\ \/ s.phase = "Idle" /\ active' = cancelled
           \/ s.phase = "VendPending" /\ active' = denying
           \/ s.phase \notin {"Idle", "VendPending"} /\ active' \in {s, e}
  BY FailsAway DEF initiate_end, Send, Calm
<1> HIDE DEF e, cancelled, denying
<1>4. CASE alive' = "running" /\ s.phase = "Idle"
  BY <1>1, <1>2, <1>3, <1>4 DEF GoesOnFrom, ReasonsOK, Ends
<1>5. CASE alive' = "running" /\ s.phase = "VendPending"
  BY <1>1, <1>2, <1>3, <1>5 DEF GoesOnFrom, ReasonsOK, Ends
<1>6. CASE alive' = "running" /\ s.phase \notin {"Idle", "VendPending"}
  BY <1>1, <1>2, <1>3, <1>6 DEF GoesOnFrom, ReasonsOK, Ends
<1> QED BY <1>4, <1>5, <1>6

\* What a handler that keeps the session makes of it: another phase and vend.
Moves(s) ==
    /\ UNCHANGED status
    /\ active' = s /\ s.phase # "None" /\ s.phase # "AwaitingEndSessionAck"
    /\ s.id = active.id /\ s.waiting = active.waiting
    /\ s.summary.reason = active.summary.reason

LEMMA MovesOn ==
    ASSUME ReasonsOK(active), active.phase # "None", NEW s, Moves(s)
    PROVE  StatusStep
BY DEF Moves, StatusStep, GoesOnFrom, ReasonsOK

LEMMA RestStatus ==
    ASSUME ReasonsOK(active), UNCHANGED <<active, status>>
    PROVE  StatusStep
BY DEF StatusStep, GoesOnFrom

LEMMA SequenceStatus ==
    ASSUME TypeOK, ReasonsOK(active), command_out_of_sequence
    PROVE  StatusStep
<1> DEFINE t == [active EXCEPT !.phase = "AwaitingReset", !.vend = ApprovedVend(active)]
<1>1. active \in SessionRecords
  BY DEF TypeOK, ActorTypeOK
<1>2. /\ t.phase = "AwaitingReset" /\ t.id = active.id /\ t.waiting = active.waiting
      /\ t.summary = active.summary
  BY <1>1 DEF SessionRecords
<1>3. alive' = "running" =>
        /\ UNCHANGED status
        /\ active' = IF active.phase = "None" THEN active ELSE t
  BY FailsAway DEF command_out_of_sequence, Send, Calm
<1> HIDE DEF t
<1>4. CASE alive' # "running"
  BY <1>4 DEF StatusStep
<1>5. CASE alive' = "running" /\ active.phase = "None"
  BY <1>3, <1>5, RestStatus
<1>6. CASE alive' = "running" /\ active.phase # "None"
  BY <1>2, <1>3, <1>6, MovesOn DEF Moves
<1> QED BY <1>4, <1>5, <1>6

LEMMA IdlingKeeps ==
    ASSUME NEW s \in SessionRecords
    PROVE  /\ Idling(s) \in SessionRecords
           /\ Idling(s).phase = "Idle" /\ Idling(s).id = s.id /\ Idling(s).waiting = s.waiting
           /\ Idling(s).summary = s.summary /\ Idling(s).endReason = s.endReason
<1>1. NoVend \in VendRecords
  BY BoundsAssumption DEF NoVend, VendRecords, Cash
<1> QED BY <1>1 DEF Idling, SessionRecords, Phases

LEMMA RefuseStatus ==
    ASSUME TypeOK, ReasonsOK(active), Pending, NEW v, NEW error, refuse_vend(v, error)
    PROVE  StatusStep
<1> DEFINE t == Idling(active)
<1>1. t.phase = "Idle" /\ t.id = active.id /\ t.waiting = active.waiting /\ t.summary = active.summary
  BY IdlingKeeps DEF TypeOK, ActorTypeOK
<1>2. alive' # "running" \/ (UNCHANGED status /\ active' = t)
  BY FailsAway DEF refuse_vend, Send, Calm
<1> HIDE DEF t
<1> QED BY <1>1, <1>2, MovesOn DEF Moves, Pending, StatusStep

LEMMA AckStatus ==
    ASSUME TypeOK, ReasonsOK(active), handle_ack
    PROVE  StatusStep
<1> DEFINE t == [active EXCEPT !.phase = "AwaitingSessionComplete", !.vend = NoVend]
<1>1. t.phase = "AwaitingSessionComplete" /\ t.id = active.id /\ t.waiting = active.waiting
      /\ t.summary = active.summary
  BY DEF TypeOK, ActorTypeOK, SessionRecords
<1>2. \/ alive' # "running"
      \/ active.phase = "DenyingForEnd" /\ active' = t /\ UNCHANGED status
      \/ /\ active.phase = "AwaitingEndSessionAck"
         /\ active' = NoSession /\ status' = StatusAfter(active.endReason)
         /\ reply' = IF active.waiting /\ app = "finishing" THEN "ok" ELSE reply
      \/ UNCHANGED <<active, status>>
  BY FailsAway DEF handle_ack, Send, Calm, complete_active
<1> HIDE DEF t
<1>3. CASE alive' # "running"
  BY <1>3 DEF StatusStep
<1>4. CASE active.phase = "DenyingForEnd" /\ active' = t /\ UNCHANGED status
  BY <1>1, <1>4, MovesOn DEF Moves
<1>5. CASE /\ active.phase = "AwaitingEndSessionAck"
           /\ active' = NoSession /\ status' = StatusAfter(active.endReason)
           /\ reply' = IF active.waiting /\ app = "finishing" THEN "ok" ELSE reply
  BY <1>5 DEF StatusStep, Closes, StatusAfter, ReasonsOK, Ends
<1>6. CASE UNCHANGED <<active, status>>
  BY <1>6, RestStatus
<1> QED BY <1>2, <1>3, <1>4, <1>5, <1>6

LEMMA ResetStatus ==
    ASSUME TypeOK, handle_reset
    PROVE  StatusStep
<1> DEFINE len == Len(IF ApprovedVend(active) = NoVend THEN <<>>
                      ELSE <<VendEvent("VendSucceeded", ApprovedVend(active).id,
                                       ApprovedVend(active).amount, "AssumedAfterReset")>>)
           s == [active EXCEPT !.summary.successes = @ + len]
<1>1. s.waiting = active.waiting
  <2> HIDE DEF len
  <2> QED BY DEF TypeOK, ActorTypeOK, SessionRecords, Summaries
<1>2. status' = "Inactive" /\ ((active = NoSession /\ UNCHANGED active) \/ complete_active(s, "Reset"))
  BY DEF handle_reset
<1> HIDE DEF s
<1> QED BY <1>1, <1>2 DEF StatusStep, Closes, Controls, complete_active

LEMMA CancelStatus ==
    ASSUME TypeOK, ReasonsOK(active), handle_vend_cancel
    PROVE  StatusStep
<1> DEFINE i == Idling(active)
           s == [i EXCEPT !.summary.cancels = @ + 1]
           d == [active EXCEPT !.summary.cancels = @ + 1]
<1>0. active \in SessionRecords /\ i \in SessionRecords /\ i.phase = "Idle"
      /\ i.id = active.id /\ i.waiting = active.waiting /\ i.summary = active.summary
  BY IdlingKeeps DEF TypeOK, ActorTypeOK
<1>1. \/ alive' # "running"
      \/ Pending /\ active' = s /\ UNCHANGED status
      \/ active.phase = "DenyingForEnd" /\ active' = d /\ UNCHANGED status
      \/ command_out_of_sequence
  BY FailsAway DEF handle_vend_cancel, Send, Calm
<1> HIDE DEF i
<1>2. /\ s.phase = i.phase /\ s.id = i.id /\ s.waiting = i.waiting
      /\ s.summary.reason = i.summary.reason
  BY <1>0 DEF SessionRecords, Summaries
<1>3. /\ d.phase = active.phase /\ d.id = active.id /\ d.waiting = active.waiting
      /\ d.summary.reason = active.summary.reason
  BY <1>0 DEF SessionRecords, Summaries
<1> HIDE DEF s, d
<1>4. CASE alive' # "running"
  BY <1>4 DEF StatusStep
<1>5. CASE Pending /\ active' = s /\ UNCHANGED status
  BY <1>0, <1>2, <1>5, MovesOn DEF Moves, Pending
<1>6. CASE active.phase = "DenyingForEnd" /\ active' = d /\ UNCHANGED status
  BY <1>3, <1>6, MovesOn DEF Moves
<1>7. CASE command_out_of_sequence
  BY <1>7, SequenceStatus
<1> QED BY <1>1, <1>4, <1>5, <1>6, <1>7

LEMMA CompleteStatus ==
    ASSUME TypeOK, SessionOK, ReasonsOK(active), handle_session_complete
    PROVE  StatusStep
<1> DEFINE t == [active EXCEPT !.phase = "AwaitingEndSessionAck", !.vend = NoVend,
                               !.endReason = active.summary.reason]
<1>1. /\ t.phase = "AwaitingEndSessionAck" /\ t.id = active.id /\ t.waiting = active.waiting
      /\ t.summary = active.summary /\ t.endReason = active.summary.reason
  BY DEF TypeOK, ActorTypeOK, SessionRecords
<1>2. \/ alive' # "running"
      \/ active = NoSession /\ UNCHANGED <<active, status>>
      \/ active # NoSession /\ active' = t /\ UNCHANGED status
      \/ command_out_of_sequence
  BY FailsAway DEF handle_session_complete, Send, Calm
<1> HIDE DEF t
<1>3. CASE alive' # "running"
  BY <1>3 DEF StatusStep
<1>4. CASE UNCHANGED <<active, status>>
  BY <1>4, RestStatus
<1>5. CASE active # NoSession /\ active' = t /\ UNCHANGED status
  BY <1>1, <1>5 DEF StatusStep, GoesOnFrom, ReasonsOK, SessionOK
<1>6. CASE command_out_of_sequence
  BY <1>6, SequenceStatus
<1> QED BY <1>2, <1>3, <1>4, <1>5, <1>6

LEMMA ResultStatus ==
    ASSUME TypeOK, ReasonsOK(active), NEW kind, NEW why, NEW counted \in SessionRecords,
           counted.id = active.id, counted.waiting = active.waiting,
           counted.summary.reason = active.summary.reason,
           VendResult(kind, why, counted)
    PROVE  StatusStep
<1> DEFINE s == Idling(counted)
<1>1. /\ s \in SessionRecords /\ s.phase = "Idle" /\ s.id = active.id
      /\ s.waiting = active.waiting /\ s.summary = counted.summary
  BY IdlingKeeps
<1>2. \/ command_out_of_sequence
      \/ active.phase = "AwaitingVendResult" /\ \E told : initiate_end(s, told)
      \/ active.phase = "AwaitingVendResult" /\ active' = s /\ UNCHANGED status
  BY DEF VendResult, Calm
<1> HIDE DEF s
<1>3. CASE command_out_of_sequence
  BY <1>3, SequenceStatus
<1>4. CASE active.phase = "AwaitingVendResult" /\ \E told : initiate_end(s, told)
  <2>1. ReasonsOK(s)
    BY <1>1 DEF ReasonsOK
  <2>2. alive' # "running" \/ GoesOnFrom(s)
    BY <1>1, <1>4, <2>1, EndStatus
  <2> QED BY <1>1, <1>4, <2>2 DEF StatusStep, GoesOnFrom
<1>5. CASE active.phase = "AwaitingVendResult" /\ active' = s /\ UNCHANGED status
  BY <1>1, <1>5, MovesOn DEF Moves
<1> QED BY <1>2, <1>3, <1>4, <1>5

LEMMA MessageStatus ==
    ASSUME TypeOK, SessionOK, ReasonsOK(active), NEW m, handle_adapter_message(m)
    PROVE  StatusStep
<1>0. active \in SessionRecords
  BY DEF TypeOK, ActorTypeOK
<1>1. handle_setup_configuration => StatusStep
  BY DEF handle_setup_configuration, StatusStep, Controls
<1>2. handle_setup_prices => StatusStep
  BY RestStatus DEF handle_setup_prices
<1>3. \A newStatus \in {"Enabled", "Disabled"} : handle_reader_control(newStatus) => StatusStep
  BY SequenceStatus DEF handle_reader_control, StatusStep, Controls
<1>4. handle_reader_cancel => StatusStep
  <2>1. handle_reader_cancel =>
          command_out_of_sequence \/ alive' # "running" \/ UNCHANGED <<active, status>>
    BY FailsAway DEF handle_reader_cancel, Send, Calm
  <2> QED BY <2>1, SequenceStatus, RestStatus DEF StatusStep
<1>5. handle_vend_success => StatusStep
  <2> DEFINE s == [active EXCEPT !.summary.successes = @ + 1]
  <2>1. /\ s \in SessionRecords /\ s.id = active.id /\ s.waiting = active.waiting
        /\ s.summary.reason = active.summary.reason
    BY <1>0 DEF SessionRecords, Summaries
  <2>2. handle_vend_success => VendResult("VendSucceeded", "Confirmed", s)
    BY DEF handle_vend_success
  <2> HIDE DEF s
  <2> QED BY <2>1, <2>2, ResultStatus
<1>6. handle_vend_failure => StatusStep
  <2> DEFINE s == [active EXCEPT !.summary.failures = @ + 1]
  <2>1. /\ s \in SessionRecords /\ s.id = active.id /\ s.waiting = active.waiting
        /\ s.summary.reason = active.summary.reason
    BY <1>0 DEF SessionRecords, Summaries
  <2>2. handle_vend_failure => VendResult("VendFailed", "", s)
    BY DEF handle_vend_failure
  <2> HIDE DEF s
  <2> QED BY <2>1, <2>2, ResultStatus
<1>7. UNCHANGED active /\ Calm => StatusStep
  BY RestStatus DEF Calm
<1> QED
  BY <1>1, <1>2, <1>3, <1>4, <1>5, <1>6, <1>7, AckStatus, ResetStatus, CancelStatus, CompleteStatus
     DEF handle_adapter_message

LEMMA VendRequestStatus ==
    ASSUME TypeOK, ReasonsOK(active), handle_vend_request
    PROVE  StatusStep
<1>1. \A v, price : LET t == [active EXCEPT !.phase = "VendPending",
                                            !.vend = [id |-> v, price |-> price, amount |-> 0]]
                    IN  /\ t.phase = "VendPending" /\ t.id = active.id
                        /\ t.waiting = active.waiting /\ t.summary = active.summary
  BY DEF TypeOK, ActorTypeOK, SessionRecords
<1>2. \/ alive' # "running"
      \/ command_out_of_sequence
      \/ UNCHANGED <<active, status>>
      \/ /\ active.phase = "Idle" /\ UNCHANGED status
         /\ \E v, price : active' = [active EXCEPT !.phase = "VendPending",
                                                   !.vend = [id |-> v, price |-> price, amount |-> 0]]
  BY FailsAway DEF handle_vend_request, Send, Calm
<1>3. CASE alive' # "running"
  BY <1>3 DEF StatusStep
<1>4. CASE command_out_of_sequence
  BY <1>4, SequenceStatus
<1>5. CASE UNCHANGED <<active, status>>
  BY <1>5, RestStatus
<1>6. CASE /\ active.phase = "Idle" /\ UNCHANGED status
           /\ \E v, price : active' = [active EXCEPT !.phase = "VendPending",
                                                     !.vend = [id |-> v, price |-> price, amount |-> 0]]
  <2>1. PICK v, price : active' = [active EXCEPT !.phase = "VendPending",
                                                 !.vend = [id |-> v, price |-> price, amount |-> 0]]
    BY <1>6
  <2> DEFINE t == [active EXCEPT !.phase = "VendPending",
                                 !.vend = [id |-> v, price |-> price, amount |-> 0]]
  <2>2. /\ t.phase = "VendPending" /\ t.id = active.id
        /\ t.waiting = active.waiting /\ t.summary = active.summary
    BY <1>1
  <2>3. active' = t
    BY <2>1
  <2> HIDE DEF t
  <2> QED BY <1>6, <2>2, <2>3, MovesOn DEF Moves
<1> QED BY <1>2, <1>3, <1>4, <1>5, <1>6

LEMMA BeginStatus ==
    ASSUME ReasonsOK(active), NEW c, c.id \in 0..MaxSessions, begin_session(c)
    PROVE  StatusStep
<1>1. \/ alive' # "running"
      \/ UNCHANGED <<active, status>>
      \/ active = NoSession /\ status' = "SessionActive" /\ active' = NewSession(c.id)
  BY FailsAway DEF begin_session, Send
<1> QED BY <1>1, RestStatus DEF StatusStep, Opens

LEMMA DecideStatus ==
    ASSUME TypeOK, ReasonsOK(active), NEW c, decide_vend(c)
    PROVE  StatusStep
<1> DEFINE i == Idling(active)
           t == [active EXCEPT !.phase = "AwaitingVendResult", !.vend.amount = c.arg]
<1>1. i.phase = "Idle" /\ i.id = active.id /\ i.waiting = active.waiting /\ i.summary = active.summary
  BY IdlingKeeps DEF TypeOK, ActorTypeOK
<1>2. /\ t.phase = "AwaitingVendResult" /\ t.id = active.id /\ t.waiting = active.waiting
      /\ t.summary = active.summary
  BY DEF TypeOK, ActorTypeOK, SessionRecords
<1>3. \/ alive' # "running"
      \/ UNCHANGED <<active, status>>
      \/ Pending /\ active' \in {i, t} /\ UNCHANGED status
  BY FailsAway DEF decide_vend, write_decision, PendingIs, Send, DecisionRest
<1> HIDE DEF i, t
<1>4. CASE alive' # "running"
  BY <1>4 DEF StatusStep
<1>5. CASE UNCHANGED <<active, status>>
  BY <1>5, RestStatus
<1>6. CASE Pending /\ active' \in {i, t} /\ UNCHANGED status
  BY <1>1, <1>2, <1>6, MovesOn DEF Moves, Pending
<1> QED BY <1>3, <1>4, <1>5, <1>6

\* The command that finish() sends keeps its caller among those that wait.
LEMMA RequestStatus ==
    ASSUME TypeOK, ReasonsOK(active), NEW c, c.arg \in {0, 1}, request_end(c)
    PROVE  /\ StatusStep
           /\ c.arg = 1 /\ app = "finishing" /\ alive' = "running" =>
                reply' # "none" \/ (active'.id = c.id /\ active'.waiting)
<1> DEFINE s == [active EXCEPT !.waiting = @ \/ c.arg = 1]
<1>1. /\ s \in SessionRecords /\ s.phase = active.phase /\ s.id = active.id
      /\ s.summary = active.summary /\ s.endReason = active.endReason
      /\ active.waiting \/ c.arg = 1 => s.waiting
  BY DEF TypeOK, ActorTypeOK, SessionRecords
<1>2. \/ /\ UNCHANGED <<active, status>>
         /\ c.arg = 1 /\ app = "finishing" => reply' \in {"ok", "err"}
      \/ active.id = c.id /\ initiate_end(s, <<>>)
  BY DEF request_end, Reply
<1> HIDE DEF s
<1>3. CASE /\ UNCHANGED <<active, status>>
           /\ c.arg = 1 /\ app = "finishing" => reply' \in {"ok", "err"}
  BY <1>3, RestStatus
<1>4. CASE active.id = c.id /\ initiate_end(s, <<>>)
  <2>1. ReasonsOK(s)
    BY <1>1 DEF ReasonsOK
  <2>2. alive' # "running" \/ GoesOnFrom(s)
    BY <1>1, <1>4, <2>1, EndStatus
  <2> QED BY <1>1, <1>4, <2>2 DEF StatusStep, GoesOnFrom
<1> QED BY <1>2, <1>3, <1>4

LEMMA CommandStatus ==
    ASSUME TypeOK, ReasonsOK(active), NEW c \in Commands, handle_command(c)
    PROVE  StatusStep
<1>0. active \in SessionRecords
  BY DEF TypeOK, ActorTypeOK
<1>1. CASE c.op = "BeginSession" /\ begin_session(c)
  BY <1>1, CommandType, BeginStatus DEF SessionOps
<1>2. CASE display_message(c)
  <2>1. alive' # "running" \/ UNCHANGED <<active, status>>
    BY <1>2, FailsAway DEF display_message, Send
  <2> QED BY <2>1, RestStatus DEF StatusStep
<1>3. CASE decide_vend(c)
  BY <1>3, DecideStatus
<1>4. CASE abandon_vend(c)
  BY <1>4, RefuseStatus, RestStatus DEF abandon_vend, PendingIs, Calm
<1>5. CASE c.op = "EndSession" /\ request_end(c)
  BY <1>5, CommandType, RequestStatus DEF SessionOps
<1>6. CASE initiate_end(active, <<>>)
  BY <1>0, <1>6, EndStatus DEF StatusStep
<1> QED BY <1>1, <1>2, <1>3, <1>4, <1>5, <1>6 DEF handle_command

LEMMA ActorStatus ==
    ASSUME TypeOK, SessionOK, ReasonsOK(active), ActorStep \/ \E m : ReceiveMessage(m)
    PROVE  StatusStep \/ ExitDeadline
<1>1. CASE ReceiveCommand
  <2>1. Head(mailbox) \in Commands /\ handle_command(Head(mailbox))
    BY <1>1, HeadTailProperties DEF ReceiveCommand, TypeOK, ClientTypeOK
  <2> QED BY <2>1, CommandStatus
<1>2. CASE CommandChannelClosed
  <2>1. initiate_end(active, <<>>) /\ active \in SessionRecords
    BY <1>2 DEF CommandChannelClosed, TypeOK, ActorTypeOK
  <2> QED BY <2>1, EndStatus DEF StatusStep
<1>3. CASE VendDeadline
  BY <1>3, RefuseStatus DEF VendDeadline
<1>4. CASE LinkClosed
  BY <1>4, FailsAway DEF LinkClosed, StatusStep
<1>5. CASE Exit
  BY <1>5 DEF Exit, StatusStep
<1>6. CASE \E m : ReceiveMessage(m)
  BY <1>6, MessageStatus, VendRequestStatus DEF ReceiveMessage
<1> QED BY <1>1, <1>2, <1>3, <1>4, <1>5, <1>6 DEF ActorStep

\* StatusMatchesSession, with the reasons that complete_active turns into a status.
StatusOK == Running => ReasonsOK(active) /\ StatusMatchesSession

LEMMA StaysClosed ==
    ASSUME ActorStep \/ \E m : ReceiveMessage(m), alive' = "running", closed
    PROVE  closed'
BY StopsKnown DEF ReceiveCommand, stopVars, ExitDeadline

LEMMA StatusKept ==
    ASSUME TypeOK, SessionOK, SessionOK', OwnerOK, StatusOK,
           ActorStep \/ \E m : ReceiveMessage(m)
    PROVE  StatusOK'
<1> SUFFICES ASSUME alive' = "running" PROVE StatusOK'
  BY DEF StatusOK, Running
<1>1. alive = "running"
  BY DEF ActorStep, ReceiveMessage, ReceiveCommand, CommandChannelClosed, VendDeadline,
         ExitDeadline, LinkClosed, Exit, Ready
<1>2. /\ ReasonsOK(active)
      /\ status = "SessionActive" => (active # NoSession \/ closed)
      /\ active # NoSession => status \in {"SessionActive", "Disabled"}
      /\ status # "Disconnected"
  BY <1>1 DEF StatusOK, StatusMatchesSession, Running
<1>3. closed => closed'
  BY StaysClosed
<1>4. SUFFICES ReasonsOK(active') /\ StatusMatchesSession'
  BY DEF StatusOK
<1>5. ReasonsOK(NoSession) /\ \A id : ReasonsOK(NewSession(id)) /\ NewSession(id) # NoSession
  BY DEF ReasonsOK, NoSession, NewSession, NoSummary, Ends
<1>6. CASE GoesOnFrom(active)
  <2>1. active' = NoSession <=> active = NoSession
    BY <1>6 DEF GoesOnFrom, SessionOK
  <2> QED BY <1>2, <1>3, <1>6, <2>1 DEF GoesOnFrom, StatusMatchesSession
<1>7. CASE Closes
  BY <1>5, <1>7 DEF Closes, StatusMatchesSession
<1>8. CASE Controls
  BY <1>2, <1>8 DEF Controls, StatusMatchesSession
<1>9. CASE Opens
  BY <1>5, <1>9 DEF Opens, StatusMatchesSession
<1>10. CASE ExitDeadline
  <2>1. active' = NoSession /\ UNCHANGED <<status, closed>> /\ exitArmed
    BY <1>10 DEF ExitDeadline
  <2>2. closed \/ active = NoSession
    BY <1>1, <2>1 DEF OwnerOK, ShutdownAsked, Running
  <2> QED BY <1>2, <1>5, <2>1, <2>2 DEF StatusMatchesSession
<1> QED BY <1>2, <1>6, <1>7, <1>8, <1>9, <1>10, ActorStatus DEF StatusStep

\* The inductive form of StatusMatchesSession: each handler keeps the session and
\* the status together or changes both, and complete_active finds a reason that
\* makes it publish the end.
THEOREM StatusStaysRight == Spec => []StatusOK
<1>1. Init => StatusOK
  BY DEF Init, ActorInit, StatusOK, StatusMatchesSession, ReasonsOK, Ends, NoSession, NewSession,
         NoSummary
<1>2. ASSUME TypeOK, BooksOK, BooksOK', OwnerOK, StatusOK, [Next]_vars
      PROVE  StatusOK'
  <2>1. SessionOK /\ SessionOK'
    BY <1>2 DEF BooksOK
  <2>2. CASE ActorStep \/ \E m \in Messages : ReceiveMessage(m)
    BY <1>2, <2>1, <2>2, StatusKept
  <2>3. CASE ClientStep
    <3>1. UNCHANGED <<alive, status, active, closed>>
      BY <2>3, ClientRests DEF ActorRests, stopVars
    <3> QED BY <1>2, <3>1 DEF StatusOK, Running, StatusMatchesSession
  <2>4. CASE Stopped \/ UNCHANGED vars
    <3>1. UNCHANGED <<alive, status, active, closed>>
      BY <2>4 DEF Stopped, vars, stopVars
    <3> QED BY <1>2, <3>1 DEF StatusOK, Running, StatusMatchesSession
  <2> QED BY <1>2, <2>2, <2>3, <2>4 DEF Next
<1> QED BY <1>1, <1>2, TypeCorrect, BooksStayInOrder, OwnerStaysRight, PTL DEF Spec

\* What an application reads from the status is what the session is doing: no
\* interleaving leaves SessionActive behind a session that is over, but the grace
\* period of a closing actor.
THEOREM StatusTellsSession == Spec => []StatusMatchesSession
<1>1. StatusOK => StatusMatchesSession
  BY DEF StatusOK, StatusMatchesSession
<1> QED BY <1>1, StatusStaysRight, PTL

-----------------------------------------------------------------------------
(* MdbClient implements VendLedger: a step of the actor or of a handle is   *)
(* one entry in the ledger of vends or none, for any number of sessions,     *)
(* vends and commands.  Each shape of BookStep is mapped to its entry.       *)

\* The vends that have been requested are those that belong to a session.
HomeOK == \A v \in Vends : home[v] = 0 <=> v > vid

\* Everything the mapping needs to be known of a state.
LedgerOK ==
    /\ TypeOK /\ SessionOK /\ AnswerOK /\ OpenVendOK /\ OutcomeConsistent
    /\ OwnerOK /\ HomeOK

LEMMA HomeStep ==
    ASSUME TypeOK, SessionOK, HomeOK, BookStep
    PROVE  HomeOK'
<1>1. CASE UNCHANGED <<vid, home>>
  BY <1>1 DEF HomeOK
<1>2. CASE Requests
  <2>1. /\ vid' = vid + 1 /\ home' = [home EXCEPT ![vid + 1] = active.id]
        /\ active.id >= 1 /\ vid \in Nat /\ home \in [Vends -> 0..MaxSessions]
    BY <1>2, NoSessionFacts, BoundsAssumption DEF Requests, SessionOK, TypeOK, ActorTypeOK
  <2>2. ASSUME NEW v \in Vends
        PROVE  home'[v] = 0 <=> v > vid + 1
    <3>1. v \in Nat
      BY BoundsAssumption DEF Vends
    <3>2. CASE v = vid + 1
      BY <2>1, <3>2
    <3>3. CASE v # vid + 1
      <4>1. home'[v] = home[v] /\ (home[v] = 0 <=> v > vid)
        BY <2>1, <3>3 DEF HomeOK
      <4> QED BY <2>1, <3>1, <3>3, <4>1
    <3> QED BY <3>2, <3>3
  <2> QED BY <2>1, <2>2 DEF HomeOK
<1> QED BY <1>1, <1>2 DEF BookStep, Rests, Answers, Reports

-----------------------------------------------------------------------------
(* What the ledger says in each case. *)

\* The vend the session is busy with, offered or approved.
Busy(v) == Ready /\ (Pending \/ Open(active)) /\ active.vend.id = v

EntryKnown ==
    \A v \in Vends :
      /\ home[v] = 0 => Entry(v) = "none"
      /\ outcome[v] # <<>> => Entry(v) = outcome[v][1].kind
      /\ Ready /\ Pending /\ active.vend.id = v => Entry(v) = "offered"
      /\ Ready /\ Open(active) /\ active.vend.id = v => Entry(v) = "approved"
      /\ home[v] # 0 /\ outcome[v] = <<>> /\ ~Busy(v) =>
           Entry(v) = IF Approved(v) THEN "lost" ELSE "declined"

LEMMA EntryFacts == LedgerOK => EntryKnown
<1> SUFFICES ASSUME LedgerOK, NEW v \in Vends
             PROVE  /\ home[v] = 0 => Entry(v) = "none"
                    /\ outcome[v] # <<>> => Entry(v) = outcome[v][1].kind
                    /\ Ready /\ Pending /\ active.vend.id = v => Entry(v) = "offered"
                    /\ Ready /\ Open(active) /\ active.vend.id = v => Entry(v) = "approved"
                    /\ home[v] # 0 /\ outcome[v] = <<>> /\ ~Busy(v) =>
                         Entry(v) = IF Approved(v) THEN "lost" ELSE "declined"
  BY DEF EntryKnown
<1>1. /\ TypeOK /\ SessionOK /\ AnswerOK /\ OpenVendOK /\ OutcomeConsistent /\ HomeOK
      /\ v \in Nat /\ v # 0
  BY BoundsAssumption DEF LedgerOK, Vends
<1>2. home[v] = 0 => answer[v] = <<>> /\ outcome[v] = <<>>
  BY <1>1, VendFacts DEF HomeOK, AnswerOK
<1>3. Pending /\ active.vend.id = v => home[v] # 0 /\ outcome[v] = <<>> /\ ~Open(active)
  <2>1. Pending /\ active.vend.id = v => active.vend.id <= vid /\ vid \in Nat
    BY <1>1, VendFacts DEF AnswerOK
  <2>2. Pending => ~Open(active)
    BY DEF Pending, Open
  <2> QED BY <1>1, <2>1, <2>2, VendFacts DEF HomeOK
<1>4. Open(active) /\ active.vend.id = v => home[v] # 0 /\ outcome[v] = <<>> /\ ~Pending
  <2>1. Open(active) => ~Pending
    BY DEF Pending, Open
  <2> QED BY <1>1, <1>2, <2>1 DEF OpenVendOK
<1>5. ApprovedVend(active).id = v <=> Open(active) /\ active.vend.id = v
  <2>1. /\ Open(active) <=> ApprovedVend(active) # NoVend
        /\ Open(active) => ApprovedVend(active) = active.vend
    BY <1>1, BaseFacts DEF Base
  <2> QED BY <1>1, <2>1 DEF NoVend
<1> DEFINE offered == Ready /\ Pending /\ active.vend.id = v
           approved == Ready /\ ApprovedVend(active).id = v
           left == IF Approved(v) THEN "lost" ELSE "declined"
<1>6. Entry(v) = CASE home[v] = 0 -> "none"
                   [] outcome[v] # <<>> -> outcome[v][1].kind
                   [] outcome[v] = <<>> /\ offered -> "offered"
                   [] outcome[v] = <<>> /\ approved -> "approved"
                   [] OTHER -> left
  BY DEF Entry
<1>7. /\ approved <=> Ready /\ Open(active) /\ active.vend.id = v
      /\ Busy(v) <=> offered \/ approved
  BY <1>5 DEF Busy
<1> HIDE DEF offered, approved, left
<1>8. /\ offered => home[v] # 0 /\ outcome[v] = <<>> /\ ~approved
      /\ approved => home[v] # 0 /\ outcome[v] = <<>> /\ ~offered
  BY <1>3, <1>4, <1>7 DEF offered
<1>9. /\ home[v] = 0 => Entry(v) = "none"
      /\ outcome[v] # <<>> => Entry(v) = outcome[v][1].kind
      /\ offered => Entry(v) = "offered"
      /\ approved => Entry(v) = "approved"
      /\ home[v] # 0 /\ outcome[v] = <<>> /\ ~offered /\ ~approved => Entry(v) = left
  BY <1>2, <1>6, <1>8
<1> QED BY <1>7, <1>9 DEF offered, left

-----------------------------------------------------------------------------
(* How a step changes it. *)

\* A vend that is neither answered nor reported nor open keeps its entry.
LEMMA EntryStays ==
    ASSUME EntryKnown, EntryKnown', NEW u \in Vends, ~Busy(u), ~Busy(u)',
           home'[u] = home[u], outcome'[u] = outcome[u], answer'[u] = answer[u]
    PROVE  Entry(u)' = Entry(u)
<1>1. Approved(u)' <=> Approved(u)
  BY DEF Approved
<1>2. CASE home[u] = 0
  BY <1>2 DEF EntryKnown
<1>3. CASE outcome[u] # <<>>
  BY <1>3 DEF EntryKnown
<1>4. CASE home[u] # 0 /\ outcome[u] = <<>>
  <2>1. Entry(u) = IF Approved(u) THEN "lost" ELSE "declined"
    BY <1>4 DEF EntryKnown
  <2>2. (Entry(u) = IF Approved(u) THEN "lost" ELSE "declined")'
    BY <1>4 DEF EntryKnown
  <2> QED BY <1>1, <2>1, <2>2
<1> QED BY <1>2, <1>3, <1>4

\* One entry changes.
LEMMA Recorded ==
    ASSUME NEW p \in Vends, \A u \in Vends : u # p => Entry(u)' = Entry(u),
           NEW from, Entry(p) = from, NEW to, Entry(p)' = to
    PROVE  Ledger!Record(p, from, to)
<1>1. [v \in Vends |-> Entry(v)'] = [[v \in Vends |-> Entry(v)] EXCEPT ![p] = to]
  OBVIOUS
<1> QED BY <1>1 DEF Ledger!Record

\* A session that goes without a trace takes the actor with it.
LEMMA VanishStops ==
    ASSUME LedgerOK, Ready, Vanishes, active # NoSession
    PROVE  ~Ready'
<1>1. CASE alive' # "running"
  BY <1>1 DEF Ready
<1>2. CASE ExitDeadline
  <2>1. closed \/ stopWaiter
    BY <1>2 DEF ExitDeadline, LedgerOK, OwnerOK, Ready, Running
  <2>2. ~stopWaiter
    BY DEF LedgerOK, OwnerOK, ShutdownAsked, Ready, Running
  <2>3. closed' /\ active' = NoSession
    BY <1>2, <2>1, <2>2 DEF ExitDeadline
  <2> QED BY <2>3 DEF Ready, shouldExit
<1> QED BY <1>1, <1>2 DEF Vanishes

\* The shapes of a step, with all that is known before and after it.
Known == LedgerOK /\ LedgerOK' /\ EntryKnown /\ EntryKnown'

LEMMA RequestsLedger ==
    ASSUME Known, Ready, Requests
    PROVE  \E v \in Vends : Ledger!Offer(v)
<1>0. PICK p \in Vends : p = vid + 1
  BY VendFacts DEF Known, LedgerOK, Requests
<1>1. /\ vid \in Nat /\ answer[p] = <<>> /\ outcome[p] = <<>> /\ home[p] = 0
      /\ home' = [home EXCEPT ![p] = active.id] /\ active.id # 0 /\ UNCHANGED outcome
  BY <1>0, VendFacts, NoSessionFacts DEF Known, LedgerOK, HomeOK, Requests, SessionOK
<1>2. ~Pending /\ ~Open(active) /\ ~Open(active') /\ (Pending' => active'.vend.id = p)
  BY <1>0 DEF Requests, Pending, Open
<1>3. /\ home'[p] # 0 /\ outcome'[p] = <<>>
      /\ \A u \in Vends : u # p => home'[u] = home[u]
  BY <1>1 DEF Known, LedgerOK, TypeOK, ActorTypeOK
<1>4. ~Approved(p)' /\ \A u \in Vends : u # p => answer'[u] = answer[u]
  <2>1. CASE UNCHANGED answer
    BY <1>1, <2>1 DEF Approved
  <2>2. CASE Logged(VendFrame("Deny", p, 0))
    <3> DEFINE frame == VendFrame("Deny", p, 0)
    <3>1. frame.vend = p /\ frame.name = "Deny"
      BY DEF VendFrame
    <3> HIDE DEF frame
    <3>2. answer' = [answer EXCEPT ![p] = <<frame>>]
      BY <1>1, <2>2, <3>1, FirstAnswer DEF frame, Known, LedgerOK
    <3>3. answer'[p] = <<frame>> /\ \A u \in Vends : u # p => answer'[u] = answer[u]
      BY <1>1, <3>2 DEF Known, LedgerOK, TypeOK, ActorTypeOK
    <3> QED BY <3>1, <3>3 DEF Approved
  <2> QED BY <1>0, <2>1, <2>2 DEF Requests
<1>5. \A u \in Vends : ~Busy(u) /\ (u # p => ~Busy(u)')
  BY <1>2 DEF Busy
<1>6. \A u \in Vends : u # p => Entry(u)' = Entry(u)
  BY <1>1, <1>3, <1>4, <1>5, EntryStays DEF Known
<1>7. Entry(p) = "none" /\ Entry(p)' \in {"offered", "declined"}
  <2>1. CASE Busy(p)'
    BY <1>1, <1>2, <2>1 DEF Busy, Known, EntryKnown
  <2>2. CASE ~Busy(p)'
    BY <1>1, <1>3, <1>4, <2>2 DEF Known, EntryKnown
  <2> QED BY <2>1, <2>2
<1>8. \A u \in Vends : Entry(u) \notin Ledger!Open
  <2> SUFFICES ASSUME NEW u \in Vends PROVE Entry(u) \notin {"offered", "approved"}
    BY DEF Ledger!Open
  <2>1. outcome[u] # <<>> => outcome[u][1].kind \in EventKinds
    <3>1. outcome[u] \in Seq(Events)
      BY DEF Known, LedgerOK, TypeOK, ActorTypeOK
    <3>2. outcome[u] # <<>> => outcome[u][1] \in Events
      BY <3>1, EmptySeq, ElementOfSeq, LenProperties
    <3> QED BY <3>2 DEF Events
  <2>2. \A kind \in EventKinds : kind \notin {"offered", "approved"}
    BY DEF EventKinds, Outcomes
  <2> QED BY <1>5, <2>1, <2>2 DEF Known, EntryKnown
<1>9. Ledger!Record(p, "none", "offered") \/ Ledger!Record(p, "none", "declined")
  BY <1>1, <1>6, <1>7, Recorded
<1> QED BY <1>1, <1>8, <1>9 DEF Ledger!Offer, Ledger!Vends, Vends

\* The session's own vend, before and after a step that keeps home.
LEMMA OwnVend ==
    ASSUME LedgerOK, Pending \/ Open(active)
    PROVE  /\ active.vend.id \in Vends /\ active # NoSession
           /\ outcome[active.vend.id] = <<>> /\ home[active.vend.id] # 0
           /\ Pending => answer[active.vend.id] = <<>>
           /\ Open(active) => Approved(active.vend.id)
<1> DEFINE p == active.vend.id
<1>1. p \in Vends /\ outcome[p] = <<>> /\ (Pending => answer[p] = <<>>)
  BY VendFacts DEF LedgerOK, OpenVendOK
<1>2. active # NoSession
  BY NoSessionFacts DEF Pending
<1>3. Open(active) => Approved(p)
  <2>1. answer[p] \in Seq(Frames)
    BY <1>1 DEF LedgerOK, TypeOK, ActorTypeOK
  <2>2. answer[p] # <<>> => 1 \in DOMAIN answer[p]
    BY <2>1, EmptySeq, LenProperties
  <2> QED BY <2>2 DEF LedgerOK, OpenVendOK, Approved
<1>4. home[p] # 0
  <2>1. p <= vid /\ vid \in Nat /\ p \in Nat
    <3>1. answer[p] # <<>> \/ Pending
      BY DEF LedgerOK, OpenVendOK
    <3>2. p \in Nat /\ vid \in Nat
      BY <1>1, VendFacts, BoundsAssumption DEF Vends, LedgerOK
    <3> QED BY <1>1, <3>1, <3>2 DEF LedgerOK, AnswerOK
  <2> QED BY <1>1, <2>1 DEF LedgerOK, HomeOK
<1> QED BY <1>1, <1>2, <1>3, <1>4

LEMMA AnswersLedger ==
    ASSUME Known, Ready, NEW frame \in Frames, Answers(frame)
    PROVE  \E v \in Vends : Ledger!Approve(v) \/ Ledger!Decline(v) \/ Ledger!Lose(v)
<1>0. PICK p \in Vends : p = active.vend.id
  BY OwnVend DEF Known, Answers
<1>1. /\ Pending /\ frame.vend = p /\ answer[p] = <<>> /\ outcome[p] = <<>> /\ home[p] # 0
      /\ UNCHANGED <<outcome, home>> /\ ~Pending' /\ active # NoSession
  BY <1>0, OwnVend DEF Known, Answers
<1>2. answer' = [answer EXCEPT ![p] = <<frame>>]
  BY <1>1, FirstAnswer DEF Known, LedgerOK, Answers
<1>3. answer'[p] = <<frame>> /\ \A u \in Vends : u # p => answer'[u] = answer[u]
  BY <1>2 DEF Known, LedgerOK, TypeOK, ActorTypeOK
<1>4. Approved(p)' <=> frame.name = "Approve"
  BY <1>3 DEF Approved
<1>5. Open(active') => active'.vend.id = p /\ frame.name = "Approve"
  BY <1>1, NoSessionFacts DEF Answers, Vanishes
<1>6. \A u \in Vends : u # p => ~Busy(u) /\ ~Busy(u)'
  <2>1. ASSUME NEW u \in Vends, u # p
        PROVE  ~Busy(u) /\ ~(Ready' /\ Open(active') /\ active'.vend.id = u)
    BY <1>0, <1>5, <2>1 DEF Busy
  <2> QED BY <1>1, <2>1 DEF Busy, Open
<1>7. \A u \in Vends : u # p => Entry(u)' = Entry(u)
  BY <1>1, <1>3, <1>6, EntryStays DEF Known
<1>8. Entry(p) = "offered"
  BY <1>0, <1>1 DEF Known, EntryKnown
<1>9. CASE frame.name # "Approve"
  <2>1. ~Busy(p)'
    BY <1>1, <1>5, <1>9 DEF Busy, Open
  <2>2. Entry(p)' = "declined"
    BY <1>1, <1>4, <1>9, <2>1 DEF Known, EntryKnown
  <2> QED BY <1>7, <1>8, <2>2, Recorded DEF Ledger!Decline
<1>10. CASE frame.name = "Approve" /\ Ready'
  <2>1. ~Vanishes
    BY <1>1, <1>10, VanishStops DEF Known
  <2>2. Open(active') /\ active'.vend.id = p
    BY <1>5, <1>10, <2>1 DEF Answers
  <2>3. Entry(p)' = "approved"
    BY <1>10, <2>2 DEF Known, EntryKnown, Open
  <2> QED BY <1>7, <1>8, <2>3, Recorded DEF Ledger!Approve
<1>11. CASE frame.name = "Approve" /\ ~Ready'
  <2>1. ~Busy(p)'
    BY <1>11 DEF Busy
  <2>2. Entry(p)' = "lost"
    BY <1>1, <1>4, <1>11, <2>1 DEF Known, EntryKnown
  <2> QED BY <1>7, <1>8, <1>11, <2>2, Recorded DEF Ledger!Lose
<1> QED BY <1>9, <1>10, <1>11

LEMMA ReportsLedger ==
    ASSUME Known, Ready, NEW e \in Events, Reports(e)
    PROVE  \E v \in Vends : Ledger!Settle(v)
<1>0. PICK p \in Vends : p = active.vend.id
  BY OwnVend DEF Known, Reports
<1>1. /\ Open(active) /\ e.vend = p /\ outcome[p] = <<>> /\ e.kind \in Outcomes
      /\ outcome' = [outcome EXCEPT ![p] = Append(@, e)]
      /\ UNCHANGED <<answer, home>> /\ ~Pending' /\ ~Open(active')
  BY <1>0, OwnVend DEF Known, Reports
<1>2. Append(outcome[p], e) = <<e>> /\ <<e>> # <<>> /\ <<e>>[1] = e
  BY <1>1
<1>3. outcome'[p] = <<e>> /\ \A u \in Vends : u # p => outcome'[u] = outcome[u]
  BY <1>1, <1>2 DEF Known, LedgerOK, TypeOK, ActorTypeOK
<1>4. \A u \in Vends : u # p => ~Busy(u) /\ ~Busy(u)'
  BY <1>0, <1>1 DEF Busy, Open
<1>5. \A u \in Vends : u # p => Entry(u)' = Entry(u)
  BY <1>1, <1>3, <1>4, EntryStays DEF Known
<1>6. Entry(p) = "approved"
  BY <1>0, <1>1 DEF Known, EntryKnown
<1>7. Entry(p)' = e.kind
  BY <1>2, <1>3 DEF Known, EntryKnown
<1>8. Ledger!Record(p, "approved", e.kind)
  BY <1>5, <1>6, <1>7, Recorded
<1> QED BY <1>1, <1>8 DEF Ledger!Settle, Outcomes

LEMMA RestsLedger ==
    ASSUME Known, Ready, Rests
    PROVE  \/ \A v \in Vends : Entry(v)' = Entry(v)
           \/ \E v \in Vends : Ledger!Decline(v) \/ Ledger!Lose(v)
<1>1. /\ UNCHANGED <<answer, outcome, home>>
      /\ Pending' => Pending /\ active'.vend.id = active.vend.id
      /\ Open(active') => Open(active) /\ active'.vend = active.vend
  BY DEF Rests
<1>2. ASSUME NEW u \in Vends, ~Busy(u)
      PROVE  Entry(u)' = Entry(u)
  <2>1. ~Busy(u)'
    BY <1>1, <1>2 DEF Busy, Open
  <2> QED BY <1>1, <1>2, <2>1, EntryStays DEF Known
<1>3. ASSUME NEW p \in Vends, Busy(p)
      PROVE  \/ \A v \in Vends : Entry(v)' = Entry(v)
             \/ Ledger!Decline(p) \/ Ledger!Lose(p)
  <2>1. /\ p = active.vend.id /\ outcome[p] = <<>> /\ home[p] # 0 /\ active # NoSession
        /\ Pending => ~Approved(p)
        /\ Open(active) => Approved(p)
    BY <1>3, OwnVend DEF Busy, Known, Approved
  <2>2. \A u \in Vends : u # p => Entry(u)' = Entry(u)
    BY <1>2, <2>1 DEF Busy
  <2>3. Approved(p)' <=> Approved(p)
    BY <1>1 DEF Approved
  <2>4. CASE Pending
    <3>1. Entry(p) = "offered" /\ ~Open(active)
      BY <1>3, <2>1, <2>4 DEF Busy, Known, EntryKnown, Pending, Open
    <3>2. Entry(p)' \in {"offered", "declined"}
      <4>1. CASE Busy(p)'
        BY <1>1, <3>1, <4>1 DEF Busy, Known, EntryKnown, Open
      <4>2. CASE ~Busy(p)'
        BY <1>1, <2>1, <2>3, <2>4, <4>2 DEF Known, EntryKnown
      <4> QED BY <4>1, <4>2
    <3> QED BY <2>2, <3>1, <3>2, Recorded DEF Ledger!Decline
  <2>5. CASE Open(active)
    <3>1. Entry(p) = "approved" /\ ~Pending
      BY <1>3, <2>1, <2>5 DEF Busy, Known, EntryKnown, Pending, Open
    <3>2. CASE Busy(p)'
      <4>1. Entry(p)' = "approved"
        BY <1>1, <3>1, <3>2 DEF Busy, Known, EntryKnown, Open
      <4> QED BY <2>2, <3>1, <4>1
    <3>3. CASE ~Busy(p)'
      <4>1. Entry(p)' = "lost"
        BY <1>1, <2>1, <2>3, <2>5, <3>3 DEF Known, EntryKnown
      <4>2. ~Ready'
        <5>1. CASE Open(active')
          BY <1>1, <2>1, <3>3, <5>1 DEF Busy, Open
        <5>2. CASE ~Open(active')
          <6>1. Vanishes
            BY <2>1, <2>5, <5>2 DEF Rests, Begins
          <6> QED BY <2>1, <6>1, VanishStops DEF Known
        <5> QED BY <5>1, <5>2
      <4> QED BY <2>2, <3>1, <4>1, <4>2, Recorded DEF Ledger!Lose
    <3> QED BY <3>2, <3>3
  <2> QED BY <1>3, <2>4, <2>5 DEF Busy
<1> QED BY <1>2, <1>3

-----------------------------------------------------------------------------
(* The theorem. *)

\* The application, and an actor that is stopping, leave the ledger alone.
LEMMA QuietLedger ==
    ASSUME Known, [Next]_vars, ~Ready \/ ClientStep \/ Stopped \/ UNCHANGED vars
    PROVE  UNCHANGED Ready /\ \A v \in Vends : Entry(v)' = Entry(v)
<1>1. \/ UNCHANGED <<alive, active, closed, stopWaiter>>
      \/ ~Ready /\ ~Ready' /\ UNCHANGED active
  <2>1. CASE ClientStep
    BY <2>1, ClientRests DEF ActorRests, stopVars
  <2>2. CASE Stopped \/ UNCHANGED vars
    BY <2>2 DEF Stopped, vars, stopVars
  <2>3. CASE ~Ready /\ (ActorStep \/ \E m \in Messages : ReceiveMessage(m))
    <3>1. Exit
      BY <2>3 DEF ActorStep, ReceiveMessage, ReceiveCommand, CommandChannelClosed,
                  VendDeadline, ExitDeadline, LinkClosed
    <3> QED BY <2>3, <3>1 DEF Exit, Ready
  <2> QED BY <2>1, <2>2, <2>3 DEF Next
<1>2. UNCHANGED <<home, answer, outcome>>
  <2>1. CASE ClientStep
    BY <2>1, ClientRests DEF ActorRests
  <2>2. CASE Stopped \/ UNCHANGED vars
    BY <2>2 DEF Stopped, vars, vendVars
  <2>3. CASE ~Ready /\ (ActorStep \/ \E m \in Messages : ReceiveMessage(m))
    <3>1. Exit
      BY <2>3 DEF ActorStep, ReceiveMessage, ReceiveCommand, CommandChannelClosed,
                  VendDeadline, ExitDeadline, LinkClosed
    <3> QED BY <3>1, EmitNothing DEF Exit, Quiet, vendVars
  <2> QED BY <2>1, <2>2, <2>3 DEF Next
<1>3. Ready' <=> Ready
  BY <1>1 DEF Ready, shouldExit
<1>4. ASSUME NEW v \in Vends
      PROVE  Entry(v)' = Entry(v)
  <2>1. CASE ~Ready
    <3>1. ~Busy(v) /\ ~Busy(v)'
      BY <1>3, <2>1 DEF Busy
    <3> QED BY <1>2, <3>1, EntryStays DEF Known
  <2>2. CASE Ready
    <3>1. UNCHANGED active
      BY <1>1
    <3>2. /\ Busy(v)' <=> Busy(v)
          /\ Pending' <=> Pending
          /\ Open(active') <=> Open(active)
      BY <1>3, <3>1 DEF Busy, Pending, Open
    <3>3. CASE ~Busy(v)
      BY <1>2, <3>2, <3>3, EntryStays DEF Known
    <3>4. CASE Busy(v)
      BY <1>3, <3>1, <3>2, <3>4 DEF Known, EntryKnown, Busy, Open
    <3> QED BY <3>3, <3>4
  <2> QED BY <2>1, <2>2
<1> QED BY <1>3, <1>4

LEMMA StepLedger ==
    ASSUME Known, BookStep, [Next]_vars
    PROVE  [Ledger!Next]_(Ledger!vars)
<1>1. (\A v \in Vends : Entry(v)' = Entry(v)) => UNCHANGED [v \in Vends |-> Entry(v)]
  OBVIOUS
<1>2. CASE ~Ready \/ ClientStep \/ Stopped \/ UNCHANGED vars
  BY <1>1, <1>2, QuietLedger DEF Ledger!vars
<1>3. CASE Ready
  <2>1. \/ \A v \in Vends : Entry(v)' = Entry(v)
        \/ \E v \in Vends : \/ Ledger!Offer(v) \/ Ledger!Approve(v) \/ Ledger!Decline(v)
                            \/ Ledger!Settle(v) \/ Ledger!Lose(v)
    BY <1>3, RestsLedger, AnswersLedger, ReportsLedger, RequestsLedger DEF BookStep
  <2>2. Ready' \in BOOLEAN
    BY DEF Ready
  <2> QED BY <1>1, <1>3, <2>1, <2>2 DEF Ledger!Next, Ledger!Vends, Vends
<1> QED BY <1>2, <1>3

LEMMA InitHome == Init => HomeOK
BY BoundsAssumption DEF Init, ActorInit, HomeOK, Vends

LEMMA InitLedger == Init /\ EntryKnown => Ledger!Init
<1> SUFFICES ASSUME Init, EntryKnown PROVE Ledger!Init
  OBVIOUS
<1>1. /\ home = [v \in Vends |-> 0]
      /\ alive = "running" /\ closed = FALSE /\ stopWaiter = FALSE
  BY DEF Init, ActorInit
<1>2. \A v \in Vends : Entry(v) = "none"
  BY <1>1 DEF EntryKnown
<1>3. Ready = TRUE
  BY <1>1 DEF Ready, shouldExit
<1> QED BY <1>2, <1>3 DEF Ledger!Init, Ledger!Vends, Vends

\* The actor and its handles implement the vend ledger: every step of a handler,
\* an arm of run() or the application offers, approves, declines or settles one
\* vend, or none, and only an actor that stops leaves an approved vend without
\* an outcome.
THEOREM LedgerIsKept == Spec => KeepsLedger
<1>1. Spec => []LedgerOK
  <2>1. ASSUME TypeOK, SessionSafe, BooksOK, HomeOK, [Next]_vars
        PROVE  HomeOK'
    <3>1. SessionOK /\ BegunInOrder /\ OpenVendOK
      BY <2>1 DEF BooksOK
    <3>2. BookStep
      BY <2>1, <3>1, StepBooks DEF Base
    <3> QED BY <2>1, <3>1, <3>2, HomeStep
  <2>2. TypeOK /\ SessionSafe /\ BooksOK /\ OwnerOK /\ HomeOK => LedgerOK
    BY DEF SessionSafe, BooksOK, LedgerOK
  <2> QED BY InitHome, TypeCorrect, SessionStaysSafe, BooksStayInOrder, OwnerStaysRight,
             <2>1, <2>2, PTL DEF Spec
<1>2. ASSUME BooksOK, LedgerOK, LedgerOK', EntryKnown, EntryKnown', [Next]_vars
      PROVE  [Ledger!Next]_(Ledger!vars)
  <2>1. BookStep
    BY <1>2, StepBooks DEF BooksOK, LedgerOK, Base
  <2> QED BY <1>2, <2>1, StepLedger DEF Known
<1> QED BY <1>1, <1>2, InitLedger, EntryFacts, BooksStayInOrder, PTL
        DEF Spec, KeepsLedger, Ledger!Spec
=============================================================================
