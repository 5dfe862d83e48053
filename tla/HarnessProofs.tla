---------------------------- MODULE HarnessProofs ----------------------------
(***************************************************************************)
(* Theorems about FlowHarness, for every number of sessions, vends, key    *)
(* presses and resets: no key of an earlier round pays for a vend, and     *)
(* what a round reports of its vend is what became of the product.         *)
(***************************************************************************)
EXTENDS FlowHarness, SystemProofs

-----------------------------------------------------------------------------
(* What becomes of vends. *)

\* Approved, or the approval is on its way to the actor.
AskedFor(q, v) == \E i \in DOMAIN q : q[i].op = "Approve" /\ q[i].id = v
Bought == {v \in Vends : Approved(v) \/ (Running /\ AskedFor(mailbox, v))}
Declined == {v \in Vends : answer[v] # <<>> /\ ~Approved(v)}

\* Vends the actor has reported as dispensed, and as failed.
OutcomeOf(kind) == {v \in Vends : outcome[v] # <<>> /\ outcome[v][1].kind = kind}
Sold == OutcomeOf("VendSucceeded")
Unsold == OutcomeOf("VendFailed")

-----------------------------------------------------------------------------
(* The invariant. *)

Choosing == {"showing", "paying", "reading", "decided"}
Deciders == {"deciding", "watching"}
Closing == {"leaving", "closing", "dropping", "round", "stopping", "over"}

\* The vend on the screen is held at the price it was offered for.
ScreenOK ==
    /\ \A i \in DOMAIN events : Offers(events[i]) => events[i].amount \in Amounts
    /\ pc \in Choosing => vend.price \in Amounts /\ hand[vend.id] = "held"
    /\ pc \in Choosing \union Deciders => vend.id \in Vends

\* Whatever is paid for was paid while it was on the screen, and its handle is
\* gone; a y waiting in the buffer is one for the vend on the screen.
PaidOK ==
    /\ Bought \subseteq pressed
    /\ \A v \in Bought : hand[v] \in {"deciding", "gone"}
    /\ pc \in {"paying", "reading"} /\ (\E i \in DOMAIN keys : keys[i] = "y") => vend.id \in pressed
    /\ pc = "decided" /\ payment = "Paid" => vend.id \in pressed

\* A vend that is not paid for is declined.
UnpaidOK ==
    /\ pc = "deciding" /\ payment # "Paid" => vend.id \notin Bought
    /\ pc = "watching" /\ payment # "Paid" => vend.id \in Declined

\* A session has no other vend paid for than the one of its round.
RoundOK ==
    \A v \in Bought : home[v] = sid =>
      (v = vend.id /\ pc \in Deciders) \/ pc \in Closing

\* The outcomes queued for the session are of its own vends, and true.
NewsOK ==
    \A i \in DOMAIN events : events[i].kind \in Outcomes =>
      /\ events[i].vend \in Vends /\ home[events[i].vend] = sid
      /\ events[i].kind = "VendSucceeded" => events[i].vend \in Sold
      /\ events[i].kind = "VendFailed" => events[i].vend \in Unsold

\* What was seen of the vend, and what was reported of any.
SeenOK ==
    pc = "watching" =>
      /\ seen.success => vend.id \in Sold
      /\ seen.failure => vend.id \in Unsold
ReportedOK ==
    \A v \in Vends :
      /\ report[v] = "vended" => v \in Sold
      /\ report[v] = "did not vend" => v \in Unsold
      /\ report[v] = "no vend" => v \in Declined

\* Success is confirmed or assumed.
WhyOK == \A v \in Sold : outcome[v][1].why \in {"Confirmed", "AssumedAfterReset"}

FlowOK ==
    ScreenOK /\ PaidOK /\ UnpaidOK /\ RoundOK /\ NewsOK /\ SeenOK /\ ReportedOK /\ WhyOK

\* What is known of the system under the flow test: reports agree with the
\* product as long as customers are patient.
SystemOK ==
    /\ SystemTypeOK /\ LineOK /\ SessionSafe /\ BooksOK /\ DecisionOK
    /\ Patient => WiresOK

\* The variables of the flow test alone keep their types.
FlowTypeOK ==
    /\ pc \in Places /\ interrupted \in BOOLEAN
    /\ keys \in Seq({"y", "n"})
    /\ vend \in [id : 0..MaxVends, price : Cash]
    /\ payment \in Results
    /\ seen \in [success : BOOLEAN, failure : BOOLEAN]
    /\ report \in [Vends -> Said]
    /\ pressed \subseteq Vends

-----------------------------------------------------------------------------
(* What a step of the surroundings does to the vends. *)

\* Nothing the flow test knows of a vend is undone.
Surrounds ==
    /\ sid' = sid
    /\ \A v \in Vends : \/ hand'[v] = hand[v] /\ home'[v] = home[v]
                        \/ hand[v] = "none" /\ answer[v] = <<>>
    /\ Bought' \subseteq Bought /\ Declined \subseteq Declined'
    /\ Sold \subseteq Sold' /\ Unsold \subseteq Unsold'
    /\ \A i \in DOMAIN events' :
         \/ i \in DOMAIN events /\ events'[i] = events[i]
         \/ Offers(events'[i]) /\ events'[i].amount \in Amounts
         \/ /\ ~Offers(events'[i])
            /\ events'[i].kind \in Outcomes =>
                 /\ events'[i].vend \in Vends /\ home[events'[i].vend] = sid
                 /\ events'[i].vend \in Bought
                 /\ events'[i].kind = "VendSucceeded" => events'[i].vend \in Sold'
                 /\ events'[i].kind = "VendFailed" => events'[i].vend \in Unsold'
    /\ WhyOK => WhyOK'

\* Vends with an outcome were approved, and the answers and outcomes stand.
LEMMA OutcomesBought ==
    ASSUME SystemOK
    PROVE  /\ Sold \subseteq Bought /\ Unsold \subseteq Bought
           /\ \A v \in Sold \union Unsold : answer[v] # <<>> /\ HasApproval(answer[v])
<1>1. ASSUME NEW v \in Vends, outcome[v] # <<>>
      PROVE  answer[v] # <<>> /\ HasApproval(answer[v]) /\ v \in Bought
  <2>1. answer[v] # <<>> /\ answer[v][1].name = "Approve"
    BY <1>1 DEF SystemOK, BooksOK, OutcomeConsistent
  <2>2. 1 \in DOMAIN answer[v]
    <3>1. answer[v] \in Seq(Frames)
      BY DEF SystemOK, SystemTypeOK, TypeOK, ActorTypeOK
    <3> QED BY <2>1, <3>1, TalkLess
  <2> QED BY <2>1, <2>2 DEF Bought, Approved, HasApproval, Names
<1> QED BY <1>1 DEF Sold, Unsold, OutcomeOf

LEMMA AnswersStand ==
    ASSUME SystemOK, BookStep
    PROVE  Declined \subseteq Declined'
<1> SUFFICES ASSUME NEW v \in Vends, answer[v] # <<>>, ~Approved(v)
             PROVE  v \in Declined'
  BY DEF Declined
<1>1. answer'[v] = answer[v]
  BY AnswerStands DEF SystemOK, SystemTypeOK, SessionSafe
<1> QED BY <1>1 DEF Declined, Approved

LEMMA OutcomesStand ==
    ASSUME SystemOK, BookStep
    PROVE  Sold \subseteq Sold' /\ Unsold \subseteq Unsold'
<1>1. ASSUME NEW v \in Vends, outcome[v] # <<>>
      PROVE  outcome'[v] = outcome[v]
  <2>1. CASE UNCHANGED outcome
    BY <2>1
  <2>2. ASSUME NEW e \in Events, Reports(e)
        PROVE  outcome'[v] = outcome[v]
    <3>1. e.vend # v
      BY <1>1, <2>2 DEF Reports, SystemOK, BooksOK, OpenVendOK
    <3> QED BY <2>2, <3>1 DEF Reports, SystemOK, SystemTypeOK, TypeOK, ActorTypeOK
  <2> QED BY <2>1, <2>2 DEF BookStep, Rests, Answers, Requests
<1> QED BY <1>1 DEF Sold, Unsold, OutcomeOf
LEMMA FactsOfSystem ==
    ASSUME SystemOK
    PROVE  /\ TypeOK /\ AnswerOK /\ SessionOK /\ OpenVendOK /\ OutcomeConsistent /\ BegunInOrder
           /\ VendOK /\ Base /\ BooksOK /\ DecisionOK
BY DEF SystemOK, SystemTypeOK, SessionSafe, BooksOK, VendOK, Base

\* Nobody but the handle approves a vend: the actor writes the approval it finds
\* in its channel.
LEMMA ActorBuysNothing ==
    ASSUME SystemOK, ActorStep \/ \E m \in Messages : ReceiveMessage(m)
    PROVE  Bought' \subseteq Bought
<1> USE FactsOfSystem
<1>1. Running
  BY ActorRuns DEF Running
<1>2. ASSUME NEW v \in Vends, Approved(v)'
      PROVE  v \in Bought
  <2>1. CASE Unapproving
    BY <1>2, <2>1, StaysUnapproved DEF Bought
  <2>2. ASSUME ReceiveCommand, Decision(Head(mailbox)), ~Unapproving
        PROVE  v \in Bought
    <3> DEFINE c == Head(mailbox)
    <3>1. mailbox # <<>> /\ mailbox \in Seq(Commands)
      BY <2>2 DEF ReceiveCommand, TypeOK, ClientTypeOK
    <3>2. 1 \in DOMAIN mailbox /\ c = mailbox[1]
      BY <3>1, TalkLess
    <3>3. PICK frame : frame.name = "Approve" /\ c.op = "Approve" /\ frame.vend = c.id /\ Logged(frame)
      <4>1. VendFrame("Approve", c.id, c.arg).name = "Approve" /\ VendFrame("Deny", c.id, 0).name = "Deny"
            /\ VendFrame("Approve", c.id, c.arg).vend = c.id
        BY DEF VendFrame
      <4> HIDE DEF c
      <4>2. \/ /\ c.op = "Approve" /\ Logged(VendFrame("Approve", c.id, c.arg))
            \/ Logged(VendFrame("Deny", c.id, 0))
            \/ UNCHANGED answer
            \/ \E frame : frame.name = c.op /\ frame.vend = c.id /\ Logged(frame)
        BY <2>2 DEF Decision, c
      <4> QED BY <2>2, <4>1, <4>2 DEF Unapproving
    <3> HIDE DEF c
    <3>4. CASE c.id = v
      BY <1>1, <3>2, <3>3, <3>4 DEF Bought, AskedFor
    <3>5. CASE c.id # v
      <4>1. answer'[v] = answer[v]
        BY <3>3, <3>5, LoggedFor
      <4> QED BY <1>2, <4>1 DEF Bought, Approved
    <3> QED BY <3>4, <3>5
  <2> QED BY <2>1, <2>2, ActorShapes DEF Steady, Plain, Offered
<1>3. ASSUME NEW v \in Vends, Running', AskedFor(mailbox', v)
      PROVE  v \in Bought
  <2>1. mailbox \in Seq(Commands)
    BY DEF TypeOK, ClientTypeOK
  <2>2. AskedFor(mailbox, v)
    <3>1. CASE UNCHANGED mailbox
      BY <1>3, <3>1
    <3>2. CASE mailbox # <<>> /\ mailbox' = Tail(mailbox)
      <4>1. \A i \in DOMAIN Tail(mailbox) : i + 1 \in DOMAIN mailbox /\ Tail(mailbox)[i] = mailbox[i + 1]
        BY <2>1, <3>2, TalkLess
      <4> QED BY <1>3, <3>2, <4>1 DEF AskedFor
    <3>3. ASSUME NEW c \in Commands, c.op = "AbandonVend", mailbox' = Append(mailbox, c)
          PROVE  AskedFor(mailbox, v)
      <4>1. \A i \in DOMAIN mailbox' : (i \in DOMAIN mailbox /\ mailbox'[i] = mailbox[i]) \/ mailbox'[i] = c
        BY <2>1, <3>3, AppendHas
      <4> QED BY <1>3, <3>3, <4>1 DEF AskedFor
    <3> QED BY <1>3, <3>1, <3>2, <3>3, ActorMailbox DEF Running
  <2> QED BY <1>1, <2>2 DEF Bought
<1> QED BY <1>2, <1>3 DEF Bought
\* A step of the actor.
LEMMA ActorSurrounds ==
    ASSUME SystemOK, BookStep, ActorStep \/ \E m \in Messages : ReceiveMessage(m),
           NEW m, Reacts(m)
    PROVE  Surrounds
<1> USE FactsOfSystem
<1>1. UNCHANGED sid
  BY ActorMail
<1>2. ASSUME NEW v \in Vends
      PROVE  \/ hand'[v] = hand[v] /\ home'[v] = home[v]
             \/ hand[v] = "none" /\ answer[v] = <<>>
  <2>1. CASE UNCHANGED <<vid, home, hand>>
    BY <2>1
  <2>2. CASE handle_vend_request /\ vid' = vid + 1
    <3>1. v > vid => hand[v] = "none" /\ answer[v] = <<>>
      BY DEF DecisionOK, AnswerOK
    <3>2. /\ hand \in [Vends -> HandStates] /\ home \in [Vends -> 0..MaxSessions]
          /\ vid \in Nat
      BY DEF TypeOK, ActorTypeOK, ClientTypeOK
    <3>3. \/ UNCHANGED <<home, hand>>
          \/ /\ home' = [home EXCEPT ![vid + 1] = active.id]
             /\ \E place \in {"queued", "gone"} : hand' = [hand EXCEPT ![vid + 1] = place]
      BY <2>2 DEF handle_vend_request, vendVars
    <3>4. v # vid + 1 => hand'[v] = hand[v] /\ home'[v] = home[v]
      BY <3>2, <3>3
    <3>5. v = vid + 1 => v > vid
      BY <3>2
    <3> QED BY <3>1, <3>4, <3>5
  <2> QED BY <2>1, <2>2, ActorHands
<1>3. ASSUME NEW i \in DOMAIN events', ~(i \in DOMAIN events /\ events'[i] = events[i])
      PROVE  \/ Offers(events'[i]) /\ events'[i].amount \in Amounts
             \/ ~Offers(events'[i]) /\ Concludes(events'[i])
  BY <1>3, ActorShapes DEF Steady, Plain, Offered, Decision, OffersNone, OfferNext
<1>4. ASSUME NEW e, e.kind \in Outcomes, Concludes(e)
      PROVE  /\ e.vend \in Vends /\ home[e.vend] = sid /\ e.vend \in Bought
             /\ e.kind = "VendSucceeded" => e.vend \in Sold'
             /\ e.kind = "VendFailed" => e.vend \in Unsold'
  <2>1. /\ Open(active) /\ active.id = sid /\ e.vend = active.vend.id
        /\ outcome' = [outcome EXCEPT ![e.vend] = Append(@, e)]
    BY <1>4 DEF Concludes, Listening
  <2>2. /\ e.vend \in Vends /\ outcome[e.vend] = <<>> /\ home[e.vend] = sid
        /\ answer[e.vend] # <<>> /\ answer[e.vend][1].name = "Approve"
    BY <2>1 DEF OpenVendOK
  <2>3. answer[e.vend] \in Seq(Frames)
    BY <2>2 DEF TypeOK, ActorTypeOK
  <2>4. e.vend \in Bought
    BY <2>2, <2>3, TalkLess DEF Bought, Approved
  <2>5. outcome'[e.vend] = Append(<<>>, e)
    BY <2>1, <2>2 DEF TypeOK, ActorTypeOK
  <2>6. outcome'[e.vend] # <<>> /\ outcome'[e.vend][1] = e
    BY <2>5
  <2> QED BY <2>2, <2>4, <2>6 DEF Sold, Unsold, OutcomeOf
<1>5. ASSUME WhyOK
      PROVE  WhyOK'
  <2>1. ASSUME NEW v \in Vends, v \in Sold'
        PROVE  outcome'[v][1].why \in {"Confirmed", "AssumedAfterReset"}
    <3>1. outcome'[v] # <<>> /\ outcome'[v][1].kind = "VendSucceeded"
      BY <2>1 DEF Sold, OutcomeOf
    <3>2. CASE outcome'[v] = outcome[v]
      BY <1>5, <3>1, <3>2 DEF WhyOK, Sold, OutcomeOf
    <3> QED BY <3>1, <3>2, OutcomesTold
  <2> QED BY <2>1 DEF WhyOK, Sold, OutcomeOf
<1> QED BY <1>1, <1>2, <1>3, <1>4, <1>5, ActorBuysNothing, AnswersStand, OutcomesStand DEF Surrounds

\* Nothing is answered, reported or requested.
LEMMA OutcomesSame ==
    ASSUME UNCHANGED <<answer, outcome>>
    PROVE  /\ Sold' = Sold /\ Unsold' = Unsold /\ Declined' = Declined
           /\ WhyOK => WhyOK'
BY DEF Sold, Unsold, OutcomeOf, Declined, Approved, WhyOK

\* The machine moves, or nothing does.
LEMMA StillSurrounds ==
    ASSUME UNCHANGED vars
    PROVE  Surrounds
<1>1. /\ sid' = sid /\ hand' = hand /\ home' = home /\ events' = events
      /\ UNCHANGED <<answer, outcome, mailbox, alive>>
  BY DEF vars, clientVars, vendVars
<1>2. Bought' = Bought
  BY <1>1 DEF Bought, Approved, Running
<1> QED BY <1>1, <1>2, OutcomesSame DEF Surrounds

\* The actor ends with the process.
LEMMA QuitSurrounds ==
    ASSUME Quit
    PROVE  Surrounds
<1>1. /\ sid' = sid /\ hand' = hand /\ home' = home /\ events' = events
      /\ UNCHANGED <<answer, outcome>> /\ alive' = "exited"
  BY DEF Quit, clientVars, vendVars
<1>2. Bought' \subseteq Bought
  BY <1>1 DEF Bought, Approved, Running
<1> QED BY <1>1, <1>2, OutcomesSame DEF Surrounds

\* What the flow test does while its own state stays the same keeps the invariant.
LEMMA SurroundsKeeps ==
    ASSUME SystemOK, FlowOK, Surrounds, UNCHANGED harnessVars
    PROVE  FlowOK'
<1>1. /\ UNCHANGED <<pc, keys, vend, payment, seen, report, pressed>>
  BY DEF harnessVars
<1>2. ScreenOK /\ PaidOK /\ UnpaidOK /\ RoundOK /\ NewsOK /\ SeenOK /\ ReportedOK /\ WhyOK
  BY DEF FlowOK
<1>3. \A v \in Bought : v \in Vends /\ hand'[v] = hand[v] /\ home'[v] = home[v]
  BY <1>2 DEF PaidOK, Surrounds, Bought
<1>4. ScreenOK'
  <2>1. \A i \in DOMAIN events' : Offers(events'[i]) => events'[i].amount \in Amounts
    BY <1>2 DEF Surrounds, ScreenOK
  <2>2. pc \in Choosing => hand'[vend.id] = "held"
    BY <1>2 DEF Surrounds, ScreenOK
  <2> QED BY <1>1, <1>2, <2>1, <2>2 DEF ScreenOK
<1>5. PaidOK' /\ UnpaidOK' /\ RoundOK'
  BY <1>1, <1>2, <1>3 DEF PaidOK, UnpaidOK, RoundOK, Surrounds
<1>6. NewsOK'
  <2> SUFFICES ASSUME NEW i \in DOMAIN events', events'[i].kind \in Outcomes
               PROVE  /\ events'[i].vend \in Vends /\ home'[events'[i].vend] = sid'
                      /\ events'[i].kind = "VendSucceeded" => events'[i].vend \in Sold'
                      /\ events'[i].kind = "VendFailed" => events'[i].vend \in Unsold'
    BY DEF NewsOK
  <2>1. \A e : Offers(e) => e.kind \notin Outcomes
    BY DEF Offers, Outcomes
  <2>2. CASE i \in DOMAIN events /\ events'[i] = events[i]
    <3>1. /\ events'[i].vend \in Vends /\ home[events'[i].vend] = sid
          /\ events'[i].kind = "VendSucceeded" => events'[i].vend \in Sold
          /\ events'[i].kind = "VendFailed" => events'[i].vend \in Unsold
      BY <1>2, <2>2 DEF NewsOK
    <3>2. events'[i].vend \in Bought
      BY <2>2, <3>1, OutcomesBought DEF Outcomes
    <3> QED BY <1>3, <3>1, <3>2 DEF Surrounds
  <2>3. CASE ~(i \in DOMAIN events /\ events'[i] = events[i])
    BY <1>3, <2>1, <2>3 DEF Surrounds
  <2> QED BY <2>2, <2>3
<1>7. SeenOK' /\ ReportedOK' /\ WhyOK'
  BY <1>1, <1>2 DEF SeenOK, ReportedOK, Surrounds
<1> QED BY <1>4, <1>5, <1>6, <1>7 DEF FlowOK
-----------------------------------------------------------------------------
(* The steps of run() and run_round() as steps of the application. *)

\* Display requests apart, which mind the backlog.
Undisplayed ==
    app \in {"device", "session"} => app' \notin {"displayingDevice", "displayingSession"}

LEMMA RunIsClient ==
    ASSUME FlowTypeOK, ScreenOK, RunStep
    PROVE  (ClientStep \/ UNCHANGED vars) /\ Undisplayed
<1>0. /\ vend.id \in 0..MaxVends /\ (vend.id # 0 => vend.id \in Vends)
      /\ pc \in Choosing \union Deciders => vend.id \in Vends
      /\ pc \in Choosing => vend.price \in Amounts
  BY BoundsAssumption DEF FlowTypeOK, ScreenOK, Vends
<1>1. CASE StartRound \/ RearmBegins \/ StopRounds
  BY <1>1 DEF StartRound, RearmBegins, Arm, StopRounds, BeginSession, Shutdown, Call, ClientStep,
              Undisplayed
<1>2. CASE ArmReturns \/ StopReturns \/ RefreshReturns \/ RearmFinished \/ CloseReturns
  <2>1. ClientStep
    BY <1>2 DEF ArmReturns, StopReturns, RefreshReturns, RearmFinished, CloseReturns, ClientStep
  <2>2. app \notin {"device", "session"}
    BY <1>2 DEF ArmReturns, StopReturns, RefreshReturns, RearmFinished, CloseReturns,
                BeginReturns, ShutdownReturns, SessionDisplayReturns, FinishReturns
  <2> QED BY <2>1, <2>2 DEF Undisplayed
<1>3. CASE InterruptedBeforeSelection \/ Rearm \/ PaymentInterrupted \/ WatchEnds \/ Leave
  <2>1. Finish
    BY <1>3 DEF InterruptedBeforeSelection, Rearm, PaymentInterrupted, WatchEnds, Leave
  <2> QED BY <2>1 DEF Finish, Call, ClientStep, Undisplayed
<1>4. CASE AwaitSelection \/ PaymentCancelled \/ Watch
  <2>1. NextEvent
    BY <1>4 DEF AwaitSelection, PaymentCancelled, Watch
  <2> QED BY <2>1 DEF NextEvent, ClientStep, Undisplayed
<1>5. CASE Prompt \/ PaymentTimeout \/ NothingHappened \/ ReadKey
  <2>1. UNCHANGED vars
    BY <1>5 DEF Prompt, PaymentTimeout, NothingHappened, ReadKey
  <2>2. UNCHANGED app
    BY <2>1 DEF vars, clientVars
  <2> QED BY <2>1, <2>2 DEF Undisplayed
<1>6. CASE Decide
  <2>1. vend.id \in Vends /\ vend.price \in Amounts /\ app' = app
    BY <1>0, <1>6 DEF Decide, Choosing, decide
  <2>2. Approve(vend.id) \/ Deny(vend.id)
    BY <1>6, <2>1 DEF Decide, Approve, Deny
  <2> QED BY <2>1, <2>2 DEF ClientStep, Undisplayed
<1>7. CASE DecisionReturned
  <2>1. vend.id \in Vends /\ Decided(vend.id)
    BY <1>0, <1>7 DEF DecisionReturned, Deciders
  <2>2. app' = app
    BY <2>1 DEF Decided
  <2> QED BY <2>1, <2>2 DEF ClientStep, Undisplayed
<1>8. ASSUME NEW v \in Vends, DropVend(v)
      PROVE  ClientStep /\ Undisplayed
  BY <1>8 DEF DropVend, ClientStep, Undisplayed
<1>9. CASE DropUnwanted
  BY <1>8, <1>9 DEF DropUnwanted, Unwanted
<1>10. CASE RoundReturns
  <2>1. UNCHANGED vars => UNCHANGED app
    BY DEF vars, clientVars
  <2> QED BY <1>0, <1>8, <1>10, <2>1 DEF RoundReturns, Undisplayed
<1>11. CASE DropEvent \/ DropSession
  BY <1>11 DEF DropEvent, DropSession, ClientStep, Undisplayed
<1>12. CASE Unwind
  BY <1>8, <1>11, <1>12 DEF Unwind
<1> QED BY <1>1, <1>2, <1>3, <1>4, <1>5, <1>6, <1>7, <1>9, <1>10, <1>11, <1>12 DEF RunStep

\* The flow test is an application of the vending system until its process ends.
LEMMA FlowSteps ==
    ASSUME FlowTypeOK, ScreenOK, [FlowNext]_flowVars
    PROVE  [SystemNext]_systemVars \/ (Quit /\ UNCHANGED machineVars)
<1>1. CASE ReaderReceives \/ ReaderActs \/ MachineActs
  BY <1>1 DEF SystemNext
<1>2. CASE RunStep /\ UNCHANGED machineVars
  <2>1. (ClientStep \/ UNCHANGED vars) /\ Undisplayed
    BY <1>2, RunIsClient
  <2>2. CASE ClientStep
    BY <1>2, <2>1, <2>2 DEF SystemNext, ApplicationActs, Undisplayed
  <2> QED BY <1>2, <2>1, <2>2 DEF systemVars
<1>3. CASE RefreshDisplay /\ Len(bus) + Len(line) < MaxBacklog /\ UNCHANGED machineVars
  BY <1>3 DEF RefreshDisplay, SystemNext, ApplicationActs, ClientStep
<1>4. CASE (PressKey \/ CtrlC) /\ UNCHANGED machineVars
  BY <1>4 DEF PressKey, CtrlC, systemVars
<1>5. CASE UNCHANGED flowVars
  BY <1>5 DEF flowVars
<1> QED BY <1>1, <1>2, <1>3, <1>4, <1>5 DEF FlowNext

\* The end of the process leaves the system right.
LEMMA QuitKeeps ==
    ASSUME SystemOK, Quit, UNCHANGED machineVars
    PROVE  SystemOK'
<1> USE FactsOfSystem
<1>1. /\ Running /\ alive' = "exited" /\ mailbox' = <<>> /\ wrote' = NoFrame
      /\ UNCHANGED <<status, active, completed, invalid, stopVars, configVars, events,
                     clientVars, reply, verdict, vendVars, answer, outcome>>
  BY DEF Quit
<1>2. UNCHANGED <<status, active, completed, invalid, closed, exitArmed, stopWaiter, maximumKnown,
                  display, events, app, sid, reply, verdict, vid, home, hand, answer, outcome>>
  BY <1>1 DEF stopVars, configVars, clientVars, vendVars
<1>3. UNCHANGED <<vmc, serving, product, requests, resets, line, bus>>
  BY DEF machineVars
<1>4. TypeOK'
  <2>1. mailbox' \in Seq(Commands) /\ wrote' \in Frames
    BY <1>1, FrameType
  <2> QED BY <1>1, <1>2, <2>1 DEF TypeOK, ActorTypeOK, ClientTypeOK
<1>5. SystemTypeOK' /\ LineOK'
  BY <1>3, <1>4 DEF SystemOK, SystemTypeOK, LineOK
<1>6. SessionSafe'
  BY <1>2 DEF SystemOK, SessionSafe, AnswerOK, NoVendAfterEndRequest, Pending
<1>7. BooksOK'
  <2>1. SessionOK' /\ OpenVendOK' /\ OutcomeConsistent'
    BY <1>2 DEF SessionOK, OpenVendOK, OutcomeConsistent, Pending
  <2>2. BegunInOrder'
    BY <1>1, <1>2 DEF BegunInOrder, Begun
  <2>3. AccountsOK'
    BY <1>2 DEF BooksOK, AccountsOK, ApprovedIn, Approved
  <2> QED BY <2>1, <2>2, <2>3 DEF BooksOK
<1>8. DecisionOK'
  <2>1. DecisionHonest'
    BY <1>1, <1>2 DEF DecisionOK, DecisionHonest, Approved, Running
  <2> QED BY <1>1, <1>2, <2>1 DEF DecisionOK, Running
<1>9. (Patient => WiresOK)'
  BY <1>2, <1>3
     DEF SystemOK, WiresOK, SelectionOK, OfferedOK, AwaitedOK, ApprovalOK, ProductOK,
         ReportsMatchProduct, Agreed, Parted, Pending, Awaited
<1> QED BY <1>5, <1>6, <1>7, <1>8, <1>9 DEF SystemOK

LEMMA SystemStays ==
    ASSUME SystemOK, [SystemNext]_systemVars
    PROVE  SystemOK'
<1> USE FactsOfSystem
<1>1. SystemTypeOK' /\ LineOK' /\ TypeOK'
  BY SystemTypeStep DEF SystemOK, SystemTypeOK
<1>2. [Next]_vars
  BY ClientSteps DEF SystemOK
<1>3. SessionSafe' /\ BooksOK'
  BY <1>2, SafeStep, BooksKept DEF SystemOK
<1>4. DecisionOK'
  BY <1>1, <1>2, DecisionStep DEF SystemOK
<1>5. (Patient => WiresOK)'
  BY <1>1, WiresStep DEF SystemOK
<1> QED BY <1>1, <1>3, <1>4, <1>5 DEF SystemOK
-----------------------------------------------------------------------------
(* What a step of the flow test leaves of the vends. *)

\* No handle comes back, no event is made up.
Handles ==
    /\ UNCHANGED <<home, answer, outcome>>
    /\ \A v \in Vends : hand[v] \in {"deciding", "gone"} => hand'[v] \in {"deciding", "gone"}
    /\ \A i \in DOMAIN events' : \E j \in DOMAIN events : events'[i] = events[j]

LEMMA HandlesOf ==
    ASSUME SystemOK, ClientStep \/ UNCHANGED vars
    PROVE  Handles
<1> USE FactsOfSystem
<1>1. CASE UNCHANGED vars
  <2>1. UNCHANGED <<home, answer, outcome, hand, events>>
    BY <1>1 DEF vars, vendVars
  <2> QED BY <2>1 DEF Handles
<1>2. CASE ClientStep
  <2>1. UNCHANGED <<home, answer, outcome>>
    BY <1>2, ClientRests DEF ActorRests
  <2>2. events \in Seq(Events) /\ hand \in [Vends -> HandStates]
    BY DEF TypeOK, ClientTypeOK
  <2>3. events # <<>> /\ events' = Tail(events)
          => \A i \in DOMAIN events' : \E j \in DOMAIN events : events'[i] = events[j]
    BY <2>2, TalkLess
  <2>4. CASE Leaves
    BY <2>1, <2>3, <2>4 DEF Leaves, Handles
  <2>5. CASE Takes
    <3>1. hand[Head(events).vend] = "queued"
      BY <2>2, <2>5, OffersTail DEF Takes, DecisionOK
    <3> QED BY <2>1, <2>2, <2>3, <2>5, <3>1 DEF Takes, Handles
  <2>6. CASE \E u \in Vends : Lets(u) \/ Asks(u)
    BY <2>1, <2>2, <2>6 DEF Lets, Asks, decide, Handles
  <2> QED BY <1>2, <2>4, <2>5, <2>6, ClientShapes
<1> QED BY <1>1, <1>2

\* A vend is paid for where its handle sends an approval.
LEMMA PostBuys ==
    ASSUME SystemOK, UNCHANGED <<alive, answer>>,
           UNCHANGED mailbox \/ \E c : Post(c) /\ (c.op = "Approve" => c.id = vend.id)
    PROVE  /\ Bought' \subseteq Bought \union {vend.id}
           /\ UNCHANGED mailbox \/ (\E c : Post(c) /\ c.op # "Approve") => Bought' \subseteq Bought
<1> USE FactsOfSystem
<1>1. \A v \in Vends : Approved(v)' <=> Approved(v)
  BY DEF Approved
<1>2. CASE UNCHANGED mailbox
  BY <1>1, <1>2 DEF Bought, Running
<1>3. ASSUME NEW c, Post(c)
      PROVE  \A v \in Bought' : v \in Bought \/ (c.op = "Approve" /\ c.id = v)
  <2>1. CASE ~Running
    BY <1>1, <2>1 DEF Bought, Running
  <2>2. CASE Running
    <3> DEFINE S == Commands \union {c}
    <3>1. mailbox \in Seq(S) /\ c \in S
      BY SeqMonotonic DEF TypeOK, ClientTypeOK
    <3> HIDE DEF S
    <3>2. mailbox' = Append(mailbox, c)
      BY <1>3, <2>2 DEF Post, Running
    <3>3. \A i \in DOMAIN mailbox' : (i \in DOMAIN mailbox /\ mailbox'[i] = mailbox[i]) \/ mailbox'[i] = c
      BY <3>1, <3>2, AppendHas
    <3>4. \A v : AskedFor(mailbox', v) => AskedFor(mailbox, v) \/ (c.op = "Approve" /\ c.id = v)
      BY <3>3 DEF AskedFor
    <3> QED BY <1>1, <2>2, <3>4 DEF Bought, Running
  <2> QED BY <2>1, <2>2
<1> QED BY <1>2, <1>3

\* Only decide_vend approves, and only the vend that was paid for.
LEMMA RunPosts ==
    ASSUME RunStep \/ RefreshDisplay
    PROVE  \/ UNCHANGED mailbox
           \/ \E c : Post(c) /\ c.op # "Approve"
           \/ /\ Decide /\ payment = "Paid"
              /\ \E c : Post(c) /\ c.op = "Approve" /\ c.id = vend.id
<1>1. \A op, id, arg : Command(op, id, arg).op = op /\ Command(op, id, arg).id = id
  BY DEF Command
<1>2. CASE StartRound \/ RearmBegins
  <2>1. \E funds \in {0, 1} : Post(Command("BeginSession", sid + 1, funds))
    BY <1>2 DEF StartRound, RearmBegins, Arm, BeginSession, Call
  <2> QED BY <1>1, <2>1
<1>3. CASE StopRounds
  <2>1. Post(Command("Shutdown", 0, 0))
    BY <1>3 DEF StopRounds, Shutdown, Call
  <2> QED BY <1>1, <2>1
<1>4. CASE RefreshDisplay
  <2>1. Post(Command("DisplayMessage", sid, 0))
    BY <1>4 DEF RefreshDisplay, SessionDisplay, Call
  <2> QED BY <1>1, <2>1
<1>5. CASE ArmReturns \/ StopReturns \/ RefreshReturns \/ RearmFinished \/ CloseReturns
  BY <1>5 DEF ArmReturns, StopReturns, RefreshReturns, RearmFinished, CloseReturns,
              BeginReturns, ShutdownReturns, SessionDisplayReturns, FinishReturns, Return
<1>6. CASE InterruptedBeforeSelection \/ Rearm \/ PaymentInterrupted \/ WatchEnds \/ Leave
  <2>1. Finish
    BY <1>6 DEF InterruptedBeforeSelection, Rearm, PaymentInterrupted, WatchEnds, Leave
  <2>2. Post(Command("EndSession", sid, 1))
    BY <2>1 DEF Finish, Call
  <2> QED BY <1>1, <2>2
<1>7. CASE AwaitSelection \/ PaymentCancelled \/ Watch
  BY <1>7 DEF AwaitSelection, PaymentCancelled, Watch, NextEvent
<1>8. CASE Prompt \/ PaymentTimeout \/ NothingHappened \/ ReadKey
  <2>1. UNCHANGED vars
    BY <1>8 DEF Prompt, PaymentTimeout, NothingHappened, ReadKey
  <2> QED BY <2>1 DEF vars
<1>9. CASE Decide
  <2>1. Post(IF payment = "Paid" THEN Command("Approve", vend.id, vend.price)
                                 ELSE Command("Deny", vend.id, 0))
    BY <1>9 DEF Decide, decide
  <2> QED BY <1>1, <1>9, <2>1
<1>10. CASE DecisionReturned
  BY <1>10 DEF DecisionReturned, Decided
<1>11. ASSUME NEW v, DropVend(v)
       PROVE  \E c : Post(c) /\ c.op # "Approve"
  BY <1>1, <1>11 DEF DropVend
<1>12. CASE DropUnwanted
  BY <1>11, <1>12 DEF DropUnwanted
<1>13. CASE RoundReturns
  <2>1. UNCHANGED vars => UNCHANGED mailbox
    BY DEF vars
  <2> QED BY <1>11, <1>13, <2>1 DEF RoundReturns
<1>14. ASSUME DropEvent
       PROVE  UNCHANGED mailbox \/ \E c : Post(c) /\ c.op # "Approve"
  BY <1>1, <1>14 DEF DropEvent
<1>15. CASE Unwind
  <2>1. DropSession => Post(Command("EndSession", sid, 0))
    BY DEF DropSession
  <2> QED BY <1>1, <1>11, <1>14, <1>15, <2>1 DEF Unwind
<1> QED BY <1>2, <1>3, <1>4, <1>5, <1>6, <1>7, <1>8, <1>9, <1>10, <1>12, <1>13, <1>14, <1>15
        DEF RunStep
\* The session is the same, or a new one that has not been heard of.
SameSession == sid' = sid
NextSession == sid < MaxSessions /\ sid' = sid + 1 /\ events' = <<>>

LEMMA HandlesKeep ==
    ASSUME SystemOK, FlowOK, Handles, SameSession \/ NextSession
    PROVE  /\ \A i \in DOMAIN events' : Offers(events'[i]) => events'[i].amount \in Amounts
           /\ \A v \in Vends : hand[v] \in {"deciding", "gone"} => hand'[v] \in {"deciding", "gone"}
           /\ NewsOK' /\ WhyOK'
           /\ Sold' = Sold /\ Unsold' = Unsold /\ Declined' = Declined
           /\ NextSession => \A v \in Vends : home'[v] # sid'
           /\ UNCHANGED home
<1> USE FactsOfSystem
<1>1. ScreenOK /\ NewsOK /\ WhyOK
  BY DEF FlowOK
<1>2. /\ \A i \in DOMAIN events' : \E j \in DOMAIN events : events'[i] = events[j]
      /\ UNCHANGED <<home, answer, outcome>>
      /\ \A v \in Vends : hand[v] \in {"deciding", "gone"} => hand'[v] \in {"deciding", "gone"}
  BY DEF Handles
<1>3. Sold' = Sold /\ Unsold' = Unsold /\ Declined' = Declined /\ WhyOK'
  BY <1>1, <1>2, OutcomesSame
<1>4. \A i \in DOMAIN events' : Offers(events'[i]) => events'[i].amount \in Amounts
  BY <1>1, <1>2 DEF ScreenOK
<1>5. CASE SameSession
  <2>1. NewsOK'
    BY <1>1, <1>2, <1>3, <1>5 DEF NewsOK, SameSession
  <2>2. ~NextSession
    <3>1. sid \in Nat
      BY BoundsAssumption DEF TypeOK, ClientTypeOK
    <3> QED BY <1>5, <3>1 DEF SameSession, NextSession
  <2> QED BY <1>2, <1>3, <1>4, <2>1, <2>2
<1>6. CASE NextSession
  <2>1. DOMAIN events' = {}
    BY <1>6 DEF NextSession
  <2>2. NewsOK'
    BY <2>1 DEF NewsOK
  <2>3. \A v \in Vends : home'[v] # sid'
    <3>1. /\ sid \in Int /\ \A v \in Vends : home[v] \in Int
      BY BoundsAssumption DEF TypeOK, ActorTypeOK, ClientTypeOK
    <3>2. \A v \in Vends : ~(home[v] >= sid + 1)
      BY DEF BegunInOrder, Begun
    <3> QED BY <1>2, <1>6, <3>1, <3>2 DEF NextSession
  <2> QED BY <1>2, <1>3, <1>4, <2>2, <2>3
<1> QED BY <1>5, <1>6

\* A step that leaves no vend on the screen: nothing is paid for, and a vend that
\* was belongs to a session that is over or about to be.
LEMMA PlainKeeps ==
    ASSUME SystemOK, FlowOK, Handles, SameSession \/ NextSession, Bought' \subseteq Bought,
           UNCHANGED <<report, pressed>>, pc' \notin Choosing \union Deciders,
           SameSession /\ pc \in Closing \union Deciders => pc' \in Closing
    PROVE  FlowOK'
<1>1. /\ ScreenOK /\ PaidOK /\ RoundOK /\ ReportedOK
  BY DEF FlowOK
<1>2. /\ pc' \notin {"showing", "paying", "reading", "decided", "deciding", "watching"}
      /\ pc' \notin Choosing /\ pc' \notin Deciders
  BY DEF Choosing, Deciders
<1>3. Bought \subseteq Vends
  BY DEF Bought
<1>4. ScreenOK'
  BY <1>2, HandlesKeep DEF ScreenOK
<1>5. PaidOK'
  BY <1>1, <1>2, <1>3, HandlesKeep DEF PaidOK
<1>6. UnpaidOK' /\ SeenOK'
  BY <1>2 DEF UnpaidOK, SeenOK
<1>7. RoundOK'
  <2> SUFFICES ASSUME NEW v \in Bought', home'[v] = sid'
               PROVE  pc' \in Closing
    BY DEF RoundOK
  <2>1. v \in Bought /\ v \in Vends
    BY <1>3
  <2>2. SameSession /\ home[v] = sid
    BY <2>1, HandlesKeep DEF SameSession
  <2> QED BY <1>1, <2>1, <2>2 DEF RoundOK
<1>8. ReportedOK'
  BY <1>1, HandlesKeep DEF ReportedOK
<1> QED BY <1>4, <1>5, <1>6, <1>7, <1>8, HandlesKeep DEF FlowOK

\* The steps between rounds, those before a selection and those after the outcome.
BetweenVends ==
    \/ StartRound \/ StopRounds \/ ArmReturns \/ StopReturns \/ InterruptedBeforeSelection
    \/ RefreshDisplay \/ RefreshReturns \/ Rearm \/ RearmFinished \/ RearmBegins
    \/ PaymentInterrupted \/ Leave \/ CloseReturns \/ RoundReturns

LEMMA BetweenKeeps ==
    ASSUME SystemOK, FlowOK, FlowTypeOK, BetweenVends, Handles, Bought' \subseteq Bought
    PROVE  FlowOK'
<1>1. UNCHANGED <<report, pressed>>
  BY DEF BetweenVends, StartRound, StopRounds, ArmReturns, StopReturns, InterruptedBeforeSelection,
         RefreshDisplay, RefreshReturns, Rearm, RearmFinished, RearmBegins, PaymentInterrupted,
         Leave, CloseReturns, RoundReturns, Settle, Same
<1>2. CASE StartRound \/ RearmBegins
  <2>1. BeginSession /\ pc' \in {"arming", "rebeginning"}
    BY <1>2 DEF StartRound, RearmBegins, Arm, Goto
  <2>2. NextSession
    BY <2>1 DEF BeginSession, NextSession
  <2>3. pc' \notin Choosing \union Deciders /\ ~SameSession
    <3>1. sid \in Nat
      BY FactsOfSystem, BoundsAssumption DEF TypeOK, ClientTypeOK
    <3> QED BY <2>1, <2>2, <3>1 DEF Choosing, Deciders, SameSession, NextSession
  <2> QED BY <1>1, <2>2, <2>3, PlainKeeps
<1>3. CASE ~(StartRound \/ RearmBegins)
  <2>1. SameSession
    <3>1. UNCHANGED vars => UNCHANGED sid
      BY DEF vars, clientVars
    <3>2. Finish \/ Shutdown \/ SessionDisplay => UNCHANGED sid
      BY DEF Finish, Shutdown, SessionDisplay
    <3>3. BeginReturns \/ ShutdownReturns \/ SessionDisplayReturns \/ FinishReturns => UNCHANGED sid
      BY DEF BeginReturns, ShutdownReturns, SessionDisplayReturns, FinishReturns, Return
    <3>4. \A v : DropVend(v) => UNCHANGED sid
      BY DEF DropVend
    <3> QED BY <1>3, <3>1, <3>2, <3>3, <3>4
            DEF BetweenVends, StopRounds, ArmReturns, StopReturns, InterruptedBeforeSelection,
                RefreshDisplay, RefreshReturns, Rearm, RearmFinished, PaymentInterrupted,
                Leave, CloseReturns, RoundReturns, SameSession
  <2>2. /\ pc' \notin Choosing \union Deciders
        /\ pc \in Closing \union Deciders => pc' \in Closing
    BY <1>3 DEF BetweenVends, StopRounds, ArmReturns, StopReturns, InterruptedBeforeSelection,
                RefreshDisplay, RefreshReturns, Rearm, RearmFinished, PaymentInterrupted,
                Leave, CloseReturns, RoundReturns, Settle, Goto, Bail, Choosing, Deciders, Closing
  <2> QED BY <1>1, <2>1, <2>2, PlainKeeps
<1> QED BY <1>2, <1>3
-----------------------------------------------------------------------------
(* The steps of a round with a vend on the screen. *)

\* What such a step owes to the invariant, and what follows of the rest.
LEMMA RoundKeeps ==
    ASSUME SystemOK, FlowOK, Handles, SameSession, pressed \subseteq pressed',
           \A v \in Bought' : \/ v \in Bought
                              \/ /\ v = vend'.id /\ v \in pressed' /\ pc' \in Deciders
                                 /\ hand'[v] = "deciding",
           pc' \in Choosing => vend'.price \in Amounts /\ hand'[vend'.id] = "held",
           pc' \in Choosing \union Deciders => vend'.id \in Vends,
           pc' \in {"paying", "reading"} /\ (\E i \in DOMAIN keys' : keys'[i] = "y")
             => vend'.id \in pressed',
           pc' = "decided" /\ payment' = "Paid" => vend'.id \in pressed',
           UnpaidOK', SeenOK', ReportedOK',
           pc \in Closing => pc' \in Closing,
           pc \in Deciders => pc' \in Closing \/ (pc' \in Deciders /\ vend'.id = vend.id)
    PROVE  FlowOK'
<1>1. PaidOK /\ RoundOK
  BY DEF FlowOK
<1>2. Bought \subseteq Vends
  BY DEF Bought
<1>3. ScreenOK'
  BY HandlesKeep DEF ScreenOK
<1>4. PaidOK'
  <2>1. Bought' \subseteq pressed'
    BY <1>1 DEF PaidOK
  <2>2. \A v \in Bought' : hand'[v] \in {"deciding", "gone"}
    BY <1>1, <1>2, HandlesKeep DEF PaidOK
  <2> QED BY <2>1, <2>2 DEF PaidOK
<1>5. RoundOK'
  <2> SUFFICES ASSUME NEW v \in Bought', home'[v] = sid'
               PROVE  (v = vend'.id /\ pc' \in Deciders) \/ pc' \in Closing
    BY DEF RoundOK
  <2>1. CASE v \in Bought
    <3>1. home[v] = sid
      BY HandlesKeep DEF SameSession
    <3>2. (v = vend.id /\ pc \in Deciders) \/ pc \in Closing
      BY <1>1, <2>1, <3>1 DEF RoundOK
    <3> QED BY <3>2
  <2> QED BY <2>1
<1> QED BY <1>3, <1>4, <1>5, HandlesKeep DEF FlowOK

\* Nothing happens to a vend while nobody but its own handle is used.
LEMMA ReportsStand ==
    ASSUME SystemOK, FlowOK, Handles, SameSession, UNCHANGED report
    PROVE  ReportedOK'
BY HandlesKeep DEF FlowOK, ReportedOK

\* wait_for_selection takes the next event.
LEMMA SelectionKeeps ==
    ASSUME SystemOK, FlowOK, FlowTypeOK, AwaitSelection, Handles, Bought' \subseteq Bought
    PROVE  FlowOK'
<1> USE FactsOfSystem
<1> DEFINE e == Head(events)
<1>1. /\ events # <<>> /\ pc = "selecting" /\ UNCHANGED <<sid, pressed, report>>
      /\ hand' = IF e.kind = "VendRequested" THEN [hand EXCEPT ![e.vend] = "held"] ELSE hand
      /\ vend' = IF e.kind = "VendRequested" THEN [id |-> e.vend, price |-> e.amount] ELSE vend
      /\ pc' = CASE e.kind = "VendRequested" -> "showing"
                 [] e.kind = "Ended" -> "ended"
                 [] OTHER -> "selecting"
  BY DEF AwaitSelection, NextEvent, Same, Goto
<1>2. /\ events \in Seq(Events) /\ hand \in [Vends -> HandStates]
  BY DEF TypeOK, ClientTypeOK
<1>3. /\ 1 \in DOMAIN events /\ e = events[1]
      /\ Offers(e) => e.vend \in Vends
  BY <1>1, <1>2, TalkLess, OffersTail DEF DecisionOK
<1>4. SameSession /\ ReportedOK'
  BY <1>1, ReportsStand DEF SameSession
<1>5. pc \notin Closing /\ pc \notin Deciders
  BY <1>1 DEF Closing, Deciders
<1>6. CASE e.kind = "VendRequested"
  <2>1. e.amount \in Amounts /\ e.vend \in Vends
    BY <1>3, <1>6 DEF FlowOK, ScreenOK, Offers
  <2> HIDE DEF e
  <2>2. pc' = "showing" /\ vend'.id = e.vend /\ vend'.price = e.amount /\ hand'[e.vend] = "held"
    BY <1>1, <1>2, <1>6, <2>1
  <2>3. UnpaidOK' /\ SeenOK'
    BY <2>2 DEF UnpaidOK, SeenOK
  <2>4. /\ pc' \in Choosing => vend'.price \in Amounts /\ hand'[vend'.id] = "held"
        /\ pc' \in Choosing \union Deciders => vend'.id \in Vends
        /\ pc' \notin {"paying", "reading", "decided"}
    BY <2>1, <2>2
  <2> QED BY <1>1, <1>4, <1>5, <2>3, <2>4, RoundKeeps
<1>7. CASE e.kind # "VendRequested"
  <2>1. pc' \in {"ended", "selecting"}
    BY <1>1, <1>7
  <2>2. pc' \notin Choosing \union Deciders
    BY <2>1 DEF Choosing, Deciders
  <2> QED BY <1>1, <1>4, <1>5, <2>2, PlainKeeps
<1> QED BY <1>6, <1>7

\* Prompting: what was typed before is gone.
LEMMA PromptKeeps ==
    ASSUME SystemOK, FlowOK, FlowTypeOK, Prompt, Handles, Bought' \subseteq Bought
    PROVE  FlowOK'
<1>1. /\ pc = "showing" /\ pc' = "paying" /\ keys' = <<>>
      /\ UNCHANGED <<pressed, report, vend, payment>>
  BY DEF Prompt, flush_input, Goto, Same
<1>2. UNCHANGED <<sid, hand>>
  BY DEF Prompt, vars, clientVars, vendVars
<1>3. SameSession /\ ReportedOK'
  BY <1>1, <1>2, ReportsStand DEF SameSession
<1>4. UnpaidOK' /\ SeenOK'
  BY <1>1 DEF UnpaidOK, SeenOK
<1>5. pc \in Choosing /\ pc \notin Closing /\ pc \notin Deciders
  BY <1>1 DEF Choosing, Closing, Deciders
<1>6. vend.price \in Amounts /\ hand[vend.id] = "held" /\ vend.id \in Vends
  BY <1>5 DEF FlowOK, ScreenOK
<1>7. ~(\E i \in DOMAIN keys' : keys'[i] = "y")
  BY <1>1
<1> QED BY <1>1, <1>2, <1>3, <1>4, <1>5, <1>6, <1>7, RoundKeeps

\* Timeout, an event that ends nothing, or no event at all: the vend stays on the
\* screen, and the keys in the buffer.
LEMMA WaitingKeeps ==
    ASSUME SystemOK, FlowOK, FlowTypeOK, PaymentTimeout \/ NothingHappened,
           Handles, Bought' \subseteq Bought
    PROVE  FlowOK'
<1>1. /\ pc = "paying" /\ UNCHANGED <<pressed, report, vend, keys>>
      /\ \/ pc' = "decided" /\ payment' = "Timeout"
         \/ pc' = "reading" /\ UNCHANGED payment
  BY DEF PaymentTimeout, NothingHappened, Settle, Goto, Same
<1>2. UNCHANGED <<sid, hand>>
  BY DEF PaymentTimeout, NothingHappened, vars, clientVars, vendVars
<1>3. SameSession /\ ReportedOK'
  BY <1>1, <1>2, ReportsStand DEF SameSession
<1>4. UnpaidOK' /\ SeenOK'
  BY <1>1 DEF UnpaidOK, SeenOK
<1>5. pc \in Choosing /\ pc \notin Closing /\ pc \notin Deciders
  BY <1>1 DEF Choosing, Closing, Deciders
<1>6. vend.price \in Amounts /\ hand[vend.id] = "held" /\ vend.id \in Vends
  BY <1>5 DEF FlowOK, ScreenOK
<1>7. (\E i \in DOMAIN keys : keys[i] = "y") => vend.id \in pressed
  BY <1>1 DEF FlowOK, PaidOK
<1>8. ~(pc' = "decided" /\ payment' = "Paid")
  BY <1>1
<1> QED BY <1>1, <1>2, <1>3, <1>4, <1>5, <1>6, <1>7, <1>8, RoundKeeps

\* wait_for_payment looks at an event first.
LEMMA CancelledKeeps ==
    ASSUME SystemOK, FlowOK, FlowTypeOK, PaymentCancelled, Handles, Bought' \subseteq Bought
    PROVE  FlowOK'
<1> USE FactsOfSystem
<1>1. /\ events # <<>> /\ pc = "paying" /\ UNCHANGED <<sid, pressed, report, vend, keys>>
      /\ hand' = IF Head(events).kind = "VendRequested"
                   THEN [hand EXCEPT ![Head(events).vend] = "held"] ELSE hand
      /\ \/ pc' = "reading" /\ UNCHANGED payment
         \/ pc' = "leaving"
  BY DEF PaymentCancelled, NextEvent, Settle, Same, Goto
<1>2. /\ events \in Seq(Events) /\ hand \in [Vends -> HandStates]
  BY DEF TypeOK, ClientTypeOK
<1>3. SameSession /\ ReportedOK'
  BY <1>1, ReportsStand DEF SameSession
<1>4. UnpaidOK' /\ SeenOK'
  BY <1>1 DEF UnpaidOK, SeenOK
<1>5. pc \in Choosing /\ pc \notin Closing /\ pc \notin Deciders
  BY <1>1 DEF Choosing, Closing, Deciders
<1>6. vend.price \in Amounts /\ hand[vend.id] = "held" /\ vend.id \in Vends
  BY <1>5 DEF FlowOK, ScreenOK
<1>7. hand'[vend.id] = "held"
  BY <1>1, <1>2, <1>6
<1>8. (\E i \in DOMAIN keys : keys[i] = "y") => vend.id \in pressed
  BY <1>1 DEF FlowOK, PaidOK
<1>9. ~(pc' = "decided" /\ payment' = "Paid")
  BY <1>1
<1> QED BY <1>1, <1>3, <1>4, <1>5, <1>6, <1>7, <1>8, <1>9, RoundKeeps

\* A key is taken: a y was pressed for the vend on the screen.
LEMMA KeyKeeps ==
    ASSUME SystemOK, FlowOK, FlowTypeOK, ReadKey, Handles, Bought' \subseteq Bought
    PROVE  FlowOK'
<1>1. /\ pc = "reading" /\ UNCHANGED <<pressed, report, vend>>
      /\ \/ read_key("y") /\ payment' = "Paid" /\ pc' = "decided"
         \/ payment' = "Declined" /\ pc' = "decided"
         \/ pc' = "paying" /\ UNCHANGED <<payment, keys>>
  BY DEF ReadKey, read_key, Settle, Goto, Same, FlowTypeOK
<1>2. UNCHANGED <<sid, hand>>
  BY DEF ReadKey, vars, clientVars, vendVars
<1>3. SameSession /\ ReportedOK'
  BY <1>1, <1>2, ReportsStand DEF SameSession
<1>4. UnpaidOK' /\ SeenOK'
  BY <1>1 DEF UnpaidOK, SeenOK
<1>5. pc \in Choosing /\ pc \notin Closing /\ pc \notin Deciders
  BY <1>1 DEF Choosing, Closing, Deciders
<1>6. vend.price \in Amounts /\ hand[vend.id] = "held" /\ vend.id \in Vends
  BY <1>5 DEF FlowOK, ScreenOK
<1>7. (\E i \in DOMAIN keys : keys[i] = "y") => vend.id \in pressed
  BY <1>1 DEF FlowOK, PaidOK
<1>8. read_key("y") => vend.id \in pressed
  <2>1. ASSUME keys # <<>>, Head(keys) = "y"
        PROVE  \E i \in DOMAIN keys : keys[i] = "y"
    BY <2>1, TalkLess DEF FlowTypeOK
  <2> QED BY <1>7, <2>1 DEF read_key
<1>9. pc' = "decided" /\ payment' = "Paid" => vend'.id \in pressed'
  BY <1>1, <1>8
<1> QED BY <1>1, <1>2, <1>3, <1>4, <1>5, <1>6, <1>7, <1>9, RoundKeeps
\* The decision is sent: an approval only of a vend that was paid for.
LEMMA DecideKeeps ==
    ASSUME SystemOK, FlowOK, FlowTypeOK, Decide, Handles,
           Bought' \subseteq Bought \union {vend.id},
           payment # "Paid" => Bought' \subseteq Bought
    PROVE  FlowOK'
<1> USE FactsOfSystem
<1>1. /\ pc = "decided" /\ pc' = "deciding" /\ UNCHANGED <<sid, pressed, report, vend, payment, keys>>
      /\ hand[vend.id] = "held" /\ hand' = [hand EXCEPT ![vend.id] = "deciding"]
  BY DEF Decide, decide, Goto, Same
<1>2. SameSession /\ ReportedOK'
  BY <1>1, ReportsStand DEF SameSession
<1>3. pc \in Choosing /\ pc \notin Closing /\ pc \notin Deciders
      /\ pc' \in Deciders /\ pc' \notin Choosing
  BY <1>1 DEF Choosing, Closing, Deciders
<1>4. vend.id \in Vends
  BY <1>3 DEF FlowOK, ScreenOK
<1>5. hand'[vend.id] = "deciding"
  BY <1>1, <1>4 DEF TypeOK, ClientTypeOK
<1>6. vend.id \notin Bought
  BY <1>1 DEF FlowOK, PaidOK
<1>7. payment = "Paid" => vend.id \in pressed
  BY <1>1 DEF FlowOK, PaidOK
<1>8. UnpaidOK' /\ SeenOK'
  BY <1>1, <1>6 DEF UnpaidOK, SeenOK
<1>9. \A v \in Bought' : v \in Bought \/ (v = vend'.id /\ v \in pressed' /\ pc' \in Deciders
                                           /\ hand'[v] = "deciding")
  BY <1>1, <1>3, <1>5, <1>7
<1> QED BY <1>1, <1>2, <1>3, <1>4, <1>8, <1>9, RoundKeeps

\* decide_vend returns: a denial it hears of is on its way to the machine.
LEMMA ReturnedKeeps ==
    ASSUME SystemOK, FlowOK, FlowTypeOK, DecisionReturned, Handles, Bought' \subseteq Bought
    PROVE  FlowOK'
<1> USE FactsOfSystem
<1>1. /\ pc = "deciding" /\ UNCHANGED <<sid, pressed, report, vend, payment, keys>>
      /\ seen' = Nothing
      /\ \/ pc' = "watching" /\ verdict[vend.id] \in {"approved", "denied"}
         \/ pc' = "over"
  BY DEF DecisionReturned, Decided, Goto, Bail, Same
<1>2. SameSession /\ ReportedOK'
  BY <1>1, ReportsStand DEF SameSession
<1>3. /\ pc \in Deciders /\ pc \notin Closing /\ pc' \notin Choosing
      /\ pc' \in Closing \/ (pc' \in Deciders /\ vend'.id = vend.id)
  BY <1>1 DEF Choosing, Closing, Deciders
<1>4. vend.id \in Vends
  BY <1>3 DEF FlowOK, ScreenOK
<1>5. pc' = "watching" /\ payment # "Paid" => vend.id \in Declined
  <2>1. payment # "Paid" => ~Approved(vend.id)
    BY <1>1, <1>4 DEF FlowOK, UnpaidOK, Bought
  <2>2. /\ verdict[vend.id] = "approved" => Approved(vend.id)
        /\ verdict[vend.id] = "denied" => answer[vend.id] # <<>> /\ ~Approved(vend.id)
    BY <1>4 DEF DecisionOK, DecisionHonest
  <2> QED BY <1>1, <1>4, <2>1, <2>2 DEF Declined
<1>6. UnpaidOK'
  BY <1>1, <1>2, <1>5, HandlesKeep DEF UnpaidOK
<1>7. SeenOK'
  BY <1>1 DEF SeenOK, Nothing
<1> QED BY <1>1, <1>2, <1>3, <1>4, <1>6, <1>7, RoundKeeps

\* A vend nobody wants is dropped, and the one of the round is not.
LEMMA UnwantedKeeps ==
    ASSUME SystemOK, FlowOK, FlowTypeOK, DropUnwanted, Handles, Bought' \subseteq Bought
    PROVE  FlowOK'
<1> USE FactsOfSystem
<1>1. PICK u \in Vends : u # vend.id /\ hand' = [hand EXCEPT ![u] = "gone"]
  BY DEF DropUnwanted, Unwanted, DropVend
<1>2. /\ pc \in {"reading", "watching"} /\ pc' = pc
      /\ UNCHANGED <<sid, pressed, report, vend, payment, keys, seen>>
  BY DEF DropUnwanted, DropVend, Goto, Same
<1>3. SameSession /\ ReportedOK'
  BY <1>2, ReportsStand DEF SameSession
<1>4. pc \notin Closing
  BY <1>2 DEF Closing
<1>5. /\ pc \in Choosing => vend.price \in Amounts /\ hand[vend.id] = "held"
      /\ pc \in Choosing \union Deciders => vend.id \in Vends
  BY DEF FlowOK, ScreenOK
<1>6. pc \in Choosing => hand'[vend.id] = "held"
  BY <1>1, <1>5 DEF TypeOK, ClientTypeOK
<1>7. UnpaidOK' /\ SeenOK'
  BY <1>2, <1>3, HandlesKeep DEF FlowOK, UnpaidOK, SeenOK
<1>8. pc \in {"paying", "reading"} /\ (\E i \in DOMAIN keys : keys[i] = "y") => vend.id \in pressed
  BY DEF FlowOK, PaidOK
<1> QED BY <1>2, <1>3, <1>4, <1>5, <1>6, <1>7, <1>8, RoundKeeps

\* What is reported is what was seen.
LEMMA ReportTrue ==
    ASSUME SystemOK, FlowOK, FlowTypeOK, Handles, SameSession, vend.id \in Vends,
           NEW what \in [success : BOOLEAN, failure : BOOLEAN], Report(what),
           what.success => vend.id \in Sold, what.failure => vend.id \in Unsold,
           payment # "Paid" => vend.id \in Declined
    PROVE  ReportedOK'
<1>1. report \in [Vends -> Said] /\ report' = [report EXCEPT ![vend.id] = report_result(what)]
  BY DEF FlowTypeOK, Report
<1>2. /\ report_result(what) = "vended" => what.success
      /\ report_result(what) = "did not vend" => what.failure
      /\ report_result(what) = "no vend" => payment # "Paid"
  BY DEF report_result
<1>3. ASSUME NEW v \in Vends
      PROVE  report'[v] = IF v = vend.id THEN report_result(what) ELSE report[v]
  BY <1>1
<1>4. ReportedOK
  BY DEF FlowOK
<1>5. Sold' = Sold /\ Unsold' = Unsold /\ Declined' = Declined
  BY HandlesKeep
<1> HIDE DEF Sold, Unsold, Declined
<1>6. ASSUME NEW v \in Vends
      PROVE  /\ report'[v] = "vended" => v \in Sold
             /\ report'[v] = "did not vend" => v \in Unsold
             /\ report'[v] = "no vend" => v \in Declined
  <2>1. CASE v = vend.id
    BY <1>2, <1>3, <2>1
  <2>2. CASE v # vend.id
    BY <1>3, <1>4, <2>2 DEF ReportedOK
  <2> QED BY <2>1, <2>2
<1> QED BY <1>5, <1>6 DEF ReportedOK

\* While the vend is watched, every outcome that comes is its own.
LEMMA WatchKeeps ==
    ASSUME SystemOK, FlowOK, FlowTypeOK, Watch, Handles, Bought' \subseteq Bought
    PROVE  FlowOK'
<1> USE FactsOfSystem
<1> DEFINE e == Head(events)
<1>1. /\ pc = "watching" /\ events # <<>> /\ UNCHANGED <<sid, pressed, vend, payment, keys>>
      /\ seen' = record(e)
      /\ \/ pc' = "leaving" /\ Report(seen')
         \/ pc' = "watching" /\ UNCHANGED report
  BY DEF Watch, NextEvent, Goto, Same
<1>2. SameSession
  BY <1>1 DEF SameSession
<1>3. /\ pc \in Deciders /\ pc \notin Closing /\ pc' \notin Choosing
      /\ pc' \in Closing \/ (pc' \in Deciders /\ vend'.id = vend.id)
  BY <1>1 DEF Choosing, Closing, Deciders
<1>4. vend.id \in Vends
  BY <1>3 DEF FlowOK, ScreenOK
<1>5. events \in Seq(Events) /\ 1 \in DOMAIN events /\ e = events[1]
  BY <1>1, TalkLess DEF TypeOK, ClientTypeOK
<1>6. e.kind \in {"VendSucceeded", "VendFailed"} => e.vend = vend.id
  <2> SUFFICES ASSUME e.kind \in {"VendSucceeded", "VendFailed"}
               PROVE  e.vend = vend.id
    OBVIOUS
  <2>1. e.vend \in Vends /\ home[e.vend] = sid /\ e.vend \in Sold \union Unsold
    BY <1>5 DEF FlowOK, NewsOK, Outcomes
  <2>2. e.vend \in Bought
    BY <2>1, OutcomesBought
  <2> QED BY <1>3, <2>1, <2>2 DEF FlowOK, RoundOK
<1>7. /\ e.kind = "VendSucceeded" => vend.id \in Sold
      /\ e.kind = "VendFailed" => vend.id \in Unsold
  BY <1>5, <1>6 DEF FlowOK, NewsOK, Outcomes
<1> HIDE DEF e
<1>8. /\ seen' \in [success : BOOLEAN, failure : BOOLEAN]
      /\ seen'.success => vend.id \in Sold
      /\ seen'.failure => vend.id \in Unsold
  <2>1. /\ seen.success => vend.id \in Sold
        /\ seen.failure => vend.id \in Unsold
    BY <1>1 DEF FlowOK, SeenOK
  <2>2. /\ seen'.success <=> (seen.success \/ e.kind = "VendSucceeded")
        /\ seen'.failure <=> (seen.failure \/ e.kind = "VendFailed")
    BY <1>1 DEF record
  <2>3. seen' \in [success : BOOLEAN, failure : BOOLEAN]
    BY <1>1 DEF record, FlowTypeOK
  <2> QED BY <1>7, <2>1, <2>2, <2>3
<1>9. payment # "Paid" => vend.id \in Declined
  BY <1>1 DEF FlowOK, UnpaidOK
<1>10. ReportedOK'
  <2>1. CASE Report(seen')
    <3>1. PICK w : w = seen'
      OBVIOUS
    <3>2. w \in [success : BOOLEAN, failure : BOOLEAN] /\ Report(w)
          /\ (w.success => vend.id \in Sold) /\ (w.failure => vend.id \in Unsold)
      BY <1>8, <2>1, <3>1
    <3> QED BY <1>2, <1>4, <1>9, <3>2, ReportTrue
  <2>2. CASE UNCHANGED report
    BY <1>2, <2>2, ReportsStand
  <2> QED BY <1>1, <2>1, <2>2
<1>11. UnpaidOK' /\ SeenOK'
  BY <1>1, <1>2, <1>8, <1>9, HandlesKeep DEF UnpaidOK, SeenOK
<1> QED BY <1>1, <1>2, <1>3, <1>4, <1>10, <1>11, RoundKeeps

\* The watch is over: what was seen so far is reported.
LEMMA WatchEndsKeeps ==
    ASSUME SystemOK, FlowOK, FlowTypeOK, WatchEnds, Handles, Bought' \subseteq Bought
    PROVE  FlowOK'
<1>1. /\ pc = "watching" /\ pc' = "closing" /\ UNCHANGED <<sid, pressed, vend, payment, keys, seen>>
      /\ Report(seen)
  BY DEF WatchEnds, Finish, Goto, Same
<1>2. SameSession
  BY <1>1 DEF SameSession
<1>3. /\ pc \in Deciders /\ pc \notin Closing /\ pc' \notin Choosing /\ pc' \notin Deciders
      /\ pc' \in Closing
  BY <1>1 DEF Choosing, Closing, Deciders
<1>4. vend.id \in Vends
  BY <1>3 DEF FlowOK, ScreenOK
<1>5. /\ seen.success => vend.id \in Sold
      /\ seen.failure => vend.id \in Unsold
      /\ payment # "Paid" => vend.id \in Declined
  BY <1>1 DEF FlowOK, SeenOK, UnpaidOK
<1>6. ReportedOK'
  BY <1>1, <1>2, <1>4, <1>5, ReportTrue DEF FlowTypeOK
<1>7. UnpaidOK' /\ SeenOK'
  BY <1>1 DEF UnpaidOK, SeenOK
<1> QED BY <1>1, <1>2, <1>3, <1>6, <1>7, RoundKeeps
\* What happens to handles and keys without run() moving on.
LEMMA ScreenStays ==
    ASSUME SystemOK, FlowOK, Handles, SameSession, Bought' \subseteq Bought,
           UNCHANGED <<pc, vend, payment, seen, report>>,
           pc \in Choosing => hand'[vend.id] = "held",
           pressed \subseteq pressed',
           pc \in {"paying", "reading"} /\ (\E i \in DOMAIN keys' : keys'[i] = "y")
             => vend.id \in pressed'
    PROVE  FlowOK'
<1>1. ReportedOK'
  BY ReportsStand
<1>2. UnpaidOK' /\ SeenOK'
  BY HandlesKeep DEF FlowOK, UnpaidOK, SeenOK
<1>3. /\ pc \in Choosing => vend.price \in Amounts
      /\ pc \in Choosing \union Deciders => vend.id \in Vends
  BY DEF FlowOK, ScreenOK
<1>4. pc = "decided" /\ payment = "Paid" => vend.id \in pressed
  BY DEF FlowOK, PaidOK
<1>5. /\ pc \in Closing => pc' \in Closing
      /\ pc \in Deciders => pc' \in Closing \/ (pc' \in Deciders /\ vend'.id = vend.id)
  OBVIOUS
<1>6. /\ pc' \in Choosing => vend'.price \in Amounts /\ hand'[vend'.id] = "held"
      /\ pc' \in Choosing \union Deciders => vend'.id \in Vends
      /\ pc' = "decided" /\ payment' = "Paid" => vend'.id \in pressed'
  BY <1>3, <1>4
<1>7. pc' \in {"paying", "reading"} /\ (\E i \in DOMAIN keys' : keys'[i] = "y") => vend'.id \in pressed'
  OBVIOUS
<1> QED BY <1>1, <1>2, <1>5, <1>6, <1>7, RoundKeeps

\* Handles that are dropped behind the back of run(), or left by an error.
LEMMA DropsKeep ==
    ASSUME SystemOK, FlowOK, UNCHANGED harnessVars,
           DropEvent \/ (pc = "over" /\ (DropSession \/ \E v \in Vends : DropVend(v))),
           Handles, Bought' \subseteq Bought
    PROVE  FlowOK'
<1> USE FactsOfSystem
<1>1. UNCHANGED <<pc, keys, vend, payment, seen, report, pressed>>
  BY DEF harnessVars
<1>2. UNCHANGED sid
  BY DEF DropEvent, DropSession, DropVend
<1>3. pc \in Choosing => hand'[vend.id] = "held"
  <2> SUFFICES ASSUME pc \in Choosing
               PROVE  hand'[vend.id] = "held"
    OBVIOUS
  <2>1. hand[vend.id] = "held" /\ pc # "over"
    BY DEF FlowOK, ScreenOK, Choosing
  <2>2. DropEvent
    BY <2>1
  <2>3. CASE Offers(Head(events))
    <3>1. hand[Head(events).vend] = "queued"
      BY <2>2, <2>3, OffersTail DEF DropEvent, DecisionOK, TypeOK, ClientTypeOK
    <3>2. hand' = [hand EXCEPT ![Head(events).vend] = "gone"]
      BY <2>2, <2>3 DEF DropEvent, Offers
    <3>3. vend.id # Head(events).vend
      BY <2>1, <3>1
    <3> QED BY <2>1, <3>2, <3>3
  <2>4. CASE ~Offers(Head(events))
    BY <2>1, <2>2, <2>4 DEF DropEvent, Offers
  <2> QED BY <2>3, <2>4
<1>4. pc \in {"paying", "reading"} /\ (\E i \in DOMAIN keys' : keys'[i] = "y") => vend.id \in pressed'
  BY <1>1 DEF FlowOK, PaidOK
<1>5. SameSession /\ pressed \subseteq pressed'
  BY <1>1, <1>2 DEF SameSession
<1> QED BY <1>1, <1>3, <1>4, <1>5, ScreenStays

\* The operator's keys: a y on the selection's screen counts for it.
LEMMA OperatorKeeps ==
    ASSUME SystemOK, FlowOK, FlowTypeOK, PressKey \/ CtrlC, Handles, Bought' \subseteq Bought
    PROVE  FlowOK'
<1>1. UNCHANGED vars /\ UNCHANGED <<pc, vend, payment, seen, report>>
  BY DEF PressKey, CtrlC
<1>2. UNCHANGED <<sid, hand>> /\ SameSession
  BY <1>1 DEF vars, clientVars, vendVars, SameSession
<1>3. pc \in Choosing => hand'[vend.id] = "held"
  BY <1>2 DEF FlowOK, ScreenOK
<1>4. (\E i \in DOMAIN keys : keys[i] = "y") /\ pc \in {"paying", "reading"} => vend.id \in pressed
  BY DEF FlowOK, PaidOK
<1>5. CASE PressKey
  <2>1. PICK key \in {"y", "n"} :
          /\ keys' = Append(keys, key)
          /\ pressed' = IF key = "y" /\ pc \in {"showing", "paying", "reading"}
                          THEN pressed \union {vend.id} ELSE pressed
    BY <1>5 DEF PressKey
  <2>2. pressed \subseteq pressed'
    BY <2>1
  <2>3. \A i \in DOMAIN keys' : (i \in DOMAIN keys /\ keys'[i] = keys[i]) \/ keys'[i] = key
    BY <2>1, AppendHas DEF FlowTypeOK
  <2>4. pc \in {"paying", "reading"} /\ (\E i \in DOMAIN keys' : keys'[i] = "y") => vend.id \in pressed'
    BY <1>4, <2>1, <2>2, <2>3
  <2> QED BY <1>1, <1>2, <1>3, <2>2, <2>4, ScreenStays
<1>6. CASE CtrlC
  <2>1. UNCHANGED <<keys, pressed>>
    BY <1>6 DEF CtrlC
  <2>2. pc \in {"paying", "reading"} /\ (\E i \in DOMAIN keys' : keys'[i] = "y") => vend.id \in pressed'
    BY <1>4, <2>1
  <2>3. pressed \subseteq pressed'
    BY <2>1
  <2> QED BY <1>1, <1>2, <1>3, <2>2, <2>3, ScreenStays
<1> QED BY <1>5, <1>6

-----------------------------------------------------------------------------
(* Every step. *)

\* The reader's actor has its turn.
LEMMA ReaderKeeps ==
    ASSUME SystemOK, FlowOK, ReaderReceives \/ ReaderActs, UNCHANGED harnessVars
    PROVE  FlowOK'
<1> USE FactsOfSystem
<1>1. CASE ReaderReceives
  <2>1. Head(line) \in Messages /\ ReceiveMessage(Head(line))
    BY <1>1, TalkLess, MessageSets DEF ReaderReceives, SystemOK, LineOK
  <2>2. Reacts(Head(line))
    BY <2>1, ReceiveMessageReacts
  <2>3. [Next]_vars
    BY <2>1 DEF Next
  <2>4. BookStep
    BY <2>3, StepBooks
  <2>5. Surrounds
    BY <2>1, <2>2, <2>4, ActorSurrounds
  <2> QED BY <2>5, SurroundsKeeps
<1>2. CASE ReaderActs
  <2>1. ActorStep
    BY <1>2 DEF ReaderActs
  <2>2. Reacts("none")
    BY <2>1, ActorStepReacts
  <2>3. [Next]_vars
    BY <2>1 DEF Next
  <2>4. BookStep
    BY <2>3, StepBooks
  <2>5. Surrounds
    BY <2>1, <2>2, <2>4, ActorSurrounds
  <2> QED BY <2>5, SurroundsKeeps
<1> QED BY <1>1, <1>2

LEMMA RunKeeps ==
    ASSUME SystemOK, FlowOK, FlowTypeOK, RunStep \/ RefreshDisplay
    PROVE  FlowOK'
<1> USE FactsOfSystem
<1>1. ClientStep \/ UNCHANGED vars
  BY RunIsClient DEF FlowOK, RefreshDisplay, ClientStep
<1>2. UNCHANGED <<alive, answer>>
  BY <1>1, ClientRests DEF ActorRests, vars, vendVars
<1>3. Handles
  BY <1>1, HandlesOf
<1>4. /\ Bought' \subseteq Bought \union {vend.id}
      /\ ~(Decide /\ payment = "Paid") => Bought' \subseteq Bought
  BY <1>2, RunPosts, PostBuys
<1>5. CASE Decide
  BY <1>3, <1>4, <1>5, DecideKeeps
<1>6. CASE ~Decide
  <2>1. Bought' \subseteq Bought
    BY <1>4, <1>6
  <2>2. CASE BetweenVends
    BY <1>3, <2>1, <2>2, BetweenKeeps
  <2>3. CASE AwaitSelection
    BY <1>3, <2>1, <2>3, SelectionKeeps
  <2>4. CASE Prompt
    BY <1>3, <2>1, <2>4, PromptKeeps
  <2>5. CASE PaymentTimeout \/ NothingHappened
    BY <1>3, <2>1, <2>5, WaitingKeeps
  <2>6. CASE PaymentCancelled
    BY <1>3, <2>1, <2>6, CancelledKeeps
  <2>7. CASE ReadKey
    BY <1>3, <2>1, <2>7, KeyKeeps
  <2>8. CASE DecisionReturned
    BY <1>3, <2>1, <2>8, ReturnedKeeps
  <2>9. CASE DropUnwanted
    BY <1>3, <2>1, <2>9, UnwantedKeeps
  <2>10. CASE Watch
    BY <1>3, <2>1, <2>10, WatchKeeps
  <2>11. CASE WatchEnds
    BY <1>3, <2>1, <2>11, WatchEndsKeeps
  <2>12. CASE (DropEvent /\ UNCHANGED harnessVars) \/ Unwind
    BY <1>3, <2>1, <2>12, DropsKeep DEF Unwind
  <2> QED BY <1>6, <2>2, <2>3, <2>4, <2>5, <2>6, <2>7, <2>8, <2>9, <2>10, <2>11, <2>12
          DEF RunStep, BetweenVends
<1> QED BY <1>5, <1>6

LEMMA FlowKeeps ==
    ASSUME SystemOK, FlowOK, FlowTypeOK, [FlowNext]_flowVars
    PROVE  FlowOK'
<1>1. CASE (ReaderReceives \/ ReaderActs) /\ UNCHANGED harnessVars
  BY <1>1, ReaderKeeps
<1>2. CASE RunStep \/ RefreshDisplay
  BY <1>2, RunKeeps
<1>3. CASE (UNCHANGED vars \/ Quit) /\ UNCHANGED harnessVars
  BY <1>3, StillSurrounds, QuitSurrounds, SurroundsKeeps
<1>4. CASE PressKey \/ CtrlC
  <2>1. UNCHANGED vars
    BY <1>4 DEF PressKey, CtrlC
  <2>2. Handles
    BY <2>1, HandlesOf
  <2>3. Bought' \subseteq Bought
    BY <2>1, StillSurrounds DEF Surrounds
  <2> QED BY <1>4, <2>2, <2>3, OperatorKeeps
<1>5. MachineActs \/ UNCHANGED flowVars => UNCHANGED vars
  BY DEF MachineActs, flowVars, systemVars
<1>6. Quit => UNCHANGED harnessVars
  BY DEF Quit
<1>7. UNCHANGED flowVars => UNCHANGED harnessVars
  BY DEF flowVars
<1> QED BY <1>1, <1>2, <1>3, <1>4, <1>5, <1>6, <1>7 DEF FlowNext
-----------------------------------------------------------------------------
(* The types. *)

\* One conjunct each for the steps that leave the others alone.
KeysOK == keys \in Seq({"y", "n"}) /\ pressed \subseteq Vends
RoundTypeOK ==
    /\ vend \in [id : 0..MaxVends, price : Cash]
    /\ payment \in Results
    /\ seen \in [success : BOOLEAN, failure : BOOLEAN]
    /\ report \in [Vends -> Said]

LEMMA SaidTypes == \A what : report_result(what) \in Said
BY DEF report_result, Said

LEMMA KeysStep ==
    ASSUME FlowTypeOK, ScreenOK, [FlowNext]_flowVars
    PROVE  KeysOK'
<1>0. keys \in Seq({"y", "n"}) /\ pressed \subseteq Vends
  BY DEF FlowTypeOK
<1>1. CASE UNCHANGED <<keys, pressed>>
  BY <1>0, <1>1 DEF KeysOK
<1>2. CASE Prompt
  BY <1>0, <1>2 DEF Prompt, flush_input, Same, KeysOK
<1>3. CASE ReadKey
  <2>1. keys' = keys \/ (keys # <<>> /\ keys' = Tail(keys))
    BY <1>3 DEF ReadKey, read_key
  <2>2. pressed' = pressed
    BY <1>3 DEF ReadKey, Settle, Same
  <2> QED BY <1>0, <2>1, <2>2, TalkLess DEF KeysOK
<1>4. CASE PressKey
  <2>1. PICK key \in {"y", "n"} :
          /\ keys' = Append(keys, key)
          /\ pressed' = IF key = "y" /\ pc \in {"showing", "paying", "reading"}
                          THEN pressed \union {vend.id} ELSE pressed
    BY <1>4 DEF PressKey
  <2>2. keys' \in Seq({"y", "n"})
    BY <1>0, <2>1, AppendProperties
  <2>3. pc \in {"showing", "paying", "reading"} => vend.id \in Vends
    BY DEF ScreenOK, Choosing
  <2> QED BY <1>0, <2>1, <2>2, <2>3 DEF KeysOK
<1>5. CASE UNCHANGED harnessVars
  BY <1>0, <1>5 DEF harnessVars, KeysOK
<1>6. CASE RunStep \/ RefreshDisplay \/ Quit \/ CtrlC
  <2>1. \/ UNCHANGED <<keys, pressed>> \/ Prompt \/ ReadKey \/ UNCHANGED harnessVars
    BY <1>6 DEF RunStep, RefreshDisplay, Quit, CtrlC, StartRound, StopRounds, ArmReturns, StopReturns,
                InterruptedBeforeSelection, RefreshReturns, AwaitSelection, Rearm, RearmFinished,
                RearmBegins, PaymentInterrupted, PaymentTimeout, PaymentCancelled, NothingHappened,
                Decide, DecisionReturned, DropUnwanted, Watch, WatchEnds, Leave, CloseReturns,
                RoundReturns, Unwind, Settle, Same
  <2> QED BY <1>1, <1>2, <1>3, <1>5, <2>1
<1> QED BY <1>4, <1>5, <1>6 DEF FlowNext, flowVars

LEMMA RoundTypeStep ==
    ASSUME TypeOK, FlowTypeOK, [FlowNext]_flowVars
    PROVE  RoundTypeOK'
<1>0. /\ vend \in [id : 0..MaxVends, price : Cash] /\ payment \in Results
      /\ seen \in [success : BOOLEAN, failure : BOOLEAN] /\ report \in [Vends -> Said]
  BY DEF FlowTypeOK
<1>1. CASE UNCHANGED <<vend, payment, seen, report>>
  BY <1>0, <1>1 DEF RoundTypeOK
<1>2. NoSelection \in [id : 0..MaxVends, price : Cash]
      /\ Nothing \in [success : BOOLEAN, failure : BOOLEAN]
  BY BoundsAssumption DEF NoSelection, Nothing, Cash
<1>3. CASE StartRound \/ RoundReturns
  <2>1. /\ vend' = NoSelection /\ payment' \in {payment, "none"} /\ seen' \in {seen, Nothing}
        /\ report' = report
    BY <1>3 DEF StartRound, RoundReturns, Same
  <2> QED BY <1>0, <1>2, <2>1 DEF RoundTypeOK, Results
<1>4. CASE \/ InterruptedBeforeSelection \/ PaymentInterrupted \/ PaymentTimeout
           \/ PaymentCancelled \/ ReadKey
  <2>1. payment' \in Results /\ UNCHANGED <<vend, seen, report>>
    BY <1>0, <1>4 DEF InterruptedBeforeSelection, PaymentInterrupted, PaymentTimeout,
                      PaymentCancelled, ReadKey, Settle, Same, Results
  <2> QED BY <1>0, <2>1 DEF RoundTypeOK
<1>5. CASE AwaitSelection
  <2>1. Head(events).vend \in 0..MaxVends /\ Head(events).amount \in Cash
    BY <1>5, HeadEventType DEF AwaitSelection, NextEvent, Events
  <2>2. /\ vend' = vend \/ vend' = [id |-> Head(events).vend, price |-> Head(events).amount]
        /\ UNCHANGED <<payment, seen, report>>
    BY <1>5 DEF AwaitSelection, Same
  <2> QED BY <1>0, <2>1, <2>2 DEF RoundTypeOK
<1>6. CASE DecisionReturned \/ Watch \/ WatchEnds
  <2>1. UNCHANGED <<vend, payment>>
    BY <1>6 DEF DecisionReturned, Watch, WatchEnds, Same
  <2>2. seen' \in [success : BOOLEAN, failure : BOOLEAN]
    <3>1. \A e : record(e) \in [success : BOOLEAN, failure : BOOLEAN]
      BY <1>0 DEF record
    <3>2. seen' = Nothing \/ seen' = seen \/ seen' = record(Head(events))
      BY <1>6 DEF DecisionReturned, Watch, WatchEnds, Same
    <3> QED BY <1>0, <1>2, <3>1, <3>2
  <2>3. report' = report \/ \E what : report' = [report EXCEPT ![vend.id] = report_result(what)]
    BY <1>6 DEF DecisionReturned, Watch, WatchEnds, Report, Same
  <2>4. report' \in [Vends -> Said]
    BY <1>0, <2>3, SaidTypes
  <2> QED BY <1>0, <2>1, <2>2, <2>4 DEF RoundTypeOK
<1>7. CASE UNCHANGED harnessVars
  BY <1>0, <1>7 DEF harnessVars, RoundTypeOK
<1>8. CASE RunStep \/ RefreshDisplay \/ Quit \/ CtrlC \/ PressKey
  <2>1. \/ UNCHANGED <<vend, payment, seen, report>> \/ UNCHANGED harnessVars
        \/ StartRound \/ RoundReturns \/ InterruptedBeforeSelection \/ PaymentInterrupted
        \/ PaymentTimeout \/ PaymentCancelled \/ ReadKey \/ AwaitSelection
        \/ DecisionReturned \/ Watch \/ WatchEnds
    BY <1>8 DEF RunStep, RefreshDisplay, Quit, CtrlC, PressKey, StopRounds, ArmReturns, StopReturns,
                RefreshReturns, Rearm, RearmFinished, RearmBegins, Prompt, NothingHappened,
                Decide, DropUnwanted, Leave, CloseReturns, Unwind, Same
  <2> QED BY <1>1, <1>3, <1>4, <1>5, <1>6, <1>7, <2>1
<1> QED BY <1>7, <1>8 DEF FlowNext, flowVars

LEMMA FlowTypeStep ==
    ASSUME TypeOK, FlowTypeOK, ScreenOK, [FlowNext]_flowVars
    PROVE  FlowTypeOK'
<1>0. pc \in Places /\ interrupted \in BOOLEAN
  BY DEF FlowTypeOK
<1>1. pc' \in Places
  <2>1. CASE UNCHANGED pc
    BY <1>0, <2>1
  <2>2. CASE UNCHANGED harnessVars
    BY <1>0, <2>2 DEF harnessVars
  <2>3. CASE RunStep \/ RefreshDisplay \/ Quit \/ CtrlC \/ PressKey
    BY <1>0, <2>3, <2>2
       DEF RunStep, RefreshDisplay, Quit, CtrlC, PressKey, StartRound, StopRounds, ArmReturns, StopReturns,
           InterruptedBeforeSelection, RefreshReturns, AwaitSelection, Rearm, RearmFinished,
           RearmBegins, Prompt, PaymentInterrupted, PaymentTimeout, PaymentCancelled,
           NothingHappened, ReadKey, Decide, DecisionReturned, DropUnwanted, Watch, WatchEnds,
           Leave, CloseReturns, RoundReturns, Unwind, Arm, Settle, Goto, Bail, Places
  <2> QED BY <2>2, <2>3 DEF FlowNext, flowVars
<1>2. interrupted' \in BOOLEAN
  <2>1. CASE UNCHANGED harnessVars
    BY <1>0, <2>1 DEF harnessVars
  <2>2. CASE CtrlC
    BY <2>2 DEF CtrlC
  <2>3. CASE RunStep \/ RefreshDisplay \/ Quit \/ PressKey
    <3>1. UNCHANGED interrupted \/ UNCHANGED harnessVars
      BY <2>3 DEF RunStep, RefreshDisplay, Quit, PressKey, StartRound, StopRounds, ArmReturns, StopReturns,
             InterruptedBeforeSelection, RefreshReturns, AwaitSelection, Rearm, RearmFinished,
             RearmBegins, Prompt, PaymentInterrupted, PaymentTimeout, PaymentCancelled,
             NothingHappened, ReadKey, Decide, DecisionReturned, DropUnwanted, Watch, WatchEnds,
             Leave, CloseReturns, RoundReturns, Unwind, Settle, Same
    <3> QED BY <1>0, <2>1, <3>1
  <2> QED BY <2>1, <2>2, <2>3 DEF FlowNext, flowVars
<1> QED BY <1>1, <1>2, KeysStep, RoundTypeStep DEF FlowTypeOK, KeysOK, RoundTypeOK
-----------------------------------------------------------------------------
(* The theorems. *)

LEMMA InitFlow == SystemInit /\ HarnessInit => SystemOK /\ FlowTypeOK /\ FlowOK
<1> SUFFICES ASSUME SystemInit, HarnessInit PROVE SystemOK /\ FlowTypeOK /\ FlowOK
  OBVIOUS
<1>1. SystemOK
  BY SystemInitTypes, InitSafe, InitBooks, InitDecisions, InitWires DEF SystemInit, SystemOK
<1>2. FlowTypeOK
  <2>1. /\ pc = "round" /\ interrupted = FALSE /\ keys = <<>> /\ vend = NoSelection
        /\ payment = "none" /\ seen = Nothing /\ report = [v \in Vends |-> "none"] /\ pressed = {}
    BY DEF HarnessInit
  <2>2. NoSelection \in [id : 0..MaxVends, price : Cash]
    BY BoundsAssumption DEF NoSelection, Cash
  <2>3. seen \in [success : BOOLEAN, failure : BOOLEAN]
    BY <2>1 DEF Nothing
  <2>4. keys \in Seq({"y", "n"})
    BY <2>1, EmptySeq
  <2>5. report \in [Vends -> Said] /\ payment \in Results /\ pc \in Places
    BY <2>1 DEF Said, Results, Places
  <2> QED BY <2>1, <2>2, <2>3, <2>4, <2>5 DEF FlowTypeOK
<1>3. FlowOK
  <2>1. /\ pc = "round" /\ report = [v \in Vends |-> "none"]
        /\ answer = [v \in Vends |-> <<>>] /\ outcome = [v \in Vends |-> <<>>]
        /\ mailbox = <<>> /\ events = <<>>
    BY DEF HarnessInit, SystemInit, Init, ActorInit
  <2>2. Bought = {}
    <3>1. \A v \in Vends : ~Approved(v) /\ ~AskedFor(mailbox, v)
      BY <2>1 DEF Approved, AskedFor
    <3> QED BY <3>1 DEF Bought
  <2>3. Sold = {}
    BY <2>1 DEF Sold, OutcomeOf
  <2> QED BY <2>1, <2>2, <2>3
          DEF FlowOK, ScreenOK, PaidOK, UnpaidOK, RoundOK, NewsOK, SeenOK, ReportedOK, WhyOK,
              Choosing, Deciders
<1> QED BY <1>1, <1>2, <1>3

LEMMA FlowStep ==
    ASSUME SystemOK, FlowTypeOK, FlowOK, [FlowNext]_flowVars
    PROVE  SystemOK' /\ FlowTypeOK' /\ FlowOK'
<1>1. ScreenOK /\ TypeOK
  BY DEF FlowOK, SystemOK, SystemTypeOK
<1>2. SystemOK'
  BY <1>1, FlowSteps, SystemStays, QuitKeeps
<1> QED BY <1>1, <1>2, FlowTypeStep, FlowKeeps

\* The inductive invariant of the flow test: whatever is approved was paid for on
\* its own screen, a round has one vend at most that is, and every outcome its
\* session hears of is of that vend and true.
THEOREM FlowStaysRight == FlowSpec => [](SystemOK /\ FlowTypeOK /\ FlowOK)
BY InitFlow, FlowStep, PTL DEF FlowSpec

\* The variables of the flow test and of the system under it keep their types.
THEOREM HarnessTypes == FlowSpec => []HarnessTypeOK
<1>1. SystemOK /\ FlowTypeOK => HarnessTypeOK
  BY DEF SystemOK, FlowTypeOK, HarnessTypeOK
<1> QED BY <1>1, FlowStaysRight, PTL

\* Until the process ends, the flow test is an application like any other: what
\* is proved of the system holds for it, reports and reality included
\* (ReportsMatchProduct), if customers are patient.
THEOREM FlowReportsAreTrue == Patient => (FlowSpec => []ReportsMatchProduct)
<1> SUFFICES ASSUME Patient PROVE FlowSpec => []ReportsMatchProduct
  OBVIOUS
<1>1. SystemOK => ReportsMatchProduct
  BY DEF SystemOK, WiresOK
<1> QED BY <1>1, FlowStaysRight, PTL

\* A vend is approved only for a y pressed while its own selection was on the
\* screen: flush_input and the order of wait_for_payment let no key of an
\* earlier round, session or prompt pay for it.
THEOREM VendsArePaidFor == FlowSpec => []PaidForThisVend
<1>1. FlowOK => PaidForThisVend
  BY DEF FlowOK, PaidOK, Bought, PaidForThisVend
<1> QED BY <1>1, FlowStaysRight, PTL

\* What report_result says of a round is what became of the product: "no vend"
\* was never dispensed, "did not vend" is not in the tray, and "vended" is,
\* unless a reset made the reader assume so; customers are taken to be patient.
THEOREM RoundsReportHonestly == Patient => (FlowSpec => []ReportsHonest)
<1> SUFFICES ASSUME Patient PROVE FlowSpec => []ReportsHonest
  OBVIOUS
<1>1. ASSUME SystemOK, FlowOK, NEW v \in Vends
      PROVE  /\ report[v] = "no vend" => product[v] = "none"
             /\ report[v] = "did not vend" => product[v] \in {"none", "failed"}
             /\ report[v] = "vended" =>
                  product[v] = "dispensed" \/ outcome[v][1].why = "AssumedAfterReset"
  <2>1. /\ report[v] = "vended" => v \in Sold
        /\ report[v] = "did not vend" => v \in Unsold
        /\ report[v] = "no vend" => v \in Declined
    BY <1>1 DEF FlowOK, ReportedOK
  <2>2. ReportsMatchProduct /\ ProductOK
    BY <1>1 DEF SystemOK, WiresOK
  <2>3. v \in Sold => product[v] = "dispensed" \/ outcome[v][1].why = "AssumedAfterReset"
    BY <1>1, <2>2 DEF FlowOK, WhyOK, Sold, OutcomeOf, ReportsMatchProduct
  <2>4. v \in Unsold => product[v] \in {"none", "failed"}
    BY <2>2 DEF Unsold, OutcomeOf, ReportsMatchProduct
  <2>5. v \in Declined => product[v] = "none"
    <3>1. v \in Declined => ~HasApproval(answer[v])
      BY DEF Declined, Approved, HasApproval, Names
    <3> QED BY <2>2, <3>1 DEF ProductOK
  <2> QED BY <2>1, <2>3, <2>4, <2>5
<1>2. SystemOK /\ FlowOK => ReportsHonest
  BY <1>1 DEF ReportsHonest
<1> QED BY <1>2, FlowStaysRight, PTL
=============================================================================
