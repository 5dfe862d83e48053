---------------------------- MODULE MdbClientProofs ----------------------------
(***************************************************************************)
(* Theorems about MdbClient, for every number of sessions, vends and       *)
(* entries of invalid_vends, every set of amounts and messages, and a link *)
(* that may break or not: types, then how often a vend is answered, and    *)
(* then the books that are kept of it.                                     *)
(***************************************************************************)
EXTENDS MdbClient, SequenceTheorems, FiniteSetTheorems, TLAPS

-----------------------------------------------------------------------------
(* The type invariant, cut along what the handlers touch. *)

\* What a step shows to the outside.
OutputOK ==
    /\ wrote \in Frames
    /\ answer \in [Vends -> Seq(Frames)]
    /\ outcome \in [Vends -> Seq(Events)]
    /\ events \in Seq(Events)

\* What Calm leaves alone.
KeptOK ==
    /\ alive \in {"running", "exited", "failed"}
    /\ status \in Statuses
    /\ completed \in Summaries
    /\ maximumKnown \in BOOLEAN
    /\ display \in DisplayStates
    /\ app \in AppStates
    /\ sid \in 0..MaxSessions
    /\ reply \in {"none", "ok", "err"}
    /\ verdict \in [Vends -> Verdicts]

HandlerOK ==
    /\ OutputOK /\ KeptOK
    /\ active \in SessionRecords
    /\ invalid \in Seq(InvalidEntries)

\* What only the arms of the select! and the application touch.
ArmsOK ==
    /\ closed \in BOOLEAN /\ exitArmed \in BOOLEAN /\ stopWaiter \in BOOLEAN
    /\ vid \in 0..MaxVends
    /\ home \in [Vends -> 0..MaxSessions]
    /\ hand \in [Vends -> HandStates]
    /\ mailbox \in Seq(Commands)

LEMMA TypeParts == TypeOK <=> HandlerOK /\ ArmsOK
BY DEF TypeOK, ActorTypeOK, ClientTypeOK, HandlerOK, ArmsOK, OutputOK, KeptOK

LEMMA TypePartsAfter == HandlerOK' /\ ArmsOK' => TypeOK'
BY DEF TypeOK, ActorTypeOK, ClientTypeOK, HandlerOK, ArmsOK, OutputOK, KeptOK

-----------------------------------------------------------------------------
(* Frames, events and records. *)

LEMMA FrameType ==
    /\ \A name \in FrameNames, v \in 0..MaxVends, amount \in Cash :
         VendFrame(name, v, amount) \in Frames
    /\ \A name \in FrameNames : Frame(name) \in Frames
    /\ NoFrame \in Frames
BY BoundsAssumption DEF VendFrame, Frame, NoFrame, Frames, FrameNames, Cash

LEMMA VendEventType ==
    \A kind \in EventKinds, v \in 0..MaxVends, amount \in Cash, why \in Whys :
      /\ VendEvent(kind, v, amount, why) \in Events
      /\ <<VendEvent(kind, v, amount, why)>> \in Seq(Events)
BY DEF VendEvent, Events

LEMMA EndedType ==
    ASSUME NEW reason \in Reasons
    PROVE  Ended(reason) \in Events /\ <<Ended(reason)>> \in Seq(Events)
<1>1. "Ended" \in EventKinds /\ reason \in Whys
  BY DEF EventKinds, Whys
<1>2. 0 \in 0..MaxVends /\ 0 \in Cash
  BY BoundsAssumption DEF Cash
<1>3. QED
  BY <1>1, <1>2, VendEventType DEF Ended

LEMMA NoneType == NoVend \in VendRecords /\ NoSummary \in Summaries
BY BoundsAssumption
   DEF NoVend, NoSummary, VendRecords, Summaries, Cash, Reasons

LEMMA NewSessionType ==
    ASSUME NEW id \in 0..MaxSessions
    PROVE  NewSession(id) \in SessionRecords
<1>1. [NoSummary EXCEPT !.id = id] \in Summaries
  BY NoneType DEF Summaries
<1>2. QED
  BY <1>1, NoneType DEF NewSession, SessionRecords, Reasons, Phases

LEMMA NoSessionType == NoSession \in SessionRecords
<1>1. NewSession(0) \in SessionRecords
  BY NewSessionType, BoundsAssumption
<1>2. QED
  BY <1>1 DEF NoSession, SessionRecords, Phases

\* A session stays one when its phase moves, with the vend of the phase.
LEMMA PhaseType ==
    ASSUME NEW s \in SessionRecords, NEW p \in Phases
    PROVE  /\ [s EXCEPT !.phase = p] \in SessionRecords
           /\ \A v \in VendRecords : [s EXCEPT !.phase = p, !.vend = v] \in SessionRecords
           /\ \A a \in Cash : [s EXCEPT !.phase = p, !.vend.amount = a] \in SessionRecords
BY DEF SessionRecords, VendRecords

LEMMA IdlingType ==
    ASSUME NEW s \in SessionRecords
    PROVE  Idling(s) \in SessionRecords
BY NoneType, PhaseType DEF Idling, Phases

LEMMA ApprovedVendType ==
    ASSUME NEW s \in SessionRecords
    PROVE  ApprovedVend(s) \in VendRecords
BY NoneType DEF ApprovedVend, SessionRecords

-----------------------------------------------------------------------------
(* Building blocks. *)

LEMMA EmitType ==
    ASSUME TypeOK, NEW evs \in Seq(Events), Emit(evs)
    PROVE  events' \in Seq(Events) /\ outcome' \in [Vends -> Seq(Events)]
<1>1. events' \in Seq(Events)
  BY ConcatProperties DEF Emit, TypeOK, ClientTypeOK
<1>2. outcome' \in [Vends -> Seq(Events)]
  <2>1. CASE evs = <<>>
    BY <2>1 DEF Emit, TypeOK, ActorTypeOK
  <2>2. CASE evs # <<>>
    <3>1. evs[1] \in Events
      BY <2>2, EmptySeq, ElementOfSeq
    <3>2. \A v \in Vends : Append(outcome[v], evs[1]) \in Seq(Events)
      BY <3>1, AppendProperties DEF TypeOK, ActorTypeOK
    <3>3. QED
      BY <3>2 DEF Emit, TypeOK, ActorTypeOK
  <2>3. QED
    BY <2>1, <2>2
<1>3. QED
  BY <1>1, <1>2

LEMMA LoggedType ==
    ASSUME TypeOK, NEW frame \in Frames, Logged(frame)
    PROVE  answer' \in [Vends -> Seq(Frames)]
<1>1. \A v \in Vends : Append(answer[v], frame) \in Seq(Frames)
  BY AppendProperties DEF TypeOK, ActorTypeOK
<1>2. QED
  BY <1>1 DEF Logged, TypeOK, ActorTypeOK

LEMMA SentOutput ==
    ASSUME TypeOK, NEW frame \in Frames, NEW evs \in Seq(Events),
           wrote' = frame, Logged(frame), Emit(evs)
    PROVE  OutputOK'
BY EmitType, LoggedType DEF OutputOK

LEMMA QuietOutput ==
    ASSUME TypeOK, NEW evs \in Seq(Events), Quiet(evs)
    PROVE  OutputOK'
BY EmitType, FrameType DEF Quiet, OutputOK, TypeOK, ActorTypeOK

LEMMA CalmKept ==
    ASSUME TypeOK, Calm
    PROVE  KeptOK'
BY TypeParts DEF Calm, KeptOK, HandlerOK, configVars, clientVars

LEMMA DropRepliesType ==
    ASSUME TypeOK, NEW stopped \in {"ok", "err"}, DropReplies(stopped)
    PROVE  reply' \in {"none", "ok", "err"} /\ verdict' \in [Vends -> Verdicts]
<1>1. reply' \in {"none", "ok", "err"}
  BY DEF DropReplies, TypeOK, ClientTypeOK
<1>2. verdict' \in [Vends -> Verdicts]
  BY DEF DropReplies, TypeOK, ClientTypeOK, Verdicts
<1>3. QED
  BY <1>1, <1>2

\* Whatever was sent before, an actor that fails keeps the types.
LEMMA FailType ==
    ASSUME TypeOK, NEW before \in Seq(Events), fail(before),
           NEW sent \in Frames, wrote' = sent, Logged(sent) \/ UNCHANGED answer
    PROVE  HandlerOK'
<1> DEFINE ended == IF active = NoSession THEN <<>> ELSE <<Ended("Disconnected")>>
<1>1. ended \in Seq(Events)
  BY EndedType, EmptySeq DEF Reasons
<1>2. before \o ended \in Seq(Events)
  BY <1>1, ConcatProperties
<1>3. OutputOK'
  <2>1. Emit(before \o ended)
    BY DEF fail
  <2>2. answer' \in [Vends -> Seq(Frames)]
    BY LoggedType DEF TypeOK, ActorTypeOK
  <2>3. QED
    BY <1>2, <2>1, <2>2, EmitType DEF OutputOK
<1>4. KeptOK'
  BY DropRepliesType, TypeParts DEF fail, KeptOK, HandlerOK, Statuses, configVars, clientVars
<1>5. QED
  BY <1>3, <1>4, NoSessionType, TypeParts DEF fail, HandlerOK

\* The second disjunct of Send.
LEMMA SendFails ==
    ASSUME TypeOK, NEW frame \in Frames, NEW before \in Seq(Events), fail(before),
           \E sent \in {frame, NoFrame} : wrote' = sent /\ Logged(sent)
    PROVE  HandlerOK'
BY FailType, FrameType

\* The table of invalid vends.
LEMMA InvalidateType ==
    ASSUME TypeOK, NEW id \in 0..MaxVends, NEW error \in DecisionErrors
    PROVE  invalidate_vend(id, error) \in Seq(InvalidEntries)
<1> DEFINE entry == [id |-> id, error |-> error]
           grown == Append(invalid, entry)
<1>1. invalid \in Seq(InvalidEntries) /\ entry \in InvalidEntries
  BY DEF TypeOK, ActorTypeOK, InvalidEntries
<1>2. grown \in Seq(InvalidEntries) /\ grown # <<>>
  BY <1>1, AppendProperties
<1>3. Tail(grown) \in Seq(InvalidEntries)
  BY <1>2, HeadTailProperties
<1>4. [i \in DOMAIN invalid |-> IF invalid[i].id = id THEN entry ELSE invalid[i]]
        \in Seq(InvalidEntries)
  <2>1. Len(invalid) \in Nat /\ DOMAIN invalid = 1..Len(invalid)
    BY <1>1, LenProperties
  <2>2. \A i \in 1..Len(invalid) : invalid[i] \in InvalidEntries
    BY <1>1, ElementOfSeq
  <2>3. QED
    BY <1>1, <2>1, <2>2, SeqDef
<1>5. QED
  BY <1>2, <1>3, <1>4 DEF invalidate_vend

LEMMA TakeInvalidType ==
    ASSUME TypeOK, NEW id \in InvalidIds
    PROVE  /\ take_invalid_vend(id) \in Seq(InvalidEntries)
           /\ invalid[CHOOSE i \in DOMAIN invalid : invalid[i].id = id].error \in DecisionErrors
<1> DEFINE k == CHOOSE i \in DOMAIN invalid : invalid[i].id = id
           taken == [j \in 1..(Len(invalid) - 1) |-> IF j < k THEN invalid[j] ELSE invalid[j + 1]]
<1>1. invalid \in Seq(InvalidEntries)
  BY DEF TypeOK, ActorTypeOK
<1>2. Len(invalid) \in Nat /\ DOMAIN invalid = 1..Len(invalid)
  BY <1>1, LenProperties
<1>3. \A i \in 1..Len(invalid) : invalid[i] \in InvalidEntries
  BY <1>1, ElementOfSeq
<1>4. k \in 1..Len(invalid)
  BY <1>2 DEF InvalidIds
<1>5. taken \in Seq(InvalidEntries)
  <2>1. Len(invalid) - 1 \in Nat
    BY <1>2, <1>4
  <2>2. \A j \in 1..(Len(invalid) - 1) : taken[j] \in InvalidEntries
    BY <1>2, <1>3, <1>4, <2>1
  <2>3. QED
    BY <2>1, <2>2, SeqDef
<1>6. QED
  BY <1>3, <1>4, <1>5 DEF take_invalid_vend, InvalidEntries

-----------------------------------------------------------------------------
(* The handlers of the machine's messages keep the types. *)

LEMMA InitiateEndType ==
    ASSUME TypeOK, NEW s \in SessionRecords, NEW before \in Seq(Events),
           initiate_end(s, before)
    PROVE  HandlerOK'
<1> DEFINE e == [s EXCEPT !.endRequested = TRUE, !.summary.reason = "ApplicationRequested"]
<1>1. e \in SessionRecords
  BY DEF SessionRecords, Summaries, Reasons
<1>2. active \in SessionRecords /\ invalid \in Seq(InvalidEntries)
  BY DEF TypeOK, ActorTypeOK
<1>3. CASE s.phase = "Idle"
  <2> DEFINE frame == Frame("SessionCancel")
  <2>1. frame \in Frames
    BY FrameType DEF FrameNames
  <2>2. [e EXCEPT !.phase = "AwaitingSessionComplete"] \in SessionRecords
    BY <1>1, PhaseType DEF Phases
  <2>3. QED
    BY <1>2, <1>3, <2>1, <2>2, SendFails, SentOutput, CalmKept DEF initiate_end, Send, HandlerOK
<1>4. CASE s.phase = "VendPending"
  <2> DEFINE frame == VendFrame("Deny", s.vend.id, 0)
  <2>1. frame \in Frames /\ s.vend.id \in 0..MaxVends
    BY FrameType DEF FrameNames, SessionRecords, VendRecords, Cash
  <2>2. [e EXCEPT !.phase = "DenyingForEnd"] \in SessionRecords
    BY <1>1, PhaseType DEF Phases
  <2>3. invalidate_vend(s.vend.id, "SessionEnded") \in Seq(InvalidEntries)
    BY <2>1, InvalidateType DEF DecisionErrors
  <2>4. QED
    BY <1>4, <2>1, <2>2, <2>3, SendFails, SentOutput, CalmKept DEF initiate_end, Send, HandlerOK
<1>5. CASE s.phase \notin {"Idle", "VendPending"}
  BY <1>1, <1>2, <1>5, QuietOutput, CalmKept DEF initiate_end, HandlerOK
<1>6. QED
  BY <1>3, <1>4, <1>5

LEMMA OutOfSequenceType ==
    ASSUME TypeOK, command_out_of_sequence
    PROVE  HandlerOK'
<1> DEFINE frame == Frame("CommandOutOfSequence")
           expired == IF Pending
                        THEN <<VendEvent("VendDecisionExpired", active.vend.id, 0, "SessionEnded")>>
                        ELSE <<>>
<1>1. active \in SessionRecords /\ invalid \in Seq(InvalidEntries)
  BY DEF TypeOK, ActorTypeOK
<1>2. frame \in Frames
  BY FrameType DEF FrameNames
<1>3. active.vend.id \in 0..MaxVends
  BY <1>1 DEF SessionRecords, VendRecords
<1>4. expired \in Seq(Events)
  <2>1. "VendDecisionExpired" \in EventKinds /\ "SessionEnded" \in Whys /\ 0 \in Cash
    BY DEF EventKinds, Whys, DecisionErrors, Cash
  <2>2. QED
    BY <1>3, <2>1, VendEventType, EmptySeq
<1>5. invalidate_vend(active.vend.id, "SessionEnded") \in Seq(InvalidEntries)
  BY <1>3, InvalidateType DEF DecisionErrors
<1>6. [active EXCEPT !.phase = "AwaitingReset", !.vend = ApprovedVend(active)] \in SessionRecords
  BY <1>1, ApprovedVendType, PhaseType DEF Phases
<1>7. QED
  BY <1>1, <1>2, <1>4, <1>5, <1>6, SendFails, SentOutput, CalmKept
     DEF command_out_of_sequence, Send, HandlerOK

\* complete_active, and what it publishes.
LEMMA CompleteType ==
    ASSUME TypeOK, NEW s \in SessionRecords, NEW reason \in Reasons, complete_active(s, reason)
    PROVE  /\ active' \in SessionRecords
           /\ completed' \in Summaries
           /\ reply' \in {"none", "ok", "err"}
           /\ StatusAfter(reason) \in Statuses
<1>1. s.summary \in Summaries
  BY DEF SessionRecords
<1>2. [s.summary EXCEPT !.reason = reason] \in Summaries
  BY <1>1 DEF Summaries
<1>3. QED
  BY <1>2, NoSessionType
     DEF complete_active, StatusAfter, Statuses, TypeOK, ActorTypeOK, ClientTypeOK

LEMMA AckType ==
    ASSUME TypeOK, handle_ack
    PROVE  HandlerOK'
<1>1. active \in SessionRecords /\ invalid \in Seq(InvalidEntries)
  BY DEF TypeOK, ActorTypeOK
<1>2. <<>> \in Seq(Events)
  BY EmptySeq
<1>3. CASE active.phase = "DenyingForEnd"
  <2> DEFINE frame == Frame("SessionCancel")
  <2>1. frame \in Frames
    BY FrameType DEF FrameNames
  <2>2. [active EXCEPT !.phase = "AwaitingSessionComplete", !.vend = NoVend] \in SessionRecords
    BY <1>1, NoneType, PhaseType DEF Phases
  <2>3. QED
    BY <1>1, <1>2, <1>3, <2>1, <2>2, SendFails, SentOutput, CalmKept
       DEF handle_ack, Send, HandlerOK
<1>4. CASE active.phase = "AwaitingEndSessionAck"
  <2>1. active.endReason \in Reasons
    BY <1>1 DEF SessionRecords
  <2>2. OutputOK'
    BY <1>4, <2>1, EndedType, QuietOutput DEF handle_ack
  <2>3. /\ complete_active(active, active.endReason)
        /\ status' = StatusAfter(active.endReason)
        /\ UNCHANGED <<alive, invalid, configVars, clientVars, verdict>>
    BY <1>4 DEF handle_ack
  <2>4. QED
    BY <1>1, <2>1, <2>2, <2>3, CompleteType, TypeParts
       DEF HandlerOK, KeptOK, configVars, clientVars
<1>5. CASE active.phase \notin {"DenyingForEnd", "AwaitingEndSessionAck"}
  BY <1>1, <1>2, <1>5, QuietOutput, CalmKept DEF handle_ack, HandlerOK
<1>6. QED
  BY <1>3, <1>4, <1>5

LEMMA ResetType ==
    ASSUME TypeOK, handle_reset
    PROVE  HandlerOK'
<1> DEFINE vend == ApprovedVend(active)
           assumed == IF vend = NoVend THEN <<>>
                      ELSE <<VendEvent("VendSucceeded", vend.id, vend.amount, "AssumedAfterReset")>>
           s == [active EXCEPT !.summary.successes = @ + Len(assumed)]
<1>1. active \in SessionRecords /\ invalid \in Seq(InvalidEntries)
  BY DEF TypeOK, ActorTypeOK
<1>2. assumed \in Seq(Events)
  <2>1. vend.id \in 0..MaxVends /\ vend.amount \in Cash
    BY <1>1, ApprovedVendType DEF VendRecords
  <2>2. "VendSucceeded" \in EventKinds /\ "AssumedAfterReset" \in Whys
    BY DEF EventKinds, Outcomes, Whys
  <2>3. QED
    BY <2>1, <2>2, VendEventType, EmptySeq
<1>3. s \in SessionRecords
  <2> DEFINE n == Len(assumed)
             sum == active.summary
             more == [sum EXCEPT !.successes = @ + n]
  <2>1. n \in Nat
    BY <1>2, LenProperties
  <2>2. s = [active EXCEPT !.summary = more]
    OBVIOUS
  <2> HIDE DEF n, s, vend, assumed
  <2>3. sum \in Summaries
    BY <1>1 DEF SessionRecords
  <2> HIDE DEF sum
  <2>4. sum.successes + n \in Nat
    BY <2>1, <2>3 DEF Summaries
  <2>5. more \in Summaries
    BY <2>3, <2>4 DEF Summaries
  <2> HIDE DEF more
  <2>6. QED
    BY <1>1, <2>2, <2>5 DEF SessionRecords
<1>4. "Reset" \in Reasons
  BY DEF Reasons
<1>5. Append(assumed, Ended("Reset")) \in Seq(Events)
  BY <1>2, <1>4, EndedType, AppendProperties
<1>6. invalidate_vend(active.vend.id, "SessionEnded") \in Seq(InvalidEntries)
  BY <1>1, InvalidateType DEF DecisionErrors, SessionRecords, VendRecords
<1>7. OutputOK'
  BY <1>5, EmptySeq, QuietOutput DEF handle_reset
<1>8. active' \in SessionRecords /\ completed' \in Summaries /\ reply' \in {"none", "ok", "err"}
  BY <1>1, <1>3, <1>4, CompleteType DEF handle_reset, TypeOK, ActorTypeOK, ClientTypeOK
<1>9. QED
  BY <1>1, <1>6, <1>7, <1>8, DisplayAssumption, TypeParts
     DEF handle_reset, HandlerOK, KeptOK, Statuses, DisplayStates, clientVars

LEMMA ReaderControlType ==
    ASSUME TypeOK, NEW newStatus \in {"Enabled", "Disabled"}, handle_reader_control(newStatus)
    PROVE  HandlerOK'
<1>1. CASE command_out_of_sequence
  BY <1>1, OutOfSequenceType
<1>2. CASE ~command_out_of_sequence
  BY <1>2, EmptySeq, QuietOutput, TypeParts
     DEF handle_reader_control, HandlerOK, KeptOK, Statuses, configVars, clientVars
<1>3. QED
  BY <1>1, <1>2

LEMMA SetupType ==
    ASSUME TypeOK, handle_setup_configuration \/ handle_setup_prices
    PROVE  HandlerOK'
BY EmptySeq, QuietOutput, DisplayAssumption, TypeParts
   DEF handle_setup_configuration, handle_setup_prices, HandlerOK, KeptOK, Statuses,
       DisplayStates, clientVars

LEMMA ReaderCancelType ==
    ASSUME TypeOK, handle_reader_cancel
    PROVE  HandlerOK'
<1>1. CASE command_out_of_sequence
  BY <1>1, OutOfSequenceType
<1>2. CASE ~command_out_of_sequence
  <2> DEFINE frame == Frame("Cancelled")
  <2>1. frame \in Frames
    BY FrameType DEF FrameNames
  <2>2. active \in SessionRecords /\ invalid \in Seq(InvalidEntries) /\ <<>> \in Seq(Events)
    BY EmptySeq DEF TypeOK, ActorTypeOK
  <2>3. QED
    BY <1>2, <2>1, <2>2, SendFails, SentOutput, CalmKept
       DEF handle_reader_cancel, Send, HandlerOK
<1>3. QED
  BY <1>1, <1>2

LEMMA VendCancelType ==
    ASSUME TypeOK, handle_vend_cancel
    PROVE  HandlerOK'
<1> DEFINE told == <<VendEvent("VendCancelled", active.vend.id, 0, "")>>
           frame == VendFrame("Deny", active.vend.id, 0)
           cancelled(s) == [s EXCEPT !.summary.cancels = @ + 1]
<1>1. active \in SessionRecords
  BY DEF TypeOK, ActorTypeOK
<1>2. active.vend.id \in 0..MaxVends /\ 0 \in Cash
  BY <1>1 DEF SessionRecords, VendRecords, Cash
<1>3. told \in Seq(Events)
  <2>1. "VendCancelled" \in EventKinds /\ "" \in Whys
    BY DEF EventKinds, Whys
  <2>2. QED
    BY <1>2, <2>1, VendEventType
<1>4. frame \in Frames
  BY <1>2, FrameType DEF FrameNames
<1>5. invalidate_vend(active.vend.id, "Cancelled") \in Seq(InvalidEntries)
  BY <1>2, InvalidateType DEF DecisionErrors
<1>6. \A s \in SessionRecords : cancelled(s) \in SessionRecords
  BY DEF SessionRecords, Summaries
<1>7. cancelled(active) \in SessionRecords /\ cancelled(Idling(active)) \in SessionRecords
  BY <1>1, <1>6, IdlingType
<1>8. CASE Pending
  BY <1>3, <1>4, <1>5, <1>7, <1>8, EmptySeq, SendFails, SentOutput, CalmKept
     DEF handle_vend_cancel, Send, HandlerOK, Pending
<1>9. CASE active.phase = "DenyingForEnd"
  <2>1. /\ invalid' = invalidate_vend(active.vend.id, "Cancelled")
        /\ active' = cancelled(active)
        /\ Quiet(told) /\ Calm
    BY <1>9 DEF handle_vend_cancel, Pending
  <2>2. QED
    BY <1>3, <1>5, <1>7, <2>1, QuietOutput, CalmKept DEF HandlerOK
<1>10. CASE command_out_of_sequence
  BY <1>10, OutOfSequenceType
<1>11. QED
  BY <1>8, <1>9, <1>10 DEF handle_vend_cancel

LEMMA SessionCompleteType ==
    ASSUME TypeOK, handle_session_complete
    PROVE  HandlerOK'
<1> DEFINE frame == Frame("EndSession")
           closing == [active EXCEPT !.phase = "AwaitingEndSessionAck", !.vend = NoVend,
                                     !.endReason = active.summary.reason]
<1>1. active \in SessionRecords /\ invalid \in Seq(InvalidEntries) /\ <<>> \in Seq(Events)
  BY EmptySeq DEF TypeOK, ActorTypeOK
<1>2. frame \in Frames
  BY FrameType DEF FrameNames
<1>3. closing \in SessionRecords
  BY <1>1, NoneType DEF SessionRecords, Summaries, Phases
<1>4. CASE command_out_of_sequence
  BY <1>4, OutOfSequenceType
<1>5. CASE ~command_out_of_sequence
  BY <1>1, <1>2, <1>3, <1>5, SendFails, SentOutput, CalmKept
     DEF handle_session_complete, Send, HandlerOK
<1>6. QED
  BY <1>4, <1>5

LEMMA VendResultType ==
    ASSUME TypeOK, NEW kind \in EventKinds, NEW why \in Whys, NEW counted \in SessionRecords,
           VendResult(kind, why, counted)
    PROVE  HandlerOK'
<1> DEFINE told == <<VendEvent(kind, active.vend.id, active.vend.amount, why)>>
<1>1. active \in SessionRecords /\ invalid \in Seq(InvalidEntries)
  BY DEF TypeOK, ActorTypeOK
<1>2. told \in Seq(Events)
  BY <1>1, VendEventType DEF SessionRecords, VendRecords
<1>3. Idling(counted) \in SessionRecords
  BY IdlingType
<1>4. CASE command_out_of_sequence
  BY <1>4, OutOfSequenceType
<1>5. CASE initiate_end(Idling(counted), told)
  BY <1>2, <1>3, <1>5, InitiateEndType
<1>6. CASE active' = Idling(counted) /\ Quiet(told) /\ UNCHANGED invalid /\ Calm
  BY <1>1, <1>2, <1>3, <1>6, QuietOutput, CalmKept DEF HandlerOK
<1>7. QED
  BY <1>4, <1>5, <1>6 DEF VendResult

LEMMA VendOutcomeType ==
    ASSUME TypeOK, handle_vend_success \/ handle_vend_failure
    PROVE  HandlerOK'
<1>1. active \in SessionRecords
  BY DEF TypeOK, ActorTypeOK
<1>2. /\ [active EXCEPT !.summary.successes = @ + 1] \in SessionRecords
      /\ [active EXCEPT !.summary.failures = @ + 1] \in SessionRecords
  BY <1>1 DEF SessionRecords, Summaries
<1>3. {"VendSucceeded", "VendFailed"} \subseteq EventKinds /\ {"Confirmed", ""} \subseteq Whys
  BY DEF EventKinds, Outcomes, Whys
<1>4. CASE handle_vend_success
  BY <1>2, <1>3, <1>4, VendResultType DEF handle_vend_success
<1>5. CASE handle_vend_failure
  BY <1>2, <1>3, <1>5, VendResultType DEF handle_vend_failure
<1>6. QED
  BY <1>4, <1>5

LEMMA AdapterMessageType ==
    ASSUME TypeOK, NEW m, handle_adapter_message(m)
    PROVE  HandlerOK'
<1>1. CASE Quiet(<<>>) /\ UNCHANGED <<active, invalid>> /\ Calm
  BY <1>1, EmptySeq, QuietOutput, CalmKept DEF HandlerOK, TypeOK, ActorTypeOK
<1>2. QED
  BY <1>1, AckType, ResetType, SetupType, ReaderControlType, ReaderCancelType,
     VendCancelType, VendOutcomeType, SessionCompleteType DEF handle_adapter_message

\* A VEND REQUEST also numbers the vend and places its capability.
LEMMA VendRequestType ==
    ASSUME TypeOK, handle_vend_request, UNCHANGED stopVars
    PROVE  TypeOK'
<1>1. active \in SessionRecords /\ invalid \in Seq(InvalidEntries) /\ <<>> \in Seq(Events)
  BY EmptySeq DEF TypeOK, ActorTypeOK
<1>2. mailbox \in Seq(Commands)
  BY DEF TypeOK, ClientTypeOK
<1>3. \A q \in Seq(Commands) : Queue(q) => mailbox' \in Seq(Commands)
  BY EmptySeq DEF Queue
<1>4. closed' \in BOOLEAN /\ exitArmed' \in BOOLEAN /\ stopWaiter' \in BOOLEAN
  BY DEF stopVars, TypeOK, ActorTypeOK
<1>5. CASE command_out_of_sequence /\ UNCHANGED vendVars /\ Queue(mailbox)
  BY <1>2, <1>3, <1>4, <1>5, OutOfSequenceType, TypeParts, TypePartsAfter DEF vendVars, ArmsOK
<1>6. CASE active.phase = "Idle" /\ vid < MaxVends
  <2> DEFINE v == vid + 1
  <2>1. v \in Vends /\ v \in 0..MaxVends
    BY <1>6, BoundsAssumption DEF Vends, TypeOK, ActorTypeOK
  <2>2. /\ vid' = v /\ home' = [home EXCEPT ![v] = active.id]
        /\ \E place \in {"queued", "gone"} : hand' = [hand EXCEPT ![v] = place]
    BY <1>6 DEF handle_vend_request
  <2>3. vid' \in 0..MaxVends /\ home' \in [Vends -> 0..MaxSessions]
        /\ hand' \in [Vends -> HandStates]
    BY <1>1, <2>1, <2>2 DEF TypeOK, ActorTypeOK, ClientTypeOK, SessionRecords, HandStates
  <2>4. CASE HasSender /\ Listening
    <3>1. PICK price \in Amounts :
            /\ active' = [active EXCEPT !.phase = "VendPending",
                                        !.vend = [id |-> v, price |-> price, amount |-> 0]]
            /\ Quiet(<<VendEvent("VendRequested", v, price, "")>>)
      BY <1>6, <2>4 DEF handle_vend_request
    <3>2. price \in Cash /\ 0 \in Cash
      BY DEF Cash
    <3>3. active' \in SessionRecords
      BY <1>1, <2>1, <3>1, <3>2, PhaseType DEF VendRecords, Phases
    <3>4. "VendRequested" \in EventKinds /\ "" \in Whys
      BY DEF EventKinds, Whys
    <3>5. OutputOK'
      BY <2>1, <3>1, <3>2, <3>4, VendEventType, QuietOutput
    <3>6. UNCHANGED invalid /\ Calm /\ Queue(mailbox)
      BY <1>6, <2>4 DEF handle_vend_request
    <3>7. QED
      BY <1>1, <1>2, <1>3, <1>4, <2>3, <3>3, <3>5, <3>6, CalmKept, TypePartsAfter
         DEF HandlerOK, ArmsOK
  <2>5. CASE HasSender /\ ~Listening
    <3> DEFINE abandon == [op |-> "AbandonVend", id |-> v, arg |-> 0]
               frame == VendFrame("Deny", v, 0)
    <3>1. abandon \in Commands
      BY <2>1 DEF Commands, VendOps, Cash
    <3>2. Append(mailbox, abandon) \in Seq(Commands)
      BY <1>2, <3>1, AppendProperties
    <3>3. frame \in Frames
      BY <2>1, FrameType DEF FrameNames, Cash
    <3>4. invalidate_vend(v, "Abandoned") \in Seq(InvalidEntries)
      BY <2>1, InvalidateType DEF DecisionErrors
    <3>5. HandlerOK'
      BY <1>1, <1>6, <2>5, <3>3, <3>4, SendFails, SentOutput, CalmKept
         DEF handle_vend_request, Send, HandlerOK
    <3>6. Queue(Append(mailbox, abandon))
      BY <1>6, <2>5 DEF handle_vend_request
    <3>7. QED
      BY <1>3, <1>4, <2>3, <3>2, <3>5, <3>6, TypePartsAfter DEF ArmsOK
  <2>6. CASE ~HasSender
    <3>1. wrote' = NoFrame /\ UNCHANGED answer /\ fail(<<>>) /\ Queue(mailbox)
      BY <1>6, <2>6 DEF handle_vend_request
    <3>2. HandlerOK'
      BY <1>1, <3>1, FailType, FrameType
    <3>3. QED
      BY <1>2, <1>3, <1>4, <2>3, <3>1, <3>2, TypePartsAfter DEF ArmsOK
  <2>7. QED
    BY <2>4, <2>5, <2>6
<1>7. QED
  BY <1>5, <1>6 DEF handle_vend_request

-----------------------------------------------------------------------------
(* The commands of the application keep the types. *)

\* A command of the handles of sessions, and one of a PendingVend.
LEMMA CommandType ==
    ASSUME NEW c \in Commands
    PROVE  /\ c.op \in SessionOps \union VendOps
           /\ c.op \in SessionOps => c.id \in 0..MaxSessions /\ c.arg \in {0, 1}
           /\ c.op \in VendOps => c.id \in 0..MaxVends /\ c.arg \in Cash
BY DEF Commands, SessionOps, VendOps

LEMMA BeginSessionType ==
    ASSUME TypeOK, NEW c \in Commands, c.op = "BeginSession", begin_session(c)
    PROVE  HandlerOK'
<1> DEFINE frame == Frame("BeginSession")
<1>1. c.id \in 0..MaxSessions
  BY CommandType DEF SessionOps
<1>2. frame \in Frames /\ <<>> \in Seq(Events)
  BY FrameType, EmptySeq DEF FrameNames
<1>3. NewSession(c.id) \in SessionRecords /\ NoSummary \in Summaries
  BY <1>1, NewSessionType, NoneType
<1>4. \A result \in {"ok", "err"} : BeginReply(result) => reply' \in {"none", "ok", "err"}
  BY DEF BeginReply, Reply, TypeOK, ClientTypeOK
<1>5. CASE /\ BeginReply("err") /\ Quiet(<<>>)
           /\ UNCHANGED <<alive, status, active, completed, invalid, configVars, clientVars, verdict>>
  BY <1>2, <1>4, <1>5, QuietOutput, TypeParts DEF HandlerOK, KeptOK, configVars, clientVars
<1>6. CASE /\ wrote' = frame /\ Logged(frame) /\ Emit(<<>>)
           /\ completed' = NoSummary /\ active' = NewSession(c.id)
           /\ status' = "SessionActive" /\ BeginReply("ok")
           /\ UNCHANGED <<alive, invalid, configVars, clientVars, verdict>>
  BY <1>2, <1>3, <1>4, <1>6, SentOutput, TypeParts
     DEF HandlerOK, KeptOK, Statuses, configVars, clientVars
<1>7. QED
  BY <1>2, <1>5, <1>6, SendFails DEF begin_session, Send

LEMMA DisplayMessageType ==
    ASSUME TypeOK, NEW c, display_message(c)
    PROVE  HandlerOK'
<1> DEFINE frame == Frame("DisplayRequest")
           Same == UNCHANGED <<alive, status, active, completed, invalid, configVars,
                               clientVars, verdict>>
<1>1. frame \in Frames /\ <<>> \in Seq(Events)
  BY FrameType, EmptySeq DEF FrameNames
<1>2. reply' \in {"none", "ok", "err"} /\ Same => KeptOK'
  BY TypeParts DEF HandlerOK, KeptOK, configVars, clientVars
<1>3. \A states : \A result \in {"ok", "err"} :
        Reply(states, result) => reply' \in {"none", "ok", "err"}
  BY DEF Reply, TypeOK, ClientTypeOK
<1>4. Same => active' \in SessionRecords /\ invalid' \in Seq(InvalidEntries)
  BY DEF TypeOK, ActorTypeOK
<1>5. QED
  BY <1>1, <1>2, <1>3, <1>4, SendFails, SentOutput, QuietOutput
     DEF display_message, Send, HandlerOK

LEMMA AnsweredType ==
    ASSUME TypeOK, NEW v, NEW result \in Verdicts, Answered(v, result), DecisionRest
    PROVE  KeptOK'
BY TypeParts DEF Answered, DecisionRest, HandlerOK, KeptOK, configVars, clientVars

LEMMA DecideVendType ==
    ASSUME TypeOK, NEW c \in Commands, c.op \in {"Approve", "Deny"}, decide_vend(c)
    PROVE  HandlerOK'
<1>1. active \in SessionRecords /\ invalid \in Seq(InvalidEntries) /\ <<>> \in Seq(Events)
  BY EmptySeq DEF TypeOK, ActorTypeOK
<1>2. c.id \in 0..MaxVends /\ c.arg \in Cash /\ 0 \in Cash
  BY CommandType DEF VendOps, Cash
<1>3. {"approved", "denied", "AlreadyDecided"} \subseteq Verdicts
  BY DEF Verdicts
<1>4. CASE c.id \in InvalidIds
  <2> DEFINE error == invalid[CHOOSE i \in DOMAIN invalid : invalid[i].id = c.id].error
  <2>1. error \in Verdicts /\ take_invalid_vend(c.id) \in Seq(InvalidEntries)
    BY <1>4, TakeInvalidType DEF Verdicts
  <2>2. /\ Answered(c.id, error) /\ invalid' = take_invalid_vend(c.id)
        /\ Quiet(<<>>) /\ UNCHANGED active /\ DecisionRest
    BY <1>4 DEF decide_vend
  <2>3. QED
    BY <1>1, <2>1, <2>2, AnsweredType, QuietOutput DEF HandlerOK
<1>5. CASE Answered(c.id, "AlreadyDecided") /\ Quiet(<<>>)
           /\ UNCHANGED <<active, invalid>> /\ DecisionRest
  BY <1>1, <1>3, <1>5, AnsweredType, QuietOutput DEF HandlerOK
<1>6. CASE write_decision(c)
  <2>1. CASE c.op = "Approve"
    <3> DEFINE frame == VendFrame("Approve", c.id, c.arg)
               approved == [active EXCEPT !.phase = "AwaitingVendResult", !.vend.amount = c.arg]
    <3>1. frame \in Frames
      BY <1>2, FrameType DEF FrameNames
    <3>2. approved \in SessionRecords
      BY <1>1, <1>2, PhaseType DEF Phases
    <3>3. QED
      BY <1>1, <1>3, <1>6, <2>1, <3>1, <3>2, SendFails, SentOutput, AnsweredType
         DEF write_decision, Send, HandlerOK
  <2>2. CASE c.op = "Deny"
    <3> DEFINE frame == VendFrame("Deny", c.id, 0)
    <3>1. frame \in Frames
      BY <1>2, FrameType DEF FrameNames
    <3>2. Idling(active) \in SessionRecords
      BY <1>1, IdlingType
    <3>3. QED
      BY <1>1, <1>3, <1>6, <2>2, <3>1, <3>2, SendFails, SentOutput, AnsweredType
         DEF write_decision, Send, HandlerOK
  <2>3. QED
    BY <2>1, <2>2
<1>7. QED
  BY <1>4, <1>5, <1>6 DEF decide_vend

LEMMA RefuseVendType ==
    ASSUME TypeOK, NEW v \in 0..MaxVends, NEW error \in DecisionErrors, refuse_vend(v, error)
    PROVE  HandlerOK'
<1> DEFINE frame == VendFrame("Deny", v, 0)
           told == <<VendEvent("VendDecisionExpired", v, 0, error)>>
<1>1. active \in SessionRecords /\ <<>> \in Seq(Events) /\ 0 \in Cash
  BY EmptySeq DEF TypeOK, ActorTypeOK, Cash
<1>2. frame \in Frames
  BY <1>1, FrameType DEF FrameNames
<1>3. told \in Seq(Events)
  <2>1. "VendDecisionExpired" \in EventKinds /\ error \in Whys
    BY DEF EventKinds, Whys
  <2>2. QED
    BY <1>1, <2>1, VendEventType
<1>4. invalidate_vend(v, error) \in Seq(InvalidEntries) /\ Idling(active) \in SessionRecords
  BY <1>1, InvalidateType, IdlingType
<1>5. QED
  BY <1>1, <1>2, <1>3, <1>4, SendFails, SentOutput, CalmKept DEF refuse_vend, Send, HandlerOK

LEMMA AbandonVendType ==
    ASSUME TypeOK, NEW c \in Commands, c.op = "AbandonVend", abandon_vend(c)
    PROVE  HandlerOK'
<1>1. c.id \in 0..MaxVends
  BY CommandType DEF VendOps
<1>2. CASE refuse_vend(c.id, "Abandoned")
  BY <1>1, <1>2, RefuseVendType DEF DecisionErrors
<1>3. CASE Quiet(<<>>) /\ UNCHANGED <<active, invalid>> /\ Calm
  BY <1>3, EmptySeq, QuietOutput, CalmKept DEF HandlerOK, TypeOK, ActorTypeOK
<1>4. QED
  BY <1>2, <1>3 DEF abandon_vend

LEMMA RequestEndType ==
    ASSUME TypeOK, NEW c, request_end(c)
    PROVE  HandlerOK'
<1> DEFINE asked == [active EXCEPT !.waiting = @ \/ c.arg = 1]
           Same == UNCHANGED <<alive, status, active, completed, invalid, configVars,
                               clientVars, verdict>>
<1>1. asked \in SessionRecords
  BY DEF TypeOK, ActorTypeOK, SessionRecords
<1>2. <<>> \in Seq(Events)
  BY EmptySeq
<1>3. CASE initiate_end(asked, <<>>)
  BY <1>1, <1>2, <1>3, InitiateEndType
<1>4. CASE reply' \in {"none", "ok", "err"} /\ Quiet(<<>>) /\ Same
  BY <1>2, <1>4, QuietOutput, TypeParts DEF HandlerOK, KeptOK, configVars, clientVars
<1>5. QED
  BY <1>3, <1>4 DEF request_end, Reply, TypeOK, ClientTypeOK

LEMMA HandleCommandType ==
    ASSUME TypeOK, NEW c \in Commands, handle_command(c)
    PROVE  HandlerOK' /\ closed' \in BOOLEAN /\ exitArmed' \in BOOLEAN /\ stopWaiter' \in BOOLEAN
<1>1. active \in SessionRecords /\ <<>> \in Seq(Events)
  BY EmptySeq DEF TypeOK, ActorTypeOK
<1>2. closed' \in BOOLEAN /\ exitArmed' \in BOOLEAN /\ stopWaiter' \in BOOLEAN
  BY DEF handle_command, stopVars, TypeOK, ActorTypeOK
<1>3. HandlerOK'
  BY <1>1, BeginSessionType, DisplayMessageType, DecideVendType, AbandonVendType,
     RequestEndType, InitiateEndType DEF handle_command
<1>4. QED
  BY <1>2, <1>3

-----------------------------------------------------------------------------
(* The arms of the select! and the application's steps keep the types. *)

LEMMA QueueType ==
    ASSUME NEW q \in Seq(Commands), Queue(q)
    PROVE  mailbox' \in Seq(Commands)
BY EmptySeq DEF Queue

\* An arm that numbers no vend.
LEMMA ArmType ==
    ASSUME TypeOK, HandlerOK', UNCHANGED vendVars, NEW q \in Seq(Commands), Queue(q),
           closed' \in BOOLEAN, exitArmed' \in BOOLEAN, stopWaiter' \in BOOLEAN
    PROVE  TypeOK'
<1>1. mailbox' \in Seq(Commands)
  BY QueueType
<1>2. vid' \in 0..MaxVends /\ home' \in [Vends -> 0..MaxSessions] /\ hand' \in [Vends -> HandStates]
  BY DEF vendVars, TypeOK, ActorTypeOK, ClientTypeOK
<1>3. QED
  BY <1>1, <1>2, TypePartsAfter DEF ArmsOK

LEMMA ReceiveMessageType ==
    ASSUME TypeOK, NEW m, ReceiveMessage(m)
    PROVE  TypeOK'
<1>1. CASE handle_vend_request
  BY <1>1, VendRequestType DEF ReceiveMessage
<1>2. CASE handle_adapter_message(m) /\ UNCHANGED vendVars /\ Queue(mailbox)
  <2>1. UNCHANGED stopVars
    BY DEF ReceiveMessage
  <2>2. closed' \in BOOLEAN /\ exitArmed' \in BOOLEAN /\ stopWaiter' \in BOOLEAN
    BY <2>1 DEF stopVars, TypeOK, ActorTypeOK
  <2>3. mailbox \in Seq(Commands)
    BY DEF TypeOK, ClientTypeOK
  <2>4. QED
    BY <1>2, <2>2, <2>3, AdapterMessageType, ArmType
<1>3. QED
  BY <1>1, <1>2 DEF ReceiveMessage

LEMMA ActorStepType ==
    ASSUME TypeOK, ActorStep
    PROVE  TypeOK'
<1>1. active \in SessionRecords /\ invalid \in Seq(InvalidEntries) /\ <<>> \in Seq(Events)
      /\ mailbox \in Seq(Commands)
      /\ closed \in BOOLEAN /\ exitArmed \in BOOLEAN /\ stopWaiter \in BOOLEAN
  BY EmptySeq DEF TypeOK, ActorTypeOK, ClientTypeOK
<1>2. CASE ReceiveCommand
  <2>1. Head(mailbox) \in Commands /\ Tail(mailbox) \in Seq(Commands)
    BY <1>1, <1>2, HeadTailProperties DEF ReceiveCommand
  <2>2. QED
    BY <1>2, <2>1, HandleCommandType, ArmType DEF ReceiveCommand
<1>3. CASE CommandChannelClosed
  BY <1>1, <1>3, InitiateEndType, ArmType DEF CommandChannelClosed, vendVars
<1>4. CASE VendDeadline
  <2>1. active.vend.id \in 0..MaxVends
    BY <1>1 DEF SessionRecords, VendRecords
  <2>2. HandlerOK'
    BY <1>4, <2>1, RefuseVendType DEF VendDeadline, DecisionErrors
  <2>3. QED
    BY <1>1, <1>4, <2>2, ArmType DEF VendDeadline, stopVars, vendVars
<1>5. CASE ExitDeadline
  <2>1. OutputOK'
    BY <1>1, <1>5, QuietOutput DEF ExitDeadline
  <2>2. KeptOK'
    BY <1>5, TypeParts DEF ExitDeadline, HandlerOK, KeptOK, configVars, clientVars
  <2>3. HandlerOK'
    BY <1>1, <1>5, <2>1, <2>2, NoSessionType DEF ExitDeadline, HandlerOK
  <2>4. QED
    BY <1>1, <1>5, <2>3, TypeParts, TypePartsAfter DEF ExitDeadline, vendVars, ArmsOK
<1>6. CASE LinkClosed
  <2>1. HandlerOK'
    BY <1>1, <1>6, FailType, FrameType DEF LinkClosed
  <2>2. QED
    BY <1>1, <1>6, <2>1, ArmType DEF LinkClosed, stopVars, vendVars
<1>7. CASE Exit
  <2>1. OutputOK'
    BY <1>1, <1>7, QuietOutput DEF Exit
  <2>2. KeptOK'
    BY <1>7, DropRepliesType, TypeParts DEF Exit, HandlerOK, KeptOK, configVars, clientVars
  <2>3. HandlerOK'
    BY <1>1, <1>7, <2>1, <2>2 DEF Exit, HandlerOK
  <2>4. QED
    BY <1>1, <1>7, <2>3, ArmType DEF Exit, vendVars
<1>8. QED
  BY <1>2, <1>3, <1>4, <1>5, <1>6, <1>7 DEF ActorStep

\* The application's steps leave the actor's state alone and change only these.
LEMMA ClientType ==
    ASSUME TypeOK, ActorRests,
           mailbox' \in Seq(Commands), events' \in Seq(Events), app' \in AppStates,
           sid' \in 0..MaxSessions, reply' \in {"none", "ok", "err"},
           hand' \in [Vends -> HandStates], verdict' \in [Vends -> Verdicts]
    PROVE  TypeOK'
BY FrameType DEF TypeOK, ActorTypeOK, ClientTypeOK, ActorRests, stopVars, configVars

LEMMA PostType ==
    ASSUME TypeOK, NEW command \in Commands, Post(command)
    PROVE  mailbox' \in Seq(Commands)
BY AppendProperties DEF Post, TypeOK, ClientTypeOK

LEMMA CallType ==
    ASSUME TypeOK, NEW state \in AppStates, NEW command \in Commands, Call(state, command),
           sid' \in 0..MaxSessions, events' \in Seq(Events)
    PROVE  TypeOK'
<1>1. mailbox' \in Seq(Commands)
  BY PostType DEF Call
<1>2. QED
  BY <1>1, ClientType DEF Call, TypeOK, ClientTypeOK

LEMMA ReturnType ==
    ASSUME TypeOK, NEW state \in AppStates, Return(state)
    PROVE  TypeOK'
BY ClientType DEF Return, TypeOK, ClientTypeOK

LEMMA SessionCommandType ==
    ASSUME NEW op \in SessionOps, NEW id \in 0..MaxSessions, NEW arg \in {0, 1}
    PROVE  Command(op, id, arg) \in Commands
BY DEF Command, Commands

LEMMA VendCommandType ==
    ASSUME NEW op \in VendOps, NEW id \in 0..MaxVends, NEW arg \in Cash
    PROVE  Command(op, id, arg) \in Commands
BY DEF Command, Commands

LEMMA DeviceStepType ==
    ASSUME TypeOK,
           \/ BeginSession \/ BeginReturns \/ Shutdown \/ ShutdownReturns
           \/ DeviceDisplay \/ DeviceDisplayReturns \/ DropDevice
    PROVE  TypeOK'
<1>1. sid \in 0..MaxSessions /\ 0 \in 0..MaxSessions /\ events \in Seq(Events)
  BY BoundsAssumption DEF TypeOK, ClientTypeOK
<1>2. CASE BeginSession
  <2>1. PICK funds \in {0, 1} : Call("beginning", Command("BeginSession", sid + 1, funds))
    BY <1>2 DEF BeginSession
  <2>2. sid + 1 \in 0..MaxSessions
    BY <1>1, <1>2, BoundsAssumption DEF BeginSession
  <2>3. Command("BeginSession", sid + 1, funds) \in Commands
    BY <2>2, SessionCommandType DEF SessionOps
  <2>4. sid' \in 0..MaxSessions /\ events' \in Seq(Events)
    BY <1>2, <2>2, EmptySeq DEF BeginSession
  <2>5. QED
    BY <2>1, <2>3, <2>4, CallType DEF AppStates
<1>3. CASE BeginReturns
  BY <1>3, ReturnType DEF BeginReturns, AppStates
<1>4. CASE Shutdown
  <2>1. Command("Shutdown", 0, 0) \in Commands
    BY <1>1, SessionCommandType DEF SessionOps
  <2>2. QED
    BY <1>1, <1>4, <2>1, CallType DEF Shutdown, AppStates
<1>5. CASE ShutdownReturns
  BY <1>5, ReturnType DEF ShutdownReturns, AppStates
<1>6. CASE DeviceDisplay
  <2>1. Command("DisplayMessage", 0, 0) \in Commands
    BY <1>1, SessionCommandType DEF SessionOps
  <2>2. QED
    BY <1>1, <1>6, <2>1, CallType DEF DeviceDisplay, AppStates
<1>7. CASE DeviceDisplayReturns
  BY <1>7, ReturnType DEF DeviceDisplayReturns, AppStates
<1>8. CASE DropDevice
  BY <1>8, ClientType DEF DropDevice, AppStates, TypeOK, ClientTypeOK
<1>9. QED
  BY <1>2, <1>3, <1>4, <1>5, <1>6, <1>7, <1>8

\* Taking the first event off the channel.
LEMMA HeadEventType ==
    ASSUME TypeOK, events # <<>>
    PROVE  Head(events) \in Events /\ Tail(events) \in Seq(Events)
BY HeadTailProperties DEF TypeOK, ClientTypeOK

LEMMA SessionStepType ==
    ASSUME TypeOK,
           \/ SessionDisplay \/ SessionDisplayReturns \/ NextEvent \/ Finish
           \/ FinishReturns \/ DropSession \/ DropFuture \/ DropEvent
    PROVE  TypeOK'
<1>1. /\ sid \in 0..MaxSessions /\ events \in Seq(Events) /\ hand \in [Vends -> HandStates]
      /\ reply \in {"none", "ok", "err"} /\ verdict \in [Vends -> Verdicts]
      /\ app \in AppStates /\ mailbox \in Seq(Commands)
  BY DEF TypeOK, ClientTypeOK
<1>2. CASE SessionDisplay
  <2>1. Command("DisplayMessage", sid, 0) \in Commands
    BY <1>1, SessionCommandType DEF SessionOps
  <2>2. QED
    BY <1>1, <1>2, <2>1, CallType DEF SessionDisplay, AppStates
<1>3. CASE SessionDisplayReturns
  BY <1>3, ReturnType DEF SessionDisplayReturns, AppStates
<1>4. CASE NextEvent
  <2>1. events' \in Seq(Events) /\ hand' \in [Vends -> HandStates]
    BY <1>1, <1>4, HeadEventType DEF NextEvent, HandStates
  <2>2. QED
    BY <1>1, <1>4, <2>1, ClientType DEF NextEvent
<1>5. CASE Finish
  <2>1. Command("EndSession", sid, 1) \in Commands
    BY <1>1, SessionCommandType DEF SessionOps
  <2>2. QED
    BY <1>1, <1>5, <2>1, CallType DEF Finish, AppStates
<1>6. CASE FinishReturns
  BY <1>6, ReturnType DEF FinishReturns, AppStates
<1>7. CASE DropSession
  <2>1. Command("EndSession", sid, 0) \in Commands
    BY <1>1, SessionCommandType DEF SessionOps
  <2>2. mailbox' \in Seq(Commands)
    BY <1>7, <2>1, PostType DEF DropSession
  <2>3. QED
    BY <1>1, <1>7, <2>2, ClientType DEF DropSession, AppStates
<1>8. CASE DropFuture
  BY <1>1, <1>8, ClientType DEF DropFuture, AppStates
<1>9. CASE DropEvent
  <2> DEFINE command == Command("AbandonVend", Head(events).vend, 0)
  <2>1. Head(events).vend \in 0..MaxVends /\ 0 \in Cash
    BY <1>9, HeadEventType DEF DropEvent, Events, Cash
  <2>2. command \in Commands
    BY <2>1, VendCommandType DEF VendOps
  <2>3. mailbox' \in Seq(Commands) /\ hand' \in [Vends -> HandStates]
    BY <1>1, <1>9, <2>2, PostType DEF DropEvent, HandStates
  <2>4. events' \in Seq(Events)
    BY <1>9, HeadEventType DEF DropEvent
  <2>5. QED
    BY <1>1, <1>9, <2>3, <2>4, ClientType DEF DropEvent
<1>10. QED
  BY <1>2, <1>3, <1>4, <1>5, <1>6, <1>7, <1>8, <1>9

LEMMA VendStepType ==
    ASSUME TypeOK, NEW v \in Vends,
           Approve(v) \/ Deny(v) \/ Decided(v) \/ DropDecision(v) \/ DropVend(v)
    PROVE  TypeOK'
<1>1. /\ sid \in 0..MaxSessions /\ events \in Seq(Events) /\ hand \in [Vends -> HandStates]
      /\ reply \in {"none", "ok", "err"} /\ verdict \in [Vends -> Verdicts]
      /\ app \in AppStates /\ mailbox \in Seq(Commands)
  BY DEF TypeOK, ClientTypeOK
<1>2. v \in 0..MaxVends /\ 0 \in Cash /\ Amounts \subseteq Cash
  BY BoundsAssumption DEF Vends, Cash
<1>3. ASSUME NEW command \in Commands, decide(v, command)
      PROVE  TypeOK'
  <2>1. mailbox' \in Seq(Commands)
    BY <1>3, PostType DEF decide
  <2>2. hand' \in [Vends -> HandStates] /\ verdict' \in [Vends -> Verdicts]
    BY <1>1, <1>3 DEF decide, HandStates, Verdicts
  <2>3. QED
    BY <1>1, <1>3, <2>1, <2>2, ClientType DEF decide
<1>4. CASE Approve(v)
  BY <1>2, <1>3, <1>4, VendCommandType DEF Approve, VendOps
<1>5. CASE Deny(v)
  BY <1>2, <1>3, <1>5, VendCommandType DEF Deny, VendOps
<1>6. CASE Decided(v) \/ DropDecision(v)
  BY <1>1, <1>6, ClientType DEF Decided, DropDecision, HandStates
<1>7. CASE DropVend(v)
  <2>1. Command("AbandonVend", v, 0) \in Commands
    BY <1>2, VendCommandType DEF VendOps
  <2>2. mailbox' \in Seq(Commands)
    BY <1>7, <2>1, PostType DEF DropVend
  <2>3. QED
    BY <1>1, <1>7, <2>2, ClientType DEF DropVend, HandStates
<1>8. QED
  BY <1>4, <1>5, <1>6, <1>7

LEMMA InitType == Init => TypeOK
<1> SUFFICES ASSUME Init PROVE TypeOK
  OBVIOUS
<1>1. ActorTypeOK
  <2>1. 0 \in 0..MaxVends /\ 0 \in 0..MaxSessions
    BY BoundsAssumption
  <2>2. /\ vid \in 0..MaxVends /\ home \in [Vends -> 0..MaxSessions]
        /\ answer \in [Vends -> Seq(Frames)] /\ outcome \in [Vends -> Seq(Events)]
    BY <2>1, EmptySeq DEF Init, ActorInit
  <2>3. display \in DisplayStates /\ status \in Statuses /\ invalid \in Seq(InvalidEntries)
    BY DisplayAssumption, EmptySeq DEF Init, ActorInit, Statuses, DisplayStates
  <2>4. QED
    BY <2>2, <2>3, NoSessionType, NoneType, FrameType DEF Init, ActorInit, ActorTypeOK
<1>2. ClientTypeOK
  BY BoundsAssumption, EmptySeq
     DEF Init, ActorInit, ClientTypeOK, AppStates, HandStates, Verdicts
<1>3. QED
  BY <1>1, <1>2 DEF TypeOK

LEMMA StutterType == TypeOK /\ UNCHANGED vars => TypeOK'
BY DEF vars, stopVars, configVars, clientVars, vendVars, TypeOK, ActorTypeOK, ClientTypeOK

LEMMA TypeStep == TypeOK /\ [Next]_vars => TypeOK'
<1> SUFFICES ASSUME TypeOK, [Next]_vars
             PROVE  TypeOK'
  OBVIOUS
<1>1. CASE \E m \in Messages : ReceiveMessage(m)
  BY <1>1, ReceiveMessageType
<1>2. CASE ActorStep
  BY <1>2, ActorStepType
<1>3. CASE ClientStep
  BY <1>3, DeviceStepType, SessionStepType, VendStepType DEF ClientStep
<1>4. CASE Stopped \/ UNCHANGED vars
  BY <1>4, StutterType DEF Stopped
<1> QED BY <1>1, <1>2, <1>3, <1>4 DEF Next

\* Type correctness of actor and handles: every handler, arm and step of the
\* application keeps every variable in its type, whatever the bounds.
THEOREM TypeCorrect == Spec => []TypeOK
BY InitType, TypeStep, PTL DEF Spec

-----------------------------------------------------------------------------
(* At most one answer to each VEND REQUEST, and no offer in a session that  *)
(* is to end: both follow from one inductive invariant, SessionSafe.         *)

\* The strengthening SingleAnswer needs: a vend not yet requested has no answer,
\* and neither has the one that is pending.
AnswerOK ==
    /\ \A v \in Vends : Len(answer[v]) <= 1 /\ (v > vid => answer[v] = <<>>)
    /\ Pending => active.vend.id \in 1..vid /\ answer[active.vend.id] = <<>>

SessionSafe == AnswerOK /\ NoVendAfterEndRequest

-----------------------------------------------------------------------------
(* How the invariant survives a step. *)

\* Nothing is answered, and no other vend becomes pending.
LEMMA UnansweredSafe ==
    ASSUME TypeOK, SessionSafe, UNCHANGED <<answer, vid>>,
           Pending' => Pending /\ active'.vend.id = active.vend.id,
           NoVendAfterEndRequest'
    PROVE  SessionSafe'
BY DEF SessionSafe, AnswerOK, Pending

\* The pending vend is answered and leaves its phase.
LEMMA AnsweredSafe ==
    ASSUME TypeOK, SessionSafe, Pending, UNCHANGED vid,
           NEW frame, frame.vend = active.vend.id, Logged(frame),
           ~Pending', NoVendAfterEndRequest'
    PROVE  SessionSafe'
<1> DEFINE p == active.vend.id
<1>1. p \in Vends /\ answer[p] = <<>> /\ p <= vid /\ vid \in Nat
  BY BoundsAssumption DEF SessionSafe, AnswerOK, Vends, TypeOK, ActorTypeOK
<1>2. answer' = [answer EXCEPT ![p] = <<frame>>]
  <2>1. Append(answer[p], frame) = <<frame>>
    BY <1>1
  <2>2. QED
    BY <1>1, <2>1 DEF Logged, Vends
<1>3. ASSUME NEW v \in Vends
      PROVE  Len(answer'[v]) <= 1 /\ (v > vid' => answer'[v] = <<>>)
  <2>1. CASE v = p
    BY <1>1, <1>2, <2>1 DEF TypeOK, ActorTypeOK, Vends
  <2>2. CASE v # p
    BY <1>2, <2>2 DEF SessionSafe, AnswerOK, TypeOK, ActorTypeOK
  <2>3. QED
    BY <2>1, <2>2
<1>4. QED
  BY <1>3 DEF SessionSafe, AnswerOK, Pending

LEMMA UnaddressedFrame ==
    ASSUME NEW frame, frame.vend = 0, Logged(frame)
    PROVE  UNCHANGED answer
BY DEF Logged

LEMMA UnaddressedFrames ==
    /\ \A name : Frame(name).vend = 0
    /\ \A name, v, amount : VendFrame(name, v, amount).vend = v
    /\ NoFrame.vend = 0
BY DEF Frame, VendFrame, NoFrame

\* Without a session nothing is pending and no end is requested.
LEMMA NoSessionSafe ==
    ASSUME active' = NoSession
    PROVE  ~Pending' /\ NoVendAfterEndRequest'
BY DEF NoSession, NewSession, Pending, NoVendAfterEndRequest

\* A failed write of an answer to the pending vend, or of another frame.
LEMMA FailSafe ==
    ASSUME TypeOK, SessionSafe, UNCHANGED vid, NEW before, fail(before),
           NEW frame, frame.vend = 0 \/ (Pending /\ frame.vend = active.vend.id),
           \E sent \in {frame, NoFrame} : wrote' = sent /\ Logged(sent)
    PROVE  SessionSafe'
<1>1. ~Pending' /\ NoVendAfterEndRequest'
  BY NoSessionSafe DEF fail
<1>2. CASE UNCHANGED answer
  BY <1>1, <1>2, UnansweredSafe
<1>3. CASE Logged(frame) /\ Pending /\ frame.vend = active.vend.id
  BY <1>1, <1>3, AnsweredSafe
<1>4. QED
  BY <1>2, <1>3, UnaddressedFrame, UnaddressedFrames

\* A session that keeps its request to end and is not back in an offering phase.
LEMMA EndingSafe ==
    ASSUME active'.phase \notin {"None", "Idle", "VendPending"}
    PROVE  ~Pending' /\ NoVendAfterEndRequest'
BY DEF Pending, NoVendAfterEndRequest

LEMMA KeepsSession ==
    ASSUME TypeOK, SessionSafe, UNCHANGED <<active, answer, vid>>
    PROVE  SessionSafe'
BY UnansweredSafe DEF Pending, SessionSafe, NoVendAfterEndRequest

\* The phase of a session after an update of a handler.
LEMMA PhaseFields ==
    ASSUME NEW s \in SessionRecords
    PROVE  /\ Idling(s).phase = "Idle" /\ Idling(s).endRequested = s.endRequested
           /\ \A p : [s EXCEPT !.phase = p].phase = p
           /\ \A p, v : [s EXCEPT !.phase = p, !.vend = v].phase = p
           /\ \A p, v, r : [s EXCEPT !.phase = p, !.vend = v, !.endReason = r].phase = p
           /\ \A p, a : [s EXCEPT !.phase = p, !.vend.amount = a].phase = p
BY DEF Idling, SessionRecords

-----------------------------------------------------------------------------
(* The handlers of the machine's messages. *)

LEMMA InitiateEndSafe ==
    ASSUME TypeOK, SessionSafe, UNCHANGED vid,
           NEW s \in SessionRecords, NEW before, initiate_end(s, before),
           s.phase = "VendPending" => Pending /\ s.vend.id = active.vend.id,
           s.phase = "None" => ~s.endRequested
    PROVE  SessionSafe'
<1> DEFINE e == [s EXCEPT !.endRequested = TRUE, !.summary.reason = "ApplicationRequested"]
<1>1. /\ e \in SessionRecords /\ e.phase = s.phase
      /\ \A p : [e EXCEPT !.phase = p].phase = p
  BY DEF SessionRecords, Summaries, Reasons
<1>2. CASE s.phase = "Idle"
  <2> DEFINE frame == Frame("SessionCancel")
  <2>1. CASE fail(before) /\ \E sent \in {frame, NoFrame} : wrote' = sent /\ Logged(sent)
    BY <2>1, FailSafe, UnaddressedFrames
  <2>2. CASE Logged(frame) /\ active' = [e EXCEPT !.phase = "AwaitingSessionComplete"]
    <3>1. UNCHANGED answer
      BY <2>2, UnaddressedFrame, UnaddressedFrames
    <3>2. active'.phase = "AwaitingSessionComplete"
      BY <1>1, <2>2
    <3>3. QED
      BY <3>1, <3>2, EndingSafe, UnansweredSafe
  <2>3. QED
    BY <1>2, <2>1, <2>2 DEF initiate_end, Send
<1>3. CASE s.phase = "VendPending"
  <2> DEFINE frame == VendFrame("Deny", s.vend.id, 0)
  <2>1. CASE fail(before) /\ \E sent \in {frame, NoFrame} : wrote' = sent /\ Logged(sent)
    BY <1>3, <2>1, FailSafe, UnaddressedFrames
  <2>2. CASE Logged(frame) /\ active' = [e EXCEPT !.phase = "DenyingForEnd"]
    <3>1. active'.phase = "DenyingForEnd"
      BY <1>1, <2>2
    <3>2. frame.vend = active.vend.id
      BY <1>3, UnaddressedFrames
    <3>3. QED
      BY <1>3, <2>2, <3>1, <3>2, EndingSafe, AnsweredSafe
  <2>3. QED
    BY <1>3, <2>1, <2>2 DEF initiate_end, Send
<1>4. CASE s.phase \notin {"Idle", "VendPending"}
  <2>1. UNCHANGED answer /\ active' = IF s.phase = "None" THEN s ELSE e
    BY <1>4 DEF initiate_end, Quiet
  <2>2. ~Pending' /\ NoVendAfterEndRequest'
    BY <1>1, <1>4, <2>1 DEF Pending, NoVendAfterEndRequest
  <2>3. QED
    BY <2>1, <2>2, UnansweredSafe
<1>5. QED
  BY <1>2, <1>3, <1>4

LEMMA OutOfSequenceSafe ==
    ASSUME TypeOK, SessionSafe, UNCHANGED vid, command_out_of_sequence
    PROVE  SessionSafe'
<1> DEFINE frame == Frame("CommandOutOfSequence")
<1>1. CASE \E before : fail(before) /\ \E sent \in {frame, NoFrame} : wrote' = sent /\ Logged(sent)
  BY <1>1, FailSafe, UnaddressedFrames
<1>2. CASE /\ Logged(frame)
           /\ active' = IF active.phase = "None" THEN active
                        ELSE [active EXCEPT !.phase = "AwaitingReset", !.vend = ApprovedVend(active)]
  <2>1. UNCHANGED answer
    BY <1>2, UnaddressedFrame, UnaddressedFrames
  <2>2. active \in SessionRecords
    BY DEF TypeOK, ActorTypeOK
  <2>3. CASE active.phase = "None"
    BY <1>2, <2>1, <2>3, KeepsSession
  <2>4. CASE active.phase # "None"
    <3>1. active'.phase = "AwaitingReset"
      BY <1>2, <2>2, <2>4, PhaseFields
    <3>2. QED
      BY <2>1, <3>1, EndingSafe, UnansweredSafe
  <2>5. QED
    BY <2>3, <2>4
<1>3. QED
  BY <1>1, <1>2 DEF command_out_of_sequence, Send

LEMMA AckSafe ==
    ASSUME TypeOK, SessionSafe, UNCHANGED vid, handle_ack
    PROVE  SessionSafe'
<1>1. active \in SessionRecords
  BY DEF TypeOK, ActorTypeOK
<1>2. CASE active.phase = "DenyingForEnd"
  <2> DEFINE frame == Frame("SessionCancel")
  <2>1. CASE fail(<<>>) /\ \E sent \in {frame, NoFrame} : wrote' = sent /\ Logged(sent)
    BY <2>1, FailSafe, UnaddressedFrames
  <2>2. CASE /\ Logged(frame)
             /\ active' = [active EXCEPT !.phase = "AwaitingSessionComplete", !.vend = NoVend]
    <3>1. active'.phase = "AwaitingSessionComplete"
      BY <1>1, <2>2, PhaseFields
    <3>2. QED
      BY <2>2, <3>1, UnaddressedFrame, UnaddressedFrames, EndingSafe, UnansweredSafe
  <2>3. QED
    BY <1>2, <2>1, <2>2 DEF handle_ack, Send
<1>3. CASE active.phase = "AwaitingEndSessionAck"
  <2>1. active' = NoSession /\ UNCHANGED answer
    BY <1>3 DEF handle_ack, complete_active, Quiet
  <2>2. QED
    BY <2>1, NoSessionSafe, UnansweredSafe
<1>4. CASE active.phase \notin {"DenyingForEnd", "AwaitingEndSessionAck"}
  BY <1>4, KeepsSession DEF handle_ack, Quiet
<1>5. QED
  BY <1>2, <1>3, <1>4

LEMMA ResetSafe ==
    ASSUME TypeOK, SessionSafe, UNCHANGED vid, handle_reset
    PROVE  SessionSafe'
<1>1. active' = NoSession /\ UNCHANGED answer
  BY DEF handle_reset, complete_active, Quiet
<1>2. QED
  BY <1>1, NoSessionSafe, UnansweredSafe

LEMMA ReaderSafe ==
    ASSUME TypeOK, SessionSafe, UNCHANGED vid,
           \/ handle_setup_configuration \/ handle_setup_prices \/ handle_reader_cancel
           \/ \E newStatus \in {"Enabled", "Disabled"} : handle_reader_control(newStatus)
    PROVE  SessionSafe'
<1>1. CASE command_out_of_sequence
  BY <1>1, OutOfSequenceSafe
<1>2. CASE UNCHANGED <<active, answer>>
  BY <1>2, KeepsSession
<1>3. CASE handle_reader_cancel /\ ~command_out_of_sequence
  <2> DEFINE frame == Frame("Cancelled")
  <2>1. CASE fail(<<>>) /\ \E sent \in {frame, NoFrame} : wrote' = sent /\ Logged(sent)
    BY <2>1, FailSafe, UnaddressedFrames
  <2>2. CASE Logged(frame) /\ UNCHANGED active
    BY <1>2, <2>2, UnaddressedFrame, UnaddressedFrames
  <2>3. QED
    BY <1>3, <2>1, <2>2 DEF handle_reader_cancel, Send
<1>4. QED
  BY <1>1, <1>2, <1>3
     DEF handle_setup_configuration, handle_setup_prices, handle_reader_control, Quiet

LEMMA SessionCompleteSafe ==
    ASSUME TypeOK, SessionSafe, UNCHANGED vid, handle_session_complete
    PROVE  SessionSafe'
<1> DEFINE frame == Frame("EndSession")
           closing == [active EXCEPT !.phase = "AwaitingEndSessionAck", !.vend = NoVend,
                                     !.endReason = active.summary.reason]
<1>1. CASE command_out_of_sequence
  BY <1>1, OutOfSequenceSafe
<1>2. CASE fail(<<>>) /\ \E sent \in {frame, NoFrame} : wrote' = sent /\ Logged(sent)
  BY <1>2, FailSafe, UnaddressedFrames
<1>3. CASE Logged(frame) /\ active' = IF active = NoSession THEN active ELSE closing
  <2>1. UNCHANGED answer
    BY <1>3, UnaddressedFrame, UnaddressedFrames
  <2>2. CASE active = NoSession
    BY <1>3, <2>1, <2>2, KeepsSession
  <2>3. CASE active # NoSession
    <3>1. active'.phase = "AwaitingEndSessionAck"
      BY <1>3, <2>3, PhaseFields DEF TypeOK, ActorTypeOK
    <3>2. QED
      BY <2>1, <3>1, EndingSafe, UnansweredSafe
  <2>4. QED
    BY <2>2, <2>3
<1>4. QED
  BY <1>1, <1>2, <1>3 DEF handle_session_complete, Send

LEMMA VendCancelSafe ==
    ASSUME TypeOK, SessionSafe, UNCHANGED vid, handle_vend_cancel
    PROVE  SessionSafe'
<1> DEFINE frame == VendFrame("Deny", active.vend.id, 0)
           cancelled(s) == [s EXCEPT !.summary.cancels = @ + 1]
<1>1. active \in SessionRecords
  BY DEF TypeOK, ActorTypeOK
<1>2. \A s \in SessionRecords :
        cancelled(s).phase = s.phase /\ cancelled(s).endRequested = s.endRequested
        /\ cancelled(s).vend = s.vend
  BY DEF SessionRecords
<1>3. CASE command_out_of_sequence
  BY <1>3, OutOfSequenceSafe
<1>4. CASE Pending
  <2>1. CASE fail(<<>>) /\ \E sent \in {frame, NoFrame} : wrote' = sent /\ Logged(sent)
    BY <1>4, <2>1, FailSafe, UnaddressedFrames
  <2>2. CASE Logged(frame) /\ active' = cancelled(Idling(active))
    <3>1. active'.phase = "Idle" /\ active'.endRequested = active.endRequested
      BY <1>1, <1>2, <2>2, IdlingType, PhaseFields
    <3>2. ~Pending' /\ NoVendAfterEndRequest'
      BY <1>4, <3>1 DEF Pending, SessionSafe, NoVendAfterEndRequest
    <3>3. QED
      BY <1>4, <2>2, <3>2, AnsweredSafe, UnaddressedFrames
  <2>3. QED
    BY <1>4, <2>1, <2>2 DEF handle_vend_cancel, Send, Pending
<1>5. CASE active.phase = "DenyingForEnd"
  <2>1. UNCHANGED answer /\ active' = cancelled(active)
    BY <1>5 DEF handle_vend_cancel, Quiet, Pending
  <2>2. active'.phase = "DenyingForEnd"
    BY <1>1, <1>2, <1>5, <2>1
  <2>3. QED
    BY <2>1, <2>2, EndingSafe, UnansweredSafe
<1>6. QED
  BY <1>3, <1>4, <1>5 DEF handle_vend_cancel

LEMMA VendResultSafe ==
    ASSUME TypeOK, SessionSafe, UNCHANGED vid, NEW kind, NEW why,
           NEW counted \in SessionRecords, counted.endRequested = active.endRequested,
           VendResult(kind, why, counted)
    PROVE  SessionSafe'
<1> DEFINE told == <<VendEvent(kind, active.vend.id, active.vend.amount, why)>>
<1>1. /\ Idling(counted) \in SessionRecords
      /\ Idling(counted).phase = "Idle" /\ Idling(counted).endRequested = active.endRequested
  BY IdlingType, PhaseFields
<1>2. CASE command_out_of_sequence
  BY <1>2, OutOfSequenceSafe
<1>3. CASE initiate_end(Idling(counted), told)
  BY <1>1, <1>3, InitiateEndSafe
<1>4. CASE ~active.endRequested /\ active' = Idling(counted) /\ UNCHANGED answer
  <2>1. ~Pending' /\ NoVendAfterEndRequest'
    BY <1>1, <1>4 DEF Pending, NoVendAfterEndRequest
  <2>2. QED
    BY <1>4, <2>1, UnansweredSafe
<1>5. QED
  BY <1>2, <1>3, <1>4 DEF VendResult, Quiet

LEMMA VendOutcomeSafe ==
    ASSUME TypeOK, SessionSafe, UNCHANGED vid, handle_vend_success \/ handle_vend_failure
    PROVE  SessionSafe'
<1> DEFINE success == [active EXCEPT !.summary.successes = @ + 1]
           failure == [active EXCEPT !.summary.failures = @ + 1]
<1>1. /\ success \in SessionRecords /\ success.endRequested = active.endRequested
      /\ failure \in SessionRecords /\ failure.endRequested = active.endRequested
  <2>1. active \in SessionRecords
    BY DEF TypeOK, ActorTypeOK
  <2>2. QED
    BY <2>1 DEF SessionRecords, Summaries
<1>2. CASE handle_vend_success
  BY <1>1, <1>2, VendResultSafe DEF handle_vend_success
<1>3. CASE handle_vend_failure
  BY <1>1, <1>3, VendResultSafe DEF handle_vend_failure
<1>4. QED
  BY <1>2, <1>3

LEMMA AdapterMessageSafe ==
    ASSUME TypeOK, SessionSafe, UNCHANGED vid, NEW m, handle_adapter_message(m)
    PROVE  SessionSafe'
<1>1. CASE UNCHANGED <<active, answer>>
  BY <1>1, KeepsSession
<1>2. QED
  BY <1>1, AckSafe, ResetSafe, ReaderSafe, VendCancelSafe, VendOutcomeSafe, SessionCompleteSafe
     DEF handle_adapter_message, Quiet

\* A vend just numbered is offered unanswered, or answered without being offered.
LEMMA VendRequestSafe ==
    ASSUME TypeOK, SessionSafe, handle_vend_request
    PROVE  SessionSafe'
<1> DEFINE v == vid + 1
<1>1. active \in SessionRecords
  BY DEF TypeOK, ActorTypeOK
<1>2. CASE command_out_of_sequence /\ UNCHANGED vendVars
  BY <1>2, OutOfSequenceSafe DEF vendVars
<1>3. CASE active.phase = "Idle" /\ vid < MaxVends
  <2>1. /\ v \in Vends /\ vid' = v /\ answer[v] = <<>>
        /\ \A u \in Vends : Len(answer[u]) <= 1 /\ (u > v => answer[u] = <<>>)
    <3>1. vid \in Nat /\ v \in Vends /\ v > vid
      BY <1>3, BoundsAssumption DEF Vends, TypeOK, ActorTypeOK
    <3>2. vid' = v
      BY <1>3 DEF handle_vend_request
    <3>3. \A u \in Vends : u > v => u > vid
      BY <3>1 DEF Vends
    <3>4. QED
      BY <3>1, <3>2, <3>3 DEF SessionSafe, AnswerOK
  <2>2. ~active.endRequested
    BY <1>3 DEF SessionSafe, NoVendAfterEndRequest
  <2>3. CASE HasSender /\ Listening
    <3>1. PICK price \in Amounts :
            active' = [active EXCEPT !.phase = "VendPending",
                                     !.vend = [id |-> v, price |-> price, amount |-> 0]]
      BY <1>3, <2>3 DEF handle_vend_request
    <3>2. active'.endRequested = active.endRequested /\ active'.vend.id = v
      BY <1>1, <3>1 DEF SessionRecords
    <3>3. UNCHANGED answer
      BY <1>3, <2>3 DEF handle_vend_request, Quiet
    <3>4. v \in 1..vid'
      BY <2>1 DEF Vends
    <3>5. QED
      BY <2>1, <2>2, <3>2, <3>3, <3>4 DEF SessionSafe, AnswerOK, NoVendAfterEndRequest, Pending
  <2>4. ASSUME ~Pending', NoVendAfterEndRequest',
               \/ UNCHANGED answer
               \/ Logged(VendFrame("Deny", v, 0))
        PROVE  SessionSafe'
    <3> DEFINE frame == VendFrame("Deny", v, 0)
    <3>1. CASE UNCHANGED answer
      BY <2>1, <2>4, <3>1 DEF SessionSafe, AnswerOK
    <3>2. CASE Logged(frame)
      <4>1. answer' = [answer EXCEPT ![v] = <<frame>>]
        <5>1. Append(answer[v], frame) = <<frame>>
          BY <2>1
        <5>2. frame.vend = v /\ v # 0
          BY <2>1, UnaddressedFrames DEF Vends
        <5>3. QED
          BY <3>2, <5>1, <5>2 DEF Logged
      <4>2. ASSUME NEW u \in Vends
            PROVE  Len(answer'[u]) <= 1 /\ (u > v => answer'[u] = <<>>)
        <5>1. CASE u = v
          BY <2>1, <4>1, <5>1 DEF TypeOK, ActorTypeOK, Vends
        <5>2. CASE u # v
          BY <2>1, <4>1, <5>2 DEF TypeOK, ActorTypeOK
        <5>3. QED
          BY <5>1, <5>2
      <4>3. QED
        BY <2>1, <2>4, <4>2 DEF SessionSafe, AnswerOK
    <3>3. QED
      BY <2>4, <3>1, <3>2
  <2>5. CASE HasSender /\ ~Listening
    <3> DEFINE frame == VendFrame("Deny", v, 0)
    <3>1. CASE UNCHANGED active /\ Logged(frame)
      <4>1. ~Pending' /\ NoVendAfterEndRequest'
        BY <1>3, <2>2, <3>1 DEF Pending, NoVendAfterEndRequest
      <4>2. QED
        BY <2>4, <3>1, <4>1
    <3>2. CASE fail(<<>>) /\ \E sent \in {frame, NoFrame} : Logged(sent)
      <4>1. ~Pending' /\ NoVendAfterEndRequest'
        BY <3>2, NoSessionSafe DEF fail
      <4>2. UNCHANGED answer \/ Logged(frame)
        BY <3>2, UnaddressedFrame, UnaddressedFrames
      <4>3. QED
        BY <2>4, <4>1, <4>2
    <3>3. QED
      BY <1>3, <2>5, <3>1, <3>2 DEF handle_vend_request, Send
  <2>6. CASE ~HasSender
    <3>1. fail(<<>>) /\ UNCHANGED answer
      BY <1>3, <2>6 DEF handle_vend_request
    <3>2. QED
      BY <2>4, <3>1, NoSessionSafe DEF fail
  <2>7. QED
    BY <2>3, <2>5, <2>6
<1>4. QED
  BY <1>2, <1>3 DEF handle_vend_request

-----------------------------------------------------------------------------
(* The commands of the application, the arms and the application's steps. *)

LEMMA BeginSessionSafe ==
    ASSUME TypeOK, SessionSafe, UNCHANGED vid, NEW c \in Commands, c.op = "BeginSession",
           begin_session(c)
    PROVE  SessionSafe'
<1> DEFINE frame == Frame("BeginSession")
<1>1. CASE UNCHANGED active /\ Quiet(<<>>)
  BY <1>1, KeepsSession DEF Quiet
<1>2. CASE fail(<<>>) /\ \E sent \in {frame, NoFrame} : wrote' = sent /\ Logged(sent)
  BY <1>2, FailSafe, UnaddressedFrames
<1>3. CASE Logged(frame) /\ active' = NewSession(c.id)
  <2>1. active'.phase = "Idle" /\ active'.endRequested = FALSE
    BY <1>3 DEF NewSession
  <2>2. UNCHANGED answer
    BY <1>3, UnaddressedFrame, UnaddressedFrames
  <2>3. QED
    BY <2>1, <2>2, UnansweredSafe DEF Pending, NoVendAfterEndRequest
<1>4. QED
  BY <1>1, <1>2, <1>3 DEF begin_session, Send

LEMMA DisplayMessageSafe ==
    ASSUME TypeOK, SessionSafe, UNCHANGED vid, NEW c, display_message(c)
    PROVE  SessionSafe'
<1> DEFINE frame == Frame("DisplayRequest")
<1>1. CASE UNCHANGED active /\ Quiet(<<>>)
  BY <1>1, KeepsSession DEF Quiet
<1>2. CASE fail(<<>>) /\ \E sent \in {frame, NoFrame} : wrote' = sent /\ Logged(sent)
  BY <1>2, FailSafe, UnaddressedFrames
<1>3. CASE Logged(frame) /\ UNCHANGED active
  BY <1>3, UnaddressedFrame, UnaddressedFrames, KeepsSession
<1>4. QED
  BY <1>1, <1>2, <1>3 DEF display_message, Send

LEMMA DecideVendSafe ==
    ASSUME TypeOK, SessionSafe, UNCHANGED vid, NEW c, decide_vend(c)
    PROVE  SessionSafe'
<1>1. active \in SessionRecords
  BY DEF TypeOK, ActorTypeOK
<1>2. CASE UNCHANGED active /\ Quiet(<<>>)
  BY <1>2, KeepsSession DEF Quiet
<1>3. CASE PendingIs(c.id) /\ write_decision(c)
  <2>1. Pending /\ c.id = active.vend.id
    BY <1>3 DEF PendingIs
  <2>2. ASSUME NEW name, NEW amount,
               LET frame == VendFrame(name, c.id, amount) IN
               \/ fail(<<>>) /\ \E sent \in {frame, NoFrame} : wrote' = sent /\ Logged(sent)
               \/ /\ Logged(frame) /\ ~Pending' /\ NoVendAfterEndRequest'
        PROVE  SessionSafe'
    BY <2>1, <2>2, AnsweredSafe, FailSafe, UnaddressedFrames
  <2>3. CASE c.op = "Approve"
    <3> DEFINE frame == VendFrame("Approve", c.id, c.arg)
               approved == [active EXCEPT !.phase = "AwaitingVendResult", !.vend.amount = c.arg]
    <3>1. CASE fail(<<>>) /\ \E sent \in {frame, NoFrame} : wrote' = sent /\ Logged(sent)
      BY <2>2, <3>1
    <3>2. CASE Logged(frame) /\ active' = approved
      <4>1. active'.phase = "AwaitingVendResult"
        BY <1>1, <3>2, PhaseFields
      <4>2. QED
        BY <2>2, <3>2, <4>1, EndingSafe
    <3>3. QED
      BY <1>3, <2>3, <3>1, <3>2 DEF write_decision, Send
  <2>4. CASE c.op = "Deny"
    <3> DEFINE frame == VendFrame("Deny", c.id, 0)
    <3>1. CASE fail(<<>>) /\ \E sent \in {frame, NoFrame} : wrote' = sent /\ Logged(sent)
      BY <2>2, <3>1
    <3>2. CASE Logged(frame) /\ active' = Idling(active)
      <4>1. ~Pending' /\ NoVendAfterEndRequest'
        BY <1>1, <2>1, <3>2, PhaseFields DEF Pending, SessionSafe, NoVendAfterEndRequest
      <4>2. QED
        BY <2>2, <3>2, <4>1
    <3>3. QED
      BY <1>3, <2>4, <3>1, <3>2 DEF write_decision, Send
  <2>5. QED
    BY <1>3, <2>3, <2>4 DEF write_decision
<1>4. QED
  BY <1>2, <1>3 DEF decide_vend

LEMMA RefuseVendSafe ==
    ASSUME TypeOK, SessionSafe, UNCHANGED vid, NEW error, Pending,
           refuse_vend(active.vend.id, error)
    PROVE  SessionSafe'
<1> DEFINE frame == VendFrame("Deny", active.vend.id, 0)
<1>1. CASE fail(<<>>) /\ \E sent \in {frame, NoFrame} : wrote' = sent /\ Logged(sent)
  BY <1>1, FailSafe, UnaddressedFrames
<1>2. CASE Logged(frame) /\ active' = Idling(active)
  <2>1. active'.phase = "Idle" /\ active'.endRequested = active.endRequested
    BY <1>2, PhaseFields DEF TypeOK, ActorTypeOK
  <2>2. ~Pending' /\ NoVendAfterEndRequest'
    BY <2>1 DEF Pending, SessionSafe, NoVendAfterEndRequest
  <2>3. QED
    BY <1>2, <2>2, AnsweredSafe, UnaddressedFrames
<1>3. QED
  BY <1>1, <1>2 DEF refuse_vend, Send

LEMMA RequestEndSafe ==
    ASSUME TypeOK, SessionSafe, UNCHANGED vid, NEW c, request_end(c)
    PROVE  SessionSafe'
<1> DEFINE asked == [active EXCEPT !.waiting = @ \/ c.arg = 1]
<1>1. asked \in SessionRecords /\ asked.phase = active.phase /\ asked.vend = active.vend
      /\ asked.endRequested = active.endRequested
  BY DEF TypeOK, ActorTypeOK, SessionRecords
<1>2. asked.phase = "None" => ~asked.endRequested
  BY <1>1 DEF SessionSafe, NoVendAfterEndRequest
<1>3. CASE initiate_end(asked, <<>>)
  BY <1>1, <1>2, <1>3, InitiateEndSafe DEF Pending
<1>4. CASE UNCHANGED active /\ Quiet(<<>>)
  BY <1>4, KeepsSession DEF Quiet
<1>5. QED
  BY <1>3, <1>4 DEF request_end

\* The end that shutdown() or a closed command channel starts.
LEMMA ClosingSafe ==
    ASSUME TypeOK, SessionSafe, UNCHANGED vid, initiate_end(active, <<>>)
    PROVE  SessionSafe'
<1>1. active \in SessionRecords
  BY DEF TypeOK, ActorTypeOK
<1>2. active.phase = "None" => ~active.endRequested
  BY DEF SessionSafe, NoVendAfterEndRequest
<1>3. QED
  BY <1>1, <1>2, InitiateEndSafe DEF Pending

LEMMA HandleCommandSafe ==
    ASSUME TypeOK, SessionSafe, UNCHANGED vid, NEW c \in Commands, handle_command(c)
    PROVE  SessionSafe'
<1>1. CASE abandon_vend(c)
  <2>1. CASE Pending /\ c.id = active.vend.id /\ refuse_vend(c.id, "Abandoned")
    BY <2>1, RefuseVendSafe
  <2>2. CASE UNCHANGED active /\ Quiet(<<>>)
    BY <2>2, KeepsSession DEF Quiet
  <2>3. QED
    BY <1>1, <2>1, <2>2 DEF abandon_vend, PendingIs
<1>2. QED
  BY <1>1, BeginSessionSafe, DisplayMessageSafe, DecideVendSafe, RequestEndSafe, ClosingSafe
     DEF handle_command

LEMMA ReceiveMessageSafe ==
    ASSUME TypeOK, SessionSafe, NEW m, ReceiveMessage(m)
    PROVE  SessionSafe'
BY AdapterMessageSafe, VendRequestSafe DEF ReceiveMessage, vendVars

LEMMA ActorStepSafe ==
    ASSUME TypeOK, SessionSafe, ActorStep
    PROVE  SessionSafe'
<1>1. CASE ReceiveCommand
  <2>1. Head(mailbox) \in Commands
    BY <1>1, HeadTailProperties DEF ReceiveCommand, TypeOK, ClientTypeOK
  <2>2. QED
    BY <1>1, <2>1, HandleCommandSafe DEF ReceiveCommand, vendVars
<1>2. CASE CommandChannelClosed
  BY <1>2, ClosingSafe DEF CommandChannelClosed, vendVars
<1>3. CASE VendDeadline
  BY <1>3, RefuseVendSafe DEF VendDeadline, vendVars
<1>4. CASE ExitDeadline
  BY <1>4, NoSessionSafe, UnansweredSafe DEF ExitDeadline, Quiet, vendVars
<1>5. CASE LinkClosed
  BY <1>5, NoSessionSafe, UnansweredSafe DEF LinkClosed, fail, vendVars
<1>6. CASE Exit
  BY <1>6, KeepsSession DEF Exit, Quiet, vendVars
<1>7. QED
  BY <1>1, <1>2, <1>3, <1>4, <1>5, <1>6 DEF ActorStep

\* The application's steps leave the session and the answers alone.
LEMMA ClientStepSafe ==
    ASSUME TypeOK, SessionSafe, ClientStep
    PROVE  SessionSafe'
<1>1. ActorRests
  BY DEF ClientStep, BeginSession, BeginReturns, Shutdown, ShutdownReturns, DeviceDisplay,
         DeviceDisplayReturns, DropDevice, SessionDisplay, SessionDisplayReturns, NextEvent,
         Finish, FinishReturns, DropSession, DropFuture, DropEvent, Approve, Deny, Decided,
         DropDecision, DropVend, Call, Return, decide
<1>2. QED
  BY <1>1, KeepsSession DEF ActorRests

LEMMA InitSafe == Init => SessionSafe
<1> SUFFICES ASSUME Init PROVE SessionSafe
  OBVIOUS
<1>1. active.phase = "None" /\ active.endRequested = FALSE
  BY DEF Init, ActorInit, NoSession, NewSession
<1>2. \A v \in Vends : answer[v] = <<>>
  BY DEF Init, ActorInit
<1>3. QED
  BY <1>1, <1>2 DEF SessionSafe, AnswerOK, NoVendAfterEndRequest, Pending

LEMMA SafeStep ==
    ASSUME TypeOK, SessionSafe, [Next]_vars
    PROVE  SessionSafe'
<1>1. CASE \E m \in Messages : ReceiveMessage(m)
  BY <1>1, ReceiveMessageSafe
<1>2. CASE ActorStep
  BY <1>2, ActorStepSafe
<1>3. CASE ClientStep
  BY <1>3, ClientStepSafe
<1>4. CASE Stopped \/ UNCHANGED vars
  BY <1>4, KeepsSession DEF Stopped, vars, vendVars
<1>5. QED
  BY <1>1, <1>2, <1>3, <1>4 DEF Next

\* The inductive invariant of both properties.
THEOREM SessionStaysSafe == Spec => []SessionSafe
BY InitSafe, TypeCorrect, SafeStep, PTL DEF Spec

\* The machine gets at most one VEND APPROVED or VEND DENIED for each VEND
\* REQUEST: decide_vend, the vend deadline, VEND CANCEL, abandon_vend and
\* initiate_end answer only the pending vend and leave its phase in that step.
THEOREM OneAnswer == Spec => []SingleAnswer
<1>1. SessionSafe => SingleAnswer
  BY DEF SessionSafe, AnswerOK, SingleAnswer
<1>2. QED
  BY SessionStaysSafe, <1>1, PTL

\* Once the end of a session was requested no VEND REQUEST is offered in it:
\* every handler that would go idle again starts the end instead.
THEOREM EndIsFinal == Spec => []NoVendAfterEndRequest
<1>1. SessionSafe => NoVendAfterEndRequest
  BY DEF SessionSafe
<1>2. QED
  BY SessionStaysSafe, <1>1, PTL

-----------------------------------------------------------------------------
(* The books: what is approved on the wire, counted in the summary of a    *)
(* session and reported to the application agrees.  Every step is first    *)
(* brought to one of four shapes (BookStep); the invariants are then       *)
(* proved of the shapes.                                                   *)

\* The session has an approved vend whose outcome is not known yet.
Open(s) ==
    \/ s.phase = "AwaitingVendResult"
    \/ s.phase = "AwaitingReset" /\ s.vend # NoVend

Total(summary) == summary.successes + summary.failures

\* What a step does to the session, with n outcomes counted.
Continues(n) ==
    /\ active.phase # "None" /\ active'.phase # "None"
    /\ active'.id = active.id /\ active'.summary.id = active.summary.id
    /\ Total(active'.summary) = Total(active.summary) + n
    /\ UNCHANGED completed
Completes(n) ==
    /\ active.phase # "None" /\ active' = NoSession
    /\ completed'.id = active.summary.id
    /\ Total(completed') = Total(active.summary) + n
\* Without a trace: there was none, the actor failed, or its grace period ended.
Vanishes ==
    /\ active' = NoSession /\ UNCHANGED completed
    /\ active = NoSession \/ alive' # "running" \/ ExitDeadline
Begins ==
    /\ active = NoSession /\ mailbox # <<>> /\ Head(mailbox).op = "BeginSession"
    /\ active' = NewSession(Head(mailbox).id)
    /\ completed' = NoSummary
    /\ mailbox' = Tail(mailbox)

\* Nothing is answered or reported; a vend that is pending or approved stays so,
\* unless the session goes, which completes only without an approved one.
Rests ==
    /\ UNCHANGED <<answer, outcome, vid, home>>
    /\ Pending' => Pending /\ active'.vend.id = active.vend.id
    /\ Open(active') => Open(active) /\ active'.vend = active.vend
    /\ \/ Continues(0) /\ (Open(active) => Open(active'))
       \/ Completes(0) /\ ~Open(active)
       \/ Vanishes
       \/ Begins

\* The pending vend is answered, and open from then on if it was approved.
Answers(frame) ==
    /\ Pending /\ frame.vend = active.vend.id /\ Logged(frame)
    /\ UNCHANGED <<outcome, vid, home>>
    /\ ~Pending'
    /\ \/ Vanishes
       \/ /\ Continues(0)
          /\ frame.name = "Approve" <=> Open(active')
          /\ Open(active') => active'.vend.id = frame.vend /\ active'.vend.amount = frame.amount

\* The outcome of the approved vend is reported and counted.
Reports(e) ==
    /\ Open(active) /\ e.kind \in Outcomes
    /\ e.vend = active.vend.id /\ e.amount = active.vend.amount
    /\ outcome' = [outcome EXCEPT ![e.vend] = Append(@, e)]
    /\ UNCHANGED <<answer, vid, home>>
    /\ ~Pending' /\ ~Open(active')
    /\ Continues(1) \/ Completes(1) \/ Vanishes

\* A new vend is offered, or denied at once.
Requests ==
    /\ active.phase = "Idle" /\ vid < MaxVends
    /\ vid' = vid + 1
    /\ home' = [home EXCEPT ![vid + 1] = active.id]
    /\ UNCHANGED outcome
    /\ ~Open(active')
    /\ Pending' => active'.vend.id = vid + 1 /\ UNCHANGED answer
    /\ UNCHANGED answer \/ Logged(VendFrame("Deny", vid + 1, 0))
    /\ Continues(0) \/ Vanishes

BookStep ==
    \/ Rests
    \/ \E frame \in Frames : Answers(frame)
    \/ \E e \in Events : Reports(e)
    \/ Requests

-----------------------------------------------------------------------------
(* The books. *)

Begun(id) == \/ active.id >= id \/ completed.id >= id
             \/ \E v \in Vends : home[v] >= id

\* A session is one or none, and its summary is its own.
SessionOK ==
    /\ active.phase = "None" <=> active = NoSession
    /\ active # NoSession => active.id >= 1 /\ active.summary.id = active.id /\ completed.id = 0

\* Sessions are begun in the order of their ids, each once.
BegunInOrder ==
    /\ ~Begun(sid + 1)
    /\ app \in {"beginning", "session", "displayingSession"} => sid >= 1
    /\ \A i \in DOMAIN mailbox :
         /\ mailbox[i].op = "BeginSession" => mailbox[i].id <= sid /\ ~Begun(mailbox[i].id)
         /\ mailbox[i].op \in {"BeginSession", "EndSession"} => mailbox[i].id >= 1
         /\ \A j \in DOMAIN mailbox :
              i < j /\ mailbox[i].op = "BeginSession" /\ mailbox[j].op = "BeginSession"
                => mailbox[i].id < mailbox[j].id

\* An approved vend was approved for the amount its session knows and has no
\* outcome, and the vend a session has in hand was requested in that session.
OpenVendOK ==
    /\ Open(active) =>
         /\ active.vend.id \in Vends /\ outcome[active.vend.id] = <<>>
         /\ answer[active.vend.id] # <<>> /\ answer[active.vend.id][1].name = "Approve"
         /\ answer[active.vend.id][1].amount = active.vend.amount
    /\ Pending \/ Open(active) => home[active.vend.id] = active.id

-----------------------------------------------------------------------------
(* Building blocks. *)

LEMMA NoSessionFacts ==
    /\ NoSession.phase = "None" /\ NoSession.id = 0
    /\ NoSession.vend = NoVend /\ ~Open(NoSession)
BY DEF NoSession, NewSession, Open

LEMMA OpenPhases ==
    \A s : s.phase \notin {"AwaitingVendResult", "AwaitingReset"} => ~Open(s)
BY DEF Open

LEMMA OpenIsApproved ==
    ASSUME active.vend # NoVend \/ active.phase # "AwaitingVendResult"
    PROVE  /\ Open(active) <=> ApprovedVend(active) # NoVend
           /\ Open(active) => ApprovedVend(active) = active.vend
BY DEF Open, ApprovedVend

\* The counters of the session in progress are numbers.
LEMMA SummaryType ==
    ASSUME NEW s \in SessionRecords
    PROVE  /\ s.summary \in Summaries
           /\ s.summary.successes \in Nat /\ s.summary.failures \in Nat
           /\ Total(s.summary) \in Nat /\ Total(s.summary) + 0 = Total(s.summary)
BY DEF SessionRecords, Summaries, Total

LEMMA SameRests ==
    ASSUME TypeOK, SessionOK, UNCHANGED <<active, completed, answer, outcome, vid, home>>
    PROVE  BookStep
<1>1. CASE active = NoSession
  BY <1>1, NoSessionFacts DEF BookStep, Rests, Vanishes, Pending
<1>2. CASE active # NoSession
  <2>1. active.phase # "None" /\ active \in SessionRecords
    BY <1>2 DEF SessionOK, TypeOK, ActorTypeOK
  <2>2. Continues(0)
    BY <2>1, SummaryType DEF Continues
  <2> QED BY <2>2 DEF BookStep, Rests, Pending
<1> QED BY <1>1, <1>2

\* Events that report no outcome.
LEMMA EmitNothing ==
    ASSUME NEW evs, evs = <<>> \/ evs[1].kind \notin Outcomes, Emit(evs)
    PROVE  UNCHANGED outcome
BY DEF Emit

LEMMA EmitOutcome ==
    ASSUME NEW evs, evs # <<>>, NEW e, evs[1] = e, e.kind \in Outcomes, Emit(evs)
    PROVE  outcome' = [outcome EXCEPT ![e.vend] = Append(@, e)]
BY DEF Emit

LEMMA EndedIsNone ==
    \A reason : Ended(reason).kind \notin Outcomes
BY DEF Ended, VendEvent, Outcomes

\* The first of the events an actor that fails sends.
LEMMA FirstOfFailure ==
    ASSUME NEW e
    PROVE  LET ended == IF active = NoSession THEN <<>> ELSE <<Ended("Disconnected")>>
           IN  /\ <<>> \o ended = <<>> \/ (<<>> \o ended)[1] = Ended("Disconnected")
               /\ <<e>> \o ended # <<>> /\ (<<e>> \o ended)[1] = e
<1> DEFINE d == Ended("Disconnected")
           S == {e, d}
           ended == IF active = NoSession THEN <<>> ELSE <<d>>
<1>0. ended = <<>> \/ ended = <<d>>
  OBVIOUS
<1> HIDE DEF d, ended
<1>1. ended \in Seq(S) /\ (ended = <<>> \/ ended[1] = d)
  <2>1. <<>> \in Seq(S) /\ <<d>> \in Seq(S) /\ <<d>>[1] = d
    OBVIOUS
  <2> QED BY <1>0, <2>1
<1>2. <<e>> \in Seq(S) /\ Len(<<e>>) = 1 /\ <<e>>[1] = e
  OBVIOUS
<1>3. <<>> \o ended = ended
  BY <1>1, ConcatEmptySeq
<1>4. /\ <<e>> \o ended \in Seq(S) /\ Len(<<e>> \o ended) = 1 + Len(ended)
      /\ Len(ended) \in Nat
      /\ (<<e>> \o ended)[1] = e
  BY <1>1, <1>2, ConcatProperties, LenProperties
<1>5. <<e>> \o ended # <<>>
  <2>1. Len(<<e>> \o ended) # 0
    BY <1>4
  <2>2. Len(<<>>) = 0
    OBVIOUS
  <2> QED BY <2>1, <2>2, Zenon
<1> QED BY <1>1, <1>3, <1>4, <1>5 DEF d, ended

LEMMA FailEmits ==
    ASSUME NEW before, fail(before),
           before = <<>> \/ \E e : before = <<e>> /\ e.kind \notin Outcomes
    PROVE  UNCHANGED outcome
<1> DEFINE evs == before \o IF active = NoSession THEN <<>> ELSE <<Ended("Disconnected")>>
<1>1. Emit(evs)
  BY DEF fail
<1>2. evs = <<>> \/ evs[1].kind \notin Outcomes
  BY FirstOfFailure, EndedIsNone
<1> QED BY <1>1, <1>2, EmitNothing

LEMMA FailMeans ==
    ASSUME NEW before, fail(before)
    PROVE  Vanishes /\ ~Pending' /\ ~Open(active')
BY NoSessionFacts DEF fail, Vanishes, Pending

\* A write that fails, of a frame that is no answer or answers the pending vend.
LEMMA FailBooks ==
    ASSUME UNCHANGED <<vid, home>>, NEW before, fail(before),
           before = <<>> \/ \E e : before = <<e>> /\ e.kind \notin Outcomes,
           NEW frame \in Frames, frame.vend = 0 \/ (Pending /\ frame.vend = active.vend.id),
           \E sent \in {frame, NoFrame} : wrote' = sent /\ Logged(sent)
    PROVE  BookStep
<1>1. Vanishes /\ ~Pending' /\ ~Open(active') /\ UNCHANGED outcome
  BY FailMeans, FailEmits
<1>2. CASE UNCHANGED answer
  BY <1>1, <1>2 DEF BookStep, Rests
<1>3. CASE Logged(frame) /\ Pending /\ frame.vend = active.vend.id
  BY <1>1, <1>3 DEF BookStep, Answers
<1> QED BY <1>2, <1>3, UnaddressedFrame, UnaddressedFrames

\* A write that fails after the outcome of the approved vend was reported.
LEMMA FailReports ==
    ASSUME UNCHANGED <<vid, home>>, NEW e \in Events, fail(<<e>>), e.kind \in Outcomes,
           Open(active), e.vend = active.vend.id, e.amount = active.vend.amount,
           NEW frame, frame.vend = 0,
           \E sent \in {frame, NoFrame} : wrote' = sent /\ Logged(sent)
    PROVE  BookStep
<1> DEFINE evs == <<e>> \o IF active = NoSession THEN <<>> ELSE <<Ended("Disconnected")>>
<1>1. Vanishes /\ ~Pending' /\ ~Open(active')
  BY FailMeans
<1>2. Emit(evs)
  BY DEF fail
<1>3. outcome' = [outcome EXCEPT ![e.vend] = Append(@, e)]
  BY <1>2, FirstOfFailure, EmitOutcome
<1>4. UNCHANGED answer
  BY UnaddressedFrame, UnaddressedFrames
<1> QED BY <1>1, <1>3, <1>4 DEF BookStep, Reports

-----------------------------------------------------------------------------
(* The handlers of the machine's messages. *)

Base == TypeOK /\ SessionOK /\ OpenVendOK

LEMMA BaseFacts ==
    ASSUME Base
    PROVE  /\ active \in SessionRecords /\ (active.phase = "None" <=> active = NoSession)
           /\ Open(active) <=> ApprovedVend(active) # NoVend
           /\ Open(active) => ApprovedVend(active) = active.vend
<1>1. active.vend # NoVend \/ active.phase # "AwaitingVendResult"
  BY BoundsAssumption DEF Base, OpenVendOK, Open, NoVend, Vends
<1> QED BY <1>1, OpenIsApproved DEF Base, SessionOK, TypeOK, ActorTypeOK

\* The session goes on with nothing approved, before or after.
LEMMA GoesOn ==
    ASSUME UNCHANGED <<answer, outcome, vid, home>>, Continues(0),
           ~Open(active), ~Open(active'), ~Pending'
    PROVE  BookStep
BY DEF BookStep, Rests

LEMMA InitiateEndBooks ==
    ASSUME Base, UNCHANGED <<vid, home>>, NEW s \in SessionRecords, initiate_end(s, <<>>),
           s.phase = active.phase, s.vend = active.vend, s.id = active.id,
           s.summary = active.summary, s.phase = "None" => s = active
    PROVE  BookStep
<1> DEFINE e == [s EXCEPT !.endRequested = TRUE, !.summary.reason = "ApplicationRequested"]
<1>1. /\ active \in SessionRecords
      /\ e.phase = s.phase /\ e.id = s.id /\ e.vend = s.vend
      /\ e.summary.id = s.summary.id /\ Total(e.summary) = Total(s.summary)
      /\ \A p : LET t == [e EXCEPT !.phase = p]
                IN  t.phase = p /\ t.id = e.id /\ t.vend = e.vend /\ t.summary = e.summary
  BY BaseFacts DEF SessionRecords, Summaries, Total
<1>2. Total(active.summary) + 0 = Total(active.summary)
  BY <1>1, SummaryType
<1> HIDE DEF e
<1>3. CASE s.phase = "Idle"
  <2> DEFINE frame == Frame("SessionCancel")
  <2>1. frame \in Frames /\ frame.vend = 0
    BY FrameType, UnaddressedFrames DEF FrameNames
  <2>2. CASE fail(<<>>) /\ \E sent \in {frame, NoFrame} : wrote' = sent /\ Logged(sent)
    BY <2>1, <2>2, FailBooks
  <2>3. CASE /\ Logged(frame) /\ active' = [e EXCEPT !.phase = "AwaitingSessionComplete"]
             /\ Emit(<<>>) /\ UNCHANGED completed
    <3>1. UNCHANGED <<answer, outcome>>
      BY <2>1, <2>3, UnaddressedFrame, EmitNothing
    <3>2. Continues(0) /\ ~Open(active) /\ ~Open(active') /\ ~Pending'
      BY <1>1, <1>2, <1>3, <2>3 DEF Continues, Open, Pending
    <3> QED BY <3>1, <3>2, GoesOn
  <2> QED BY <1>3, <2>2, <2>3 DEF initiate_end, Send, Calm, e
<1>4. CASE s.phase = "VendPending"
  <2> DEFINE frame == VendFrame("Deny", s.vend.id, 0)
  <2>1. frame \in Frames /\ frame.vend = active.vend.id /\ frame.name = "Deny" /\ Pending
    BY <1>4, FrameType, UnaddressedFrames
       DEF FrameNames, SessionRecords, VendRecords, Cash, VendFrame, Pending
  <2>2. CASE fail(<<>>) /\ \E sent \in {frame, NoFrame} : wrote' = sent /\ Logged(sent)
    BY <2>1, <2>2, FailBooks
  <2>3. CASE /\ Logged(frame) /\ active' = [e EXCEPT !.phase = "DenyingForEnd"]
             /\ Emit(<<>>) /\ UNCHANGED completed
    <3>1. UNCHANGED outcome
      BY <2>3, EmitNothing
    <3>2. Continues(0) /\ ~Open(active') /\ ~Pending'
      BY <1>1, <1>2, <1>4, <2>3 DEF Continues, Open, Pending
    <3> QED BY <2>1, <2>3, <3>1, <3>2 DEF BookStep, Answers
  <2> QED BY <1>4, <2>2, <2>3 DEF initiate_end, Send, Calm, e
<1>5. CASE s.phase \notin {"Idle", "VendPending"}
  <2>1. /\ active' = IF s.phase = "None" THEN s ELSE e
        /\ UNCHANGED <<answer, outcome, completed>>
    BY <1>5, EmitNothing DEF initiate_end, Quiet, Calm, e
  <2>2. CASE s.phase = "None"
    BY <2>1, <2>2, SameRests DEF Base
  <2>3. CASE s.phase # "None"
    <3>1. Continues(0) /\ ~Pending' /\ active'.vend = active.vend /\ (Open(active) <=> Open(active'))
      BY <1>1, <1>2, <1>5, <2>1, <2>3 DEF Continues, Open, Pending
    <3> QED BY <2>1, <3>1 DEF BookStep, Rests
  <2> QED BY <2>2, <2>3
<1> QED BY <1>3, <1>4, <1>5

LEMMA OutOfSequenceBooks ==
    ASSUME Base, UNCHANGED <<vid, home>>, command_out_of_sequence
    PROVE  BookStep
<1> DEFINE frame == Frame("CommandOutOfSequence")
           expired == IF Pending
                        THEN <<VendEvent("VendDecisionExpired", active.vend.id, 0, "SessionEnded")>>
                        ELSE <<>>
           suspended == [active EXCEPT !.phase = "AwaitingReset", !.vend = ApprovedVend(active)]
<1>1. frame \in Frames /\ frame.vend = 0
  BY FrameType, UnaddressedFrames DEF FrameNames
<1>2. expired = <<>> \/ \E e : expired = <<e>> /\ e.kind \notin Outcomes
  BY DEF VendEvent, Outcomes
<1>3. CASE fail(expired) /\ \E sent \in {frame, NoFrame} : wrote' = sent /\ Logged(sent)
  BY <1>1, <1>2, <1>3, FailBooks
<1>4. CASE /\ Logged(frame) /\ Emit(expired) /\ UNCHANGED completed
           /\ active' = IF active.phase = "None" THEN active ELSE suspended
  <2>1. UNCHANGED <<answer, outcome>>
    <3>1. expired = <<>> \/ expired[1].kind \notin Outcomes
      BY <1>2
    <3> QED BY <1>1, <1>4, <3>1, UnaddressedFrame, EmitNothing
  <2>2. CASE active.phase = "None"
    BY <1>4, <2>1, <2>2, SameRests DEF Base
  <2>3. CASE active.phase # "None"
    <3>1. /\ active'.phase = "AwaitingReset" /\ active'.vend = ApprovedVend(active)
          /\ active'.id = active.id /\ active'.summary = active.summary
      BY <1>4, <2>3, BaseFacts DEF SessionRecords
    <3>2. Continues(0) /\ ~Pending'
      BY <1>4, <2>3, <3>1, BaseFacts, SummaryType DEF Continues, Pending
    <3>3. /\ Open(active') <=> Open(active)
          /\ Open(active') => active'.vend = active.vend
      BY <3>1, BaseFacts DEF Open
    <3> QED BY <2>1, <3>2, <3>3 DEF BookStep, Rests
  <2> QED BY <2>2, <2>3
<1> QED BY <1>3, <1>4 DEF command_out_of_sequence, Send, Calm

LEMMA AckBooks ==
    ASSUME Base, UNCHANGED <<vid, home>>, handle_ack
    PROVE  BookStep
<1>1. active \in SessionRecords /\ Total(active.summary) + 0 = Total(active.summary)
  BY BaseFacts, SummaryType
<1>2. CASE active.phase = "DenyingForEnd"
  <2> DEFINE frame == Frame("SessionCancel")
  <2>1. frame \in Frames /\ frame.vend = 0
    BY FrameType, UnaddressedFrames DEF FrameNames
  <2>2. CASE fail(<<>>) /\ \E sent \in {frame, NoFrame} : wrote' = sent /\ Logged(sent)
    BY <2>1, <2>2, FailBooks
  <2>3. CASE /\ Logged(frame) /\ Emit(<<>>) /\ UNCHANGED completed
             /\ active' = [active EXCEPT !.phase = "AwaitingSessionComplete", !.vend = NoVend]
    <3>1. UNCHANGED <<answer, outcome>>
      BY <2>1, <2>3, UnaddressedFrame, EmitNothing
    <3>2. /\ active'.phase = "AwaitingSessionComplete"
          /\ active'.id = active.id /\ active'.summary = active.summary
      BY <1>1, <2>3 DEF SessionRecords
    <3>3. Continues(0) /\ ~Open(active) /\ ~Open(active') /\ ~Pending'
      BY <1>1, <1>2, <2>3, <3>2 DEF Continues, Open, Pending
    <3> QED BY <3>1, <3>3, GoesOn
  <2> QED BY <1>2, <2>2, <2>3 DEF handle_ack, Send, Calm
<1>3. CASE active.phase = "AwaitingEndSessionAck"
  <2>1. /\ active' = NoSession /\ UNCHANGED answer /\ Emit(<<Ended(active.endReason)>>)
        /\ completed' = [active.summary EXCEPT !.reason = active.endReason]
    BY <1>3 DEF handle_ack, complete_active, Quiet
  <2>2. UNCHANGED outcome
    BY <2>1, EmitNothing, EndedIsNone
  <2>3. Completes(0) /\ ~Open(active) /\ ~Open(active') /\ ~Pending'
    BY <1>1, <1>3, <2>1, NoSessionFacts DEF Completes, Total, Open, Pending, SessionRecords, Summaries
  <2> QED BY <2>1, <2>2, <2>3 DEF BookStep, Rests
<1>4. CASE active.phase \notin {"DenyingForEnd", "AwaitingEndSessionAck"}
  <2>1. UNCHANGED <<active, completed, answer, outcome>>
    BY <1>4, EmitNothing DEF handle_ack, Quiet, Calm
  <2> QED BY <2>1, SameRests DEF Base
<1> QED BY <1>2, <1>3, <1>4

LEMMA ResetBooks ==
    ASSUME Base, UNCHANGED <<vid, home>>, handle_reset
    PROVE  BookStep
<1> DEFINE vend == ApprovedVend(active)
           e == VendEvent("VendSucceeded", vend.id, vend.amount, "AssumedAfterReset")
           d == Ended("Reset")
           assumed == IF vend = NoVend THEN <<>> ELSE <<e>>
           s == [active EXCEPT !.summary.successes = @ + Len(assumed)]
<1>1. active \in SessionRecords /\ Total(active.summary) \in Nat
  BY BaseFacts, SummaryType
<1>2. ~Open(active') /\ ~Pending' /\ UNCHANGED answer /\ active' = NoSession
  BY NoSessionFacts DEF handle_reset, Quiet, complete_active, Pending
<1>3. CASE active = NoSession
  <2>1. UNCHANGED <<active, completed, answer, outcome>>
    BY <1>2, <1>3, EmitNothing DEF handle_reset, Quiet
  <2> QED BY <2>1, SameRests DEF Base
<1>4. CASE active # NoSession /\ vend = NoVend
  <2>1. Emit(Append(<<>>, d)) /\ completed' = [s.summary EXCEPT !.reason = "Reset"] /\ assumed = <<>>
    BY <1>4 DEF handle_reset, Quiet, complete_active
  <2> HIDE DEF d
  <2>2. Append(<<>>, d) = <<d>> /\ <<d>>[1] = d
    OBVIOUS
  <2>3. d.kind \notin Outcomes
    BY EndedIsNone DEF d
  <2>4. UNCHANGED outcome
    BY <2>1, <2>2, <2>3, EmitNothing
  <2>5. completed'.id = active.summary.id /\ Total(completed') = Total(active.summary) + 0
    <3>1. Len(assumed) = 0
      BY <2>1
    <3> HIDE DEF assumed
    <3> QED BY <1>1, <2>1, <3>1 DEF Total, SessionRecords, Summaries
  <2>6. Completes(0) /\ ~Open(active)
    BY <1>2, <1>4, <2>5, BaseFacts DEF Completes
  <2> QED BY <1>2, <2>4, <2>6 DEF BookStep, Rests
<1>5. CASE active # NoSession /\ vend # NoVend
  <2>1. /\ Emit(Append(<<e>>, d)) /\ completed' = [s.summary EXCEPT !.reason = "Reset"]
        /\ assumed = <<e>>
    BY <1>5 DEF handle_reset, Quiet, complete_active
  <2>2. /\ Open(active) /\ vend = active.vend
        /\ e.kind = "VendSucceeded" /\ e.vend = active.vend.id /\ e.amount = active.vend.amount
    BY <1>5, BaseFacts DEF VendEvent
  <2>3. e \in Events
    <3>1. vend.id \in 0..MaxVends /\ vend.amount \in Cash
      BY <1>1, ApprovedVendType DEF VendRecords
    <3>2. "VendSucceeded" \in EventKinds /\ "AssumedAfterReset" \in Whys
      BY DEF EventKinds, Outcomes, Whys
    <3> QED BY <3>1, <3>2, VendEventType
  <2>4. completed'.id = active.summary.id /\ Total(completed') = Total(active.summary) + 1
    <3>1. Len(assumed) = 1
      BY <2>1
    <3> HIDE DEF assumed
    <3> QED BY <1>1, <2>1, <3>1 DEF Total, SessionRecords, Summaries
  <2>5. Completes(1)
    BY <1>2, <1>5, <2>4, BaseFacts DEF Completes
  <2> HIDE DEF e, d
  <2>6. Append(<<e>>, d) # <<>> /\ Append(<<e>>, d)[1] = e
    OBVIOUS
  <2>7. outcome' = [outcome EXCEPT ![e.vend] = Append(@, e)]
    BY <2>1, <2>2, <2>6, EmitOutcome DEF Outcomes
  <2>8. e.kind \in Outcomes
    BY <2>2 DEF Outcomes
  <2> QED BY <1>2, <2>2, <2>3, <2>5, <2>7, <2>8 DEF BookStep, Reports
<1> QED BY <1>3, <1>4, <1>5

LEMMA ReaderBooks ==
    ASSUME Base, UNCHANGED <<vid, home>>,
           \/ handle_setup_configuration \/ handle_setup_prices \/ handle_reader_cancel
           \/ \E newStatus \in {"Enabled", "Disabled"} : handle_reader_control(newStatus)
    PROVE  BookStep
<1>1. CASE command_out_of_sequence
  BY <1>1, OutOfSequenceBooks
<1>2. CASE UNCHANGED <<active, completed, answer>> /\ Emit(<<>>)
  BY <1>2, SameRests, EmitNothing DEF Base
<1>3. CASE handle_reader_cancel /\ ~command_out_of_sequence
  <2> DEFINE frame == Frame("Cancelled")
  <2>1. frame \in Frames /\ frame.vend = 0
    BY FrameType, UnaddressedFrames DEF FrameNames
  <2>2. CASE fail(<<>>) /\ \E sent \in {frame, NoFrame} : wrote' = sent /\ Logged(sent)
    BY <2>1, <2>2, FailBooks
  <2>3. CASE Logged(frame) /\ Emit(<<>>) /\ UNCHANGED <<active, completed>>
    BY <1>2, <2>1, <2>3, UnaddressedFrame
  <2> QED BY <1>3, <2>2, <2>3 DEF handle_reader_cancel, Send, Calm
<1> QED
  BY <1>1, <1>2, <1>3
     DEF handle_setup_configuration, handle_setup_prices, handle_reader_control, Quiet

LEMMA SessionCompleteBooks ==
    ASSUME Base, UNCHANGED <<vid, home>>, handle_session_complete
    PROVE  BookStep
<1> DEFINE frame == Frame("EndSession")
           closing == [active EXCEPT !.phase = "AwaitingEndSessionAck", !.vend = NoVend,
                                     !.endReason = active.summary.reason]
<1>1. frame \in Frames /\ frame.vend = 0
  BY FrameType, UnaddressedFrames DEF FrameNames
<1>2. CASE command_out_of_sequence
  BY <1>2, OutOfSequenceBooks
<1>3. CASE fail(<<>>) /\ \E sent \in {frame, NoFrame} : wrote' = sent /\ Logged(sent)
  BY <1>1, <1>3, FailBooks
<1>4. CASE /\ active.phase \notin {"VendPending", "AwaitingVendResult", "AwaitingReset"}
           /\ Logged(frame) /\ Emit(<<>>) /\ UNCHANGED completed
           /\ active' = IF active = NoSession THEN active ELSE closing
  <2>1. UNCHANGED <<answer, outcome>>
    BY <1>1, <1>4, UnaddressedFrame, EmitNothing
  <2>2. CASE active = NoSession
    BY <1>4, <2>1, <2>2, SameRests DEF Base
  <2>3. CASE active # NoSession
    <3>1. /\ active'.phase = "AwaitingEndSessionAck"
          /\ active'.id = active.id /\ active'.summary = active.summary
      BY <1>4, <2>3, BaseFacts DEF SessionRecords
    <3>2. Continues(0) /\ ~Open(active) /\ ~Open(active') /\ ~Pending'
      BY <1>4, <2>3, <3>1, BaseFacts, SummaryType DEF Continues, Open, Pending
    <3> QED BY <2>1, <3>2, GoesOn
  <2> QED BY <2>2, <2>3
<1> QED BY <1>2, <1>3, <1>4 DEF handle_session_complete, Send, Calm

LEMMA VendCancelBooks ==
    ASSUME Base, UNCHANGED <<vid, home>>, handle_vend_cancel
    PROVE  BookStep
<1> DEFINE frame == VendFrame("Deny", active.vend.id, 0)
           told == <<VendEvent("VendCancelled", active.vend.id, 0, "")>>
           cancelled(s) == [s EXCEPT !.summary.cancels = @ + 1]
<1>1. active \in SessionRecords /\ Total(active.summary) + 0 = Total(active.summary)
  BY BaseFacts, SummaryType
<1>2. \A s \in SessionRecords :
        /\ cancelled(s).phase = s.phase /\ cancelled(s).id = s.id /\ cancelled(s).vend = s.vend
        /\ cancelled(s).summary.id = s.summary.id /\ Total(cancelled(s).summary) = Total(s.summary)
  BY DEF SessionRecords, Summaries, Total
<1>3. told[1].kind \notin Outcomes
  BY DEF VendEvent, Outcomes
<1>4. CASE command_out_of_sequence
  BY <1>4, OutOfSequenceBooks
<1>5. CASE Pending
  <2>1. frame \in Frames /\ frame.vend = active.vend.id /\ frame.name = "Deny"
    BY <1>1, FrameType, UnaddressedFrames
       DEF FrameNames, SessionRecords, VendRecords, Cash, VendFrame
  <2>2. CASE fail(<<>>) /\ \E sent \in {frame, NoFrame} : wrote' = sent /\ Logged(sent)
    BY <1>5, <2>1, <2>2, FailBooks
  <2>3. CASE /\ Logged(frame) /\ active' = cancelled(Idling(active))
             /\ Emit(told) /\ UNCHANGED completed
    <3>1. UNCHANGED outcome
      BY <1>3, <2>3, EmitNothing
    <3>2. /\ Idling(active) \in SessionRecords /\ Idling(active).phase = "Idle"
          /\ Idling(active).id = active.id /\ Idling(active).summary = active.summary
      BY <1>1, IdlingType DEF Idling, SessionRecords
    <3>3. Continues(0) /\ ~Open(active') /\ ~Pending'
      BY <1>1, <1>2, <1>5, <2>3, <3>2 DEF Continues, Open, Pending
    <3> QED BY <1>5, <2>1, <2>3, <3>1, <3>3 DEF BookStep, Answers
  <2> QED BY <1>5, <2>2, <2>3, <1>4 DEF handle_vend_cancel, Send, Pending, Calm
<1>6. CASE active.phase = "DenyingForEnd"
  <2>1. UNCHANGED <<answer, completed>> /\ active' = cancelled(active) /\ Emit(told)
    BY <1>6 DEF handle_vend_cancel, Quiet, Pending, Calm
  <2>2. UNCHANGED outcome
    BY <1>3, <2>1, EmitNothing
  <2>3. Continues(0) /\ ~Open(active) /\ ~Open(active') /\ ~Pending'
    BY <1>1, <1>2, <1>6, <2>1 DEF Continues, Open, Pending
  <2> QED BY <2>1, <2>2, <2>3, GoesOn
<1> QED BY <1>4, <1>5, <1>6 DEF handle_vend_cancel

LEMMA VendResultBooks ==
    ASSUME Base, UNCHANGED <<vid, home>>, NEW kind \in Outcomes, NEW why \in Whys,
           NEW counted \in SessionRecords, counted.id = active.id,
           counted.summary.id = active.summary.id,
           Total(counted.summary) = Total(active.summary) + 1,
           VendResult(kind, why, counted)
    PROVE  BookStep
<1> DEFINE e == VendEvent(kind, active.vend.id, active.vend.amount, why)
           idle == Idling(counted)
           ending == [idle EXCEPT !.endRequested = TRUE, !.summary.reason = "ApplicationRequested"]
<1>1. active \in SessionRecords
  BY BaseFacts
<1>2. /\ idle \in SessionRecords /\ idle.phase = "Idle" /\ idle.id = counted.id
      /\ idle.summary = counted.summary
  BY IdlingType DEF Idling, SessionRecords
<1>3. CASE active.phase # "AwaitingVendResult" /\ command_out_of_sequence
  BY <1>3, OutOfSequenceBooks
<1>4. CASE active.phase = "AwaitingVendResult"
  <2>1. /\ e \in Events /\ e.kind \in Outcomes /\ e.vend = active.vend.id
        /\ e.amount = active.vend.amount /\ <<e>> # <<>> /\ <<e>>[1] = e
    <3>1. active.vend.id \in 0..MaxVends /\ active.vend.amount \in Cash
      BY <1>1 DEF SessionRecords, VendRecords
    <3>2. kind \in EventKinds
      BY DEF EventKinds
    <3>3. e \in Events
      BY <3>1, <3>2, VendEventType
    <3> QED BY <3>3 DEF VendEvent
  <2>2. Open(active)
    BY <1>4 DEF Open
  <2>3. ASSUME Emit(<<e>>), UNCHANGED answer, ~Open(active'), ~Pending', Continues(1)
        PROVE  BookStep
    <3>1. outcome' = [outcome EXCEPT ![e.vend] = Append(@, e)]
      BY <2>1, <2>3, EmitOutcome
    <3> QED BY <2>1, <2>2, <2>3, <3>1 DEF BookStep, Reports
  <2>4. CASE active' = idle /\ Emit(<<e>>) /\ UNCHANGED <<answer, completed>>
    <3>1. Continues(1) /\ ~Open(active') /\ ~Pending'
      BY <1>2, <1>4, <2>4 DEF Continues, Open, Pending
    <3> QED BY <2>3, <2>4, <3>1
  <2>5. CASE initiate_end(idle, <<e>>)
    <3> DEFINE frame == Frame("SessionCancel")
    <3>1. frame.vend = 0
      BY UnaddressedFrames
    <3>2. CASE fail(<<e>>) /\ \E sent \in {frame, NoFrame} : wrote' = sent /\ Logged(sent)
      BY <2>1, <2>2, <3>1, <3>2, FailReports
    <3>3. CASE /\ Logged(frame) /\ Emit(<<e>>) /\ UNCHANGED completed
               /\ active' = [ending EXCEPT !.phase = "AwaitingSessionComplete"]
      <4>1. /\ active'.phase = "AwaitingSessionComplete" /\ active'.id = idle.id
            /\ active'.summary.id = idle.summary.id
            /\ Total(active'.summary) = Total(idle.summary)
        BY <1>2, <3>3 DEF SessionRecords, Summaries, Total
      <4>2. Continues(1) /\ ~Open(active') /\ ~Pending'
        BY <1>2, <1>4, <3>3, <4>1 DEF Continues, Open, Pending
      <4> QED BY <2>3, <3>1, <3>3, <4>2, UnaddressedFrame
    <3> QED BY <1>2, <2>5, <3>2, <3>3 DEF initiate_end, Send, Calm
  <2>6. \/ active' = idle /\ Emit(<<e>>) /\ UNCHANGED <<answer, completed>>
        \/ initiate_end(idle, <<e>>)
    BY <1>4 DEF VendResult, Quiet, Calm
  <2> QED BY <2>4, <2>5, <2>6
<1> QED BY <1>3, <1>4 DEF VendResult

LEMMA VendOutcomeBooks ==
    ASSUME Base, UNCHANGED <<vid, home>>, handle_vend_success \/ handle_vend_failure
    PROVE  BookStep
<1> DEFINE success == [active EXCEPT !.summary.successes = @ + 1]
           failure == [active EXCEPT !.summary.failures = @ + 1]
<1>1. /\ success \in SessionRecords /\ success.id = active.id
      /\ success.summary.id = active.summary.id
      /\ Total(success.summary) = Total(active.summary) + 1
      /\ failure \in SessionRecords /\ failure.id = active.id
      /\ failure.summary.id = active.summary.id
      /\ Total(failure.summary) = Total(active.summary) + 1
  BY BaseFacts DEF SessionRecords, Summaries, Total
<1>2. {"VendSucceeded", "VendFailed"} = Outcomes /\ "Confirmed" \in Whys /\ "" \in Whys
  BY DEF Outcomes, Whys
<1> HIDE DEF success, failure
<1>3. CASE VendResult("VendSucceeded", "Confirmed", success)
  BY <1>1, <1>2, <1>3, VendResultBooks
<1>4. CASE VendResult("VendFailed", "", failure)
  BY <1>1, <1>2, <1>4, VendResultBooks
<1> QED BY <1>3, <1>4 DEF handle_vend_success, handle_vend_failure, success, failure

LEMMA AdapterMessageBooks ==
    ASSUME Base, UNCHANGED <<vid, home>>, NEW m, handle_adapter_message(m)
    PROVE  BookStep
<1>1. CASE Quiet(<<>>) /\ UNCHANGED <<active, invalid>> /\ Calm
  BY <1>1, SameRests, EmitNothing DEF Base, Quiet, Calm
<1> QED
  BY <1>1, AckBooks, ResetBooks, ReaderBooks, VendCancelBooks, VendOutcomeBooks,
     SessionCompleteBooks
     DEF handle_adapter_message

LEMMA VendRequestBooks ==
    ASSUME Base, handle_vend_request
    PROVE  BookStep
<1> DEFINE v == vid + 1
<1>1. active \in SessionRecords /\ Total(active.summary) + 0 = Total(active.summary)
  BY BaseFacts, SummaryType
<1>2. CASE command_out_of_sequence /\ UNCHANGED vendVars
  BY <1>2, OutOfSequenceBooks DEF vendVars
<1>3. CASE active.phase = "Idle" /\ vid < MaxVends
  <2>1. vid' = v /\ home' = [home EXCEPT ![v] = active.id]
    BY <1>3 DEF handle_vend_request
  <2>2. CASE HasSender /\ Listening
    <3>1. PICK price \in Amounts :
            /\ active' = [active EXCEPT !.phase = "VendPending",
                                        !.vend = [id |-> v, price |-> price, amount |-> 0]]
            /\ Quiet(<<VendEvent("VendRequested", v, price, "")>>)
            /\ UNCHANGED completed
      BY <1>3, <2>2 DEF handle_vend_request, Calm
    <3>2. UNCHANGED <<answer, outcome>>
      <4> DEFINE e == VendEvent("VendRequested", v, price, "")
      <4>1. <<e>>[1].kind \notin Outcomes
        BY DEF VendEvent, Outcomes
      <4>2. Emit(<<e>>) /\ UNCHANGED answer
        BY <3>1 DEF Quiet
      <4> QED BY <4>1, <4>2, EmitNothing
    <3>3. /\ active'.phase = "VendPending" /\ active'.vend.id = v
          /\ active'.id = active.id /\ active'.summary = active.summary
      BY <1>1, <3>1 DEF SessionRecords
    <3>4. Continues(0) /\ ~Open(active')
      BY <1>1, <1>3, <3>1, <3>3 DEF Continues, Open
    <3> QED BY <1>3, <2>1, <3>2, <3>3, <3>4 DEF BookStep, Requests
  <2>3. ASSUME UNCHANGED outcome, ~Pending', ~Open(active'), Continues(0) \/ Vanishes,
               UNCHANGED answer \/ Logged(VendFrame("Deny", v, 0))
        PROVE  BookStep
    BY <1>3, <2>1, <2>3 DEF BookStep, Requests
  <2>4. CASE HasSender /\ ~Listening
    <3> DEFINE frame == VendFrame("Deny", v, 0)
    <3>1. CASE Logged(frame) /\ Emit(<<>>) /\ UNCHANGED <<active, completed>>
      <4>1. UNCHANGED outcome
        BY <3>1, EmitNothing
      <4>2. Continues(0) /\ ~Open(active') /\ ~Pending'
        BY <1>1, <1>3, <3>1 DEF Continues, Open, Pending
      <4> QED BY <2>3, <3>1, <4>1, <4>2
    <3>2. CASE fail(<<>>) /\ \E sent \in {frame, NoFrame} : Logged(sent)
      <4>1. Vanishes /\ ~Pending' /\ ~Open(active') /\ UNCHANGED outcome
        BY <3>2, FailMeans, FailEmits
      <4>2. UNCHANGED answer \/ Logged(frame)
        BY <3>2, UnaddressedFrame, UnaddressedFrames
      <4> QED BY <2>3, <4>1, <4>2
    <3> QED BY <1>3, <2>4, <3>1, <3>2 DEF handle_vend_request, Send, Calm
  <2>5. CASE ~HasSender
    <3>1. fail(<<>>) /\ UNCHANGED answer
      BY <1>3, <2>5 DEF handle_vend_request
    <3>2. Vanishes /\ ~Pending' /\ ~Open(active') /\ UNCHANGED outcome
      BY <3>1, FailMeans, FailEmits
    <3> QED BY <2>3, <3>1, <3>2
  <2> QED BY <2>2, <2>4, <2>5
<1> QED BY <1>2, <1>3 DEF handle_vend_request

-----------------------------------------------------------------------------
(* The commands, the arms and the application's steps. *)

LEMMA QuietBooks ==
    ASSUME Base, UNCHANGED <<vid, home>>, UNCHANGED <<active, completed>>, Quiet(<<>>)
    PROVE  BookStep
BY SameRests, EmitNothing DEF Base, Quiet

LEMMA BeginSessionBooks ==
    ASSUME Base, UNCHANGED <<vid, home>>, mailbox # <<>>,
           Head(mailbox).op = "BeginSession", begin_session(Head(mailbox)),
           Ready, Queue(Tail(mailbox))
    PROVE  BookStep
<1> DEFINE frame == Frame("BeginSession")
           c == Head(mailbox)
<1>1. frame \in Frames /\ frame.vend = 0
  BY FrameType, UnaddressedFrames DEF FrameNames
<1>2. CASE UNCHANGED <<active, completed>> /\ Quiet(<<>>)
  BY <1>2, QuietBooks
<1>3. CASE fail(<<>>) /\ \E sent \in {frame, NoFrame} : wrote' = sent /\ Logged(sent)
  BY <1>1, <1>3, FailBooks
<1>4. CASE /\ active = NoSession /\ Logged(frame) /\ Emit(<<>>)
           /\ active' = NewSession(c.id) /\ completed' = NoSummary /\ UNCHANGED alive
  <2>1. UNCHANGED <<answer, outcome>>
    BY <1>1, <1>4, UnaddressedFrame, EmitNothing
  <2>2. active'.phase = "Idle"
    BY <1>4 DEF NewSession
  <2>3. mailbox' = Tail(mailbox)
    BY <1>4 DEF Ready, Queue
  <2>4. Begins /\ ~Open(active') /\ ~Pending'
    BY <1>4, <2>2, <2>3 DEF Begins, Open, Pending
  <2> QED BY <2>1, <2>4 DEF BookStep, Rests
<1> QED BY <1>2, <1>3, <1>4 DEF begin_session, Send

LEMMA DisplayMessageBooks ==
    ASSUME Base, UNCHANGED <<vid, home>>, NEW c, display_message(c)
    PROVE  BookStep
<1> DEFINE frame == Frame("DisplayRequest")
<1>1. frame \in Frames /\ frame.vend = 0
  BY FrameType, UnaddressedFrames DEF FrameNames
<1>2. CASE UNCHANGED <<active, completed>> /\ Quiet(<<>>)
  BY <1>2, QuietBooks
<1>3. CASE fail(<<>>) /\ \E sent \in {frame, NoFrame} : wrote' = sent /\ Logged(sent)
  BY <1>1, <1>3, FailBooks
<1>4. CASE Logged(frame) /\ Emit(<<>>) /\ UNCHANGED <<active, completed>>
  BY <1>1, <1>4, UnaddressedFrame, SameRests, EmitNothing DEF Base
<1> QED BY <1>2, <1>3, <1>4 DEF display_message, Send

LEMMA DecideVendBooks ==
    ASSUME Base, UNCHANGED <<vid, home>>, NEW c \in Commands, decide_vend(c),
           c.op \in {"Approve", "Deny"}
    PROVE  BookStep
<1>1. /\ active \in SessionRecords /\ Total(active.summary) + 0 = Total(active.summary)
      /\ c.id \in 0..MaxVends /\ c.arg \in Cash
  BY BaseFacts, SummaryType, CommandType DEF VendOps
<1>2. CASE UNCHANGED <<active, completed>> /\ Quiet(<<>>)
  BY <1>2, QuietBooks
<1>3. CASE PendingIs(c.id) /\ write_decision(c)
  <2>1. Pending /\ c.id = active.vend.id
    BY <1>3 DEF PendingIs
  <2>2. CASE c.op = "Approve"
    <3> DEFINE frame == VendFrame("Approve", c.id, c.arg)
               approved == [active EXCEPT !.phase = "AwaitingVendResult", !.vend.amount = c.arg]
    <3>1. /\ frame \in Frames /\ frame.vend = c.id /\ frame.name = "Approve"
          /\ frame.amount = c.arg
      BY <1>1, FrameType DEF FrameNames, VendFrame
    <3>2. CASE fail(<<>>) /\ \E sent \in {frame, NoFrame} : wrote' = sent /\ Logged(sent)
      BY <2>1, <3>1, <3>2, FailBooks
    <3>3. CASE Logged(frame) /\ active' = approved /\ Emit(<<>>) /\ UNCHANGED completed
      <4>1. UNCHANGED outcome
        BY <3>3, EmitNothing
      <4>2. /\ active'.phase = "AwaitingVendResult" /\ active'.vend.amount = c.arg
            /\ active'.vend.id = active.vend.id
            /\ active'.id = active.id /\ active'.summary = active.summary
        BY <1>1, <3>3 DEF SessionRecords, VendRecords
      <4>3. Continues(0) /\ Open(active') /\ ~Pending'
        BY <1>1, <2>1, <3>3, <4>2 DEF Continues, Open, Pending
      <4> QED BY <2>1, <3>1, <3>3, <4>1, <4>2, <4>3 DEF BookStep, Answers
    <3> QED BY <1>3, <2>2, <3>2, <3>3 DEF write_decision, Send, DecisionRest
  <2>3. CASE c.op = "Deny"
    <3> DEFINE frame == VendFrame("Deny", c.id, 0)
    <3>1. frame \in Frames /\ frame.vend = c.id /\ frame.name = "Deny"
      BY <1>1, FrameType DEF FrameNames, VendFrame, Cash
    <3>2. CASE fail(<<>>) /\ \E sent \in {frame, NoFrame} : wrote' = sent /\ Logged(sent)
      BY <2>1, <3>1, <3>2, FailBooks
    <3>3. CASE Logged(frame) /\ active' = Idling(active) /\ Emit(<<>>) /\ UNCHANGED completed
      <4>1. UNCHANGED outcome
        BY <3>3, EmitNothing
      <4>2. /\ active'.phase = "Idle" /\ active'.id = active.id
            /\ active'.summary = active.summary
        BY <1>1, <3>3 DEF SessionRecords, Idling
      <4>3. Continues(0) /\ ~Open(active') /\ ~Pending'
        BY <1>1, <2>1, <3>3, <4>2 DEF Continues, Open, Pending
      <4> QED BY <2>1, <3>1, <3>3, <4>1, <4>3 DEF BookStep, Answers
    <3> QED BY <1>3, <2>3, <3>2, <3>3 DEF write_decision, Send, DecisionRest
  <2> QED BY <2>2, <2>3
<1> QED BY <1>2, <1>3 DEF decide_vend, DecisionRest

LEMMA RefuseVendBooks ==
    ASSUME Base, UNCHANGED <<vid, home>>, NEW error, Pending,
           refuse_vend(active.vend.id, error)
    PROVE  BookStep
<1> DEFINE frame == VendFrame("Deny", active.vend.id, 0)
           told == <<VendEvent("VendDecisionExpired", active.vend.id, 0, error)>>
<1>1. active \in SessionRecords /\ Total(active.summary) + 0 = Total(active.summary)
  BY BaseFacts, SummaryType
<1>2. frame \in Frames /\ frame.vend = active.vend.id /\ frame.name = "Deny"
  BY <1>1, FrameType, UnaddressedFrames
     DEF FrameNames, SessionRecords, VendRecords, Cash, VendFrame
<1>3. told[1].kind \notin Outcomes
  BY DEF VendEvent, Outcomes
<1>4. CASE fail(<<>>) /\ \E sent \in {frame, NoFrame} : wrote' = sent /\ Logged(sent)
  BY <1>2, <1>4, FailBooks
<1>5. CASE Logged(frame) /\ active' = Idling(active) /\ Emit(told) /\ UNCHANGED completed
  <2>1. UNCHANGED outcome
    BY <1>3, <1>5, EmitNothing
  <2>2. /\ active'.phase = "Idle" /\ active'.id = active.id
        /\ active'.summary = active.summary
    BY <1>1, <1>5 DEF SessionRecords, Idling
  <2>3. Continues(0) /\ ~Open(active') /\ ~Pending'
    BY <1>1, <1>5, <2>2 DEF Continues, Open, Pending
  <2> QED BY <1>2, <1>5, <2>1, <2>3 DEF BookStep, Answers
<1> QED BY <1>4, <1>5 DEF refuse_vend, Send, Calm

LEMMA RequestEndBooks ==
    ASSUME Base, UNCHANGED <<vid, home>>, NEW c, c.id # 0, request_end(c)
    PROVE  BookStep
<1> DEFINE asked == [active EXCEPT !.waiting = @ \/ c.arg = 1]
<1>1. CASE UNCHANGED <<active, completed>> /\ Quiet(<<>>)
  BY <1>1, QuietBooks
<1>2. CASE active.id = c.id /\ initiate_end(asked, <<>>)
  <2>1. active \in SessionRecords /\ active.phase # "None"
    BY <1>2, BaseFacts, NoSessionFacts
  <2>2. /\ asked \in SessionRecords /\ asked.phase = active.phase /\ asked.vend = active.vend
        /\ asked.id = active.id /\ asked.summary = active.summary
    BY <2>1 DEF SessionRecords
  <2> QED BY <1>2, <2>1, <2>2, InitiateEndBooks
<1> QED BY <1>1, <1>2 DEF request_end

\* The end that shutdown() or a closed command channel starts.
LEMMA ClosingBooks ==
    ASSUME Base, UNCHANGED <<vid, home>>, initiate_end(active, <<>>)
    PROVE  BookStep
BY BaseFacts, InitiateEndBooks

LEMMA ReceiveCommandBooks ==
    ASSUME Base, BegunInOrder, ReceiveCommand
    PROVE  BookStep
<1> DEFINE c == Head(mailbox)
<1>1. /\ mailbox # <<>> /\ mailbox \in Seq(Commands) /\ UNCHANGED <<vid, home>>
      /\ handle_command(c)
  BY DEF ReceiveCommand, vendVars, Base, TypeOK, ClientTypeOK
<1>2. c \in Commands /\ 1 \in DOMAIN mailbox /\ c = mailbox[1]
  BY <1>1, HeadTailProperties, LenProperties, EmptySeq
<1>3. CASE abandon_vend(c)
  <2>1. CASE Pending /\ c.id = active.vend.id /\ refuse_vend(c.id, "Abandoned")
    BY <1>1, <2>1, RefuseVendBooks
  <2>2. CASE UNCHANGED <<active, completed>> /\ Quiet(<<>>)
    BY <1>1, <2>2, QuietBooks
  <2> QED BY <1>3, <2>1, <2>2 DEF abandon_vend, PendingIs, Calm
<1>4. CASE c.op = "EndSession" /\ request_end(c)
  <2>1. c.id # 0
    BY <1>2, <1>4 DEF BegunInOrder
  <2> QED BY <1>1, <1>4, <2>1, RequestEndBooks
<1>5. CASE c.op = "BeginSession" /\ begin_session(c)
  BY <1>1, <1>5, BeginSessionBooks DEF ReceiveCommand
<1>6. CASE c.op \in {"Approve", "Deny"} /\ decide_vend(c)
  BY <1>1, <1>2, <1>6, DecideVendBooks
<1>7. CASE display_message(c) \/ initiate_end(active, <<>>)
  BY <1>1, <1>7, DisplayMessageBooks, ClosingBooks
<1> QED BY <1>1, <1>3, <1>4, <1>5, <1>6, <1>7 DEF handle_command

LEMMA ActorStepBooks ==
    ASSUME Base, BegunInOrder, ActorStep
    PROVE  BookStep
<1>1. CASE ReceiveCommand
  BY <1>1, ReceiveCommandBooks
<1>2. CASE CommandChannelClosed
  BY <1>2, ClosingBooks DEF CommandChannelClosed, vendVars
<1>3. CASE VendDeadline
  BY <1>3, RefuseVendBooks DEF VendDeadline, vendVars
<1>4. CASE ExitDeadline
  <2>1. Vanishes /\ UNCHANGED <<answer, outcome, vid, home>>
    BY <1>4, EmitNothing DEF ExitDeadline, Quiet, Vanishes, vendVars
  <2>2. ~Pending' /\ ~Open(active')
    BY <2>1, NoSessionFacts DEF Vanishes, Pending
  <2> QED BY <2>1, <2>2 DEF BookStep, Rests
<1>5. CASE LinkClosed
  <2>1. Vanishes /\ ~Pending' /\ ~Open(active') /\ UNCHANGED <<answer, outcome, vid, home>>
    BY <1>5, FailMeans, FailEmits DEF LinkClosed, vendVars
  <2> QED BY <2>1 DEF BookStep, Rests
<1>6. CASE Exit
  BY <1>6, QuietBooks DEF Exit, vendVars
<1> QED BY <1>1, <1>2, <1>3, <1>4, <1>5, <1>6 DEF ActorStep

LEMMA ClientRests == ClientStep => ActorRests
BY DEF ClientStep, BeginSession, BeginReturns, Shutdown, ShutdownReturns, DeviceDisplay,
       DeviceDisplayReturns, DropDevice, SessionDisplay, SessionDisplayReturns, NextEvent,
       Finish, FinishReturns, DropSession, DropFuture, DropEvent, Approve, Deny, Decided,
       DropDecision, DropVend, Call, Return, decide

\* Every step has one of the shapes.
LEMMA StepBooks ==
    ASSUME Base, BegunInOrder, [Next]_vars
    PROVE  BookStep
<1>1. CASE \E m \in Messages : ReceiveMessage(m)
  BY <1>1, AdapterMessageBooks, VendRequestBooks DEF ReceiveMessage, vendVars
<1>2. CASE ActorStep
  BY <1>2, ActorStepBooks
<1>3. CASE ClientStep
  BY <1>3, ClientRests, SameRests DEF ActorRests, Base
<1>4. CASE Stopped \/ UNCHANGED vars
  BY <1>4, SameRests DEF Stopped, vars, vendVars, Base
<1> QED BY <1>1, <1>2, <1>3, <1>4 DEF Next

-----------------------------------------------------------------------------
(* The order of the sessions. *)

\* What a step may do to the command channel.
MailStep ==
    \/ mailbox' = <<>> \/ UNCHANGED mailbox
    \/ mailbox # <<>> /\ mailbox' = Tail(mailbox)
    \/ \E c \in Commands :
         /\ c.op # "BeginSession" /\ (c.op = "EndSession" => c.id >= 1)
         /\ mailbox' = Append(mailbox, c)

\* Every shape leaves a session or none, begun no later than before but by Begins.
LEMMA BookShapes ==
    ASSUME BookStep
    PROVE  \/ Continues(0) \/ Continues(1) \/ Completes(0) \/ Completes(1)
           \/ Vanishes \/ Begins
BY DEF BookStep, Rests, Answers, Reports, Requests

LEMMA SessionStep ==
    ASSUME TypeOK, SessionOK, BegunInOrder, BookStep
    PROVE  SessionOK'
<1>1. CASE Continues(0) \/ Continues(1)
  BY <1>1, NoSessionFacts DEF SessionOK, Continues
<1>2. CASE active' = NoSession
  BY <1>2, NoSessionFacts DEF SessionOK
<1>3. CASE Begins
  <2> DEFINE c == Head(mailbox)
  <2>1. c.id >= 1
    <3>1. mailbox \in Seq(Commands) /\ mailbox # <<>>
      BY <1>3 DEF Begins, TypeOK, ClientTypeOK
    <3>2. 1 \in DOMAIN mailbox /\ c = mailbox[1]
      BY <3>1, HeadTailProperties, LenProperties, EmptySeq
    <3> QED BY <1>3, <3>2 DEF Begins, BegunInOrder
  <2>2. /\ active'.phase = "Idle" /\ active'.id = c.id /\ active'.summary.id = c.id
        /\ completed'.id = 0
    BY <1>3 DEF Begins, NewSession, NoSummary
  <2> QED BY <2>1, <2>2, NoSessionFacts DEF SessionOK
<1> QED BY <1>1, <1>2, <1>3, BookShapes DEF Completes, Vanishes

\* Begun in the state after a step, of an id that is known before it.
BegunAfter(id) == \/ active'.id >= id \/ completed'.id >= id
                  \/ \E v \in Vends : home'[v] >= id

\* Only Begins begins a session, the one its command names.
LEMMA BegunStep ==
    ASSUME TypeOK, SessionOK, BookStep, NEW id \in Nat, id >= 1, ~Begun(id),
           Begins => Head(mailbox).id < id
    PROVE  ~BegunAfter(id)
<1>1. /\ active.id \in Nat /\ completed.id \in Nat /\ ~(active.id >= id) /\ ~(completed.id >= id)
      /\ \A v \in Vends : home[v] \in Nat /\ ~(home[v] >= id)
  BY BoundsAssumption
     DEF Begun, TypeOK, ActorTypeOK, SessionRecords, Summaries
<1>2. ~(active'.id >= id) /\ ~(completed'.id >= id)
  <2>1. CASE Continues(0) \/ Continues(1)
    BY <1>1, <2>1 DEF Continues
  <2>2. CASE Completes(0) \/ Completes(1)
    <3>1. active # NoSession
      BY <2>2, NoSessionFacts DEF Completes
    <3> QED BY <1>1, <2>2, <3>1, NoSessionFacts DEF Completes, SessionOK
  <2>3. CASE Vanishes
    BY <1>1, <2>3, NoSessionFacts DEF Vanishes
  <2>4. CASE Begins
    <3>1. active'.id = Head(mailbox).id /\ completed'.id = 0
      BY <2>4 DEF Begins, NewSession, NoSummary
    <3>2. Head(mailbox).id \in Nat
      <4>1. mailbox \in Seq(Commands) /\ mailbox # <<>>
        BY <2>4 DEF Begins, TypeOK, ClientTypeOK
      <4>2. Head(mailbox) \in Commands
        BY <4>1, HeadTailProperties
      <4> QED BY <4>2, CommandType, BoundsAssumption
    <3> QED BY <2>4, <3>1, <3>2
  <2> QED BY <2>1, <2>2, <2>3, <2>4, BookShapes
<1>3. \A v \in Vends : ~(home'[v] >= id)
  <2>1. CASE UNCHANGED home
    BY <1>1, <2>1
  <2>2. CASE Requests
    <3>1. home' = [home EXCEPT ![vid + 1] = active.id]
      BY <2>2 DEF Requests
    <3> QED BY <1>1, <3>1 DEF TypeOK, ActorTypeOK
  <2> QED BY <2>1, <2>2 DEF BookStep, Rests, Answers, Reports
<1> QED BY <1>2, <1>3 DEF BegunAfter

\* What BegunInOrder says of the command channel holding q, n ids being given out.
InOrder(q, n) ==
    \A i \in DOMAIN q :
      /\ q[i].op = "BeginSession" => q[i].id <= n
      /\ q[i].op \in {"BeginSession", "EndSession"} => q[i].id >= 1
      /\ \A j \in DOMAIN q :
           i < j /\ q[i].op = "BeginSession" /\ q[j].op = "BeginSession" => q[i].id < q[j].id

LEMMA TailInOrder ==
    ASSUME NEW q \in Seq(Commands), q # <<>>, NEW n, InOrder(q, n)
    PROVE  /\ InOrder(Tail(q), n)
           /\ \A i \in DOMAIN Tail(q) : i \in Nat \ {0} /\ i + 1 \in DOMAIN q /\ Tail(q)[i] = q[i + 1]
<1> DEFINE t == Tail(q)
<1>1. /\ Len(q) \in Nat /\ Len(q) # 0 /\ DOMAIN q = 1..Len(q)
      /\ t \in Seq(Commands) /\ Len(t) = Len(q) - 1 /\ DOMAIN t = 1..Len(t)
  BY HeadTailProperties, LenProperties, EmptySeq
<1>2. \A i \in 1..Len(t) : t[i] = q[i + 1]
  BY HeadTailProperties
<1> HIDE DEF t
<1>3. \A i \in DOMAIN t : i \in Nat \ {0} /\ i + 1 \in DOMAIN q /\ t[i] = q[i + 1]
  BY <1>1, <1>2
<1>4. \A i, j \in DOMAIN t : i < j => i + 1 < j + 1
  BY <1>3
<1>5. InOrder(t, n)
  BY <1>3, <1>4 DEF InOrder
<1> QED BY <1>3, <1>5 DEF t

LEMMA AppendInOrder ==
    ASSUME NEW q \in Seq(Commands), NEW n, InOrder(q, n), NEW c \in Commands,
           c.op = "BeginSession" =>
             c.id <= n /\ \A i \in DOMAIN q : q[i].op = "BeginSession" => q[i].id < c.id,
           c.op \in {"BeginSession", "EndSession"} => c.id >= 1
    PROVE  /\ InOrder(Append(q, c), n)
           /\ \A i \in DOMAIN Append(q, c) :
                Append(q, c)[i] = c \/ (i \in DOMAIN q /\ Append(q, c)[i] = q[i])
<1> DEFINE a == Append(q, c)
<1>1. /\ Len(q) \in Nat /\ DOMAIN q = 1..Len(q)
      /\ a \in Seq(Commands) /\ Len(a) = Len(q) + 1 /\ DOMAIN a = 1..Len(a)
      /\ a[Len(q) + 1] = c /\ \A i \in 1..Len(q) : a[i] = q[i]
  BY AppendProperties, LenProperties
<1> HIDE DEF a
<1>2. \A i \in DOMAIN a : /\ (i \in DOMAIN q /\ a[i] = q[i]) \/ (i = Len(q) + 1 /\ a[i] = c)
                          /\ \A j \in DOMAIN a : i < j => i \in DOMAIN q /\ a[i] = q[i]
  BY <1>1
<1>3. InOrder(a, n)
  <2> SUFFICES ASSUME NEW i \in DOMAIN a
               PROVE  /\ a[i].op = "BeginSession" => a[i].id <= n
                      /\ a[i].op \in {"BeginSession", "EndSession"} => a[i].id >= 1
                      /\ \A j \in DOMAIN a :
                           /\ i < j /\ a[i].op = "BeginSession" /\ a[j].op = "BeginSession"
                           => a[i].id < a[j].id
    BY DEF InOrder
  <2>1. /\ a[i].op = "BeginSession" => a[i].id <= n
        /\ a[i].op \in {"BeginSession", "EndSession"} => a[i].id >= 1
    BY <1>2 DEF InOrder
  <2>2. ASSUME NEW j \in DOMAIN a, i < j, a[i].op = "BeginSession", a[j].op = "BeginSession"
        PROVE  a[i].id < a[j].id
    BY <1>2, <2>2 DEF InOrder
  <2> QED BY <2>1, <2>2
<1> QED BY <1>2, <1>3 DEF a

LEMMA OrderParts ==
    BegunInOrder <=>
      /\ ~Begun(sid + 1)
      /\ app \in {"beginning", "session", "displayingSession"} => sid >= 1
      /\ InOrder(mailbox, sid)
      /\ \A i \in DOMAIN mailbox : mailbox[i].op = "BeginSession" => ~Begun(mailbox[i].id)
BY DEF BegunInOrder, InOrder

LEMMA OrderAfter ==
    /\ ~BegunAfter(sid' + 1)
    /\ (app \in {"beginning", "session", "displayingSession"} => sid >= 1)'
    /\ InOrder(mailbox', sid')
    /\ \A i \in DOMAIN mailbox' : mailbox'[i].op = "BeginSession" => ~BegunAfter(mailbox'[i].id)
    => BegunInOrder'
BY DEF BegunInOrder, InOrder, Begun, BegunAfter

\* What is known of a command in the channel.
LEMMA InMailboxFacts ==
    ASSUME TypeOK, SessionOK, BegunInOrder, BookStep
    PROVE  /\ mailbox \in Seq(Commands) /\ DOMAIN mailbox = 1..Len(mailbox) /\ sid \in Nat
           /\ \A i \in DOMAIN mailbox : mailbox[i].op = "BeginSession" =>
                mailbox[i].id \in Nat /\ mailbox[i].id >= 1 /\ mailbox[i].id <= sid
           /\ Begins => /\ mailbox # <<>> /\ mailbox' = Tail(mailbox)
                        /\ 1 \in DOMAIN mailbox /\ Head(mailbox) = mailbox[1]
                        /\ mailbox[1].op = "BeginSession" /\ mailbox[1].id \in Nat
<1>1. /\ mailbox \in Seq(Commands) /\ Len(mailbox) \in Nat /\ DOMAIN mailbox = 1..Len(mailbox)
      /\ sid \in Nat
  BY LenProperties, BoundsAssumption DEF TypeOK, ClientTypeOK
<1>2. ASSUME NEW i \in DOMAIN mailbox, mailbox[i].op = "BeginSession"
      PROVE  mailbox[i].id \in Nat /\ mailbox[i].id >= 1 /\ mailbox[i].id <= sid
  <2>1. mailbox[i] \in Commands
    BY <1>1, ElementOfSeq
  <2>2. mailbox[i].id \in Nat
    BY <2>1, CommandType, BoundsAssumption
  <2> QED BY <1>2, <2>2 DEF BegunInOrder
<1>3. ASSUME Begins
      PROVE  /\ mailbox # <<>> /\ mailbox' = Tail(mailbox)
             /\ 1 \in DOMAIN mailbox /\ Head(mailbox) = mailbox[1]
             /\ mailbox[1].op = "BeginSession"
  <2>1. mailbox # <<>> /\ Head(mailbox).op = "BeginSession" /\ mailbox' = Tail(mailbox)
    BY <1>3 DEF Begins
  <2> QED BY <1>1, <2>1, HeadTailProperties, EmptySeq
<1> QED BY <1>1, <1>2, <1>3

\* A step that hands out no id.
LEMMA OrderKept ==
    ASSUME TypeOK, SessionOK, BegunInOrder, BookStep, MailStep, UNCHANGED sid,
           (app \in {"beginning", "session", "displayingSession"} => sid >= 1)'
    PROVE  BegunInOrder'
<1>1. /\ mailbox \in Seq(Commands) /\ DOMAIN mailbox = 1..Len(mailbox) /\ sid \in Nat
      /\ \A i \in DOMAIN mailbox : mailbox[i].op = "BeginSession" =>
           mailbox[i].id \in Nat /\ mailbox[i].id >= 1 /\ mailbox[i].id <= sid
      /\ Begins => /\ mailbox # <<>> /\ mailbox' = Tail(mailbox)
                   /\ 1 \in DOMAIN mailbox /\ Head(mailbox) = mailbox[1]
                   /\ mailbox[1].op = "BeginSession" /\ mailbox[1].id \in Nat
  BY InMailboxFacts
<1>2. /\ ~Begun(sid + 1) /\ InOrder(mailbox, sid)
      /\ \A i \in DOMAIN mailbox : mailbox[i].op = "BeginSession" => ~Begun(mailbox[i].id)
  BY OrderParts
<1>3. ~BegunAfter(sid' + 1)
  <2>1. sid + 1 \in Nat /\ sid + 1 >= 1 /\ (Begins => Head(mailbox).id < sid + 1)
    BY <1>1
  <2>2. \A id \in Nat : id >= 1 /\ ~Begun(id) /\ (Begins => Head(mailbox).id < id) => ~BegunAfter(id)
    BY BegunStep
  <2> QED BY <1>2, <2>1, <2>2
<1>4. ASSUME ~Begins
      PROVE  \A i \in DOMAIN mailbox : mailbox[i].op = "BeginSession" => ~BegunAfter(mailbox[i].id)
  BY <1>1, <1>2, <1>4, BegunStep
<1>5. CASE mailbox' = <<>>
  <2>1. DOMAIN mailbox' = {}
    BY <1>5
  <2>2. InOrder(mailbox', sid')
    BY <2>1 DEF InOrder
  <2> QED BY <1>3, <2>1, <2>2, OrderAfter
<1>6. CASE UNCHANGED mailbox /\ ~Begins
  BY <1>2, <1>3, <1>4, <1>6, OrderAfter
<1>7. CASE mailbox # <<>> /\ mailbox' = Tail(mailbox)
  <2>1. /\ InOrder(mailbox', sid')
        /\ \A i \in DOMAIN mailbox' :
             i \in Nat \ {0} /\ i + 1 \in DOMAIN mailbox /\ mailbox'[i] = mailbox[i + 1]
    BY <1>1, <1>2, <1>7, TailInOrder
  <2>2. ASSUME NEW i \in DOMAIN mailbox', mailbox'[i].op = "BeginSession"
        PROVE  ~BegunAfter(mailbox'[i].id)
    <3>1. i + 1 \in DOMAIN mailbox /\ mailbox[i + 1].op = "BeginSession" /\ i + 1 \in Nat
          /\ mailbox'[i] = mailbox[i + 1]
      BY <2>1, <2>2
    <3>2. CASE Begins
      <4>1. 1 < i + 1
        BY <1>1, <2>1, <2>2, <3>1
      <4>2. Head(mailbox).id < mailbox[i + 1].id
        BY <1>1, <1>2, <3>1, <3>2, <4>1 DEF InOrder
      <4>3. ~BegunAfter(mailbox[i + 1].id)
        BY <1>1, <1>2, <3>1, <4>2, BegunStep
      <4> QED BY <3>1, <4>3
    <3>3. CASE ~Begins
      BY <1>4, <3>1, <3>3
    <3> QED BY <3>2, <3>3
  <2> QED BY <1>3, <2>1, <2>2, OrderAfter
<1>8. CASE /\ ~Begins
           /\ \E c \in Commands :
                /\ c.op # "BeginSession" /\ (c.op = "EndSession" => c.id >= 1)
                /\ mailbox' = Append(mailbox, c)
  <2>1. PICK c \in Commands : /\ c.op # "BeginSession" /\ (c.op = "EndSession" => c.id >= 1)
                              /\ mailbox' = Append(mailbox, c)
    BY <1>8
  <2>2. /\ InOrder(mailbox', sid')
        /\ \A i \in DOMAIN mailbox' :
             mailbox'[i] = c \/ (i \in DOMAIN mailbox /\ mailbox'[i] = mailbox[i])
    BY <1>1, <1>2, <2>1, AppendInOrder
  <2> QED BY <1>3, <1>4, <1>8, <2>1, <2>2, OrderAfter
<1> QED BY <1>1, <1>5, <1>6, <1>7, <1>8 DEF MailStep

\* The actor leaves the application where it is.
LEMMA HandlersKeep ==
    /\ \A s, before : initiate_end(s, before) => UNCHANGED <<app, sid>>
    /\ command_out_of_sequence => UNCHANGED <<app, sid>>
    /\ \A v, error : refuse_vend(v, error) => UNCHANGED <<app, sid>>
    /\ \A before : fail(before) => UNCHANGED <<app, sid>>
<1>1. \A before : fail(before) => UNCHANGED <<app, sid>>
  BY DEF fail, clientVars
<1>2. ASSUME NEW s, NEW before, initiate_end(s, before)
      PROVE  UNCHANGED <<app, sid>>
  BY <1>1, <1>2 DEF initiate_end, Send, Calm, clientVars
<1>3. command_out_of_sequence => UNCHANGED <<app, sid>>
  BY <1>1 DEF command_out_of_sequence, Send, Calm, clientVars
<1>4. \A v, error : refuse_vend(v, error) => UNCHANGED <<app, sid>>
  BY <1>1 DEF refuse_vend, Send, Calm, clientVars
<1> QED BY <1>1, <1>2, <1>3, <1>4

LEMMA MessagesKeep ==
    ASSUME NEW m, handle_adapter_message(m)
    PROVE  UNCHANGED <<app, sid>>
<1>1. handle_ack => UNCHANGED <<app, sid>>
  BY HandlersKeep DEF handle_ack, Send, Calm, clientVars
<1>2. handle_reset \/ handle_setup_configuration \/ handle_setup_prices => UNCHANGED <<app, sid>>
  BY DEF handle_reset, handle_setup_configuration, handle_setup_prices, clientVars
<1>3. \A newStatus : handle_reader_control(newStatus) => UNCHANGED <<app, sid>>
  BY HandlersKeep DEF handle_reader_control, clientVars
<1>4. handle_reader_cancel => UNCHANGED <<app, sid>>
  BY HandlersKeep DEF handle_reader_cancel, Send, Calm, clientVars
<1>5. handle_vend_cancel => UNCHANGED <<app, sid>>
  BY HandlersKeep DEF handle_vend_cancel, Send, Calm, clientVars
<1>6. handle_session_complete => UNCHANGED <<app, sid>>
  BY HandlersKeep DEF handle_session_complete, Send, Calm, clientVars
<1>7. \A kind, why, counted : VendResult(kind, why, counted) => UNCHANGED <<app, sid>>
  BY HandlersKeep DEF VendResult, Calm, clientVars
<1> QED
  BY <1>1, <1>2, <1>3, <1>4, <1>5, <1>6, <1>7
     DEF handle_adapter_message, handle_vend_success, handle_vend_failure, Calm, clientVars

LEMMA CommandsKeep ==
    ASSUME NEW c, handle_command(c)
    PROVE  UNCHANGED <<app, sid>>
<1>1. begin_session(c) => UNCHANGED <<app, sid>>
  BY HandlersKeep DEF begin_session, Send, clientVars
<1>2. display_message(c) => UNCHANGED <<app, sid>>
  BY HandlersKeep DEF display_message, Send, clientVars
<1>3. decide_vend(c) => UNCHANGED <<app, sid>>
  BY HandlersKeep DEF decide_vend, write_decision, Send, DecisionRest, clientVars
<1>4. abandon_vend(c) => UNCHANGED <<app, sid>>
  BY HandlersKeep DEF abandon_vend, Calm, clientVars
<1>5. request_end(c) => UNCHANGED <<app, sid>>
  BY HandlersKeep DEF request_end, clientVars
<1> QED BY <1>1, <1>2, <1>3, <1>4, <1>5, HandlersKeep DEF handle_command

LEMMA QueueMail ==
    ASSUME NEW q, Queue(q),
           \/ q = mailbox
           \/ mailbox # <<>> /\ q = Tail(mailbox)
           \/ \E c \in Commands :
                /\ c.op # "BeginSession" /\ (c.op = "EndSession" => c.id >= 1)
                /\ q = Append(mailbox, c)
    PROVE  MailStep
BY DEF Queue, MailStep

LEMMA ActorMail ==
    ASSUME TypeOK, ActorStep \/ \E m : ReceiveMessage(m)
    PROVE  MailStep /\ UNCHANGED <<app, sid>>
<1>1. CASE ReceiveCommand
  BY <1>1, QueueMail, CommandsKeep DEF ReceiveCommand
<1>2. CASE CommandChannelClosed
  BY <1>2, QueueMail, HandlersKeep DEF CommandChannelClosed
<1>3. CASE VendDeadline
  BY <1>3, QueueMail, HandlersKeep DEF VendDeadline
<1>4. CASE ExitDeadline
  BY <1>4 DEF ExitDeadline, MailStep, clientVars
<1>5. CASE LinkClosed
  BY <1>5, QueueMail, HandlersKeep DEF LinkClosed
<1>6. CASE Exit
  BY <1>6, QueueMail DEF Exit, clientVars
<1>7. ASSUME NEW m, ReceiveMessage(m), m # "VendRequest"
      PROVE  MailStep /\ UNCHANGED <<app, sid>>
  BY <1>7, QueueMail, MessagesKeep DEF ReceiveMessage
<1>8. CASE handle_vend_request
  <2> DEFINE c == [op |-> "AbandonVend", id |-> vid + 1, arg |-> 0]
  <2>1. Queue(mailbox) \/ (vid < MaxVends /\ Queue(Append(mailbox, c)))
    BY <1>8 DEF handle_vend_request
  <2>2. vid < MaxVends => c \in Commands /\ c.op = "AbandonVend"
    <3>1. vid < MaxVends => vid + 1 \in 0..MaxVends
      BY BoundsAssumption DEF TypeOK, ActorTypeOK
    <3> QED BY <3>1 DEF Commands, VendOps, Cash
  <2>3. MailStep
    BY <2>1, <2>2, QueueMail
  <2>4. UNCHANGED <<app, sid>>
    BY <1>8, HandlersKeep DEF handle_vend_request, Send, Calm, clientVars
  <2> QED BY <2>3, <2>4
<1> QED BY <1>1, <1>2, <1>3, <1>4, <1>5, <1>6, <1>7, <1>8 DEF ActorStep, ReceiveMessage

\* What the application posts, once it is known what that is.
LEMMA PostMail ==
    ASSUME NEW c \in Commands, c.op # "BeginSession", c.op = "EndSession" => c.id >= 1, Post(c)
    PROVE  MailStep
BY DEF Post, MailStep

LEMMA DeviceMail ==
    ASSUME TypeOK, BegunInOrder,
           \/ BeginReturns \/ Shutdown \/ ShutdownReturns
           \/ DeviceDisplay \/ DeviceDisplayReturns \/ DropDevice \/ DropFuture
    PROVE  /\ MailStep /\ UNCHANGED sid
           /\ app' \in {"beginning", "session", "displayingSession"} => sid >= 1
<1>1. 0 \in 0..MaxSessions
  BY BoundsAssumption
<1>2. CASE Shutdown \/ DeviceDisplay
  <2> DEFINE shutdown == Command("Shutdown", 0, 0)
             display0 == Command("DisplayMessage", 0, 0)
  <2>1. /\ shutdown \in Commands /\ shutdown.op = "Shutdown"
        /\ display0 \in Commands /\ display0.op = "DisplayMessage"
    BY <1>1, SessionCommandType DEF SessionOps, Command
  <2>2. Post(shutdown) \/ Post(display0)
    BY <1>2 DEF Shutdown, DeviceDisplay, Call
  <2>3. MailStep
    BY <2>1, <2>2, PostMail
  <2> QED BY <1>2, <2>3 DEF Shutdown, DeviceDisplay, Call
<1>3. CASE BeginReturns
  BY <1>3 DEF BeginReturns, Return, MailStep, BegunInOrder
<1>4. CASE ShutdownReturns \/ DeviceDisplayReturns
  BY <1>4 DEF ShutdownReturns, DeviceDisplayReturns, Return, MailStep
<1>5. CASE DropDevice \/ DropFuture
  BY <1>5 DEF DropDevice, DropFuture, MailStep
<1> QED BY <1>2, <1>3, <1>4, <1>5

LEMMA SessionMail ==
    ASSUME TypeOK, BegunInOrder,
           \/ SessionDisplay \/ SessionDisplayReturns \/ NextEvent \/ Finish
           \/ FinishReturns \/ DropSession \/ DropEvent
    PROVE  /\ MailStep /\ UNCHANGED sid
           /\ app' \in {"beginning", "session", "displayingSession"} => sid >= 1
<1>1. sid \in 0..MaxSessions /\ (app = "session" => sid >= 1)
  BY DEF TypeOK, ClientTypeOK, BegunInOrder
<1>2. CASE SessionDisplay
  <2> DEFINE c == Command("DisplayMessage", sid, 0)
  <2>1. c \in Commands /\ c.op = "DisplayMessage"
    BY <1>1, SessionCommandType DEF SessionOps, Command
  <2>2. MailStep
    BY <1>2, <2>1, PostMail DEF SessionDisplay, Call
  <2> QED BY <1>1, <1>2, <2>2 DEF SessionDisplay, Call
<1>3. CASE Finish \/ DropSession
  <2>1. PICK arg \in {0, 1} : Post(Command("EndSession", sid, arg))
    BY <1>3 DEF Finish, DropSession, Call
  <2> DEFINE c == Command("EndSession", sid, arg)
  <2>2. c \in Commands /\ c.op = "EndSession" /\ c.id >= 1
    BY <1>1, <1>3, SessionCommandType DEF SessionOps, Command, Finish, DropSession
  <2>3. MailStep
    BY <2>1, <2>2, PostMail
  <2> QED BY <1>3, <2>3 DEF Finish, DropSession, Call
<1>4. CASE SessionDisplayReturns \/ FinishReturns
  BY <1>4 DEF SessionDisplayReturns, FinishReturns, Return, MailStep, BegunInOrder
<1>5. CASE NextEvent
  BY <1>5 DEF NextEvent, MailStep, BegunInOrder
<1>6. CASE DropEvent
  <2> DEFINE c == Command("AbandonVend", Head(events).vend, 0)
  <2>1. Head(events).vend \in 0..MaxVends /\ 0 \in Cash
    BY <1>6, HeadEventType DEF DropEvent, Events, Cash
  <2>2. c \in Commands /\ c.op = "AbandonVend"
    BY <2>1, VendCommandType DEF VendOps, Command
  <2>3. Post(c) \/ UNCHANGED mailbox
    BY <1>6 DEF DropEvent
  <2>4. MailStep
    BY <2>2, <2>3, PostMail DEF MailStep
  <2> QED BY <1>6, <2>4 DEF DropEvent, BegunInOrder
<1> QED BY <1>2, <1>3, <1>4, <1>5, <1>6

LEMMA VendMail ==
    ASSUME TypeOK, BegunInOrder, NEW v \in Vends,
           Approve(v) \/ Deny(v) \/ Decided(v) \/ DropDecision(v) \/ DropVend(v)
    PROVE  /\ MailStep /\ UNCHANGED sid
           /\ app' \in {"beginning", "session", "displayingSession"} => sid >= 1
<1>1. v \in 0..MaxVends /\ 0 \in Cash /\ Amounts \subseteq Cash
  BY BoundsAssumption DEF Vends, Cash
<1>2. UNCHANGED <<app, sid>>
  BY DEF Approve, Deny, decide, Decided, DropDecision, DropVend
<1>3. UNCHANGED mailbox \/ \E op \in VendOps, arg \in Cash : Post(Command(op, v, arg))
  BY <1>1 DEF Approve, Deny, decide, Decided, DropDecision, DropVend, VendOps
<1>4. \A op \in VendOps, arg \in Cash :
        Command(op, v, arg) \in Commands /\ Command(op, v, arg).op \notin SessionOps
  BY <1>1, VendCommandType DEF VendOps, SessionOps, Command
<1>5. MailStep
  BY <1>3, <1>4, PostMail DEF MailStep, SessionOps
<1> QED BY <1>2, <1>5 DEF BegunInOrder

\* begin_session() hands out the next id.
LEMMA BeginOrder ==
    ASSUME TypeOK, SessionOK, BegunInOrder, BookStep, BeginSession
    PROVE  BegunInOrder'
<1>1. PICK funds \in {0, 1} : Post(Command("BeginSession", sid + 1, funds))
  BY DEF BeginSession, Call
<1> DEFINE c == Command("BeginSession", sid + 1, funds)
<1>2. /\ mailbox \in Seq(Commands) /\ sid \in Nat /\ sid' = sid + 1
      /\ InOrder(mailbox, sid) /\ ~Begun(sid + 1)
      /\ \A i \in DOMAIN mailbox : mailbox[i].op = "BeginSession" =>
           /\ mailbox[i].id \in Nat /\ mailbox[i].id >= 1 /\ mailbox[i].id <= sid
           /\ ~Begun(mailbox[i].id)
  BY InMailboxFacts, OrderParts DEF BeginSession
<1>3. c \in Commands /\ c.op = "BeginSession" /\ c.id = sid + 1
  <2>1. sid + 1 \in 0..MaxSessions
    BY <1>2, BoundsAssumption DEF BeginSession
  <2> QED BY <2>1, SessionCommandType DEF SessionOps, Command
<1>4. UNCHANGED <<active, completed, home>>
  BY DEF BeginSession, Call, ActorRests
<1>5. \A id : BegunAfter(id) <=> Begun(id)
  BY <1>4 DEF Begun, BegunAfter
<1>6. ~BegunAfter(sid' + 1)
  <2>1. active.id \in Nat /\ completed.id \in Nat /\ \A v \in Vends : home[v] \in Nat
    BY BoundsAssumption DEF TypeOK, ActorTypeOK, SessionRecords, Summaries
  <2> QED BY <1>2, <1>5, <2>1 DEF Begun
<1>7. InOrder(mailbox, sid')
  BY <1>2 DEF InOrder
<1>8. /\ InOrder(mailbox', sid')
      /\ \A i \in DOMAIN mailbox' :
           mailbox'[i] = c \/ (i \in DOMAIN mailbox /\ mailbox'[i] = mailbox[i])
  <2>1. CASE UNCHANGED mailbox
    BY <1>7, <2>1
  <2>2. CASE mailbox' = Append(mailbox, c)
    <3>1. /\ c.id <= sid' /\ c.id >= 1
          /\ \A i \in DOMAIN mailbox : mailbox[i].op = "BeginSession" => mailbox[i].id < c.id
      BY <1>2, <1>3
    <3> QED BY <1>2, <1>3, <1>7, <2>2, <3>1, AppendInOrder
  <2> QED BY <1>1, <2>1, <2>2 DEF Post
<1>9. \A i \in DOMAIN mailbox' : mailbox'[i].op = "BeginSession" => ~BegunAfter(mailbox'[i].id)
  BY <1>2, <1>3, <1>5, <1>8
<1>10. sid' >= 1
  BY <1>2
<1> QED BY <1>6, <1>8, <1>9, <1>10, OrderAfter

LEMMA OrderStep ==
    ASSUME TypeOK, SessionOK, BegunInOrder, BookStep, [Next]_vars
    PROVE  BegunInOrder'
<1>1. CASE ActorStep \/ \E m \in Messages : ReceiveMessage(m)
  <2>1. MailStep /\ UNCHANGED <<app, sid>>
    BY <1>1, ActorMail
  <2> QED BY <2>1, OrderKept DEF BegunInOrder
<1>2. CASE BeginSession
  BY <1>2, BeginOrder
<1>3. CASE ClientStep /\ ~BeginSession
  <2>1. /\ MailStep /\ UNCHANGED sid
        /\ app' \in {"beginning", "session", "displayingSession"} => sid >= 1
    BY <1>3, DeviceMail, SessionMail, VendMail DEF ClientStep
  <2> QED BY <2>1, OrderKept
<1>4. CASE Stopped \/ UNCHANGED vars
  <2>1. MailStep /\ UNCHANGED <<app, sid>>
    BY <1>4 DEF Stopped, vars, clientVars, MailStep
  <2> QED BY <2>1, OrderKept DEF BegunInOrder
<1> QED BY <1>1, <1>2, <1>3, <1>4 DEF Next

-----------------------------------------------------------------------------
(* What is reported is what was approved. *)

LEMMA VendFacts ==
    ASSUME TypeOK, AnswerOK, OutcomeConsistent
    PROVE  /\ vid \in Nat /\ DOMAIN answer = Vends /\ DOMAIN outcome = Vends
           /\ vid < MaxVends => vid + 1 \in Vends /\ answer[vid + 1] = <<>>
           /\ \A v \in Vends : answer[v] = <<>> => outcome[v] = <<>>
           /\ Pending => active.vend.id \in Vends /\ answer[active.vend.id] = <<>>
<1>1. vid \in 0..MaxVends /\ DOMAIN answer = Vends /\ DOMAIN outcome = Vends
  BY DEF TypeOK, ActorTypeOK
<1>2. vid < MaxVends => vid + 1 \in Vends /\ vid + 1 > vid
  BY <1>1, BoundsAssumption DEF Vends
<1>3. Pending => active.vend.id \in Vends
  BY <1>1, BoundsAssumption DEF AnswerOK, Vends
<1> QED BY <1>1, <1>2, <1>3, BoundsAssumption DEF AnswerOK, OutcomeConsistent

\* A frame logged for a vend that had none.
LEMMA FirstAnswer ==
    ASSUME TypeOK, NEW frame, Logged(frame), frame.vend \in Vends, answer[frame.vend] = <<>>
    PROVE  answer' = [answer EXCEPT ![frame.vend] = <<frame>>]
<1>1. Append(answer[frame.vend], frame) = <<frame>>
  OBVIOUS
<1>2. frame.vend # 0
  BY BoundsAssumption DEF Vends
<1> QED BY <1>1, <1>2 DEF Logged

LEMMA OpenRests ==
    ASSUME SessionOK, OpenVendOK, OutcomeConsistent, Rests
    PROVE  OpenVendOK' /\ OutcomeConsistent'
<1>1. OutcomeConsistent'
  BY DEF OutcomeConsistent, Rests
<1>2. Open(active') =>
        /\ active'.vend.id \in Vends /\ outcome'[active'.vend.id] = <<>>
        /\ answer'[active'.vend.id] # <<>> /\ answer'[active'.vend.id][1].name = "Approve"
        /\ answer'[active'.vend.id][1].amount = active'.vend.amount
  BY DEF Rests, OpenVendOK
<1>3. ASSUME Pending' \/ Open(active')
      PROVE  home'[active'.vend.id] = active'.id
  <2>1. active' # NoSession /\ active'.phase # "Idle"
    BY <1>3, NoSessionFacts DEF Pending, Open
  <2>2. ~Begins
    BY <2>1 DEF Begins, NewSession
  <2>3. Continues(0)
    BY <2>1, <2>2 DEF Rests, Completes, Vanishes
  <2> QED BY <1>3, <2>3 DEF Rests, Continues, OpenVendOK
<1> QED BY <1>1, <1>2, <1>3 DEF OpenVendOK, Open

LEMMA OpenAnswers ==
    ASSUME TypeOK, AnswerOK, OpenVendOK, OutcomeConsistent, NEW frame \in Frames, Answers(frame)
    PROVE  OpenVendOK' /\ OutcomeConsistent'
<1> DEFINE p == active.vend.id
<1>1. p \in Vends /\ answer[p] = <<>> /\ outcome[p] = <<>> /\ frame.vend = p
  BY VendFacts DEF Answers
<1>2. answer' = [answer EXCEPT ![p] = <<frame>>] /\ UNCHANGED <<outcome, home>> /\ ~Pending'
  BY <1>1, FirstAnswer DEF Answers
<1>3. answer'[p] = <<frame>> /\ \A v \in Vends : v # p => answer'[v] = answer[v]
  BY <1>1, <1>2, VendFacts
<1>4. OutcomeConsistent'
  BY <1>1, <1>2, <1>3 DEF OutcomeConsistent
<1>5. ASSUME Open(active')
      PROVE  /\ active'.vend.id = p /\ active'.vend.amount = frame.amount
             /\ frame.name = "Approve"
  <2>1. ~Vanishes
    BY <1>5, NoSessionFacts DEF Vanishes
  <2> QED BY <1>1, <1>5, <2>1 DEF Answers
<1>6. <<frame>> # <<>> /\ <<frame>>[1] = frame
  OBVIOUS
<1>7. Open(active') => home'[active'.vend.id] = active'.id
  <2>1. Open(active') => Continues(0)
    BY NoSessionFacts DEF Answers, Vanishes
  <2>2. home[p] = active.id
    BY DEF Answers, OpenVendOK
  <2> QED BY <1>2, <1>5, <2>1, <2>2 DEF Continues
<1> QED BY <1>1, <1>2, <1>3, <1>4, <1>5, <1>6, <1>7 DEF OpenVendOK, Open

LEMMA OpenReports ==
    ASSUME TypeOK, OpenVendOK, OutcomeConsistent, NEW e \in Events, Reports(e)
    PROVE  OpenVendOK' /\ OutcomeConsistent'
<1> DEFINE p == active.vend.id
<1>1. /\ p \in Vends /\ outcome[p] = <<>> /\ answer[p] # <<>>
      /\ answer[p][1].name = "Approve" /\ answer[p][1].amount = active.vend.amount
      /\ e.vend = p /\ e.amount = active.vend.amount
  BY DEF Reports, OpenVendOK
<1>2. Append(outcome[p], e) = <<e>> /\ Len(<<e>>) = 1 /\ <<e>>[1] = e
  BY <1>1
<1>3. outcome' = [outcome EXCEPT ![p] = <<e>>] /\ UNCHANGED answer
  BY <1>1, <1>2 DEF Reports
<1>4. outcome'[p] = <<e>> /\ \A v \in Vends : v # p => outcome'[v] = outcome[v]
  BY <1>1, <1>3 DEF TypeOK, ActorTypeOK
<1>5. ASSUME NEW v \in Vends
      PROVE  /\ Len(outcome'[v]) <= 1
             /\ outcome'[v] # <<>> =>
                  /\ answer'[v] # <<>> /\ answer'[v][1].name = "Approve"
                  /\ outcome'[v][1].amount = answer'[v][1].amount
  <2>1. CASE v = p
    BY <1>1, <1>2, <1>3, <1>4, <2>1
  <2>2. CASE v # p
    BY <1>3, <1>4, <2>2 DEF OutcomeConsistent
  <2> QED BY <2>1, <2>2
<1>6. OutcomeConsistent'
  BY <1>5 DEF OutcomeConsistent
<1> QED BY <1>6 DEF Reports, OpenVendOK, Open

LEMMA OpenRequests ==
    ASSUME TypeOK, AnswerOK, OpenVendOK, OutcomeConsistent, Requests
    PROVE  OpenVendOK' /\ OutcomeConsistent'
<1> DEFINE p == vid + 1
           frame == VendFrame("Deny", p, 0)
<1>1. p \in Vends /\ answer[p] = <<>> /\ outcome[p] = <<>> /\ frame.vend = p
  BY VendFacts, UnaddressedFrames DEF Requests
<1>2. \A v \in Vends : v # p => answer'[v] = answer[v]
  <2>1. CASE UNCHANGED answer
    BY <2>1
  <2>2. CASE Logged(frame)
    BY <1>1, <2>2, FirstAnswer, VendFacts
  <2> QED BY <2>1, <2>2 DEF Requests
<1>3. OutcomeConsistent'
  BY <1>1, <1>2 DEF OutcomeConsistent, Requests
<1>4. Pending' => home'[active'.vend.id] = active'.id
  <2>1. SUFFICES ASSUME Pending' PROVE home'[active'.vend.id] = active'.id
    OBVIOUS
  <2>2. active'.vend.id = p /\ active'.id = active.id
    BY <2>1, NoSessionFacts DEF Requests, Continues, Vanishes, Pending
  <2>3. home'[p] = active.id
    BY <1>1 DEF Requests, TypeOK, ActorTypeOK
  <2> QED BY <2>2, <2>3
<1> QED BY <1>3, <1>4 DEF OpenVendOK, Open, Requests

LEMMA OpenStep ==
    ASSUME TypeOK, SessionOK, AnswerOK, OpenVendOK, OutcomeConsistent, BookStep
    PROVE  OpenVendOK' /\ OutcomeConsistent'
BY OpenRests, OpenAnswers, OpenReports, OpenRequests DEF BookStep

-----------------------------------------------------------------------------
(* What is counted is what was approved. *)

ApprovedVends(s) == {v \in Vends : home[v] = s /\ Approved(v)}

\* In a live session, and in the summary of a completed one.
AccountsOK ==
    /\ active # NoSession =>
         ApprovedIn(active.id) = Total(active.summary) + (IF Open(active) THEN 1 ELSE 0)
    /\ completed.id # 0 => ApprovedIn(completed.id) = Total(completed)

\* The same after a step, of a session known before it.
ApprovedAfter(v) == \E i \in DOMAIN answer'[v] : answer'[v][i].name = "Approve"
ApprovedVendsAfter(s) == {v \in Vends : home'[v] = s /\ ApprovedAfter(v)}

LEMMA FiniteVends ==
    ASSUME NEW s
    PROVE  IsFiniteSet(ApprovedVends(s))
<1>1. IsFiniteSet(Vends)
  BY BoundsAssumption, FS_Interval DEF Vends
<1> QED BY <1>1, FS_Subset DEF ApprovedVends

\* The books of a step that approves no vend: an outcome is counted exactly
\* when the open vend is settled.
LEMMA AccountsKept ==
    ASSUME TypeOK, SessionOK, AccountsOK, SessionOK',
           \A s : ApprovedVendsAfter(s) = ApprovedVends(s),
           \/ Continues(0) /\ (Open(active) <=> Open(active'))
           \/ Continues(1) /\ Open(active) /\ ~Open(active')
           \/ Completes(0) /\ ~Open(active)
           \/ Completes(1) /\ Open(active)
           \/ Vanishes
    PROVE  AccountsOK'
<1>1. /\ Total(active.summary) \in Nat
      /\ active # NoSession =>
           /\ Cardinality(ApprovedVends(active.id))
                = Total(active.summary) + (IF Open(active) THEN 1 ELSE 0)
           /\ completed.id = 0 /\ active.summary.id = active.id
      /\ completed.id # 0 => Cardinality(ApprovedVends(completed.id)) = Total(completed)
  BY SummaryType DEF AccountsOK, ApprovedIn, ApprovedVends, TypeOK, ActorTypeOK, SessionOK
<1>2. ASSUME active' # NoSession =>
               Cardinality(ApprovedVendsAfter(active'.id))
                 = Total(active'.summary) + (IF Open(active') THEN 1 ELSE 0),
             completed'.id # 0 =>
               Cardinality(ApprovedVendsAfter(completed'.id)) = Total(completed')
      PROVE  AccountsOK'
  BY <1>2 DEF AccountsOK, ApprovedIn, Approved, ApprovedVendsAfter, ApprovedAfter, Total, Open
<1>3. CASE Continues(0) /\ (Open(active) <=> Open(active'))
  <2>1. active # NoSession
    BY <1>3, NoSessionFacts DEF Continues
  <2> QED BY <1>1, <1>2, <1>3, <2>1 DEF Continues
<1>4. CASE Continues(1) /\ Open(active) /\ ~Open(active')
  <2>1. active # NoSession
    BY <1>4, NoSessionFacts DEF Continues
  <2> QED BY <1>1, <1>2, <1>4, <2>1 DEF Continues
<1>5. CASE Completes(0) /\ ~Open(active)
  <2>1. active # NoSession
    BY <1>5, NoSessionFacts DEF Completes
  <2> QED BY <1>1, <1>2, <1>5, <2>1 DEF Completes
<1>6. CASE Completes(1) /\ Open(active)
  <2>1. active # NoSession
    BY <1>6, NoSessionFacts DEF Completes
  <2> QED BY <1>1, <1>2, <1>6, <2>1 DEF Completes
<1>7. CASE Vanishes
  BY <1>1, <1>2, <1>7 DEF Vanishes
<1> QED BY <1>3, <1>4, <1>5, <1>6, <1>7

LEMMA SameApproved ==
    ASSUME UNCHANGED <<answer, home>>
    PROVE  \A s : ApprovedVendsAfter(s) = ApprovedVends(s)
BY DEF ApprovedVends, ApprovedVendsAfter, Approved, ApprovedAfter

LEMMA AccountsBegin ==
    ASSUME TypeOK, SessionOK, BegunInOrder, BookStep, Begins, UNCHANGED <<answer, home>>
    PROVE  AccountsOK'
<1> DEFINE id == Head(mailbox).id
<1>1. id \in Nat /\ ~Begun(id)
  BY InMailboxFacts, OrderParts
<1>2. active' = NewSession(id) /\ completed' = NoSummary
  BY DEF Begins
<1>3. /\ active'.id = id /\ active'.phase = "Idle" /\ completed'.id = 0
      /\ active'.summary.successes = 0 /\ active'.summary.failures = 0
  BY <1>2 DEF NewSession, NoSummary
<1>4. \A v \in Vends : home[v] # id
  <2>1. \A v \in Vends : home[v] \in Nat /\ ~(home[v] >= id)
    BY <1>1, BoundsAssumption DEF Begun, TypeOK, ActorTypeOK
  <2> QED BY <1>1, <2>1
<1>5. ApprovedIn(active.id)' = 0
  <2>1. {v \in Vends : home'[v] = active'.id /\ Approved(v)'} = {}
    BY <1>3, <1>4
  <2> QED BY <2>1, FS_EmptySet DEF ApprovedIn
<1> QED BY <1>3, <1>5 DEF AccountsOK, Total, Open

LEMMA AccountsAnswer ==
    ASSUME TypeOK, SessionOK, AnswerOK, OpenVendOK, OutcomeConsistent, AccountsOK, SessionOK',
           NEW frame \in Frames, Answers(frame)
    PROVE  AccountsOK'
<1> DEFINE p == active.vend.id
<1>1. p \in Vends /\ answer[p] = <<>> /\ frame.vend = p /\ ~Open(active) /\ home[p] = active.id
  BY VendFacts DEF Answers, Pending, Open, OpenVendOK
<1>2. answer' = [answer EXCEPT ![p] = <<frame>>] /\ UNCHANGED home
  BY <1>1, FirstAnswer DEF Answers
<1>3. /\ answer'[p] = <<frame>>
      /\ \A v \in Vends : v # p => answer'[v] = answer[v]
  BY <1>1, <1>2, VendFacts
<1>4. /\ ApprovedAfter(p) <=> frame.name = "Approve"
      /\ ~Approved(p)
      /\ \A v \in Vends : v # p => (ApprovedAfter(v) <=> Approved(v))
  BY <1>1, <1>3 DEF ApprovedAfter, Approved
<1>5. CASE frame.name # "Approve" \/ Vanishes
  <2>1. CASE Vanishes
    <3>1. active' = NoSession /\ completed'.id = 0
      BY <2>1, NoSessionFacts DEF Vanishes, Answers, Pending, SessionOK
    <3> QED BY <3>1 DEF AccountsOK
  <2>2. CASE frame.name # "Approve" /\ ~Vanishes
    <3>1. \A s : ApprovedVendsAfter(s) = ApprovedVends(s)
      BY <1>2, <1>4, <2>2 DEF ApprovedVends, ApprovedVendsAfter
    <3>2. Continues(0) /\ ~Open(active')
      BY <2>2 DEF Answers
    <3> QED BY <1>1, <3>1, <3>2, AccountsKept
  <2> QED BY <1>5, <2>1, <2>2
<1>6. CASE frame.name = "Approve" /\ ~Vanishes
  <2>1. Continues(0) /\ Open(active') /\ active # NoSession
    BY <1>6, NoSessionFacts DEF Answers, Continues
  <2>2. ApprovedVendsAfter(active.id) = ApprovedVends(active.id) \union {p}
    BY <1>1, <1>2, <1>4, <1>6 DEF ApprovedVends, ApprovedVendsAfter
  <2>3. p \notin ApprovedVends(active.id)
    BY <1>4 DEF ApprovedVends
  <2>4. Cardinality(ApprovedVendsAfter(active.id)) = Cardinality(ApprovedVends(active.id)) + 1
    BY <2>2, <2>3, FiniteVends, FS_AddElement
  <2>5. Cardinality(ApprovedVends(active.id)) = Total(active.summary) + 0
    BY <1>1, <2>1 DEF AccountsOK, ApprovedIn, ApprovedVends
  <2>6. Total(active.summary) \in Nat /\ Total(active'.summary) = Total(active.summary)
    BY <2>1, SummaryType DEF Continues, TypeOK, ActorTypeOK
  <2>7. ApprovedIn(active.id)' = Cardinality(ApprovedVendsAfter(active.id))
    BY <2>1 DEF Continues, ApprovedIn, Approved, ApprovedVendsAfter, ApprovedAfter
  <2>8. ApprovedIn(active.id)' = Total(active'.summary) + 1
    BY <2>4, <2>5, <2>6, <2>7
  <2>9. completed'.id = 0
    BY <2>1 DEF Continues, SessionOK
  <2> QED BY <2>1, <2>8, <2>9 DEF AccountsOK, Total, Open
<1> QED BY <1>5, <1>6

LEMMA AccountsRequest ==
    ASSUME TypeOK, SessionOK, AnswerOK, OutcomeConsistent, AccountsOK, SessionOK', Requests
    PROVE  AccountsOK'
<1> DEFINE p == vid + 1
           frame == VendFrame("Deny", p, 0)
<1>1. p \in Vends /\ answer[p] = <<>> /\ frame.vend = p /\ frame.name = "Deny"
  BY VendFacts DEF Requests, VendFrame
<1>2. /\ answer'[p] = <<>> \/ answer'[p] = <<frame>>
      /\ \A v \in Vends : v # p => answer'[v] = answer[v] /\ home'[v] = home[v]
  <2>1. \A v \in Vends : v # p => home'[v] = home[v]
    BY DEF Requests, TypeOK, ActorTypeOK
  <2>2. CASE UNCHANGED answer
    BY <1>1, <2>1, <2>2
  <2>3. CASE Logged(frame)
    BY <1>1, <2>1, <2>3, FirstAnswer, VendFacts
  <2> QED BY <2>2, <2>3 DEF Requests
<1>3. /\ ~ApprovedAfter(p) /\ ~Approved(p)
      /\ \A v \in Vends : v # p => (ApprovedAfter(v) <=> Approved(v))
  BY <1>1, <1>2 DEF ApprovedAfter, Approved
<1>4. \A s : ApprovedVendsAfter(s) = ApprovedVends(s)
  BY <1>2, <1>3 DEF ApprovedVends, ApprovedVendsAfter
<1>5. ~Open(active) /\ ~Open(active')
  BY DEF Requests, Open
<1> QED BY <1>4, <1>5, AccountsKept DEF Requests

LEMMA AccountsStep ==
    ASSUME TypeOK, SessionOK, BegunInOrder, AnswerOK, OpenVendOK, OutcomeConsistent,
           AccountsOK, SessionOK', BookStep
    PROVE  AccountsOK'
<1>1. CASE Rests
  <2>1. CASE Begins
    BY <1>1, <2>1, AccountsBegin DEF Rests
  <2>2. CASE ~Begins
    BY <1>1, <2>2, SameApproved, AccountsKept DEF Rests
  <2> QED BY <2>1, <2>2
<1>2. CASE \E frame \in Frames : Answers(frame)
  BY <1>2, AccountsAnswer
<1>3. CASE \E e \in Events : Reports(e)
  BY <1>3, SameApproved, AccountsKept DEF Reports
<1>4. CASE Requests
  BY <1>4, AccountsRequest
<1> QED BY <1>1, <1>2, <1>3, <1>4 DEF BookStep

-----------------------------------------------------------------------------
(* The theorems. *)

\* The inductive invariant of the books, next to TypeOK and SessionSafe.
BooksOK ==
    /\ SessionOK /\ BegunInOrder
    /\ OpenVendOK /\ OutcomeConsistent
    /\ AccountsOK

LEMMA InitBooks == Init => BooksOK
<1> SUFFICES ASSUME Init PROVE BooksOK
  OBVIOUS
<1>1. /\ active = NoSession /\ completed = NoSummary /\ mailbox = <<>> /\ sid = 0
      /\ app = "device" /\ home = [v \in Vends |-> 0] /\ outcome = [v \in Vends |-> <<>>]
  BY DEF Init, ActorInit
<1>2. completed.id = 0 /\ active.id = 0 /\ active.phase = "None" /\ ~Open(active)
  BY <1>1, NoSessionFacts DEF NoSummary
<1>3. SessionOK /\ OpenVendOK /\ AccountsOK
  BY <1>1, <1>2 DEF SessionOK, OpenVendOK, AccountsOK, Pending
<1>4. BegunInOrder
  <2>1. DOMAIN mailbox = {}
    BY <1>1
  <2>2. ~Begun(sid + 1)
    BY <1>1, <1>2 DEF Begun
  <2> QED BY <1>1, <2>1, <2>2 DEF BegunInOrder
<1>5. OutcomeConsistent
  BY <1>1 DEF OutcomeConsistent
<1> QED BY <1>3, <1>4, <1>5 DEF BooksOK

LEMMA BooksKept ==
    ASSUME TypeOK, SessionSafe, BooksOK, [Next]_vars
    PROVE  BooksOK'
<1>1. /\ SessionOK /\ BegunInOrder /\ OpenVendOK /\ OutcomeConsistent /\ AccountsOK
      /\ AnswerOK
  BY DEF BooksOK, SessionSafe
<1>2. BookStep
  BY <1>1, StepBooks DEF Base
<1>3. SessionOK'
  BY <1>1, <1>2, SessionStep
<1>4. BegunInOrder'
  BY <1>1, <1>2, OrderStep
<1>5. OpenVendOK' /\ OutcomeConsistent'
  BY <1>1, <1>2, OpenStep
<1>6. AccountsOK'
  BY <1>1, <1>2, <1>3, AccountsStep
<1> QED BY <1>3, <1>4, <1>5, <1>6 DEF BooksOK

\* The books stay in order: sessions are begun once each, in the order their
\* commands were sent (begin_session and end_session of device.rs), an open vend
\* is an approved one, and the counters of the summary follow the wire.
THEOREM BooksStayInOrder == Spec => []BooksOK
BY InitBooks, TypeCorrect, SessionStaysSafe, BooksKept, PTL DEF Spec

\* An outcome is reported at most once, of an approved vend only, and with the
\* approved amount: VEND SUCCESS, VEND FAILURE and the success handle_reset
\* assumes settle the vend that AwaitingVendResult or AwaitingReset carries, and
\* the session keeps none once it is settled.
THEOREM OutcomesAreTrue == Spec => []OutcomeConsistent
<1>1. BooksOK => OutcomeConsistent
  BY DEF BooksOK
<1> QED BY BooksStayInOrder, <1>1, PTL

\* The counters of SessionSummary balance with the approvals written: whatever
\* was approved in a session is counted, open, or the summary's total, across
\* command_out_of_sequence, handle_reset, an end requested meanwhile and
\* complete_active.
THEOREM BooksBalance == Spec => []ApprovedVendAccounted
<1>1. TypeOK /\ BooksOK => ApprovedVendAccounted
  <2> SUFFICES ASSUME TypeOK, BooksOK PROVE ApprovedVendAccounted
    OBVIOUS
  <2>1. SessionOK /\ OpenVendOK /\ AccountsOK
    BY DEF BooksOK
  <2>2. Open(active) <=> ApprovedVend(active) # NoVend
    BY <2>1, BaseFacts DEF Base
  <2> QED BY <2>1, <2>2 DEF AccountsOK, ApprovedVendAccounted, Total
<1> QED BY BooksStayInOrder, TypeCorrect, <1>1, PTL
=============================================================================
