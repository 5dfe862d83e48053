---------------------------- MODULE DecisionProofs ----------------------------
(***************************************************************************)
(* Who decides a vend of MdbClient, and what decide() then says: the table *)
(* invalid_vends never speaks of the vend that is pending or approved, and *)
(* a pending vend is always in the hands of somebody who will decide it,   *)
(* and no call of the application waits for an answer that never comes.    *)
(***************************************************************************)
EXTENDS HandleProofs

-----------------------------------------------------------------------------
(* The table of vends that were invalidated before they were decided. *)

TableIds(t) == {t[i].id : i \in DOMAIN t}
NoDoubles(t) == \A i, j \in DOMAIN t : t[i].id = t[j].id => i = j

LEMMA Invalidated ==
    ASSUME TypeOK, NoDoubles(invalid), Len(invalid) <= InvalidCap,
           NEW id \in 0..MaxVends, NEW error \in DecisionErrors
    PROVE  LET t == invalidate_vend(id, error)
           IN  Len(t) <= InvalidCap /\ NoDoubles(t) /\ TableIds(t) \subseteq InvalidIds \union {id}
<1> DEFINE entry == [id |-> id, error |-> error]
           grown == Append(invalid, entry)
           changed == [i \in DOMAIN invalid |-> IF invalid[i].id = id THEN entry ELSE invalid[i]]
<1>1. /\ invalid \in Seq(InvalidEntries) /\ entry \in InvalidEntries /\ entry.id = id
      /\ Len(invalid) \in Nat /\ InvalidCap \in Nat /\ DOMAIN invalid = 1..Len(invalid)
  BY BoundsAssumption, LenProperties DEF TypeOK, ActorTypeOK, InvalidEntries
<1> HIDE DEF entry
<1>2. CASE id \in InvalidIds
  <2>1. Len(changed) = Len(invalid)
    BY <1>1
  <2>2. DOMAIN changed = DOMAIN invalid /\ \A i \in DOMAIN invalid : changed[i].id = invalid[i].id
    BY <1>1
  <2>3. NoDoubles(changed) /\ TableIds(changed) \subseteq InvalidIds
    BY <2>2 DEF NoDoubles, TableIds, InvalidIds
  <2> QED BY <1>2, <2>1, <2>3 DEF invalidate_vend, entry
<1>3. CASE id \notin InvalidIds
  <2>1. /\ grown \in Seq(InvalidEntries) /\ Len(grown) = Len(invalid) + 1 /\ grown # <<>>
        /\ \A i \in DOMAIN grown : \/ i \in DOMAIN invalid /\ grown[i] = invalid[i]
                                   \/ i = Len(invalid) + 1 /\ grown[i] = entry
    BY <1>1, AppendHas, AppendProperties, EmptySeq
  <2> HIDE DEF grown
  <2>2. NoDoubles(grown) /\ TableIds(grown) \subseteq InvalidIds \union {id}
    BY <1>1, <1>3, <2>1 DEF NoDoubles, TableIds, InvalidIds
  <2> DEFINE t == Tail(grown)
  <2>3. /\ Len(t) = Len(invalid)
        /\ \A i \in DOMAIN t : i \in Nat \ {0} /\ i + 1 \in DOMAIN grown /\ t[i] = grown[i + 1]
    BY <1>1, <2>1, TailHas, HeadTailProperties
  <2> HIDE DEF t
  <2>4. \A i, j \in DOMAIN t : i + 1 = j + 1 => i = j
    BY <2>3
  <2>5. NoDoubles(t) /\ TableIds(t) \subseteq TableIds(grown)
    BY <2>2, <2>3, <2>4 DEF NoDoubles, TableIds
  <2>6. CASE Len(grown) > InvalidCap
    <3>1. invalidate_vend(id, error) = t
      BY <1>3, <2>6 DEF invalidate_vend, entry, grown, t
    <3> QED BY <2>2, <2>3, <2>5, <3>1
  <2>7. CASE ~(Len(grown) > InvalidCap)
    <3>1. invalidate_vend(id, error) = grown
      BY <1>3, <2>7 DEF invalidate_vend, entry, grown
    <3> QED BY <1>1, <2>1, <2>2, <2>7, <3>1
  <2> QED BY <2>6, <2>7
<1> QED BY <1>2, <1>3

LEMMA Taken ==
    ASSUME TypeOK, NoDoubles(invalid), Len(invalid) <= InvalidCap, NEW id \in InvalidIds
    PROVE  LET t == take_invalid_vend(id)
           IN  Len(t) <= InvalidCap /\ NoDoubles(t) /\ TableIds(t) \subseteq InvalidIds
<1> DEFINE k == CHOOSE i \in DOMAIN invalid : invalid[i].id = id
           t == [j \in 1..(Len(invalid) - 1) |-> IF j < k THEN invalid[j] ELSE invalid[j + 1]]
<1>1. /\ Len(invalid) \in Nat /\ InvalidCap \in Nat /\ DOMAIN invalid = 1..Len(invalid)
      /\ k \in 1..Len(invalid)
  BY BoundsAssumption, LenProperties DEF TypeOK, ActorTypeOK, InvalidIds
<1> HIDE DEF k
<1>2. Len(t) = Len(invalid) - 1 /\ DOMAIN t = 1..(Len(invalid) - 1)
  BY <1>1
<1>3. \A j \in DOMAIN t : LET i == IF j < k THEN j ELSE j + 1
                          IN  i \in DOMAIN invalid /\ t[j] = invalid[i]
  BY <1>1, <1>2
<1>4. \A i, j \in DOMAIN t : (IF i < k THEN i ELSE i + 1) = (IF j < k THEN j ELSE j + 1) => i = j
  BY <1>1, <1>2
<1>5. take_invalid_vend(id) = t
  BY DEF take_invalid_vend, k
<1> HIDE DEF t
<1>6. NoDoubles(t) /\ TableIds(t) \subseteq InvalidIds
  BY <1>3, <1>4 DEF NoDoubles, TableIds, InvalidIds
<1> QED BY <1>1, <1>2, <1>5, <1>6

-----------------------------------------------------------------------------
(* What a step does to the table: a vend enters it on leaving the session. *)

Denying == active.phase = "DenyingForEnd"

TableStep ==
    /\ \/ UNCHANGED invalid
       \/ /\ ~Pending' /\ ~Open(active')
          /\ \E id \in 1..vid', error \in DecisionErrors : invalid' = invalidate_vend(id, error)
       \/ \E id \in InvalidIds : invalid' = take_invalid_vend(id)
    /\ Denying' => (Pending \/ Denying) /\ active'.vend.id = active.vend.id

\* The vend that can enter it has been requested.
MarkedOK == TypeOK /\ (Pending \/ Denying => active.vend.id \in 1..vid)

LEMMA MarkedFacts ==
    ASSUME MarkedOK
    PROVE  /\ active \in SessionRecords /\ vid \in Nat
           /\ {"SessionEnded", "Cancelled", "TimedOut", "Abandoned"} \subseteq DecisionErrors
           /\ \A v \in 0..MaxVends : Idling(active).phase = "Idle" /\ ~Open(Idling(active))
           /\ \A p : /\ [active EXCEPT !.phase = p].phase = p
                     /\ [active EXCEPT !.phase = p].vend = active.vend
BY BoundsAssumption DEF MarkedOK, TypeOK, ActorTypeOK, DecisionErrors, Idling, Open, SessionRecords

LEMMA TableRests == UNCHANGED <<active, invalid>> => TableStep
BY DEF TableStep, Denying, Pending

\* Nothing enters it, and the session is in no phase a vend could leave.
LEMMA TableCalm ==
    UNCHANGED invalid /\ active'.phase # "DenyingForEnd" => TableStep
BY DEF TableStep, Denying

LEMMA TableFails ==
    ASSUME NEW before, fail(before)
    PROVE  TableStep
BY NoSessionFacts, TableCalm DEF fail

LEMMA TableEnds ==
    ASSUME MarkedOK, UNCHANGED vid, NEW before, NEW s \in SessionRecords, initiate_end(s, before),
           s.phase = "Idle" \/ (s.phase = active.phase /\ s.vend = active.vend)
    PROVE  TableStep
<1> DEFINE e == [s EXCEPT !.endRequested = TRUE, !.summary.reason = "ApplicationRequested"]
<1>1. /\ e.phase = s.phase /\ e.vend = s.vend
      /\ \A p : [e EXCEPT !.phase = p].phase = p /\ [e EXCEPT !.phase = p].vend = s.vend
  BY DEF SessionRecords
<1> HIDE DEF e
<1>2. CASE fail(before)
  BY <1>2, TableFails
<1>3. CASE s.phase = "Idle" /\ UNCHANGED invalid /\ active' = [e EXCEPT !.phase = "AwaitingSessionComplete"]
  BY <1>1, <1>3, TableCalm
<1>4. CASE /\ s.phase = "VendPending" /\ invalid' = invalidate_vend(s.vend.id, "SessionEnded")
           /\ active' = [e EXCEPT !.phase = "DenyingForEnd"]
  <2>1. Pending /\ s.vend.id \in 1..vid' /\ "SessionEnded" \in DecisionErrors
    BY <1>4, MarkedFacts DEF Pending, MarkedOK
  <2>2. active'.phase = "DenyingForEnd" /\ active'.vend.id = active.vend.id
    BY <1>1, <1>4
  <2> QED BY <1>4, <2>1, <2>2 DEF TableStep, Pending, Open, Denying
<1>5. CASE s.phase \notin {"Idle", "VendPending"} /\ UNCHANGED invalid /\ active' \in {s, e}
  BY <1>1, <1>5 DEF TableStep, Denying
<1> QED BY <1>2, <1>3, <1>4, <1>5 DEF initiate_end, Send, Calm, e

LEMMA TableSuspends ==
    ASSUME MarkedOK, UNCHANGED vid, command_out_of_sequence
    PROVE  TableStep
<1>1. CASE \E before : fail(before)
  BY <1>1, TableFails
<1>2. CASE /\ active' = IF active.phase = "None" THEN active
                        ELSE [active EXCEPT !.phase = "AwaitingReset", !.vend = ApprovedVend(active)]
           /\ invalid' = IF Pending THEN invalidate_vend(active.vend.id, "SessionEnded")
                                    ELSE invalid
  <2>1. active'.phase \in {"None", "AwaitingReset"}
    BY <1>2, MarkedFacts DEF SessionRecords
  <2>2. CASE ~Pending
    BY <1>2, <2>1, <2>2, TableCalm
  <2>3. CASE Pending
    <3>1. active'.vend = NoVend /\ active'.phase = "AwaitingReset"
      BY <1>2, <2>3, MarkedFacts DEF Pending, ApprovedVend, SessionRecords
    <3>2. active.vend.id \in 1..vid' /\ "SessionEnded" \in DecisionErrors
      BY <2>3, MarkedFacts DEF MarkedOK
    <3> QED BY <1>2, <2>3, <3>1, <3>2 DEF TableStep, Pending, Open, Denying
  <2> QED BY <2>2, <2>3
<1> QED BY <1>1, <1>2 DEF command_out_of_sequence, Send

LEMMA TableMessages ==
    ASSUME MarkedOK, UNCHANGED vid, NEW m, handle_adapter_message(m)
    PROVE  TableStep
<1>1. CASE handle_ack
  BY <1>1, TableFails, TableCalm, TableRests, MarkedFacts, NoSessionFacts
     DEF handle_ack, Send, complete_active, SessionRecords
<1>2. CASE handle_reset
  <2>1. active' = NoSession
    BY <1>2 DEF handle_reset, complete_active
  <2>2. ~Pending' /\ ~Open(active') /\ ~Denying'
    BY <2>1, NoSessionFacts DEF Pending, Denying
  <2>3. Pending => active.vend.id \in 1..vid' /\ "SessionEnded" \in DecisionErrors
    BY MarkedFacts DEF MarkedOK
  <2> QED BY <1>2, <2>2, <2>3 DEF handle_reset, TableStep
<1>3. CASE handle_setup_configuration \/ handle_setup_prices
  BY <1>3, TableRests DEF handle_setup_configuration, handle_setup_prices
<1>4. ASSUME NEW newStatus, handle_reader_control(newStatus)
      PROVE  TableStep
  BY <1>4, TableSuspends, TableRests DEF handle_reader_control
<1>5. CASE handle_reader_cancel
  BY <1>5, TableSuspends, TableFails, TableRests DEF handle_reader_cancel, Send
<1>6. CASE handle_vend_cancel
  <2> DEFINE idle == [Idling(active) EXCEPT !.summary.cancels = @ + 1]
             counted == [active EXCEPT !.summary.cancels = @ + 1]
  <2>1. /\ idle.phase = "Idle" /\ counted.phase = active.phase /\ counted.vend = active.vend
        /\ "Cancelled" \in DecisionErrors
    BY MarkedFacts DEF SessionRecords, Idling
  <2>2. CASE Pending /\ active' = idle /\ invalid' = invalidate_vend(active.vend.id, "Cancelled")
    BY <2>1, <2>2 DEF TableStep, MarkedOK, Pending, Open, Denying
  <2>3. CASE Denying /\ active' = counted /\ invalid' = invalidate_vend(active.vend.id, "Cancelled")
    BY <2>1, <2>3 DEF TableStep, MarkedOK, Pending, Open, Denying
  <2> HIDE DEF idle, counted
  <2>4. \/ command_out_of_sequence \/ fail(<<>>)
        \/ Pending /\ active' = idle /\ invalid' = invalidate_vend(active.vend.id, "Cancelled")
        \/ Denying /\ active' = counted /\ invalid' = invalidate_vend(active.vend.id, "Cancelled")
    BY <1>6 DEF handle_vend_cancel, Send, Denying, idle, counted
  <2> QED BY <2>2, <2>3, <2>4, TableSuspends, TableFails
<1>7. CASE handle_session_complete
  <2>1. \/ command_out_of_sequence \/ fail(<<>>) \/ UNCHANGED <<active, invalid>>
        \/ UNCHANGED invalid /\ active' = [active EXCEPT !.phase = "AwaitingEndSessionAck",
                                             !.vend = NoVend, !.endReason = active.summary.reason]
    BY <1>7 DEF handle_session_complete, Send
  <2>2. [active EXCEPT !.phase = "AwaitingEndSessionAck", !.vend = NoVend,
                       !.endReason = active.summary.reason].phase = "AwaitingEndSessionAck"
    BY MarkedFacts DEF SessionRecords
  <2> QED BY <2>1, <2>2, TableSuspends, TableFails, TableRests, TableCalm
<1>8. ASSUME NEW kind, NEW why, NEW counted \in SessionRecords, VendResult(kind, why, counted)
      PROVE  TableStep
  <2>1. Idling(counted) \in SessionRecords /\ Idling(counted).phase = "Idle"
    BY IdlingType DEF Idling, SessionRecords
  <2>2. CASE active' = Idling(counted) /\ UNCHANGED invalid
    BY <2>1, <2>2, TableCalm
  <2> QED BY <1>8, <2>1, <2>2, TableSuspends, TableEnds DEF VendResult
<1>9. CASE handle_vend_success \/ handle_vend_failure
  <2> DEFINE success == [active EXCEPT !.summary.successes = @ + 1]
             failure == [active EXCEPT !.summary.failures = @ + 1]
  <2>1. success \in SessionRecords /\ failure \in SessionRecords
    BY MarkedFacts DEF SessionRecords, Summaries
  <2>2. VendResult("VendSucceeded", "Confirmed", success) \/ VendResult("VendFailed", "", failure)
    BY <1>9 DEF handle_vend_success, handle_vend_failure
  <2> HIDE DEF success, failure
  <2> QED BY <1>8, <2>1, <2>2
<1>10. CASE UNCHANGED <<active, invalid>>
  BY <1>10, TableRests
<1> QED
  BY <1>1, <1>2, <1>3, <1>4, <1>5, <1>6, <1>7, <1>9, <1>10 DEF handle_adapter_message

LEMMA TableRequest ==
    ASSUME MarkedOK, handle_vend_request
    PROVE  TableStep
<1> DEFINE v == vid + 1
<1>1. CASE command_out_of_sequence /\ UNCHANGED vendVars
  BY <1>1, TableSuspends DEF vendVars
<1>2. CASE active.phase = "Idle" /\ vid < MaxVends /\ vid' = v
  <2>1. CASE fail(<<>>)
    BY <2>1, TableFails
  <2>2. CASE \E price : active' = [active EXCEPT !.phase = "VendPending",
                                     !.vend = [id |-> v, price |-> price, amount |-> 0]]
             /\ UNCHANGED invalid
    <3>1. active'.phase = "VendPending"
      BY <2>2, MarkedFacts DEF SessionRecords
    <3> QED BY <2>2, <3>1, TableCalm
  <2>3. CASE UNCHANGED active /\ invalid' = invalidate_vend(v, "Abandoned")
    <3>1. v \in 1..vid' /\ "Abandoned" \in DecisionErrors
      BY <1>2, MarkedFacts
    <3> QED BY <1>2, <2>3, <3>1 DEF TableStep, Pending, Open, Denying
  <2> QED BY <1>2, <2>1, <2>2, <2>3 DEF handle_vend_request, Send
<1> QED BY <1>1, <1>2 DEF handle_vend_request

LEMMA TableRefuses ==
    ASSUME MarkedOK, UNCHANGED vid, Pending, NEW error \in DecisionErrors,
           refuse_vend(active.vend.id, error)
    PROVE  TableStep
<1>1. CASE \E before : fail(before)
  BY <1>1, TableFails
<1>2. CASE active' = Idling(active) /\ invalid' = invalidate_vend(active.vend.id, error)
  <2>1. active'.phase = "Idle"
    BY <1>2, MarkedFacts DEF Idling, SessionRecords
  <2> QED BY <1>2, <2>1 DEF TableStep, MarkedOK, Pending, Open, Denying
<1> QED BY <1>1, <1>2 DEF refuse_vend, Send

LEMMA TableDecides ==
    ASSUME MarkedOK, NEW c, decide_vend(c)
    PROVE  TableStep
<1>1. CASE c.id \in InvalidIds
  BY <1>1 DEF decide_vend, TableStep, Denying, Pending
<1>2. CASE UNCHANGED <<active, invalid>>
  BY <1>2, TableRests
<1>3. CASE write_decision(c)
  <2>1. CASE fail(<<>>)
    BY <2>1, TableFails
  <2>2. CASE active' = [active EXCEPT !.phase = "AwaitingVendResult", !.vend.amount = c.arg]
             /\ UNCHANGED invalid
    <3>1. active'.phase = "AwaitingVendResult"
      BY <2>2, MarkedFacts DEF SessionRecords, VendRecords
    <3> QED BY <2>2, <3>1, TableCalm
  <2>3. CASE active' = Idling(active) /\ UNCHANGED invalid
    <3>1. active'.phase = "Idle"
      BY <2>3, MarkedFacts DEF Idling, SessionRecords
    <3> QED BY <2>3, <3>1, TableCalm
  <2> QED BY <1>3, <2>1, <2>2, <2>3 DEF write_decision, Send
<1> QED BY <1>1, <1>2, <1>3 DEF decide_vend

LEMMA TableCommands ==
    ASSUME MarkedOK, UNCHANGED vid, NEW c, handle_command(c)
    PROVE  TableStep
<1>1. CASE begin_session(c)
  <2>1. \A id : NewSession(id).phase = "Idle"
    BY DEF NewSession
  <2> QED BY <1>1, <2>1, TableFails, TableRests, TableCalm DEF begin_session, Send
<1>2. CASE display_message(c)
  BY <1>2, TableFails, TableRests DEF display_message, Send
<1>3. CASE decide_vend(c)
  BY <1>3, TableDecides
<1>4. CASE abandon_vend(c)
  <2>1. CASE PendingIs(c.id) /\ refuse_vend(c.id, "Abandoned")
    BY <2>1, TableRefuses, MarkedFacts DEF PendingIs
  <2> QED BY <1>4, <2>1, TableRests DEF abandon_vend
<1>5. CASE request_end(c)
  <2> DEFINE s == [active EXCEPT !.waiting = @ \/ c.arg = 1]
  <2>1. s \in SessionRecords /\ s.phase = active.phase /\ s.vend = active.vend
    BY MarkedFacts DEF SessionRecords
  <2>2. UNCHANGED <<active, invalid>> \/ initiate_end(s, <<>>)
    BY <1>5 DEF request_end
  <2> QED BY <2>1, <2>2, TableRests, TableEnds
<1>6. CASE initiate_end(active, <<>>)
  BY <1>6, TableEnds, MarkedFacts
<1> QED BY <1>1, <1>2, <1>3, <1>4, <1>5, <1>6 DEF handle_command

LEMMA TableSteps ==
    ASSUME MarkedOK, [Next]_vars
    PROVE  TableStep
<1>1. CASE \E m \in Messages : ReceiveMessage(m)
  BY <1>1, TableMessages, TableRequest DEF ReceiveMessage, vendVars
<1>2. CASE ReceiveCommand
  BY <1>2, TableCommands DEF ReceiveCommand, vendVars
<1>3. CASE CommandChannelClosed
  BY <1>3, TableEnds, MarkedFacts DEF CommandChannelClosed, vendVars
<1>4. CASE VendDeadline
  BY <1>4, TableRefuses, MarkedFacts DEF VendDeadline, vendVars
<1>5. CASE ExitDeadline
  BY <1>5, TableCalm, NoSessionFacts DEF ExitDeadline
<1>6. CASE LinkClosed \/ Exit
  BY <1>6, TableFails, TableRests DEF LinkClosed, Exit
<1>7. CASE ClientStep \/ Stopped \/ UNCHANGED vars
  <2>1. UNCHANGED <<active, invalid>>
    BY <1>7, ClientRests DEF ActorRests, Stopped, vars
  <2> QED BY <2>1, TableRests
<1> QED BY <1>1, <1>2, <1>3, <1>4, <1>5, <1>6, <1>7 DEF Next, ActorStep

-----------------------------------------------------------------------------
(* The table never speaks of the vend that is open. *)

TableOK ==
    /\ Len(invalid) <= InvalidCap /\ NoDoubles(invalid)
    /\ InvalidIds \subseteq 1..vid
    /\ Pending \/ Open(active) => active.vend.id \notin InvalidIds
    /\ Denying => active.vend.id \in 1..vid

\* The vend that is open after a step was open before it, or is a new one.
LEMMA OpenAfter ==
    ASSUME BookStep, Pending' \/ Open(active')
    PROVE  \/ (Pending \/ Open(active)) /\ active'.vend.id = active.vend.id
           \/ active'.vend.id = vid + 1
<1>1. Vanishes => ~Pending' /\ ~Open(active')
  BY NoSessionFacts DEF Vanishes, Pending
<1>2. CASE Rests
  BY <1>2 DEF Rests
<1>3. CASE \E frame \in Frames : Answers(frame)
  BY <1>1, <1>3 DEF Answers
<1>4. CASE \E e \in Events : Reports(e)
  BY <1>4 DEF Reports
<1>5. CASE Requests
  BY <1>5 DEF Requests
<1> QED BY <1>2, <1>3, <1>4, <1>5 DEF BookStep

LEMMA TableStays ==
    ASSUME TypeOK, TypeOK', AnswerOK, TableOK, BookStep, TableStep
    PROVE  TableOK'
<1>1. /\ vid \in Nat /\ vid' \in Nat /\ vid <= vid'
      /\ vid \in 0..MaxVends /\ vid' \in 0..MaxVends /\ MaxVends \in Nat
  <2>1. vid' = vid \/ vid' = vid + 1
    BY DEF BookStep, Rests, Answers, Reports, Requests
  <2>2. vid \in 0..MaxVends /\ vid' \in 0..MaxVends /\ MaxVends \in Nat
    BY BoundsAssumption DEF TypeOK, ActorTypeOK
  <2> QED BY <2>1, <2>2
<1>2. /\ Len(invalid) <= InvalidCap /\ NoDoubles(invalid)
      /\ InvalidIds = TableIds(invalid) /\ TableIds(invalid) \subseteq 1..vid
  BY DEF TableOK, InvalidIds, TableIds
<1>3. Denying' => active'.vend.id \in 1..vid'
  <2>1. Pending \/ Denying => active.vend.id \in 1..vid
    BY DEF AnswerOK, TableOK
  <2> QED BY <1>1, <2>1 DEF TableStep
<1>4. InvalidIds' = TableIds(invalid')
  BY DEF InvalidIds, TableIds
<1>5. CASE UNCHANGED invalid \/ \E id \in InvalidIds : invalid' = take_invalid_vend(id)
  <2>1. /\ Len(invalid') <= InvalidCap /\ NoDoubles(invalid')
        /\ TableIds(invalid') \subseteq TableIds(invalid)
    BY <1>2, <1>5, Taken
  <2>2. Pending' \/ Open(active') => active'.vend.id \notin TableIds(invalid)
    <3>1. SUFFICES ASSUME Pending' \/ Open(active')
                   PROVE  active'.vend.id \notin TableIds(invalid)
      OBVIOUS
    <3>2. vid + 1 \notin 1..vid
      BY <1>1
    <3> QED BY <1>2, <3>1, <3>2, OpenAfter DEF TableOK
  <2>3. 1..vid \subseteq 1..vid'
    BY <1>1
  <2> QED BY <1>2, <1>3, <1>4, <2>1, <2>2, <2>3 DEF TableOK, NoDoubles
<1>6. CASE /\ ~Pending' /\ ~Open(active')
           /\ \E id \in 1..vid', error \in DecisionErrors : invalid' = invalidate_vend(id, error)
  <2>1. PICK id \in 1..vid', error \in DecisionErrors : invalid' = invalidate_vend(id, error)
    BY <1>6
  <2>2. id \in 0..MaxVends
    BY <1>1
  <2>3. /\ Len(invalid') <= InvalidCap /\ NoDoubles(invalid')
        /\ TableIds(invalid') \subseteq TableIds(invalid) \union {id}
    BY <1>2, <2>1, <2>2, Invalidated
  <2>4. TableIds(invalid') \subseteq 1..vid'
    <3>1. 1..vid \subseteq 1..vid'
      BY <1>1
    <3> QED BY <1>2, <2>3, <3>1
  <2> QED BY <1>3, <1>4, <1>6, <2>3, <2>4 DEF TableOK, NoDoubles, Open
<1> QED BY <1>5, <1>6 DEF TableStep

\* The inductive invariant of the table: it knows requested vends only, and none
\* that is still to be decided or was approved.
THEOREM TableStaysRight == Spec => []TableOK
<1>1. Init => TableOK
  BY BoundsAssumption DEF Init, ActorInit, TableOK, NoDoubles, InvalidIds, NoSession, NewSession,
                          Pending, Open, Denying
<1>2. ASSUME TypeOK, TypeOK', SessionSafe, BooksOK, TableOK, [Next]_vars
      PROVE  TableOK'
  <2>1. AnswerOK /\ Base /\ BegunInOrder
    BY <1>2 DEF SessionSafe, BooksOK, Base
  <2>2. BookStep
    BY <1>2, <2>1, StepBooks
  <2>3. MarkedOK
    BY <1>2, <2>1 DEF AnswerOK, TableOK, MarkedOK
  <2> QED BY <1>2, <2>1, <2>2, <2>3, TableSteps, TableStays
<1> QED BY TypeCorrect, SessionStaysSafe, BooksStayInOrder, <1>1, <1>2, PTL DEF Spec

\* invalid_vends keeps its capacity and one entry for a vend, and decide_vend
\* finds none for the vend it is to decide: an entry is made only as its vend
\* leaves the session, and the ids that come later are new.
THEOREM TableIsValid == Spec => []InvalidTable
<1>1. TypeOK /\ BooksOK /\ TableOK => InvalidTable
  <2> SUFFICES ASSUME TypeOK, BooksOK, TableOK PROVE InvalidTable
    OBVIOUS
  <2>1. Open(active) <=> ApprovedVend(active) # NoVend
    BY BaseFacts DEF BooksOK, Base
  <2> QED BY <2>1 DEF TableOK, NoDoubles, InvalidTable
<1> QED BY TypeCorrect, BooksStayInOrder, TableStaysRight, <1>1, PTL

-----------------------------------------------------------------------------
(* What the channel still holds after a step. *)

Deciding == {"Approve", "Deny", "AbandonVend"}

LEMMA TailKeeps ==
    ASSUME TypeOK, mailbox # <<>>, mailbox' = Tail(mailbox), NEW ops, NEW id, InMailbox(ops, id)
    PROVE  \/ InMailbox(ops, id)'
           \/ Head(mailbox).op \in ops /\ Head(mailbox).id = id
<1>1. /\ mailbox \in Seq(Commands) /\ Len(mailbox) \in Nat /\ DOMAIN mailbox = 1..Len(mailbox)
      /\ Head(mailbox) = mailbox[1] /\ DOMAIN mailbox' = 1..(Len(mailbox) - 1)
      /\ \A i \in DOMAIN mailbox' : mailbox'[i] = mailbox[i + 1]
  BY LenProperties, HeadTailProperties, EmptySeq DEF TypeOK, ClientTypeOK
<1>2. PICK i \in DOMAIN mailbox : mailbox[i].op \in ops /\ mailbox[i].id = id
  BY DEF InMailbox
<1>3. CASE i = 1
  BY <1>1, <1>2, <1>3
<1>4. CASE i # 1
  <2>1. i - 1 \in DOMAIN mailbox' /\ (i - 1) + 1 = i
    BY <1>1, <1>4
  <2>2. mailbox'[i - 1] = mailbox[i]
    BY <1>1, <2>1
  <2> QED BY <1>2, <2>1, <2>2 DEF InMailbox
<1> QED BY <1>3, <1>4

LEMMA AppendKeeps ==
    ASSUME TypeOK, NEW c \in Commands, mailbox' = Append(mailbox, c), NEW ops, NEW id
    PROVE  /\ InMailbox(ops, id) => InMailbox(ops, id)'
           /\ c.op \in ops /\ c.id = id => InMailbox(ops, id)'
<1>1. /\ mailbox \in Seq(Commands) /\ Len(mailbox) \in Nat /\ DOMAIN mailbox = 1..Len(mailbox)
      /\ DOMAIN mailbox' = 1..(Len(mailbox) + 1) /\ mailbox'[Len(mailbox) + 1] = c
      /\ \A i \in DOMAIN mailbox : mailbox'[i] = mailbox[i]
  BY LenProperties, AppendProperties DEF TypeOK, ClientTypeOK
<1>2. \A i \in DOMAIN mailbox : i \in DOMAIN mailbox'
  BY <1>1
<1>3. Len(mailbox) + 1 \in DOMAIN mailbox'
  BY <1>1
<1> QED BY <1>1, <1>2, <1>3 DEF InMailbox

LEMMA PostSends ==
    ASSUME TypeOK, NEW c \in Commands, Post(c), NEW ops, NEW id
    PROVE  /\ InMailbox(ops, id) => InMailbox(ops, id)'
           /\ Running /\ c.op \in ops /\ c.id = id => InMailbox(ops, id)'
<1>1. CASE UNCHANGED mailbox /\ ~Running
  BY <1>1 DEF InMailbox
<1> QED BY <1>1, AppendKeeps DEF Post, Running

\* A step of the actor keeps a command but the one it handles.
LEMMA ActorKeeps ==
    ASSUME TypeOK, ActorStep \/ \E m \in Messages : ReceiveMessage(m), alive' = "running",
           NEW ops, NEW id, InMailbox(ops, id)
    PROVE  \/ InMailbox(ops, id)'
           \/ ReceiveCommand /\ Head(mailbox).op \in ops /\ Head(mailbox).id = id
<1>1. CASE UNCHANGED mailbox
  BY <1>1 DEF InMailbox
<1> QED BY <1>1, ActorMailbox, TailKeeps, AppendKeeps

-----------------------------------------------------------------------------
(* A pending vend has somebody to decide it. *)

\* Only a VEND REQUEST hands out a vend.
LEMMA ActorHands ==
    ASSUME ActorStep \/ \E m \in Messages : ReceiveMessage(m)
    PROVE  \/ UNCHANGED <<vid, home, hand>>
           \/ handle_vend_request /\ vid' = vid + 1
BY DEF ActorStep, ReceiveMessage, ReceiveCommand, CommandChannelClosed, VendDeadline,
       ExitDeadline, LinkClosed, Exit, handle_vend_request, vendVars

LEMMA VendTaken ==
    ASSUME MarkedOK, NEW c, c.op \in Deciding, handle_command(c), PendingIs(c.id),
           c.id \notin InvalidIds, alive' = "running"
    PROVE  ~Pending'
<1>1. \/ active'.phase = "Idle" \/ active'.phase = "AwaitingVendResult"
      \/ \E before : fail(before)
  <2>1. /\ Idling(active).phase = "Idle"
        /\ [active EXCEPT !.phase = "AwaitingVendResult", !.vend.amount = c.arg].phase
             = "AwaitingVendResult"
    BY MarkedFacts DEF Idling, SessionRecords, VendRecords
  <2>2. CASE decide_vend(c)
    BY <2>1, <2>2 DEF decide_vend, write_decision, Send
  <2>3. CASE abandon_vend(c)
    BY <2>1, <2>3 DEF abandon_vend, refuse_vend, Send
  <2> QED BY <2>2, <2>3 DEF handle_command, Deciding
<1> QED BY <1>1 DEF Pending, fail

\* A VEND REQUEST that leaves a vend pending has queued it for the application.
LEMMA RequestHands ==
    ASSUME MarkedOK, handle_vend_request, vid' = vid + 1, alive' = "running", Pending'
    PROVE  hand'[active'.vend.id] = "queued"
<1> DEFINE v == vid + 1
<1>1. active.phase = "Idle" /\ vid < MaxVends
  <2>1. ~UNCHANGED vendVars
    BY MarkedFacts DEF vendVars
  <2> QED BY <2>1 DEF handle_vend_request
<1>2. v \in Vends /\ hand \in [Vends -> HandStates]
  BY <1>1, MarkedFacts, BoundsAssumption DEF Vends, MarkedOK, TypeOK, ClientTypeOK
<1>3. ~(\E before : fail(before)) /\ ~UNCHANGED active
  BY <1>1 DEF fail, Pending
<1>4. /\ \E price : active' = [active EXCEPT !.phase = "VendPending",
                            !.vend = [id |-> v, price |-> price, amount |-> 0]]
      /\ hand' = [hand EXCEPT ![v] = "queued"]
  BY <1>1, <1>3 DEF handle_vend_request, Send
<1>5. active'.vend.id = v
  BY <1>4, MarkedFacts DEF SessionRecords
<1> QED BY <1>2, <1>4, <1>5

LEMMA ActorDecider ==
    ASSUME MarkedOK, TableOK, BookStep, PendingHasDecider,
           ActorStep \/ \E m \in Messages : ReceiveMessage(m)
    PROVE  PendingHasDecider'
<1> SUFFICES ASSUME alive' = "running", Pending'
             PROVE  \/ hand'[active'.vend.id] \in {"queued", "held"}
                    \/ InMailbox(Deciding, active.vend.id)' /\ active'.vend.id = active.vend.id
  BY DEF PendingHasDecider, Running, Deciding, InMailbox
<1>1. CASE handle_vend_request /\ vid' = vid + 1
  BY <1>1, RequestHands
<1>2. CASE UNCHANGED <<vid, home, hand>>
  <2>1. Pending /\ active'.vend.id = active.vend.id
    BY <1>2, NoSessionFacts, MarkedFacts DEF BookStep, Rests, Answers, Reports, Requests
  <2>2. PICK v : v = active.vend.id
    OBVIOUS
  <2>3. alive = "running"
    BY DEF ActorStep, ReceiveMessage, ReceiveCommand, CommandChannelClosed, VendDeadline,
           ExitDeadline, LinkClosed, Exit, Ready
  <2>4. hand[v] \in {"queued", "held"} \/ InMailbox(Deciding, v)
    BY <2>1, <2>2, <2>3 DEF PendingHasDecider, Running, Deciding
  <2>5. CASE hand[v] \in {"queued", "held"}
    BY <1>2, <2>1, <2>2, <2>5
  <2>6. CASE InMailbox(Deciding, v)
    <3>1. ~(ReceiveCommand /\ Head(mailbox).op \in Deciding /\ Head(mailbox).id = v)
      BY <2>1, <2>2, VendTaken DEF ReceiveCommand, TableOK, PendingIs
    <3>2. InMailbox(Deciding, v)'
      BY <2>6, <3>1, ActorKeeps DEF MarkedOK
    <3> QED BY <2>1, <2>2, <3>2
  <2> QED BY <2>4, <2>5, <2>6
<1> QED BY <1>1, <1>2, ActorHands

-----------------------------------------------------------------------------
(* The steps of the handles. *)

LEMMA HandlesPost ==
    ASSUME TypeOK, ClientStep
    PROVE  UNCHANGED mailbox \/ \E c \in Commands : Post(c)
<1>1. /\ sid \in 0..MaxSessions /\ 0 \in 0..MaxSessions /\ 0 \in Cash /\ Amounts \subseteq Cash
      /\ \A v \in Vends : v \in 0..MaxVends
      /\ sid < MaxSessions => sid + 1 \in 0..MaxSessions
  BY BoundsAssumption DEF TypeOK, ClientTypeOK, Cash, Vends
<1>2. CASE BeginSession \/ Shutdown \/ DeviceDisplay \/ SessionDisplay \/ Finish \/ DropSession
  <2>1. \E op \in SessionOps, id \in 0..MaxSessions, arg \in {0, 1} : Post(Command(op, id, arg))
    BY <1>1, <1>2 DEF BeginSession, Shutdown, DeviceDisplay, SessionDisplay, Finish, DropSession,
                      Call, SessionOps
  <2> QED BY <2>1, SessionCommandType
<1>3. CASE DropEvent
  <2>1. Head(events).vend \in 0..MaxVends
    BY <1>3, HeadEventType DEF DropEvent, Events
  <2>2. Command("AbandonVend", Head(events).vend, 0) \in Commands
    BY <1>1, <2>1, VendCommandType DEF VendOps
  <2> QED BY <1>3, <2>2 DEF DropEvent
<1>4. ASSUME NEW v \in Vends, Approve(v) \/ Deny(v) \/ Decided(v) \/ DropDecision(v) \/ DropVend(v)
      PROVE  UNCHANGED mailbox \/ \E c \in Commands : Post(c)
  <2>1. \/ UNCHANGED mailbox
        \/ \E op \in VendOps, arg \in Cash : Post(Command(op, v, arg))
    BY <1>1, <1>4 DEF Approve, Deny, decide, Decided, DropDecision, DropVend, VendOps
  <2>2. \A op \in VendOps, arg \in Cash : Command(op, v, arg) \in Commands
    BY <1>1, VendCommandType
  <2> QED BY <2>1, <2>2
<1>5. CASE \/ BeginReturns \/ ShutdownReturns \/ DeviceDisplayReturns \/ SessionDisplayReturns
           \/ FinishReturns \/ DropDevice \/ DropFuture \/ NextEvent
  BY <1>5 DEF BeginReturns, ShutdownReturns, DeviceDisplayReturns, SessionDisplayReturns,
              FinishReturns, Return, DropDevice, DropFuture, NextEvent
<1> QED BY <1>2, <1>3, <1>4, <1>5 DEF ClientStep

\* The handle of a vend is dropped or decided by sending just that.
LEMMA HandPassed ==
    ASSUME TypeOK, Running, NEW v \in Vends, NEW u, hand[v] \in {"queued", "held"},
           hand' = [hand EXCEPT ![u] = "gone"] \/ hand' = [hand EXCEPT ![u] = "deciding"],
           NEW op \in Deciding, NEW arg \in Cash, Post(Command(op, u, arg))
    PROVE  hand'[v] \in {"queued", "held"} \/ InMailbox(Deciding, v)'
<1>1. CASE u # v
  BY <1>1 DEF TypeOK, ClientTypeOK
<1>2. CASE u = v
  <2> DEFINE c == Command(op, v, arg)
  <2>1. v \in 0..MaxVends
    BY BoundsAssumption DEF Vends
  <2>2. c \in Commands /\ c.op = op /\ c.id = v
    BY <2>1, VendCommandType DEF Command, VendOps, Deciding
  <2>3. Post(c)
    BY <1>2
  <2> HIDE DEF c
  <2> QED BY <2>2, <2>3, PostSends
<1> QED BY <1>1, <1>2

LEMMA HandlesHand ==
    ASSUME TypeOK, Running, ClientStep, NEW v \in Vends, hand[v] \in {"queued", "held"}
    PROVE  hand'[v] \in {"queued", "held"} \/ InMailbox(Deciding, v)'
<1>1. hand \in [Vends -> HandStates] /\ 0 \in Cash /\ Amounts \subseteq Cash
  BY BoundsAssumption DEF TypeOK, ClientTypeOK, Cash
<1>2. CASE UNCHANGED hand
  BY <1>2
<1>3. CASE NextEvent
  BY <1>1, <1>3 DEF NextEvent
<1>4. CASE DropEvent
  <2>1. CASE UNCHANGED hand
    BY <2>1
  <2>2. PICK u : u = Head(events).vend
    OBVIOUS
  <2>3. CASE hand' = [hand EXCEPT ![u] = "gone"] /\ Post(Command("AbandonVend", u, 0))
    <3>1. "AbandonVend" \in Deciding /\ 0 \in Cash /\ Post(Command("AbandonVend", u, 0))
      BY <1>1, <2>3 DEF Deciding
    <3>2. hand' = [hand EXCEPT ![u] = "gone"] \/ hand' = [hand EXCEPT ![u] = "deciding"]
      BY <2>3
    <3> QED BY <3>1, <3>2, HandPassed
  <2> QED BY <1>4, <2>1, <2>2, <2>3 DEF DropEvent
<1>5. ASSUME NEW u \in Vends, Approve(u) \/ Deny(u) \/ DropVend(u)
      PROVE  hand'[v] \in {"queued", "held"} \/ InMailbox(Deciding, v)'
  <2>1. \E op \in Deciding, arg \in Cash : Post(Command(op, u, arg))
    BY <1>1, <1>5 DEF Approve, Deny, DropVend, decide, Deciding
  <2>2. hand' = [hand EXCEPT ![u] = "gone"] \/ hand' = [hand EXCEPT ![u] = "deciding"]
    BY <1>5 DEF Approve, Deny, DropVend, decide
  <2> QED BY <2>1, <2>2, HandPassed
<1>6. ASSUME NEW u \in Vends, Decided(u) \/ DropDecision(u)
      PROVE  hand'[v] \in {"queued", "held"}
  BY <1>1, <1>6 DEF Decided, DropDecision
<1> QED
  BY <1>2, <1>3, <1>4, <1>5, <1>6
     DEF ClientStep, BeginSession, Shutdown, DeviceDisplay, SessionDisplay, Finish, Call,
         BeginReturns, ShutdownReturns, DeviceDisplayReturns, SessionDisplayReturns,
         FinishReturns, Return, DropDevice, DropSession, DropFuture

LEMMA ClientDecider ==
    ASSUME MarkedOK, ClientStep, PendingHasDecider
    PROVE  PendingHasDecider'
<1>1. UNCHANGED <<alive, active>>
  BY ClientRests DEF ActorRests
<1>2. SUFFICES ASSUME Running, Pending
               PROVE  \/ hand'[active.vend.id] \in {"queued", "held"}
                      \/ \E v : v = active.vend.id /\ InMailbox(Deciding, v)'
  BY <1>1 DEF PendingHasDecider, Running, Pending, InMailbox, Deciding
<1>3. PICK v : v = active.vend.id
  OBVIOUS
<1>4. v \in Vends
  <2>1. vid \in 0..MaxVends /\ MaxVends \in Nat
    BY BoundsAssumption DEF MarkedOK, TypeOK, ActorTypeOK
  <2>2. v \in 1..vid
    BY <1>2, <1>3 DEF MarkedOK
  <2> QED BY <2>1, <2>2 DEF Vends
<1>5. hand[v] \in {"queued", "held"} \/ InMailbox(Deciding, v)
  BY <1>2, <1>3 DEF PendingHasDecider, Deciding
<1>6. CASE hand[v] \in {"queued", "held"}
  BY <1>2, <1>3, <1>4, <1>6, HandlesHand DEF MarkedOK
<1>7. CASE InMailbox(Deciding, v)
  <2>1. InMailbox(Deciding, v)'
    <3>1. CASE UNCHANGED mailbox
      BY <1>7, <3>1 DEF InMailbox
    <3> QED BY <1>7, <3>1, HandlesPost, PostSends DEF MarkedOK
  <2> QED BY <1>3, <2>1
<1> QED BY <1>5, <1>6, <1>7

\* A pending vend always has somebody to decide it, whatever is dropped and in
\* whatever order: its handle while it is queued or held, and then a command.
THEOREM PendingIsDecided == Spec => []PendingHasDecider
<1>1. Init => PendingHasDecider
  BY DEF Init, ActorInit, PendingHasDecider, Pending, NoSession, NewSession
<1>2. ASSUME TypeOK, SessionSafe, BooksOK, TableOK, PendingHasDecider, [Next]_vars
      PROVE  PendingHasDecider'
  <2>1. AnswerOK /\ Base /\ BegunInOrder
    BY <1>2 DEF SessionSafe, BooksOK, Base
  <2>2. BookStep
    BY <1>2, <2>1, StepBooks
  <2>3. MarkedOK
    BY <1>2, <2>1 DEF AnswerOK, TableOK, MarkedOK
  <2>4. CASE ActorStep \/ \E m \in Messages : ReceiveMessage(m)
    BY <1>2, <2>2, <2>3, <2>4, ActorDecider
  <2>5. CASE ClientStep
    BY <1>2, <2>3, <2>5, ClientDecider
  <2>6. CASE Stopped \/ UNCHANGED vars
    <3>0. UNCHANGED vars
      BY <2>6 DEF Stopped
    <3>1. UNCHANGED <<alive, active, hand, mailbox>>
      BY <3>0 DEF vars, vendVars
    <3> QED BY <1>2, <3>1 DEF PendingHasDecider, Running, Pending, InMailbox
  <2> QED BY <1>2, <2>4, <2>5, <2>6 DEF Next
<1> QED BY TypeCorrect, SessionStaysSafe, BooksStayInOrder, TableStaysRight, <1>1, <1>2, PTL DEF Spec

-----------------------------------------------------------------------------
(* Who holds the handle of each vend. *)

\* The vends in the event queue: requested, not yet received, each once.
Offers(e) == e.kind = "VendRequested"
OffersOK(evs, h) ==
    /\ \A i \in DOMAIN evs : Offers(evs[i]) => evs[i].vend \in Vends /\ h[evs[i].vend] = "queued"
    /\ \A i, j \in DOMAIN evs :
         Offers(evs[i]) /\ Offers(evs[j]) /\ evs[i].vend = evs[j].vend => i = j

\* The decisions in the command channel: of vends that are not yet answered, and
\* one of each at most, as decide() takes the handle.
Decides(c) == c.op \in {"Approve", "Deny"}
Sent(q, v) == \E i \in DOMAIN q : Decides(q[i]) /\ q[i].id = v
DecisionsOK(q, h, w) ==
    /\ \A i \in DOMAIN q : Decides(q[i]) =>
         q[i].id \in Vends /\ h[q[i].id] \in {"deciding", "gone"} /\ w[q[i].id] = "none"
    /\ \A i, j \in DOMAIN q : Decides(q[i]) /\ Decides(q[j]) /\ q[i].id = q[j].id => i = j

\* The inductive invariant of the handles of vends, of what they were told, and
\* of what the machine was told.
DecisionOK ==
    /\ \A v \in Vends : /\ v > vid => hand[v] = "none"
                        /\ hand[v] \in {"none", "queued", "held"} => verdict[v] = "none"
    /\ OffersOK(events, hand)
    /\ Running => DecisionsOK(mailbox, hand, verdict)
    /\ DecisionHonest

LEMMA OffersTail ==
    ASSUME NEW evs \in Seq(Events), evs # <<>>, NEW h, OffersOK(evs, h)
    PROVE  /\ OffersOK(Tail(evs), h)
           /\ Offers(Head(evs)) =>
                \A i \in DOMAIN Tail(evs) : Offers(Tail(evs)[i]) => Tail(evs)[i].vend # Head(evs).vend
           /\ Offers(Head(evs)) => Head(evs).vend \in Vends /\ h[Head(evs).vend] = "queued"
<1> DEFINE t == Tail(evs)
           e == Head(evs)
<1>1. /\ 1 \in DOMAIN evs /\ e = evs[1]
      /\ \A i \in DOMAIN t : i \in Nat \ {0} /\ i + 1 \in DOMAIN evs /\ t[i] = evs[i + 1]
  BY TailHas
<1> HIDE DEF t, e
<1>2. /\ \A i \in DOMAIN t : i + 1 # 1
      /\ \A i, j \in DOMAIN t : i + 1 = j + 1 => i = j
  BY <1>1
<1>3. OffersOK(t, h)
  BY <1>1, <1>2 DEF OffersOK
<1>4. Offers(e) => \A i \in DOMAIN t : Offers(t[i]) => t[i].vend # e.vend
  BY <1>1, <1>2 DEF OffersOK
<1>5. Offers(e) => e.vend \in Vends /\ h[e.vend] = "queued"
  BY <1>1 DEF OffersOK
<1> QED BY <1>3, <1>4, <1>5 DEF t, e

LEMMA DecisionsTail ==
    ASSUME NEW q \in Seq(Commands), q # <<>>, NEW h, NEW w, DecisionsOK(q, h, w)
    PROVE  /\ DecisionsOK(Tail(q), h, w)
           /\ Decides(Head(q)) =>
                /\ ~Sent(Tail(q), Head(q).id)
                /\ Head(q).id \in Vends /\ h[Head(q).id] \in {"deciding", "gone"}
                /\ w[Head(q).id] = "none"
<1> DEFINE t == Tail(q)
           c == Head(q)
<1>1. /\ 1 \in DOMAIN q /\ c = q[1]
      /\ \A i \in DOMAIN t : i \in Nat \ {0} /\ i + 1 \in DOMAIN q /\ t[i] = q[i + 1]
  BY TailHas
<1> HIDE DEF t, c
<1>2. /\ \A i \in DOMAIN t : i + 1 # 1
      /\ \A i, j \in DOMAIN t : i + 1 = j + 1 => i = j
  BY <1>1
<1>3. DecisionsOK(t, h, w)
  BY <1>1, <1>2 DEF DecisionsOK
<1>4. Decides(c) => ~Sent(t, c.id)
  BY <1>1, <1>2 DEF DecisionsOK, Sent
<1>5. Decides(c) => c.id \in Vends /\ h[c.id] \in {"deciding", "gone"} /\ w[c.id] = "none"
  BY <1>1 DEF DecisionsOK
<1> QED BY <1>3, <1>4, <1>5 DEF t, c

LEMMA DecisionsAppend ==
    ASSUME NEW q \in Seq(Commands), NEW c \in Commands, NEW h, NEW w, DecisionsOK(q, h, w),
           \/ ~Decides(c)
           \/ /\ c.id \in Vends /\ h[c.id] \in {"deciding", "gone"} /\ w[c.id] = "none"
              /\ ~Sent(q, c.id)
    PROVE  DecisionsOK(Append(q, c), h, w)
<1> DEFINE a == Append(q, c)
<1>1. \A i \in DOMAIN a : (i \in DOMAIN q /\ a[i] = q[i]) \/ (i = Len(q) + 1 /\ a[i] = c)
  BY AppendHas
<1> HIDE DEF a
<1>2. \A i \in DOMAIN a : Decides(a[i]) =>
        a[i].id \in Vends /\ h[a[i].id] \in {"deciding", "gone"} /\ w[a[i].id] = "none"
  BY <1>1 DEF DecisionsOK
<1>3. \A i, j \in DOMAIN a : Decides(a[i]) /\ Decides(a[j]) /\ a[i].id = a[j].id => i = j
  BY <1>1 DEF DecisionsOK, Sent
<1> QED BY <1>2, <1>3 DEF DecisionsOK, a

\* The decisions that are on their way do not mind what becomes of other vends.
LEMMA DecisionsKept ==
    ASSUME NEW q, NEW h, NEW w, NEW g, NEW x, DecisionsOK(q, h, w),
           \A v \in Vends : Sent(q, v) =>
              /\ h[v] \in {"deciding", "gone"} => g[v] \in {"deciding", "gone"}
              /\ w[v] = "none" => x[v] = "none"
    PROVE  DecisionsOK(q, g, x)
BY DEF DecisionsOK, Sent

LEMMA OffersKept ==
    ASSUME NEW evs, NEW h, NEW g, OffersOK(evs, h),
           \A i \in DOMAIN evs : Offers(evs[i]) /\ h[evs[i].vend] = "queued" => g[evs[i].vend] = "queued"
    PROVE  OffersOK(evs, g)
BY DEF OffersOK

-----------------------------------------------------------------------------
(* What most steps of the actor leave alone. *)

\* An outcome is that of the open vend, and what the books are told.
OfOpen(e) == e.kind \in Outcomes => Open(active) /\ e.vend = active.vend.id
Concludes(e) ==
    e.kind \in Outcomes =>
      /\ Listening /\ Open(active) /\ e.vend = active.vend.id
      /\ outcome' = [outcome EXCEPT ![e.vend] = Append(@, e)]

\* No vend is offered by the events a step adds, and the outcome among them is
\* that of the open vend.
OffersNone ==
    \A i \in DOMAIN events' :
      \/ i \in DOMAIN events /\ events'[i] = events[i]
      \/ ~Offers(events'[i]) /\ Concludes(events'[i])

\* Who awaits a decision hears of the end of the actor, nobody else of anything.
CutOff ==
    /\ alive' # "running"
    /\ verdict' = [v \in Vends |->
         IF hand[v] = "deciding" /\ verdict[v] = "none" THEN "Disconnected" ELSE verdict[v]]

\* No approval is written.
Unapproving ==
    UNCHANGED answer \/ \E frame : Logged(frame) /\ frame.name # "Approve"

Plain == OffersNone /\ Unapproving /\ (UNCHANGED verdict \/ CutOff)

Silent(evs) ==
    \/ evs = <<>>
    \/ \E e : evs = <<e>> /\ ~Offers(e) /\ OfOpen(e)

LEMMA EmitHas ==
    ASSUME TypeOK, NEW T, NEW evs \in Seq(T), Emit(evs)
    PROVE  \A i \in DOMAIN events' :
             \/ i \in DOMAIN events /\ events'[i] = events[i]
             \/ \E j \in DOMAIN evs : i = Len(events) + j /\ events'[i] = evs[j]
<1> DEFINE S == Events \union T
           all == events \o evs
<1>1. events \in Seq(S) /\ evs \in Seq(S)
  BY SeqMonotonic DEF TypeOK, ClientTypeOK
<1>2. /\ Len(events) \in Nat /\ DOMAIN events = 1..Len(events)
      /\ Len(evs) \in Nat /\ DOMAIN evs = 1..Len(evs)
  BY <1>1, LenProperties
<1>3. all \in Seq(S) /\ Len(all) = Len(events) + Len(evs) /\ DOMAIN all = 1..Len(all)
  BY <1>1, ConcatProperties, LenProperties
<1>4. \A i \in 1..(Len(events) + Len(evs)) :
        all[i] = IF i <= Len(events) THEN events[i] ELSE evs[i - Len(events)]
  BY <1>1, ConcatProperties
<1>5. events' = events \/ events' = all
  BY DEF Emit
<1> HIDE DEF all
<1>6. CASE events' = all
  <2>1. \A i \in 1..(Len(events) + Len(evs)) :
          \/ i \in 1..Len(events)
          \/ ~(i <= Len(events)) /\ i - Len(events) \in 1..Len(evs) /\ i = Len(events) + (i - Len(events))
    BY <1>2
  <2>2. \A i \in 1..(Len(events) + Len(evs)) :
          \/ i \in 1..Len(events) /\ all[i] = events[i]
          \/ \E j \in 1..Len(evs) : i = Len(events) + j /\ all[i] = evs[j]
    BY <1>2, <1>4, <2>1
  <2> QED BY <1>2, <1>3, <1>6, <2>2
<1> QED BY <1>5, <1>6

LEMMA EmitPlain ==
    ASSUME TypeOK, NEW T, NEW evs \in Seq(T), Emit(evs),
           \A j \in DOMAIN evs : ~Offers(evs[j]) /\ OfOpen(evs[j]),
           \A j \in DOMAIN evs : j = 1 \/ evs[j].kind \notin Outcomes
    PROVE  OffersNone
<1>1. ASSUME NEW j \in DOMAIN evs, Listening
      PROVE  Concludes(evs[j])
  <2>1. CASE j = 1 /\ evs[1].kind \in Outcomes
    <3>1. evs # <<>>
      BY <2>1
    <3>2. outcome' = [outcome EXCEPT ![evs[1].vend] = Append(@, evs[1])]
      BY <2>1, <3>1 DEF Emit
    <3> QED BY <1>1, <2>1, <3>2 DEF OfOpen, Concludes
  <2> QED BY <2>1 DEF Concludes
<1>2. ~Listening => events' = events
  BY DEF Emit
<1> QED BY <1>1, <1>2, EmitHas DEF OffersNone

LEMMA SilentPlain ==
    ASSUME TypeOK, NEW evs, Silent(evs), Emit(evs)
    PROVE  OffersNone
<1>1. CASE evs = <<>>
  <2>1. evs \in Seq(Events) /\ DOMAIN evs = {}
    BY <1>1
  <2> QED BY <2>1, EmitPlain
<1>2. ASSUME NEW e, evs = <<e>>, ~Offers(e), OfOpen(e)
      PROVE  OffersNone
  <2>1. evs \in Seq({e}) /\ \A j \in DOMAIN evs : j = 1 /\ evs[j] = e
    BY <1>2
  <2> QED BY <1>2, <2>1, EmitPlain
<1> QED BY <1>1, <1>2 DEF Silent

LEMMA FailPlain ==
    ASSUME TypeOK, NEW before, Silent(before), fail(before)
    PROVE  OffersNone /\ CutOff
<1> DEFINE d == Ended("Disconnected")
           ended == IF active = NoSession THEN <<>> ELSE <<d>>
           evs == before \o ended
<1>0. ~Offers(d) /\ d.kind \notin Outcomes
  BY DEF Ended, VendEvent, Offers, Outcomes
<1> HIDE DEF d
<1>1. PICK T : before \in Seq(T) /\ \A j \in 1..Len(before) :
                                      j = 1 /\ ~Offers(before[j]) /\ OfOpen(before[j])
  <2>1. CASE before = <<>>
    <3>1. before \in Seq({d}) /\ 1..Len(before) = {}
      BY <2>1
    <3> QED BY <3>1
  <2>2. ASSUME NEW e, before = <<e>>, ~Offers(e), OfOpen(e)
        PROVE  before \in Seq({e}) /\ \A j \in 1..Len(before) :
                                        j = 1 /\ ~Offers(before[j]) /\ OfOpen(before[j])
    <3>1. before \in Seq({e}) /\ \A j \in 1..Len(before) : j = 1 /\ before[j] = e
      BY <2>2
    <3> QED BY <2>2, <3>1
  <2> QED BY <2>1, <2>2 DEF Silent
<1>2. ended \in Seq({d}) /\ \A j \in 1..Len(ended) : ended[j] = d
  <2>1. CASE active = NoSession
    <3>1. ended = <<>>
      BY <2>1
    <3> QED BY <3>1
  <2>2. CASE active # NoSession
    <3>1. ended = <<d>>
      BY <2>2
    <3> HIDE DEF ended
    <3> QED BY <3>1
  <2> QED BY <2>1, <2>2
<1> DEFINE S == T \union {d}
<1> HIDE DEF ended
<1>3. before \in Seq(S) /\ ended \in Seq(S)
  BY <1>1, <1>2, SeqMonotonic
<1>4. /\ Len(before) \in Nat /\ Len(ended) \in Nat
      /\ evs \in Seq(S) /\ Len(evs) = Len(before) + Len(ended) /\ DOMAIN evs = 1..Len(evs)
      /\ \A i \in 1..(Len(before) + Len(ended)) :
           evs[i] = IF i <= Len(before) THEN before[i] ELSE ended[i - Len(before)]
  BY <1>3, ConcatProperties, LenProperties
<1> HIDE DEF evs
<1>5. \A i \in DOMAIN evs :
        \/ i \in 1..Len(before) /\ evs[i] = before[i]
        \/ i - Len(before) \in 1..Len(ended) /\ evs[i] = ended[i - Len(before)]
  BY <1>4
<1>6. /\ \A i \in DOMAIN evs : ~Offers(evs[i]) /\ OfOpen(evs[i])
      /\ \A i \in DOMAIN evs : i = 1 \/ evs[i].kind \notin Outcomes
  BY <1>0, <1>1, <1>2, <1>5 DEF OfOpen
<1>7. Emit(evs)
  BY DEF fail, evs, ended, d
<1>8. OffersNone
  BY <1>4, <1>6, <1>7, EmitPlain
<1> QED BY <1>8 DEF fail, DropReplies, CutOff

\* A frame that is no approval, whatever becomes of it.
LEMMA SendPlain ==
    ASSUME TypeOK, NEW frame, frame.name # "Approve", NEW before, Silent(before), fail(before),
           \E sent \in {frame, NoFrame} : wrote' = sent /\ Logged(sent)
    PROVE  Plain
<1>1. NoFrame.name # "Approve"
  BY DEF NoFrame, Frame, VendFrame
<1> QED BY <1>1, FailPlain DEF Plain, Unapproving

\* It is written, and the events are silent.
LEMMA WritePlain ==
    ASSUME TypeOK, NEW frame, frame.name # "Approve", NEW evs, Silent(evs), Emit(evs),
           Logged(frame), UNCHANGED verdict
    PROVE  Plain
BY SilentPlain DEF Plain, Unapproving

LEMMA QuietPlain ==
    ASSUME TypeOK, NEW evs, Silent(evs), Quiet(evs), UNCHANGED verdict
    PROVE  Plain
BY SilentPlain DEF Quiet, Plain, Unapproving

LEMMA SilentEvents ==
    /\ Silent(<<>>)
    /\ \A kind, v, amount, why :
         kind \notin Outcomes \union {"VendRequested"} =>
           Silent(<<VendEvent(kind, v, amount, why)>>)
    /\ \A v, amount, why :
         /\ Silent(<<VendEvent("VendCancelled", v, amount, why)>>)
         /\ Silent(<<VendEvent("VendDecisionExpired", v, amount, why)>>)
    /\ \A reason : Silent(<<Ended(reason)>>)
    /\ \A kind, amount, why : kind \in Outcomes =>
         (Open(active) => Silent(<<VendEvent(kind, active.vend.id, amount, why)>>))
<1>1. \A e : ~Offers(e) /\ OfOpen(e) => Silent(<<e>>)
  BY DEF Silent
<1>2. \A kind, v, amount, why :
        /\ VendEvent(kind, v, amount, why).kind = kind
        /\ VendEvent(kind, v, amount, why).vend = v
  BY DEF VendEvent
<1>3. Silent(<<>>)
  BY DEF Silent
<1>4. \A kind, v, amount, why :
        kind \notin Outcomes \union {"VendRequested"} =>
          Silent(<<VendEvent(kind, v, amount, why)>>)
  BY <1>1, <1>2 DEF Offers, OfOpen
<1>5. \A reason : Silent(<<Ended(reason)>>)
  BY <1>4 DEF Ended, Outcomes
<1>6. \A kind, amount, why : kind \in Outcomes =>
        (Open(active) => Silent(<<VendEvent(kind, active.vend.id, amount, why)>>))
  BY <1>1, <1>2 DEF Offers, OfOpen, Outcomes
<1>7. \A v, amount, why :
         /\ Silent(<<VendEvent("VendCancelled", v, amount, why)>>)
         /\ Silent(<<VendEvent("VendDecisionExpired", v, amount, why)>>)
  BY <1>4 DEF Outcomes
<1> QED BY <1>3, <1>4, <1>5, <1>6, <1>7

LEMMA FrameNamed ==
    /\ \A name, v, amount : VendFrame(name, v, amount).name = name
    /\ \A name : Frame(name).name = name
BY DEF VendFrame, Frame

LEMMA EndPlain ==
    ASSUME TypeOK, NEW s, NEW before, Silent(before), initiate_end(s, before)
    PROVE  Plain
<1>1. \A name, v, amount : VendFrame(name, v, amount).name = name /\ Frame(name).name = name
  BY FrameNamed
<1>2. CASE Quiet(before) /\ Calm
  BY <1>2, QuietPlain DEF Calm
<1>3. ASSUME NEW frame, frame.name # "Approve", Logged(frame), Emit(before), Calm
      PROVE  Plain
  BY <1>3, WritePlain DEF Calm
<1>4. ASSUME NEW frame, frame.name # "Approve", fail(before),
             \E sent \in {frame, NoFrame} : wrote' = sent /\ Logged(sent)
      PROVE  Plain
  BY <1>4, SendPlain
<1> QED BY <1>1, <1>2, <1>3, <1>4 DEF initiate_end, Send

LEMMA SequencePlain ==
    ASSUME TypeOK, command_out_of_sequence
    PROVE  Plain
<1> DEFINE expired == IF Pending
                        THEN <<VendEvent("VendDecisionExpired", active.vend.id, 0, "SessionEnded")>>
                        ELSE <<>>
<1>1. Silent(expired) /\ Frame("CommandOutOfSequence").name # "Approve"
  <2>1. /\ Silent(<<VendEvent("VendDecisionExpired", active.vend.id, 0, "SessionEnded")>>)
        /\ Silent(<<>>)
    BY SilentEvents
  <2> QED BY <2>1, FrameNamed
<1>2. \/ Logged(Frame("CommandOutOfSequence")) /\ Emit(expired) /\ Calm
      \/ /\ fail(expired)
         /\ \E sent \in {Frame("CommandOutOfSequence"), NoFrame} : wrote' = sent /\ Logged(sent)
  BY DEF command_out_of_sequence, Send
<1> HIDE DEF expired
<1> QED BY <1>1, <1>2, WritePlain, SendPlain DEF Calm

LEMMA FailedPlain ==
    ASSUME TypeOK, NEW name, name # "Approve", fail(<<>>),
           \E sent \in {Frame(name), NoFrame} : wrote' = sent /\ Logged(sent)
    PROVE  Plain
<1> DEFINE frame == Frame(name)
<1>1. frame.name # "Approve" /\ Silent(<<>>)
  BY FrameNamed, SilentEvents
<1>2. \E sent \in {frame, NoFrame} : wrote' = sent /\ Logged(sent)
  OBVIOUS
<1> HIDE DEF frame
<1> QED BY <1>1, <1>2, SendPlain

LEMMA RefusePlain ==
    ASSUME TypeOK, NEW v, NEW error, refuse_vend(v, error)
    PROVE  Plain
<1> DEFINE told == <<VendEvent("VendDecisionExpired", v, 0, error)>>
           frame == VendFrame("Deny", v, 0)
<1>1. Silent(told)
  BY SilentEvents
<1>3. Silent(<<>>) /\ frame.name # "Approve"
  BY SilentEvents, FrameNamed
<1>2. \/ Logged(frame) /\ Emit(told) /\ Calm
      \/ fail(<<>>) /\ \E sent \in {frame, NoFrame} : wrote' = sent /\ Logged(sent)
  BY DEF refuse_vend, Send
<1> HIDE DEF told, frame
<1> QED BY <1>1, <1>2, <1>3, WritePlain, SendPlain DEF Calm

LEMMA MessagesPlain ==
    ASSUME TypeOK, NEW m, handle_adapter_message(m)
    PROVE  Plain
<1> USE SilentEvents, FrameNamed
<1>1. CASE handle_ack
  <2>1. ASSUME Logged(Frame("SessionCancel")), Emit(<<>>), Calm
        PROVE  Plain
    BY <2>1, WritePlain DEF Calm
  <2>2. ASSUME NEW frame, frame.name # "Approve", fail(<<>>),
               \E sent \in {frame, NoFrame} : wrote' = sent /\ Logged(sent)
        PROVE  Plain
    BY <2>2, SendPlain
  <2>3. ASSUME Quiet(<<Ended(active.endReason)>>), UNCHANGED verdict
        PROVE  Plain
    BY <2>3, QuietPlain
  <2>4. ASSUME Quiet(<<>>), Calm
        PROVE  Plain
    BY <2>4, QuietPlain DEF Calm
  <2> QED BY <1>1, <2>1, <2>2, <2>3, <2>4 DEF handle_ack, Send
<1>2. CASE handle_reset
  <2> DEFINE e == VendEvent("VendSucceeded", ApprovedVend(active).id, ApprovedVend(active).amount,
                            "AssumedAfterReset")
             d == Ended("Reset")
  <2>0. ~Offers(e) /\ ~Offers(d) /\ OfOpen(d)
    BY DEF VendEvent, Ended, Offers, OfOpen, Outcomes
  <2>2. UNCHANGED verdict
    BY <1>2 DEF handle_reset
  <2>3. ApprovedVend(active) # NoVend => OfOpen(e) /\ d.kind \notin Outcomes
    <3>1. ApprovedVend(active) # NoVend => Open(active) /\ ApprovedVend(active) = active.vend
      BY DEF ApprovedVend, Open
    <3>2. e.vend = ApprovedVend(active).id /\ d.kind = "Ended"
      BY DEF VendEvent, Ended
    <3> HIDE DEF e, d
    <3> QED BY <3>1, <3>2 DEF OfOpen, Outcomes
  <2>1. \/ Quiet(<<>>) \/ Quiet(<<d>>)
        \/ ApprovedVend(active) # NoVend /\ Quiet(Append(<<e>>, d))
    <3>1. \/ Quiet(<<>>) \/ Quiet(Append(<<>>, d))
          \/ ApprovedVend(active) # NoVend /\ Quiet(Append(<<e>>, d))
      BY <1>2 DEF handle_reset
    <3> HIDE DEF e, d
    <3>2. Append(<<>>, d) = <<d>>
      OBVIOUS
    <3> QED BY <3>1, <3>2
  <2> HIDE DEF e, d
  <2>4. ASSUME ApprovedVend(active) # NoVend, Quiet(Append(<<e>>, d))
        PROVE  Plain
    <3> DEFINE told == Append(<<e>>, d)
    <3>1. told \in Seq({e, d}) /\ \A j \in DOMAIN told : \/ j = 1 /\ told[j] = e
                                                        \/ told[j] = d
      <4>1. <<e>> \in Seq({e, d}) /\ Len(<<e>>) = 1 /\ <<e>>[1] = e
        OBVIOUS
      <4> QED BY <4>1, AppendProperties, LenProperties
    <3>2. Quiet(told)
      BY <2>4
    <3> HIDE DEF told
    <3>3. OffersNone
      BY <2>0, <2>3, <2>4, <3>1, <3>2, EmitPlain DEF Quiet
    <3> QED BY <2>2, <3>2, <3>3 DEF Quiet, Plain, Unapproving
  <2>5. Silent(<<d>>)
    BY <2>0 DEF Silent
  <2> QED BY <2>1, <2>2, <2>4, <2>5, QuietPlain
<1>3. CASE handle_setup_configuration \/ handle_setup_prices
  BY <1>3, QuietPlain DEF handle_setup_configuration, handle_setup_prices
<1>4. ASSUME NEW newStatus, handle_reader_control(newStatus)
      PROVE  Plain
  BY <1>4, QuietPlain, SequencePlain DEF handle_reader_control
<1>5. CASE handle_reader_cancel
  <2>1. ASSUME Logged(Frame("Cancelled")), Emit(<<>>), Calm
        PROVE  Plain
    BY <2>1, WritePlain DEF Calm
  <2>2. ASSUME fail(<<>>), \E sent \in {Frame("Cancelled"), NoFrame} : wrote' = sent /\ Logged(sent)
        PROVE  Plain
    BY <2>2, FailedPlain
  <2> QED BY <1>5, <2>1, <2>2, SequencePlain DEF handle_reader_cancel, Send
<1>6. CASE handle_vend_cancel
  <2> DEFINE told == <<VendEvent("VendCancelled", active.vend.id, 0, "")>>
             frame == VendFrame("Deny", active.vend.id, 0)
  <2>1. Silent(told) /\ Silent(<<>>) /\ frame.name # "Approve"
    <3>1. \A v : Silent(<<VendEvent("VendCancelled", v, 0, "")>>)
      OBVIOUS
    <3>2. Silent(told)
      BY <3>1
    <3>3. frame.name = "Deny"
      OBVIOUS
    <3> QED BY <3>2, <3>3
  <2>2. \/ Logged(frame) /\ Emit(told) /\ Calm
        \/ fail(<<>>) /\ \E sent \in {frame, NoFrame} : wrote' = sent /\ Logged(sent)
        \/ Quiet(told) /\ Calm
        \/ command_out_of_sequence
    BY <1>6 DEF handle_vend_cancel, Send
  <2> HIDE DEF told, frame
  <2> QED BY <2>1, <2>2, WritePlain, SendPlain, QuietPlain, SequencePlain DEF Calm
<1>7. CASE handle_session_complete
  <2>1. ASSUME Logged(Frame("EndSession")), Emit(<<>>), Calm
        PROVE  Plain
    BY <2>1, WritePlain DEF Calm
  <2>2. ASSUME fail(<<>>), \E sent \in {Frame("EndSession"), NoFrame} : wrote' = sent /\ Logged(sent)
        PROVE  Plain
    BY <2>2, FailedPlain
  <2> QED BY <1>7, <2>1, <2>2, SequencePlain DEF handle_session_complete, Send
<1>8. ASSUME NEW kind \in Outcomes, NEW why, NEW counted, VendResult(kind, why, counted)
      PROVE  Plain
  <2> DEFINE told == <<VendEvent(kind, active.vend.id, active.vend.amount, why)>>
  <2>1. \/ command_out_of_sequence
        \/ Open(active) /\ (initiate_end(Idling(counted), told) \/ (Quiet(told) /\ Calm))
    BY <1>8 DEF VendResult, Open
  <2>2. Open(active) => Silent(told)
    OBVIOUS
  <2> HIDE DEF told
  <2> QED BY <2>1, <2>2, SequencePlain, EndPlain, QuietPlain DEF Calm
<1>9. CASE handle_vend_success \/ handle_vend_failure
  BY <1>8, <1>9 DEF handle_vend_success, handle_vend_failure, Outcomes
<1>10. CASE Quiet(<<>>) /\ Calm
  BY <1>10, QuietPlain DEF Calm
<1> QED
  BY <1>1, <1>2, <1>3, <1>4, <1>5, <1>6, <1>7, <1>9, <1>10 DEF handle_adapter_message

LEMMA CommandsPlain ==
    ASSUME TypeOK, NEW c, ~Decides(c), handle_command(c)
    PROVE  Plain
<1> USE SilentEvents, FrameNamed
<1>1. CASE begin_session(c)
  <2>1. ASSUME Logged(Frame("BeginSession")), Emit(<<>>), UNCHANGED verdict
        PROVE  Plain
    BY <2>1, WritePlain
  <2>2. ASSUME fail(<<>>), \E sent \in {Frame("BeginSession"), NoFrame} : wrote' = sent /\ Logged(sent)
        PROVE  Plain
    BY <2>2, FailedPlain
  <2> QED BY <1>1, <2>1, <2>2, QuietPlain DEF begin_session, Send
<1>2. CASE display_message(c)
  <2>1. ASSUME Logged(Frame("DisplayRequest")), Emit(<<>>), UNCHANGED verdict
        PROVE  Plain
    BY <2>1, WritePlain
  <2>2. ASSUME fail(<<>>), \E sent \in {Frame("DisplayRequest"), NoFrame} : wrote' = sent /\ Logged(sent)
        PROVE  Plain
    BY <2>2, FailedPlain
  <2> QED BY <1>2, <2>1, <2>2, QuietPlain DEF display_message, Send
<1>3. CASE abandon_vend(c)
  BY <1>3, RefusePlain, QuietPlain DEF abandon_vend, Calm
<1>4. CASE request_end(c)
  BY <1>4, EndPlain, QuietPlain DEF request_end
<1>5. CASE initiate_end(active, <<>>)
  BY <1>5, EndPlain
<1> QED BY <1>1, <1>2, <1>3, <1>4, <1>5 DEF handle_command, Decides

-----------------------------------------------------------------------------
(* The shapes of a step of the actor, as the handles of vends see them. *)

Steady == UNCHANGED <<vid, hand>> /\ Plain

\* A new vend, queued for the application at its price or denied at once.
OfferNext ==
    \A i \in DOMAIN events' :
      \/ i \in DOMAIN events /\ events'[i] = events[i]
      \/ /\ i = Len(events) + 1 /\ Offers(events'[i])
         /\ events'[i].vend = vid + 1 /\ events'[i].amount \in Amounts
Offered ==
    /\ vid < MaxVends /\ vid' = vid + 1
    /\ Unapproving /\ (UNCHANGED verdict \/ CutOff)
    /\ \/ hand' = [hand EXCEPT ![vid + 1] = "queued"] /\ OfferNext
       \/ hand' = [hand EXCEPT ![vid + 1] = "gone"] /\ OffersNone

\* A decision finds its vend pending or tells why not, and tells what it wrote.
Decision(c) ==
    /\ UNCHANGED <<vid, hand>> /\ OffersNone
    /\ \/ /\ Unapproving
          /\ \E error \in DecisionErrors \union {"AlreadyDecided"} : Answered(c.id, error)
       \/ /\ PendingIs(c.id)
          /\ \/ /\ c.op = "Approve"
                /\ Logged(VendFrame("Approve", c.id, c.arg)) /\ Answered(c.id, "approved")
             \/ Logged(VendFrame("Deny", c.id, 0)) /\ Answered(c.id, "denied")
             \/ /\ CutOff /\ alive' = "failed"
                /\ \/ UNCHANGED answer
                   \/ \E frame : frame.name = c.op /\ frame.vend = c.id /\ Logged(frame)

LEMMA RequestShape ==
    ASSUME TypeOK, handle_vend_request
    PROVE  Steady \/ Offered
<1> DEFINE v == vid + 1
           deny == VendFrame("Deny", v, 0)
<1>1. CASE command_out_of_sequence /\ UNCHANGED vendVars
  BY <1>1, SequencePlain DEF Steady, vendVars
<1>2. Silent(<<>>) /\ deny.name # "Approve"
  BY SilentEvents, FrameNamed
<1>3. CASE /\ vid < MaxVends /\ vid' = v /\ hand' = [hand EXCEPT ![v] = "queued"]
           /\ \E price \in Amounts : Quiet(<<VendEvent("VendRequested", v, price, "")>>)
           /\ UNCHANGED verdict
  <2>1. PICK price \in Amounts : Quiet(<<VendEvent("VendRequested", v, price, "")>>)
    BY <1>3
  <2> DEFINE e == VendEvent("VendRequested", v, price, "")
  <2>2. e.vend = v /\ e.amount \in Amounts /\ Offers(e)
    BY DEF VendEvent, Offers
  <2>3. Quiet(<<e>>)
    BY <2>1
  <2> HIDE DEF e
  <2>4. <<e>> \in Seq({e}) /\ DOMAIN <<e>> = 1..1 /\ <<e>>[1] = e
    OBVIOUS
  <2>5. OfferNext
    <3>1. \A j \in DOMAIN <<e>> : j = 1 /\ <<e>>[j] = e
      BY <2>4
    <3>2. \A i \in DOMAIN events' :
            \/ i \in DOMAIN events /\ events'[i] = events[i]
            \/ \E j \in DOMAIN <<e>> : i = Len(events) + j /\ events'[i] = <<e>>[j]
      BY <2>3, <2>4, EmitHas DEF Quiet
    <3> QED BY <2>2, <3>1, <3>2 DEF OfferNext
  <2> QED BY <1>3, <2>3, <2>5 DEF Offered, Quiet, Unapproving
<1>4. CASE /\ vid < MaxVends /\ vid' = v /\ hand' = [hand EXCEPT ![v] = "gone"]
           /\ \/ Logged(deny) /\ Emit(<<>>) /\ Calm
              \/ fail(<<>>) /\ \E sent \in {deny, NoFrame} : wrote' = sent /\ Logged(sent)
              \/ UNCHANGED answer /\ fail(<<>>)
  <2>1. Plain
    <3>1. ASSUME UNCHANGED answer, fail(<<>>)
          PROVE  Plain
      BY <1>2, <3>1, FailPlain DEF Plain, Unapproving
    <3> HIDE DEF deny
    <3> QED BY <1>2, <1>4, <3>1, WritePlain, SendPlain DEF Calm
  <2> QED BY <1>4, <2>1 DEF Offered, Plain
<1> QED BY <1>1, <1>3, <1>4 DEF handle_vend_request, Send, Calm

LEMMA DecisionShape ==
    ASSUME TypeOK, NEW c, Decides(c), handle_command(c), UNCHANGED <<vid, hand>>
    PROVE  Decision(c)
<1>1. decide_vend(c)
  BY DEF handle_command, Decides
<1>2. ASSUME NEW error, error \in DecisionErrors \union {"AlreadyDecided"},
             Answered(c.id, error), Quiet(<<>>)
      PROVE  Decision(c)
  <2>1. OffersNone
    BY <1>2, SilentEvents, SilentPlain DEF Quiet
  <2> QED BY <1>2, <2>1 DEF Decision, Quiet, Unapproving
<1>3. c.id \in InvalidIds =>
        invalid[CHOOSE i \in DOMAIN invalid : invalid[i].id = c.id].error \in DecisionErrors
  <2>1. \A i \in DOMAIN invalid : invalid[i].error \in DecisionErrors
    <3>1. invalid \in Seq(InvalidEntries)
      BY DEF TypeOK, ActorTypeOK
    <3>2. \A i \in DOMAIN invalid : invalid[i] \in InvalidEntries
      BY <3>1, LenProperties, ElementOfSeq
    <3> QED BY <3>2 DEF InvalidEntries
  <2> QED BY <2>1 DEF InvalidIds
<1>4. CASE PendingIs(c.id) /\ write_decision(c)
  <2>1. ASSUME Emit(<<>>)
        PROVE  OffersNone
    BY <2>1, SilentEvents, SilentPlain
  <2>2. ASSUME fail(<<>>)
        PROVE  OffersNone /\ CutOff /\ alive' = "failed"
    BY <2>2, SilentEvents, FailPlain DEF fail
  <2>3. ASSUME NEW name, NEW amount,
               \E sent \in {VendFrame(name, c.id, amount), NoFrame} : wrote' = sent /\ Logged(sent)
        PROVE  UNCHANGED answer \/ \E frame : frame.name = name /\ frame.vend = c.id /\ Logged(frame)
    <3> DEFINE frame == VendFrame(name, c.id, amount)
    <3>1. frame.name = name /\ frame.vend = c.id /\ NoFrame.vend = 0
      BY DEF VendFrame, NoFrame, Frame
    <3> HIDE DEF frame
    <3>2. CASE Logged(NoFrame)
      BY <3>1, <3>2 DEF Logged
    <3> QED BY <2>3, <3>1, <3>2 DEF frame
  <2> QED BY <1>4, <2>1, <2>2, <2>3 DEF write_decision, Send, Decision
<1> QED BY <1>1, <1>2, <1>3, <1>4 DEF decide_vend

LEMMA ActorShapes ==
    ASSUME TypeOK, ActorStep \/ \E m \in Messages : ReceiveMessage(m)
    PROVE  \/ Steady /\ (ReceiveCommand => ~Decides(Head(mailbox)))
           \/ Offered /\ ~ReceiveCommand
           \/ ReceiveCommand /\ Decides(Head(mailbox)) /\ Decision(Head(mailbox))
<1>1. CASE ReceiveCommand
  <2>1. handle_command(Head(mailbox)) /\ UNCHANGED <<vid, hand>>
    BY <1>1 DEF ReceiveCommand, vendVars
  <2> QED BY <1>1, <2>1, CommandsPlain, DecisionShape DEF Steady
<1>2. CASE ~ReceiveCommand
  <2>1. ASSUME NEW m, ReceiveMessage(m)
        PROVE  Steady \/ Offered
    BY <2>1, MessagesPlain, RequestShape DEF ReceiveMessage, Steady, vendVars
  <2>2. CASE CommandChannelClosed \/ VendDeadline \/ ExitDeadline \/ LinkClosed \/ Exit
    <3>1. UNCHANGED vendVars
      BY <2>2 DEF CommandChannelClosed, VendDeadline, ExitDeadline, LinkClosed, Exit
    <3>2. UNCHANGED <<vid, hand>>
      BY <3>1 DEF vendVars
    <3>3. ASSUME Emit(<<>>) PROVE OffersNone
      BY <3>3, SilentEvents, SilentPlain
    <3>4. ASSUME fail(<<>>) PROVE OffersNone /\ CutOff
      BY <3>4, SilentEvents, FailPlain
    <3>5. ASSUME CommandChannelClosed PROVE Plain
      BY <3>5, EndPlain, SilentEvents DEF CommandChannelClosed
    <3>6. ASSUME VendDeadline PROVE Plain
      BY <3>6, RefusePlain DEF VendDeadline
    <3>7. ASSUME ExitDeadline PROVE Plain
      BY <3>3, <3>7 DEF ExitDeadline, Quiet, Plain, Unapproving
    <3>8. ASSUME LinkClosed PROVE Plain
      BY <3>4, <3>8 DEF LinkClosed, Plain, Unapproving
    <3>9. ASSUME Exit PROVE Plain
      <4>1. alive' # "running"
        BY <3>9 DEF Exit
      <4>2. CutOff
        BY <3>9, <4>1 DEF Exit, DropReplies, CutOff
      <4> QED BY <3>3, <3>9, <4>2 DEF Exit, Quiet, Plain, Unapproving
    <3> QED BY <1>2, <2>2, <3>2, <3>5, <3>6, <3>7, <3>8, <3>9 DEF Steady
  <2> QED BY <1>2, <2>1, <2>2 DEF ActorStep
<1> QED BY <1>1, <1>2

-----------------------------------------------------------------------------
(* What the actor has written and told. *)

\* An answer stands once it is given.
LEMMA AnswerStands ==
    ASSUME TypeOK, AnswerOK, BookStep, NEW v \in Vends, answer[v] # <<>>
    PROVE  answer'[v] = answer[v]
<1>1. answer \in [Vends -> Seq(Frames)]
  BY DEF TypeOK, ActorTypeOK
<1>2. CASE UNCHANGED answer
  BY <1>2
<1>3. ASSUME NEW frame, Logged(frame), frame.vend # v
      PROVE  answer'[v] = answer[v]
  BY <1>1, <1>3 DEF Logged
<1>4. CASE \E frame \in Frames : Answers(frame)
  BY <1>3, <1>4 DEF Answers, AnswerOK
<1>5. CASE Requests
  <2>1. vid + 1 # v
    <3>1. vid \in Nat /\ v \in Nat
      BY BoundsAssumption DEF TypeOK, ActorTypeOK, Vends
    <3>2. ~(v > vid)
      BY DEF AnswerOK
    <3> QED BY <3>1, <3>2
  <2>2. VendFrame("Deny", vid + 1, 0).vend = vid + 1
    BY DEF VendFrame
  <2> QED BY <1>2, <1>3, <1>5, <2>1, <2>2 DEF Requests
<1> QED BY <1>2, <1>4, <1>5 DEF BookStep, Rests, Reports

LEMMA LoggedFor ==
    ASSUME TypeOK, NEW frame, Logged(frame), NEW v \in Vends, frame.vend # v
    PROVE  answer'[v] = answer[v]
BY DEF TypeOK, ActorTypeOK, Logged

\* No vend is approved without an approval.
LEMMA StaysUnapproved ==
    ASSUME TypeOK, Unapproving, NEW v \in Vends, Approved(v)'
    PROVE  Approved(v)
<1>1. CASE UNCHANGED answer
  BY <1>1 DEF Approved
<1>2. ASSUME NEW frame, Logged(frame), frame.name # "Approve"
      PROVE  Approved(v)
  <2>1. CASE frame.vend # v
    BY <1>2, <2>1, LoggedFor DEF Approved
  <2>2. CASE frame.vend = v
    <3> DEFINE S == Frames \union {frame}
               q == answer[v]
    <3>1. q \in Seq(S) /\ frame \in S
      BY SeqMonotonic DEF TypeOK, ActorTypeOK
    <3>2. answer'[v] = Append(q, frame)
      <4>1. frame.vend # 0 /\ answer \in [Vends -> Seq(Frames)]
        BY <2>2, BoundsAssumption DEF Vends, TypeOK, ActorTypeOK
      <4> QED BY <1>2, <2>2, <4>1 DEF Logged
    <3>3. PICK i \in DOMAIN answer'[v] : answer'[v][i].name = "Approve"
      BY DEF Approved
    <3> HIDE DEF S
    <3>4. i \in DOMAIN q /\ Append(q, frame)[i] = q[i]
      BY <1>2, <3>1, <3>2, <3>3, AppendHas
    <3> QED BY <3>2, <3>3, <3>4 DEF Approved
  <2> QED BY <2>1, <2>2
<1> QED BY <1>1, <1>2 DEF Unapproving

\* decide() was told the truth about this vend.
Honest(v) ==
    /\ verdict[v] = "approved" => Approved(v)
    /\ verdict[v] = "denied" => answer[v] # <<>> /\ ~Approved(v)
    /\ Approved(v) => \/ verdict[v] \in {"approved", "Disconnected"}
                      \/ (verdict[v] = "none" /\ alive = "failed")

\* Nothing is told about the vend but, maybe, that the actor is gone.
LEMMA HonestRests ==
    ASSUME TypeOK, NEW v \in Vends, Honest(v),
           answer[v] # <<>> => answer'[v] = answer[v],
           Approved(v)' => Approved(v),
           alive = "running", verdict'[v] = verdict[v] \/ CutOff
    PROVE  Honest(v)'
<1>1. verdict'[v] = verdict[v] \/ (verdict[v] = "none" /\ verdict'[v] = "Disconnected")
  BY DEF CutOff
<1>2. Approved(v) => answer[v] # <<>> /\ Approved(v)'
  BY DEF Approved
<1>3. answer[v] # <<>> => answer'[v] # <<>>
  OBVIOUS
<1> QED BY <1>1, <1>2, <1>3 DEF Honest

\* The vend a decision was made for.
LEMMA HonestDecision ==
    ASSUME TypeOK, AnswerOK, NEW v \in Vends, NEW c, c.id = v, Honest(v), verdict[v] = "none",
           alive = "running", Decision(c)
    PROVE  Honest(v)'
<1>1. ~Approved(v) /\ verdict \in [Vends -> Verdicts]
  BY DEF Honest, TypeOK, ClientTypeOK
<1>2. ASSUME NEW error, Answered(c.id, error)
      PROVE  verdict'[v] = error
  BY <1>1, <1>2 DEF Answered
<1>3. CASE Unapproving /\ \E error \in DecisionErrors \union {"AlreadyDecided"} : Answered(c.id, error)
  <2>1. verdict'[v] \in DecisionErrors \union {"AlreadyDecided"}
    BY <1>2, <1>3
  <2>2. ~Approved(v)'
    BY <1>1, <1>3, StaysUnapproved
  <2> QED BY <2>1, <2>2 DEF Honest, DecisionErrors
<1>4. ASSUME NEW frame, frame.vend = v, Logged(frame), PendingIs(v)
      PROVE  answer'[v] = <<frame>> /\ (Approved(v)' <=> frame.name = "Approve")
  <2>1. answer[v] = <<>> /\ DOMAIN answer = Vends
    BY <1>4 DEF PendingIs, AnswerOK, TypeOK, ActorTypeOK
  <2>2. answer'[v] = <<frame>>
    BY <1>4, <2>1, FirstAnswer
  <2>3. DOMAIN <<frame>> = {1} /\ <<frame>>[1] = frame
    OBVIOUS
  <2> QED BY <2>2, <2>3 DEF Approved
<1>5. CASE PendingIs(c.id) /\ Logged(VendFrame("Approve", c.id, c.arg)) /\ Answered(c.id, "approved")
  <2> DEFINE frame == VendFrame("Approve", c.id, c.arg)
  <2>1. frame.vend = v /\ frame.name = "Approve"
    BY DEF VendFrame
  <2> HIDE DEF frame
  <2>2. Approved(v)' /\ verdict'[v] = "approved"
    BY <1>2, <1>4, <1>5, <2>1 DEF frame
  <2> QED BY <2>2 DEF Honest
<1>6. CASE PendingIs(c.id) /\ Logged(VendFrame("Deny", c.id, 0)) /\ Answered(c.id, "denied")
  <2> DEFINE frame == VendFrame("Deny", c.id, 0)
  <2>1. frame.vend = v /\ frame.name = "Deny"
    BY DEF VendFrame
  <2> HIDE DEF frame
  <2>2. ~Approved(v)' /\ answer'[v] = <<frame>> /\ verdict'[v] = "denied"
    BY <1>2, <1>4, <1>6, <2>1 DEF frame
  <2>3. <<frame>> # <<>>
    OBVIOUS
  <2> QED BY <2>2, <2>3 DEF Honest
<1>7. CASE CutOff /\ alive' = "failed"
  <2>1. verdict'[v] \in {"none", "Disconnected"}
    BY <1>7 DEF CutOff
  <2> QED BY <1>7, <2>1 DEF Honest
<1> QED BY <1>3, <1>5, <1>6, <1>7 DEF Decision

LEMMA HonestActor ==
    ASSUME TypeOK, AnswerOK, BookStep, DecisionOK, alive = "running",
           ActorStep \/ \E m \in Messages : ReceiveMessage(m), NEW v \in Vends
    PROVE  Honest(v)'
<1>1. Honest(v) /\ (answer[v] # <<>> => answer'[v] = answer[v])
  BY AnswerStands DEF DecisionOK, DecisionHonest, Honest
<1>2. CASE Steady \/ Offered
  <2>1. Unapproving /\ (UNCHANGED verdict \/ CutOff)
    BY <1>2 DEF Steady, Offered, Plain
  <2> QED BY <1>1, <2>1, StaysUnapproved, HonestRests
<1>3. ASSUME NEW c, c = Head(mailbox), ReceiveCommand, Decides(c), Decision(c)
      PROVE  Honest(v)'
  <2>1. c.id \in Vends /\ verdict[c.id] = "none"
    <3>1. mailbox \in Seq(Commands) /\ mailbox # <<>> /\ DecisionsOK(mailbox, hand, verdict)
      BY <1>3 DEF TypeOK, ClientTypeOK, ReceiveCommand, DecisionOK, Running
    <3> QED BY <1>3, <3>1, DecisionsTail
  <2>2. CASE c.id = v
    BY <1>1, <1>3, <2>1, <2>2, HonestDecision
  <2>3. CASE c.id # v
    <3>1. verdict'[v] = verdict[v] \/ CutOff
      BY <1>3, <2>3 DEF Decision, Answered, TypeOK, ClientTypeOK
    <3>2. \A frame : frame.vend = c.id /\ Logged(frame) => answer'[v] = answer[v]
      BY <2>3, LoggedFor
    <3>3. \A name, amount : VendFrame(name, c.id, amount).vend = c.id
      BY DEF VendFrame
    <3>4. Unapproving \/ answer'[v] = answer[v]
      BY <1>3, <3>2, <3>3 DEF Decision
    <3>5. Approved(v)' => Approved(v)
      BY <3>4, StaysUnapproved DEF Approved
    <3> QED BY <1>1, <3>1, <3>5, HonestRests
  <2> QED BY <2>2, <2>3
<1>4. PICK c : c = Head(mailbox)
  OBVIOUS
<1> QED BY <1>2, <1>3, <1>4, ActorShapes

-----------------------------------------------------------------------------
(* What the steps of the actor make of the handles. *)

LEMMA OffersAfter ==
    ASSUME OffersOK(events, hand), OffersNone,
           \A v \in Vends : hand[v] = "queued" => hand'[v] = "queued"
    PROVE  OffersOK(events', hand')
BY DEF OffersOK, OffersNone

LEMMA MailAfter ==
    ASSUME TypeOK, ActorStep \/ \E m \in Messages : ReceiveMessage(m), alive' = "running",
           NEW h, NEW w, DecisionsOK(mailbox, h, w)
    PROVE  /\ DecisionsOK(mailbox', h, w)
           /\ ReceiveCommand /\ Decides(Head(mailbox)) => ~Sent(mailbox', Head(mailbox).id)
<1>1. mailbox \in Seq(Commands)
  BY DEF TypeOK, ClientTypeOK
<1>2. CASE ReceiveCommand
  <2>1. mailbox # <<>> /\ mailbox' = Tail(mailbox)
    BY <1>2, QueueRuns DEF ReceiveCommand
  <2> QED BY <1>1, <2>1, DecisionsTail
<1>3. CASE ~ReceiveCommand
  <2>1. CASE UNCHANGED mailbox
    BY <1>3, <2>1
  <2>2. ASSUME NEW c \in Commands, c.op = "AbandonVend", mailbox' = Append(mailbox, c)
        PROVE  DecisionsOK(mailbox', h, w)
    BY <1>1, <2>2, DecisionsAppend DEF Decides
  <2> QED BY <1>3, <2>1, <2>2, ActorMailbox
<1> QED BY <1>2, <1>3

LEMMA DecisionActor ==
    ASSUME TypeOK, TypeOK', DecisionOK, alive = "running",
           ActorStep \/ \E m \in Messages : ReceiveMessage(m)
    PROVE  /\ \A v \in Vends : /\ v > vid' => hand'[v] = "none"
                               /\ hand'[v] \in {"none", "queued", "held"} => verdict'[v] = "none"
           /\ OffersOK(events, hand)'
           /\ Running' => DecisionsOK(mailbox, hand, verdict)'
<1>1. /\ vid \in Nat /\ vid' \in Nat /\ MaxVends \in Nat /\ Vends = 1..MaxVends
      /\ hand \in [Vends -> HandStates] /\ verdict \in [Vends -> Verdicts]
      /\ mailbox \in Seq(Commands) /\ events \in Seq(Events)
  BY BoundsAssumption DEF TypeOK, ActorTypeOK, ClientTypeOK, Vends
<1>2. /\ \A v \in Vends : v > vid => hand[v] = "none"
      /\ \A v \in Vends : hand[v] \in {"none", "queued", "held"} => verdict[v] = "none"
      /\ OffersOK(events, hand) /\ DecisionsOK(mailbox, hand, verdict)
  BY DEF DecisionOK, Running
<1> DEFINE u == vid + 1
<1>3. ASSUME DecisionsOK(mailbox, hand', verdict'), ~(ReceiveCommand /\ Decides(Head(mailbox))),
             Running'
      PROVE  DecisionsOK(mailbox', hand', verdict')
  <2>1. PICK h, w : h = hand' /\ w = verdict'
    OBVIOUS
  <2>2. DecisionsOK(mailbox, h, w)
    BY <1>3, <2>1
  <2>3. DecisionsOK(mailbox', h, w)
    BY <1>3, <2>2, MailAfter DEF Running
  <2> QED BY <2>1, <2>3
<1>4. CASE Steady /\ (ReceiveCommand => ~Decides(Head(mailbox)))
  <2>1. UNCHANGED <<vid, hand>> /\ OffersNone /\ (UNCHANGED verdict \/ CutOff)
    BY <1>4 DEF Steady, Plain
  <2>2. \A v \in Vends : hand'[v] \in {"none", "queued", "held"} => verdict'[v] = "none"
    BY <1>2, <2>1 DEF CutOff
  <2>3. OffersOK(events', hand')
    BY <1>2, <2>1, OffersAfter
  <2>4. Running' => DecisionsOK(mailbox', hand', verdict')
    <3>1. Running' => UNCHANGED verdict
      BY <2>1 DEF CutOff, Running
    <3> QED BY <1>2, <1>3, <1>4, <2>1, <3>1
  <2> QED BY <1>2, <2>1, <2>2, <2>3, <2>4
<1>5. CASE Offered /\ ~ReceiveCommand
  <2>1. /\ vid' = u /\ u \in Vends /\ u > vid
        /\ hand[u] = "none" /\ verdict[u] = "none"
        /\ UNCHANGED verdict \/ CutOff
    BY <1>1, <1>2, <1>5 DEF Offered
  <2>2. /\ hand'[u] \in {"queued", "gone"}
        /\ \A v \in Vends : v # u => hand'[v] = hand[v]
    BY <1>1, <1>5, <2>1 DEF Offered
  <2>3. \A v \in Vends : v > vid' => hand'[v] = "none"
    BY <1>1, <1>2, <2>1, <2>2
  <2>4. \A v \in Vends : hand'[v] \in {"none", "queued", "held"} => verdict'[v] = "none"
    BY <1>2, <2>1, <2>2 DEF CutOff
  <2>5. OffersOK(events', hand')
    <3>1. \A v \in Vends : hand[v] = "queued" => v # u /\ hand'[v] = "queued"
      BY <2>1, <2>2
    <3>2. CASE OffersNone
      BY <1>2, <3>1, <3>2, OffersAfter
    <3>3. CASE hand'[u] = "queued" /\ OfferNext
      <4>1. \A i \in DOMAIN events' : Offers(events'[i]) =>
              events'[i].vend \in Vends /\ hand'[events'[i].vend] = "queued"
        BY <1>2, <2>1, <3>1, <3>3 DEF OffersOK, OfferNext
      <4>2. \A i, j \in DOMAIN events' :
              Offers(events'[i]) /\ Offers(events'[j]) /\ events'[i].vend = events'[j].vend => i = j
        BY <1>2, <2>1, <3>1, <3>3 DEF OffersOK, OfferNext
      <4> QED BY <4>1, <4>2 DEF OffersOK
    <3>4. hand' = [hand EXCEPT ![u] = "queued"] => hand'[u] = "queued"
      BY <1>1, <2>1
    <3> QED BY <1>5, <3>2, <3>3, <3>4 DEF Offered
  <2>6. Running' => DecisionsOK(mailbox', hand', verdict')
    <3>1. Running' => UNCHANGED verdict
      BY <2>1 DEF CutOff, Running
    <3>2. \A v \in Vends : hand[v] \in {"deciding", "gone"} => hand'[v] \in {"deciding", "gone"}
      BY <2>1, <2>2
    <3>3. Running' => DecisionsOK(mailbox, hand', verdict')
      BY <1>2, <3>1, <3>2, DecisionsKept
    <3> QED BY <1>3, <1>5, <3>3
  <2> QED BY <2>3, <2>4, <2>5, <2>6
<1>6. CASE ReceiveCommand /\ Decides(Head(mailbox)) /\ Decision(Head(mailbox))
  <2>1. PICK c : c = Head(mailbox)
    OBVIOUS
  <2>2. /\ UNCHANGED <<vid, hand>> /\ OffersNone
        /\ CutOff \/ \E result : Answered(c.id, result)
    BY <1>6, <2>1 DEF Decision
  <2>3. c.id \in Vends /\ hand[c.id] \in {"deciding", "gone"}
    BY <1>1, <1>2, <1>6, <2>1, DecisionsTail DEF ReceiveCommand
  <2>4. \A v \in Vends : v # c.id => verdict'[v] = verdict[v] \/ CutOff
    BY <1>1, <2>2 DEF Answered
  <2>5. \A v \in Vends : hand'[v] \in {"none", "queued", "held"} => verdict'[v] = "none"
    BY <1>2, <2>2, <2>3, <2>4 DEF CutOff
  <2>6. OffersOK(events', hand')
    BY <1>2, <2>2, OffersAfter
  <2>7. Running' => DecisionsOK(mailbox', hand', verdict')
    <3> SUFFICES ASSUME Running' PROVE DecisionsOK(mailbox', hand', verdict')
      OBVIOUS
    <3>1. PICK h, w : h = hand /\ w = verdict
      OBVIOUS
    <3>2. DecisionsOK(mailbox', h, w) /\ ~Sent(mailbox', c.id)
      BY <1>2, <1>6, <2>1, <3>1, MailAfter DEF Running
    <3>3. \A v \in Vends : v # c.id => verdict'[v] = verdict[v]
      BY <2>4 DEF CutOff, Running
    <3> QED BY <2>2, <3>1, <3>2, <3>3, DecisionsKept
  <2> QED BY <1>2, <2>2, <2>5, <2>6, <2>7
<1> QED BY <1>4, <1>5, <1>6, ActorShapes

-----------------------------------------------------------------------------
(* What the steps of the application make of them. *)

\* No decision is sent.
QuietMail == UNCHANGED mailbox \/ \E c \in Commands : ~Decides(c) /\ Post(c)

\* The shapes of a step of the application.
Leaves ==
    /\ UNCHANGED <<hand, verdict>> /\ QuietMail
    /\ \/ UNCHANGED events \/ events' = <<>>
       \/ events # <<>> /\ events' = Tail(events)
Takes ==
    /\ events # <<>> /\ events' = Tail(events) /\ Offers(Head(events))
    /\ \E place \in {"held", "gone"} : hand' = [hand EXCEPT ![Head(events).vend] = place]
    /\ UNCHANGED verdict /\ QuietMail
Lets(u) ==
    /\ hand[u] \in {"held", "deciding"} /\ hand' = [hand EXCEPT ![u] = "gone"]
    /\ UNCHANGED <<events, verdict>> /\ QuietMail
Asks(u) == \E op \in {"Approve", "Deny"}, arg \in Cash : decide(u, Command(op, u, arg))

LEMMA ClientShapes ==
    ASSUME TypeOK, ClientStep
    PROVE  Leaves \/ Takes \/ \E u \in Vends : Lets(u) \/ Asks(u)
<1>1. /\ sid \in 0..MaxSessions /\ 0 \in 0..MaxSessions /\ 0 \in Cash /\ Amounts \subseteq Cash
      /\ \A v \in Vends : v \in 0..MaxVends
      /\ sid < MaxSessions => sid + 1 \in 0..MaxSessions
  BY BoundsAssumption DEF TypeOK, ClientTypeOK, Cash, Vends
<1>2. \A op \in SessionOps, id \in 0..MaxSessions, arg \in {0, 1} :
        Command(op, id, arg) \in Commands /\ ~Decides(Command(op, id, arg))
  <2>1. \A op \in SessionOps : \A id, arg : ~Decides(Command(op, id, arg))
    BY DEF SessionOps, Command, Decides
  <2> QED BY <2>1, SessionCommandType
<1>3. \A v \in 0..MaxVends : /\ Command("AbandonVend", v, 0) \in Commands
                             /\ ~Decides(Command("AbandonVend", v, 0))
  <2>1. \A v : ~Decides(Command("AbandonVend", v, 0))
    BY DEF Command, Decides
  <2> QED BY <1>1, <2>1, VendCommandType DEF VendOps
<1>4. CASE BeginSession \/ Shutdown \/ DeviceDisplay \/ SessionDisplay \/ Finish \/ DropSession
  <2>1. \E op \in SessionOps, id \in 0..MaxSessions, arg \in {0, 1} : Post(Command(op, id, arg))
    BY <1>1, <1>4 DEF BeginSession, Shutdown, DeviceDisplay, SessionDisplay, Finish, DropSession,
                      Call, SessionOps
  <2>2. QuietMail
    BY <1>2, <2>1 DEF QuietMail
  <2>3. UNCHANGED <<hand, verdict>> /\ (UNCHANGED events \/ events' = <<>>)
    BY <1>4 DEF BeginSession, Shutdown, DeviceDisplay, SessionDisplay, Finish, DropSession, Call
  <2> QED BY <2>2, <2>3 DEF Leaves
<1>5. CASE \/ BeginReturns \/ ShutdownReturns \/ DeviceDisplayReturns \/ SessionDisplayReturns
           \/ FinishReturns \/ DropDevice \/ DropFuture
  <2>1. UNCHANGED <<hand, verdict, events, mailbox>>
    BY <1>5 DEF BeginReturns, ShutdownReturns, DeviceDisplayReturns, SessionDisplayReturns,
                FinishReturns, Return, DropDevice, DropFuture
  <2> QED BY <2>1 DEF Leaves, QuietMail
<1>6. CASE NextEvent \/ DropEvent
  <2>1. events # <<>> /\ events' = Tail(events) /\ UNCHANGED verdict
    BY <1>6 DEF NextEvent, DropEvent
  <2>2. Head(events).vend \in 0..MaxVends
    BY <2>1, HeadEventType DEF Events
  <2>3. QuietMail
    BY <1>3, <1>6, <2>2 DEF NextEvent, DropEvent, QuietMail
  <2>4. IF Offers(Head(events))
          THEN \E place \in {"held", "gone"} : hand' = [hand EXCEPT ![Head(events).vend] = place]
          ELSE UNCHANGED hand
    BY <1>6 DEF NextEvent, DropEvent, Offers
  <2> QED BY <2>1, <2>3, <2>4 DEF Leaves, Takes
<1>7. ASSUME NEW u \in Vends, Decided(u) \/ DropDecision(u) \/ DropVend(u)
      PROVE  Lets(u)
  <2>1. QuietMail
    BY <1>1, <1>3, <1>7 DEF Decided, DropDecision, DropVend, QuietMail
  <2> QED BY <1>7, <2>1 DEF Decided, DropDecision, DropVend, Lets
<1>8. ASSUME NEW u \in Vends, Approve(u) \/ Deny(u)
      PROVE  Asks(u)
  BY <1>1, <1>8 DEF Approve, Deny, Asks
<1> QED BY <1>4, <1>5, <1>6, <1>7, <1>8 DEF ClientStep

LEMMA QuietMailKeeps ==
    ASSUME TypeOK, QuietMail, NEW h, NEW w, DecisionsOK(mailbox, h, w)
    PROVE  DecisionsOK(mailbox', h, w)
<1>1. mailbox \in Seq(Commands)
  BY DEF TypeOK, ClientTypeOK
<1>2. CASE UNCHANGED mailbox
  BY <1>2
<1>3. ASSUME NEW c \in Commands, ~Decides(c), mailbox' = Append(mailbox, c)
      PROVE  DecisionsOK(mailbox', h, w)
  BY <1>1, <1>3, DecisionsAppend
<1> QED BY <1>2, <1>3 DEF QuietMail, Post

LEMMA DecisionClient ==
    ASSUME TypeOK, DecisionOK, ClientStep
    PROVE  DecisionOK'
<1>1. /\ hand \in [Vends -> HandStates] /\ verdict \in [Vends -> Verdicts]
      /\ mailbox \in Seq(Commands) /\ events \in Seq(Events)
      /\ UNCHANGED <<alive, vid, answer>>
  BY ClientRests DEF TypeOK, ClientTypeOK, ActorRests
<1>2. /\ \A v \in Vends : v > vid => hand[v] = "none"
      /\ \A v \in Vends : hand[v] \in {"none", "queued", "held"} => verdict[v] = "none"
      /\ OffersOK(events, hand) /\ (Running => DecisionsOK(mailbox, hand, verdict))
      /\ \A v \in Vends : Honest(v)
  BY DEF DecisionOK, DecisionHonest, Honest
<1>3. ASSUME /\ \A v \in Vends : v > vid => hand'[v] = "none"
             /\ \A v \in Vends : hand'[v] \in {"none", "queued", "held"} => verdict'[v] = "none"
             /\ OffersOK(events', hand')
             /\ Running => DecisionsOK(mailbox', hand', verdict')
             /\ \A v \in Vends : verdict'[v] = verdict[v]
                                 \/ (verdict[v] = "none" /\ verdict'[v] = "Disconnected")
      PROVE  DecisionOK'
  <2>1. \A v \in Vends : Approved(v)' <=> Approved(v)
    BY <1>1 DEF Approved
  <2>2. DecisionHonest'
    BY <1>1, <1>2, <1>3, <2>1 DEF DecisionHonest, Honest
  <2>3. Running' <=> Running
    BY <1>1 DEF Running
  <2> QED BY <1>1, <1>3, <2>2, <2>3 DEF DecisionOK
<1>4. ASSUME QuietMail, UNCHANGED verdict, Running,
             \A v \in Vends : hand[v] \in {"deciding", "gone"} => hand'[v] \in {"deciding", "gone"}
      PROVE  DecisionsOK(mailbox', hand', verdict')
  <2>1. PICK h, w : h = hand' /\ w = verdict'
    OBVIOUS
  <2>2. DecisionsOK(mailbox, h, w)
    BY <1>2, <1>4, <2>1, DecisionsKept
  <2> QED BY <1>4, <2>1, <2>2, QuietMailKeeps
<1>5. CASE Leaves
  <2>1. OffersOK(events', hand')
    <3>1. OffersOK(<<>>, hand)
      BY DEF OffersOK
    <3> QED BY <1>1, <1>2, <1>5, <3>1, OffersTail DEF Leaves
  <2> QED BY <1>2, <1>3, <1>4, <1>5, <2>1 DEF Leaves
<1>6. CASE Takes
  <2>1. PICK u : u = Head(events).vend
    OBVIOUS
  <2>2. /\ u \in Vends /\ hand[u] = "queued" /\ OffersOK(Tail(events), hand)
        /\ \A i \in DOMAIN Tail(events) : Offers(Tail(events)[i]) => Tail(events)[i].vend # u
    BY <1>1, <1>2, <1>6, <2>1, OffersTail DEF Takes
  <2>3. hand'[u] \in {"held", "gone"} /\ \A v \in Vends : v # u => hand'[v] = hand[v]
    BY <1>1, <1>6, <2>1, <2>2 DEF Takes
  <2>4. OffersOK(events', hand')
    <3>1. \A i \in DOMAIN Tail(events) :
            Offers(Tail(events)[i]) => hand'[Tail(events)[i].vend] = "queued"
      BY <2>2, <2>3 DEF OffersOK
    <3> QED BY <1>6, <2>2, <3>1, OffersKept DEF Takes
  <2>5. Running => DecisionsOK(mailbox', hand', verdict')
    BY <1>4, <1>6, <2>2, <2>3 DEF Takes
  <2>6. \A v \in Vends : v > vid => hand'[v] = "none"
    BY <1>2, <2>2, <2>3
  <2>7. \A v \in Vends : hand'[v] \in {"none", "queued", "held"} => verdict'[v] = "none"
    BY <1>2, <1>6, <2>2, <2>3 DEF Takes
  <2> QED BY <1>3, <1>6, <2>4, <2>5, <2>6, <2>7 DEF Takes
<1>7. ASSUME NEW u \in Vends, hand[u] \in {"held", "deciding"},
             hand' = [hand EXCEPT ![u] = "gone"] \/ hand' = [hand EXCEPT ![u] = "deciding"]
      PROVE  /\ hand'[u] \in {"gone", "deciding"} /\ \A v \in Vends : v # u => hand'[v] = hand[v]
             /\ \A v \in Vends : v > vid => hand'[v] = "none"
             /\ UNCHANGED events => OffersOK(events', hand')
  <2>1. hand'[u] \in {"gone", "deciding"} /\ \A v \in Vends : v # u => hand'[v] = hand[v]
    BY <1>1, <1>7
  <2>2. \A v \in Vends : v > vid => hand'[v] = "none"
    BY <1>2, <1>7, <2>1
  <2>3. OffersOK(events, hand')
    <3>1. \A i \in DOMAIN events : Offers(events[i]) => hand'[events[i].vend] = "queued"
      BY <1>2, <1>7, <2>1 DEF OffersOK
    <3> QED BY <1>2, <3>1, OffersKept
  <2> QED BY <2>1, <2>2, <2>3
<1>8. ASSUME NEW u \in Vends, Lets(u)
      PROVE  DecisionOK'
  <2>1. /\ hand'[u] \in {"gone", "deciding"} /\ \A v \in Vends : v # u => hand'[v] = hand[v]
        /\ \A v \in Vends : v > vid => hand'[v] = "none"
        /\ OffersOK(events', hand')
    BY <1>7, <1>8 DEF Lets
  <2>2. \A v \in Vends : hand'[v] \in {"none", "queued", "held"} => verdict'[v] = "none"
    BY <1>2, <1>8, <2>1 DEF Lets
  <2>3. Running => DecisionsOK(mailbox', hand', verdict')
    BY <1>4, <1>8, <2>1 DEF Lets
  <2> QED BY <1>3, <1>8, <2>1, <2>2, <2>3 DEF Lets
<1>9. ASSUME NEW u \in Vends, Asks(u)
      PROVE  DecisionOK'
  <2>1. PICK op \in {"Approve", "Deny"}, arg \in Cash : decide(u, Command(op, u, arg))
    BY <1>9 DEF Asks
  <2> DEFINE c == Command(op, u, arg)
  <2>2. c \in Commands /\ c.id = u
    <3>1. u \in 0..MaxVends
      BY BoundsAssumption DEF Vends
    <3> QED BY <3>1, VendCommandType DEF VendOps, Command
  <2>3. /\ hand[u] = "held" /\ hand' = [hand EXCEPT ![u] = "deciding"] /\ UNCHANGED events
        /\ Post(c)
        /\ verdict' = IF alive = "running" THEN verdict
                      ELSE [verdict EXCEPT ![u] = "Disconnected"]
    BY <2>1 DEF decide
  <2> HIDE DEF c
  <2>4. /\ hand'[u] \in {"gone", "deciding"} /\ \A v \in Vends : v # u => hand'[v] = hand[v]
        /\ \A v \in Vends : v > vid => hand'[v] = "none"
        /\ OffersOK(events', hand')
    BY <1>7, <2>3
  <2>5. \A v \in Vends : v # u => verdict'[v] = verdict[v]
    BY <1>1, <2>3
  <2>6. verdict[u] = "none" /\ verdict'[u] \in {"none", "Disconnected"}
    BY <1>1, <1>2, <2>3
  <2>7. \A v \in Vends : hand'[v] \in {"none", "queued", "held"} => verdict'[v] = "none"
    BY <1>2, <2>4, <2>5
  <2>8. Running => DecisionsOK(mailbox', hand', verdict')
    <3> SUFFICES ASSUME Running PROVE DecisionsOK(mailbox', hand', verdict')
      OBVIOUS
    <3>1. UNCHANGED verdict /\ mailbox' = Append(mailbox, c)
      BY <2>3 DEF Running, Post
    <3>2. ~Sent(mailbox, u)
      BY <1>2, <2>3 DEF DecisionsOK, Sent
    <3>3. PICK h, w : h = hand' /\ w = verdict'
      OBVIOUS
    <3>4. DecisionsOK(mailbox, h, w)
      BY <1>2, <2>4, <3>1, <3>3, DecisionsKept
    <3>5. c.id \in Vends /\ h[c.id] \in {"deciding", "gone"} /\ w[c.id] = "none" /\ ~Sent(mailbox, c.id)
      BY <2>2, <2>4, <2>6, <3>1, <3>2, <3>3
    <3>6. DecisionsOK(Append(mailbox, c), h, w)
      BY <1>1, <2>2, <3>4, <3>5, DecisionsAppend
    <3> QED BY <3>1, <3>3, <3>6
  <2>9. \A v \in Vends : verdict'[v] = verdict[v]
                         \/ (verdict[v] = "none" /\ verdict'[v] = "Disconnected")
    BY <2>5, <2>6
  <2> QED BY <1>3, <2>4, <2>7, <2>8, <2>9
<1> QED BY <1>5, <1>6, <1>8, <1>9, ClientShapes

LEMMA InitDecisions == Init => DecisionOK
<1> SUFFICES ASSUME Init PROVE DecisionOK
  OBVIOUS
<1>1. /\ \A v \in Vends : hand[v] = "none" /\ verdict[v] = "none" /\ answer[v] = <<>>
      /\ events = <<>> /\ mailbox = <<>>
  BY DEF Init, ActorInit
<1>2. OffersOK(events, hand) /\ DecisionsOK(mailbox, hand, verdict)
  BY <1>1 DEF OffersOK, DecisionsOK
<1>3. \A v \in Vends : ~Approved(v)
  BY <1>1 DEF Approved
<1> QED BY <1>1, <1>2, <1>3 DEF DecisionOK, DecisionHonest

LEMMA ActorRuns ==
    ASSUME ActorStep \/ \E m : ReceiveMessage(m)
    PROVE  alive = "running"
BY DEF ActorStep, ReceiveMessage, ReceiveCommand, CommandChannelClosed, VendDeadline,
       ExitDeadline, LinkClosed, Exit, Ready

LEMMA DecisionStep ==
    ASSUME TypeOK, TypeOK', SessionSafe, BooksOK, DecisionOK, [Next]_vars
    PROVE  DecisionOK'
<1>1. AnswerOK /\ BookStep
  BY StepBooks DEF SessionSafe, BooksOK, Base
<1>2. CASE ActorStep \/ \E m \in Messages : ReceiveMessage(m)
  <2>1. alive = "running"
    BY <1>2, ActorRuns
  <2>2. /\ \A v \in Vends : /\ v > vid' => hand'[v] = "none"
                            /\ hand'[v] \in {"none", "queued", "held"} => verdict'[v] = "none"
        /\ OffersOK(events, hand)'
        /\ Running' => DecisionsOK(mailbox, hand, verdict)'
    BY <1>2, <2>1, DecisionActor
  <2>3. \A v \in Vends : Honest(v)'
    BY <1>1, <1>2, <2>1, HonestActor
  <2>4. DecisionHonest'
    BY <2>3 DEF DecisionHonest, Honest
  <2> QED BY <2>2, <2>4 DEF DecisionOK
<1>3. CASE ClientStep
  BY <1>3, DecisionClient
<1>4. CASE Stopped \/ UNCHANGED vars
  <2>1. UNCHANGED vars
    BY <1>4 DEF Stopped
  <2>2. UNCHANGED <<alive, vid, hand, verdict, events, mailbox, answer>>
    BY <2>1 DEF vars, vendVars
  <2> QED BY <2>2 DEF DecisionOK, Running, DecisionHonest, Approved, OffersOK, DecisionsOK
<1> QED BY <1>2, <1>3, <1>4 DEF Next

\* The inductive invariant of decisions: nobody decides a vend twice, and who
\* decides it has not heard of it before.
THEOREM DecisionsStayRight == Spec => []DecisionOK
BY InitDecisions, DecisionStep, TypeCorrect, SessionStaysSafe, BooksStayInOrder, PTL DEF Spec

\* decide() tells the truth: Ok is an answer the machine was given, an error but
\* Disconnected one it never gets.
THEOREM DecisionsAreHonest == Spec => []DecisionHonest
<1>1. DecisionOK => DecisionHonest
  BY DEF DecisionOK
<1> QED BY DecisionsStayRight, <1>1, PTL

-----------------------------------------------------------------------------
(* Who still waits for an answer. *)

\* A handler that stops the actor answers everybody; one that does not takes
\* no answer back.
Talks ==
    \/ DropReplies("err") /\ alive' # "running"
    \/ UNCHANGED alive /\ reply' \in {reply, "ok", "err"}

LEMMA HandlersTalk ==
    /\ \A before : fail(before) => Talks
    /\ \A s, before : initiate_end(s, before) => Talks
    /\ command_out_of_sequence => Talks
    /\ \A v, error : refuse_vend(v, error) => Talks
    /\ Calm => Talks
<1>1. \A before : fail(before) => Talks
  BY DEF fail, Talks
<1>2. Calm => Talks
  BY DEF Calm, Talks
<1>3. ASSUME NEW s, NEW before, initiate_end(s, before)
      PROVE  Talks
  BY <1>1, <1>2, <1>3 DEF initiate_end, Send
<1>4. command_out_of_sequence => Talks
  BY <1>1, <1>2 DEF command_out_of_sequence, Send
<1>5. \A v, error : refuse_vend(v, error) => Talks
  BY <1>1, <1>2 DEF refuse_vend, Send
<1> QED BY <1>1, <1>2, <1>3, <1>4, <1>5

LEMMA MessagesTalk ==
    ASSUME NEW m, handle_adapter_message(m) \/ handle_vend_request
    PROVE  Talks
<1>1. handle_ack => Talks
  BY HandlersTalk DEF handle_ack, Send, complete_active, Talks
<1>2. handle_reset => Talks
  BY DEF handle_reset, complete_active, Talks
<1>3. handle_setup_configuration \/ handle_setup_prices => Talks
  BY DEF handle_setup_configuration, handle_setup_prices, Talks
<1>4. \A newStatus : handle_reader_control(newStatus) => Talks
  BY HandlersTalk DEF handle_reader_control, Talks
<1>5. handle_reader_cancel => Talks
  BY HandlersTalk DEF handle_reader_cancel, Send
<1>6. handle_vend_cancel => Talks
  BY HandlersTalk DEF handle_vend_cancel, Send
<1>7. handle_session_complete => Talks
  BY HandlersTalk DEF handle_session_complete, Send
<1>8. \A kind, why, counted : VendResult(kind, why, counted) => Talks
  BY HandlersTalk DEF VendResult
<1>9. handle_vend_request => Talks
  BY HandlersTalk DEF handle_vend_request, Send
<1> QED
  BY <1>1, <1>2, <1>3, <1>4, <1>5, <1>6, <1>7, <1>8, <1>9, HandlersTalk
     DEF handle_adapter_message, handle_vend_success, handle_vend_failure

LEMMA CommandsTalk ==
    ASSUME NEW c, handle_command(c)
    PROVE  Talks
<1>1. begin_session(c) => Talks
  BY HandlersTalk DEF begin_session, Send, BeginReply, Reply, Talks
<1>2. display_message(c) => Talks
  BY HandlersTalk DEF display_message, Send, Reply, Talks
<1>3. decide_vend(c) => Talks
  BY HandlersTalk DEF decide_vend, write_decision, Send, DecisionRest, Talks
<1>4. abandon_vend(c) => Talks
  BY HandlersTalk DEF abandon_vend
<1>5. request_end(c) => Talks
  BY HandlersTalk DEF request_end, Reply, Talks
<1> QED BY <1>1, <1>2, <1>3, <1>4, <1>5, HandlersTalk DEF handle_command

LEMMA ActorTalks ==
    ASSUME ActorStep \/ \E m \in Messages : ReceiveMessage(m)
    PROVE  \/ Talks
           \/ DropReplies("ok") /\ alive' # "running"
           \/ ExitDeadline
<1>1. CASE ReceiveCommand
  BY <1>1, CommandsTalk DEF ReceiveCommand
<1>2. CASE CommandChannelClosed \/ VendDeadline \/ LinkClosed
  BY <1>2, HandlersTalk DEF CommandChannelClosed, VendDeadline, LinkClosed
<1>3. CASE Exit
  BY <1>3 DEF Exit
<1>4. CASE \E m \in Messages : ReceiveMessage(m)
  BY <1>4, MessagesTalk DEF ReceiveMessage
<1> QED BY <1>1, <1>2, <1>3, <1>4 DEF ActorStep

\* Once the actor has stopped nobody waits for it.
LEMMA StopAnswers ==
    ASSUME TypeOK, ActorStep \/ \E m \in Messages : ReceiveMessage(m), alive' # "running"
    PROVE  /\ app \in Awaiting => reply' # "none"
           /\ \A v \in Vends : hand[v] = "deciding" => verdict'[v] # "none"
<1>1. alive = "running"
  BY DEF ActorStep, ReceiveMessage, ReceiveCommand, CommandChannelClosed, VendDeadline,
         ExitDeadline, LinkClosed, Exit, Ready
<1>2. DropReplies("err") \/ DropReplies("ok")
  BY <1>1, ActorTalks DEF Talks, ExitDeadline
<1> QED BY <1>2 DEF DropReplies

\* A running actor takes no answer back.
LEMMA AnswerStays ==
    ASSUME ActorStep \/ \E m \in Messages : ReceiveMessage(m), alive' = "running", reply # "none"
    PROVE  reply' # "none"
BY ActorTalks DEF Talks, ExitDeadline

LEMMA CommandAnswers ==
    ASSUME TypeOK, ReasonsOK(active), NEW c \in Commands, handle_command(c), alive' = "running"
    PROVE  /\ c.op = "BeginSession" /\ app = "beginning" => reply' # "none"
           /\ c.op = "DisplayMessage" /\ app \in {"displayingDevice", "displayingSession"}
                => reply' # "none"
           /\ c.op = "EndSession" /\ c.arg = 1 /\ app = "finishing"
                => reply' # "none" \/ (active'.id = c.id /\ active'.waiting)
           /\ c.op = "Shutdown" => stopWaiter'
<1>1. begin_session(c) /\ app = "beginning" => reply' # "none"
  BY BeginReplies DEF BeginReplied
<1>2. display_message(c) /\ app \in {"displayingDevice", "displayingSession"} => reply' # "none"
  BY FailsAway DEF display_message, Send, Reply
<1>3. c.op = "EndSession" /\ request_end(c) /\ c.arg = 1 /\ app = "finishing"
        => reply' # "none" \/ (active'.id = c.id /\ active'.waiting)
  BY CommandType, RequestStatus DEF SessionOps
<1> QED BY <1>1, <1>2, <1>3 DEF handle_command

\* A session's end is asked for once before it is over, by finish() if that
\* is under way, and never for a session not yet begun.
EndsOK(q, a, s) ==
    \A i \in DOMAIN q : q[i].op = "EndSession" =>
      /\ q[i].id <= s
      /\ q[i].id = s => a \notin {"beginning", "session", "displayingSession"}
      /\ q[i].id = s /\ a = "finishing" => q[i].arg = 1

\* NoLostWaiter of the application's call, and of its decisions.
CallHeard ==
    app \in Awaiting /\ reply = "none" =>
      /\ Running
      /\ \/ app = "beginning" /\ InMailbox({"BeginSession"}, sid)
         \/ app \in {"displayingDevice", "displayingSession"}
            /\ \E i \in DOMAIN mailbox : mailbox[i].op = "DisplayMessage"
         \/ app = "finishing" /\ InMailbox({"EndSession"}, sid)
         \/ app = "finishing" /\ active.id = sid /\ active.waiting
         \/ app = "stopping" /\ (stopWaiter \/ InMailbox({"Shutdown"}, 0))
DecidersHeard ==
    \A v \in Vends :
      hand[v] = "deciding" /\ verdict[v] = "none" =>
        Running /\ InMailbox({"Approve", "Deny"}, v)

LEMMA EndsTail ==
    ASSUME NEW q \in Seq(Commands), q # <<>>, NEW a, NEW s, EndsOK(q, a, s)
    PROVE  EndsOK(Tail(q), a, s)
<1> DEFINE t == Tail(q)
<1>1. \A i \in DOMAIN t : i + 1 \in DOMAIN q /\ t[i] = q[i + 1]
  BY TailHas
<1> HIDE DEF t
<1>2. EndsOK(t, a, s)
  BY <1>1 DEF EndsOK
<1> QED BY <1>2 DEF t

LEMMA EndsAppend ==
    ASSUME NEW q \in Seq(Commands), NEW c \in Commands, NEW a, NEW s, EndsOK(q, a, s),
           c.op = "EndSession" =>
             /\ c.id <= s
             /\ c.id = s => a \notin {"beginning", "session", "displayingSession"}
             /\ c.id = s /\ a = "finishing" => c.arg = 1
    PROVE  EndsOK(Append(q, c), a, s)
<1> DEFINE t == Append(q, c)
<1>1. \A i \in DOMAIN t : (i \in DOMAIN q /\ t[i] = q[i]) \/ t[i] = c
  BY AppendHas
<1> HIDE DEF t
<1>2. EndsOK(t, a, s)
  BY <1>1 DEF EndsOK
<1> QED BY <1>2 DEF t

LEMMA EndsKept ==
    ASSUME TypeOK, ActorStep \/ \E m \in Messages : ReceiveMessage(m), alive' = "running",
           EndsOK(mailbox, app, sid)
    PROVE  EndsOK(mailbox, app, sid)'
<1>1. mailbox \in Seq(Commands) /\ UNCHANGED <<app, sid>>
  BY ActorMail DEF TypeOK, ClientTypeOK
<1>2. EndsOK(mailbox', app, sid)
  <2>1. ASSUME NEW c \in Commands, c.op = "AbandonVend", mailbox' = Append(mailbox, c)
        PROVE  EndsOK(mailbox', app, sid)
    <3>1. PICK a, s : a = app /\ s = sid
      OBVIOUS
    <3>2. EndsOK(Append(mailbox, c), a, s)
      BY <1>1, <2>1, <3>1, EndsAppend
    <3> QED BY <2>1, <3>1, <3>2
  <2>2. CASE mailbox # <<>> /\ mailbox' = Tail(mailbox)
    BY <1>1, <2>2, EndsTail
  <2>3. CASE UNCHANGED mailbox
    BY <2>3
  <2> QED BY <2>1, <2>2, <2>3, ActorMailbox
<1> QED BY <1>1, <1>2

\* The caller of finish() that the actor keeps.
LEMMA WaiterKept ==
    ASSUME TypeOK, SessionOK, ReasonsOK(active),
           ActorStep \/ \E m \in Messages : ReceiveMessage(m), alive' = "running",
           app = "finishing", active.waiting
    PROVE  reply' # "none" \/ (active'.id = active.id /\ active'.waiting)
<1>1. active # NoSession
  BY DEF NoSession, NewSession
<1> QED BY <1>1, ActorStatus DEF StatusStep, GoesOnFrom, Closes, Controls, Opens, ExitDeadline

LEMMA ActorHeard ==
    ASSUME TypeOK, SessionOK, StatusOK, CallHeard, Running => EndsOK(mailbox, app, sid),
           ActorStep \/ \E m \in Messages : ReceiveMessage(m)
    PROVE  CallHeard'
<1>1. UNCHANGED <<app, sid>>
  BY ActorMail
<1>2. CASE alive' # "running"
  BY <1>1, <1>2, StopAnswers DEF CallHeard
<1>3. CASE alive' = "running" /\ reply # "none"
  BY <1>3, AnswerStays DEF CallHeard
<1>4. ASSUME alive' = "running", reply = "none", app \in Awaiting, reply' = "none"
      PROVE  CallHeard'
  <2>1. PICK s : s = sid
    OBVIOUS
  <2>2. /\ Running /\ ReasonsOK(active) /\ EndsOK(mailbox, app, s)
        /\ \/ app = "beginning" /\ InMailbox({"BeginSession"}, s)
           \/ app \in {"displayingDevice", "displayingSession"}
              /\ \E i \in DOMAIN mailbox : mailbox[i].op = "DisplayMessage"
           \/ app = "finishing" /\ InMailbox({"EndSession"}, s)
           \/ app = "finishing" /\ active.id = s /\ active.waiting
           \/ app = "stopping" /\ (stopWaiter \/ InMailbox({"Shutdown"}, 0))
    BY <1>4, <2>1 DEF CallHeard, StatusOK
  <2>3. ReceiveCommand =>
          /\ Head(mailbox) \in Commands /\ handle_command(Head(mailbox))
          /\ 1 \in DOMAIN mailbox /\ Head(mailbox) = mailbox[1]
    BY TailHas, HeadTailProperties DEF ReceiveCommand, TypeOK, ClientTypeOK
  <2>4. SUFFICES \/ app = "beginning" /\ InMailbox({"BeginSession"}, s)'
                 \/ app \in {"displayingDevice", "displayingSession"}
                    /\ \E i \in DOMAIN mailbox' : mailbox'[i].op = "DisplayMessage"
                 \/ app = "finishing" /\ InMailbox({"EndSession"}, s)'
                 \/ app = "finishing" /\ active'.id = s /\ active'.waiting
                 \/ app = "stopping" /\ (stopWaiter' \/ InMailbox({"Shutdown"}, 0)')
    BY <1>1, <1>4, <2>1 DEF CallHeard, Running, InMailbox
  <2>5. CASE app = "beginning" /\ InMailbox({"BeginSession"}, s)
    BY <1>4, <2>2, <2>3, <2>5, ActorKeeps, CommandAnswers
  <2>6. CASE app \in {"displayingDevice", "displayingSession"}
             /\ \E i \in DOMAIN mailbox : mailbox[i].op = "DisplayMessage"
    <3>1. PICK id : InMailbox({"DisplayMessage"}, id)
      BY <2>6 DEF InMailbox
    <3>2. InMailbox({"DisplayMessage"}, id)'
      BY <1>4, <2>2, <2>3, <2>6, <3>1, ActorKeeps, CommandAnswers
    <3> QED BY <2>6, <3>2 DEF InMailbox
  <2>7. CASE app = "finishing" /\ InMailbox({"EndSession"}, s)
    <3>1. ASSUME ReceiveCommand, Head(mailbox).op = "EndSession", Head(mailbox).id = s
          PROVE  Head(mailbox).arg = 1
      BY <2>2, <2>3, <2>7, <3>1 DEF EndsOK
    <3> QED BY <1>4, <2>2, <2>3, <2>7, <3>1, ActorKeeps, CommandAnswers
  <2>8. CASE app = "finishing" /\ active.id = s /\ active.waiting
    BY <1>4, <2>2, <2>8, WaiterKept
  <2>9. CASE app = "stopping" /\ stopWaiter
    BY <1>4, <2>9, StopsKnown DEF stopVars, ExitDeadline
  <2>10. CASE app = "stopping" /\ InMailbox({"Shutdown"}, 0)
    BY <1>4, <2>2, <2>3, <2>10, ActorKeeps, CommandAnswers
  <2> QED BY <2>2, <2>5, <2>6, <2>7, <2>8, <2>9, <2>10
<1> QED BY <1>1, <1>2, <1>3, <1>4 DEF CallHeard

-----------------------------------------------------------------------------
(* What the handles make of those that wait. *)

LEMMA EndsMove ==
    ASSUME NEW q, NEW a, NEW b, NEW s, EndsOK(q, a, s),
           \/ a \in {"beginning", "session", "displayingSession"}
           \/ b \notin {"beginning", "session", "displayingSession", "finishing"}
           \/ a = b
    PROVE  EndsOK(q, b, s)
BY DEF EndsOK

LEMMA PostedEnds ==
    ASSUME TypeOK, NEW c \in Commands, Post(c), NEW a, NEW s, Running => EndsOK(mailbox, a, s),
           c.op = "EndSession" =>
             /\ c.id <= s
             /\ c.id = s => a \notin {"beginning", "session", "displayingSession"}
             /\ c.id = s /\ a = "finishing" => c.arg = 1
    PROVE  Running => EndsOK(mailbox', a, s)
BY EndsAppend DEF Post, Running, TypeOK, ClientTypeOK

\* A call that is made is heard: its command is in the channel of a running actor.
LEMMA CallMade ==
    ASSUME TypeOK, NEW op \in SessionOps, NEW id \in 0..MaxSessions, NEW arg \in {0, 1},
           NEW state, Call(state, Command(op, id, arg)), NEW s, Running => EndsOK(mailbox, state, s),
           op = "EndSession" => id = s /\ state = "finishing" /\ arg = 1
    PROVE  /\ app' = state
           /\ reply' = "none" => Running' /\ InMailbox({op}, id)'
           /\ Running' => EndsOK(mailbox', state, s)
<1> DEFINE c == Command(op, id, arg)
<1>1. c \in Commands /\ c.op = op /\ c.id = id /\ c.arg = arg
  BY SessionCommandType DEF Command
<1>2. /\ app' = state /\ Post(c) /\ UNCHANGED alive
      /\ reply' = IF alive = "running" THEN "none" ELSE "err"
  BY DEF Call, ActorRests
<1> HIDE DEF c
<1>3. op = "EndSession" => id <= s
  BY BoundsAssumption
<1>4. Running => EndsOK(mailbox', state, s)
  BY <1>1, <1>2, <1>3, PostedEnds
<1> QED BY <1>1, <1>2, <1>4, PostSends DEF Running

CallsOK == CallHeard /\ (Running => EndsOK(mailbox, app, sid))

LEMMA CallsMade ==
    ASSUME TypeOK, CallsOK, BeginSession \/ Shutdown \/ DeviceDisplay \/ SessionDisplay \/ Finish
    PROVE  CallsOK'
<1>1. /\ sid \in 0..MaxSessions /\ 0 \in 0..MaxSessions /\ sid \in Nat
      /\ mailbox \in Seq(Commands) /\ MaxSessions \in Nat
      /\ Running => EndsOK(mailbox, app, sid)
  BY BoundsAssumption DEF TypeOK, ClientTypeOK, CallsOK
<1>2. CASE BeginSession
  <2>1. PICK funds \in {0, 1} : Call("beginning", Command("BeginSession", sid + 1, funds))
    BY <1>2 DEF BeginSession
  <2>2. PICK s : s = sid + 1
    OBVIOUS
  <2>3. s \in 0..MaxSessions /\ sid' = s
    BY <1>1, <1>2, <2>2 DEF BeginSession
  <2>4. \A i \in DOMAIN mailbox : mailbox[i].op = "EndSession" => mailbox[i].id \in Nat
    BY <1>1, CommandType DEF SessionOps
  <2>5. Running => EndsOK(mailbox, "beginning", s)
    BY <1>1, <2>2, <2>4 DEF EndsOK
  <2>6. /\ app' = "beginning"
        /\ reply' = "none" => Running' /\ InMailbox({"BeginSession"}, s)'
        /\ Running' => EndsOK(mailbox', "beginning", s)
    BY <2>1, <2>2, <2>3, <2>5, CallMade DEF SessionOps
  <2>7. reply' = "none" => InMailbox({"BeginSession"}, sid)'
    BY <2>3, <2>6 DEF InMailbox
  <2> QED BY <2>3, <2>6, <2>7 DEF CallsOK, CallHeard
<1>3. CASE Shutdown
  <2>1. Call("stopping", Command("Shutdown", 0, 0)) /\ UNCHANGED sid
    BY <1>3 DEF Shutdown
  <2>2. Running => EndsOK(mailbox, "stopping", sid)
    BY <1>1, EndsMove
  <2>3. /\ app' = "stopping"
        /\ reply' = "none" => Running' /\ InMailbox({"Shutdown"}, 0)'
        /\ Running' => EndsOK(mailbox', "stopping", sid)
    BY <1>1, <2>1, <2>2, CallMade DEF SessionOps
  <2> QED BY <2>1, <2>3 DEF CallsOK, CallHeard
<1>4. CASE DeviceDisplay
  <2>1. Call("displayingDevice", Command("DisplayMessage", 0, 0)) /\ UNCHANGED sid
    BY <1>4 DEF DeviceDisplay
  <2>2. Running => EndsOK(mailbox, "displayingDevice", sid)
    BY <1>1, EndsMove
  <2>3. /\ app' = "displayingDevice"
        /\ reply' = "none" => Running' /\ InMailbox({"DisplayMessage"}, 0)'
        /\ Running' => EndsOK(mailbox', "displayingDevice", sid)
    BY <1>1, <2>1, <2>2, CallMade DEF SessionOps
  <2> QED BY <2>1, <2>3 DEF CallsOK, CallHeard, InMailbox
<1>5. CASE SessionDisplay
  <2>1. Call("displayingSession", Command("DisplayMessage", sid, 0)) /\ UNCHANGED sid /\ app = "session"
    BY <1>5 DEF SessionDisplay
  <2>2. PICK s : s = sid
    OBVIOUS
  <2>3. Running => EndsOK(mailbox, "displayingSession", s)
    BY <1>1, <2>1, <2>2, EndsMove
  <2>4. /\ app' = "displayingSession"
        /\ reply' = "none" => Running' /\ InMailbox({"DisplayMessage"}, s)'
        /\ Running' => EndsOK(mailbox', "displayingSession", s)
    BY <1>1, <2>1, <2>2, <2>3, CallMade DEF SessionOps
  <2> QED BY <2>1, <2>2, <2>4 DEF CallsOK, CallHeard, InMailbox
<1>6. CASE Finish
  <2>1. Call("finishing", Command("EndSession", sid, 1)) /\ UNCHANGED sid /\ app = "session"
    BY <1>6 DEF Finish
  <2>2. PICK s : s = sid
    OBVIOUS
  <2>3. Running => EndsOK(mailbox, "finishing", s)
    BY <1>1, <2>1, <2>2, EndsMove
  <2>4. /\ app' = "finishing"
        /\ reply' = "none" => Running' /\ InMailbox({"EndSession"}, s)'
        /\ Running' => EndsOK(mailbox', "finishing", s)
    BY <1>1, <2>1, <2>2, <2>3, CallMade DEF SessionOps
  <2>5. reply' = "none" => InMailbox({"EndSession"}, sid)'
    BY <2>1, <2>2, <2>4 DEF InMailbox
  <2> QED BY <2>1, <2>2, <2>4, <2>5 DEF CallsOK, CallHeard
<1> QED BY <1>2, <1>3, <1>4, <1>5, <1>6

\* A call returns, or its handle is dropped.
LEMMA CallsOver ==
    ASSUME TypeOK, CallsOK,
           \/ BeginReturns \/ ShutdownReturns \/ DeviceDisplayReturns \/ SessionDisplayReturns
           \/ FinishReturns \/ DropDevice \/ DropSession \/ DropFuture \/ NextEvent
    PROVE  CallsOK'
<1>1. UNCHANGED <<alive, sid>> /\ (Running => EndsOK(mailbox, app, sid)) /\ sid \in 0..MaxSessions
  BY DEF CallsOK, TypeOK, ClientTypeOK, BeginReturns, ShutdownReturns, DeviceDisplayReturns,
         SessionDisplayReturns, FinishReturns, Return, DropDevice, DropSession, DropFuture,
         NextEvent, ActorRests
<1>2. /\ app' \notin Awaiting
      /\ \/ app \in {"beginning", "session", "displayingSession"}
         \/ app' \notin {"beginning", "session", "displayingSession", "finishing"}
         \/ app = app'
      /\ UNCHANGED mailbox \/ (app' = "gone" /\ Post(Command("EndSession", sid, 0)))
  BY DEF BeginReturns, ShutdownReturns, DeviceDisplayReturns, SessionDisplayReturns,
         FinishReturns, Return, DropDevice, DropSession, DropFuture, NextEvent, Awaiting
<1>3. PICK a, s : a = app' /\ s = sid
  OBVIOUS
<1>4. Running => EndsOK(mailbox, a, s)
  BY <1>1, <1>2, <1>3, EndsMove
<1>5. Running => EndsOK(mailbox', a, s)
  <2>1. CASE UNCHANGED mailbox
    BY <1>4, <2>1
  <2>2. CASE app' = "gone" /\ Post(Command("EndSession", sid, 0))
    <3> DEFINE c == Command("EndSession", sid, 0)
    <3>1. c \in Commands /\ c.id = sid
      <4>1. "EndSession" \in SessionOps /\ 0 \in {0, 1}
        BY DEF SessionOps
      <4> QED BY <1>1, <4>1, SessionCommandType DEF Command
    <3>2. s <= s
      BY <1>1, <1>3, BoundsAssumption
    <3>3. Post(c)
      BY <2>2
    <3> HIDE DEF c
    <3> QED BY <1>3, <1>4, <2>2, <3>1, <3>2, <3>3, PostedEnds
  <2> QED BY <1>2, <2>1, <2>2
<1> QED BY <1>1, <1>2, <1>3, <1>5 DEF CallsOK, CallHeard, Running

\* A vend is decided or dropped, which is no call of the device.
LEMMA CallsElsewhere ==
    ASSUME TypeOK, CallsOK,
           \/ DropEvent
           \/ \E v \in Vends : Approve(v) \/ Deny(v) \/ Decided(v) \/ DropDecision(v) \/ DropVend(v)
    PROVE  CallsOK'
<1>1. UNCHANGED <<alive, active, stopWaiter, app, sid, reply>>
  BY DEF DropEvent, Approve, Deny, Decided, DropDecision, DropVend, decide, ActorRests, stopVars
<1>2. UNCHANGED mailbox \/ \E c \in Commands : c.op \in VendOps /\ Post(c)
  <2>1. 0 \in Cash /\ Amounts \subseteq Cash /\ \A v \in Vends : v \in 0..MaxVends
    BY BoundsAssumption DEF Cash, Vends
  <2>2. \A op \in VendOps, v \in 0..MaxVends, arg \in Cash :
          Command(op, v, arg) \in Commands /\ Command(op, v, arg).op = op
    BY VendCommandType DEF Command
  <2>3. DropEvent => Head(events).vend \in 0..MaxVends
    BY HeadEventType DEF DropEvent, Events
  <2>4. UNCHANGED mailbox \/ \E op \in VendOps, v \in 0..MaxVends, arg \in Cash : Post(Command(op, v, arg))
    BY <2>1, <2>3 DEF DropEvent, Approve, Deny, Decided, DropDecision, DropVend, decide, VendOps
  <2> QED BY <2>2, <2>4
<1>3. \A ops, id : InMailbox(ops, id) => InMailbox(ops, id)'
  <2> SUFFICES ASSUME NEW ops, NEW id, InMailbox(ops, id) PROVE InMailbox(ops, id)'
    OBVIOUS
  <2>1. CASE UNCHANGED mailbox
    BY <2>1 DEF InMailbox
  <2> QED BY <1>2, <2>1, PostSends
<1>4. PICK a, s : a = app /\ s = sid
  OBVIOUS
<1>5. Running => EndsOK(mailbox', a, s)
  <2>1. CASE UNCHANGED mailbox
    BY <1>4, <2>1 DEF CallsOK
  <2> QED BY <1>2, <1>4, <2>1, PostedEnds DEF CallsOK, VendOps
<1>6. CallHeard'
  <2> SUFFICES ASSUME app \in Awaiting, reply = "none"
               PROVE  CallHeard'
    BY <1>1 DEF CallHeard
  <2>1. CASE app \in {"displayingDevice", "displayingSession"}
    <3>1. PICK id : InMailbox({"DisplayMessage"}, id)
      BY <2>1 DEF CallsOK, CallHeard, InMailbox
    <3>2. InMailbox({"DisplayMessage"}, id)'
      BY <1>3, <3>1
    <3> QED BY <1>1, <2>1, <3>2 DEF CallsOK, CallHeard, InMailbox, Running
  <2>2. CASE app \notin {"displayingDevice", "displayingSession"}
    <3>1. InMailbox({"BeginSession"}, s) => InMailbox({"BeginSession"}, s)'
      BY <1>3
    <3>2. InMailbox({"EndSession"}, s) => InMailbox({"EndSession"}, s)'
      BY <1>3
    <3>3. InMailbox({"Shutdown"}, 0) => InMailbox({"Shutdown"}, 0)'
      BY <1>3
    <3> QED BY <1>1, <1>4, <2>2, <3>1, <3>2, <3>3 DEF CallsOK, CallHeard, InMailbox, Running
  <2> QED BY <2>1, <2>2
<1> QED BY <1>1, <1>4, <1>5, <1>6 DEF CallsOK, Running

-----------------------------------------------------------------------------
(* Who decided a vend and waits. *)

LEMMA ActorDeciders ==
    ASSUME TypeOK, DecidersHeard, ActorStep \/ \E m \in Messages : ReceiveMessage(m)
    PROVE  DecidersHeard'
<1> SUFFICES ASSUME NEW v \in Vends, hand'[v] = "deciding", verdict'[v] = "none"
             PROVE  Running' /\ \E ops : ops = {"Approve", "Deny"} /\ InMailbox(ops, v)'
  BY DEF DecidersHeard, InMailbox
<1>1. hand \in [Vends -> HandStates] /\ verdict \in [Vends -> Verdicts]
  BY DEF TypeOK, ClientTypeOK
<1>2. hand[v] = "deciding"
  BY <1>1, ActorShapes DEF Steady, Offered, Decision
<1>3. alive' = "running"
  BY <1>2, StopAnswers
<1>4. ~CutOff
  BY <1>3 DEF CutOff
<1>5. ASSUME NEW c, Decision(c)
      PROVE  c.id # v /\ verdict[v] = "none"
  <2>1. \E result : result # "none" /\ Answered(c.id, result)
    <3>1. "none" \notin DecisionErrors \union {"AlreadyDecided"}
      BY DEF DecisionErrors
    <3> QED BY <1>4, <1>5, <3>1 DEF Decision
  <2> QED BY <1>1, <2>1 DEF Answered
<1>6. verdict[v] = "none"
  BY <1>4, <1>5, ActorShapes DEF Steady, Plain, Offered
<1>7. PICK ops : ops = {"Approve", "Deny"}
  OBVIOUS
<1>8. InMailbox(ops, v)
  BY <1>2, <1>6, <1>7 DEF DecidersHeard
<1>9. ~(ReceiveCommand /\ Head(mailbox).op \in ops /\ Head(mailbox).id = v)
  BY <1>5, <1>7, ActorShapes DEF Decides
<1>10. InMailbox(ops, v)'
  BY <1>3, <1>8, <1>9, ActorKeeps
<1> QED BY <1>3, <1>7, <1>10 DEF Running

LEMMA ClientDeciders ==
    ASSUME TypeOK, DecidersHeard, ClientStep
    PROVE  DecidersHeard'
<1> SUFFICES ASSUME NEW v \in Vends, hand'[v] = "deciding", verdict'[v] = "none"
             PROVE  Running' /\ \E ops : ops = {"Approve", "Deny"} /\ InMailbox(ops, v)'
  BY DEF DecidersHeard, InMailbox
<1>1. hand \in [Vends -> HandStates] /\ verdict \in [Vends -> Verdicts] /\ UNCHANGED alive
  BY ClientRests DEF TypeOK, ClientTypeOK, ActorRests
<1>2. PICK ops : ops = {"Approve", "Deny"}
  OBVIOUS
<1>3. ASSUME InMailbox(ops, v), QuietMail
      PROVE  InMailbox(ops, v)'
  <2>1. CASE UNCHANGED mailbox
    BY <1>3, <2>1 DEF InMailbox
  <2> QED BY <1>3, <2>1, PostSends DEF QuietMail
<1>4. CASE hand[v] = "deciding" /\ verdict[v] = "none" /\ QuietMail
  <2>1. Running /\ InMailbox(ops, v)
    BY <1>2, <1>4 DEF DecidersHeard
  <2> QED BY <1>1, <1>2, <1>3, <1>4, <2>1 DEF Running
<1>5. CASE Leaves
  BY <1>4, <1>5 DEF Leaves
<1>6. CASE Takes
  BY <1>1, <1>4, <1>6 DEF Takes
<1>7. ASSUME NEW u \in Vends, Lets(u)
      PROVE  hand[v] = "deciding" /\ verdict[v] = "none" /\ QuietMail
  BY <1>1, <1>7 DEF Lets
<1>8. ASSUME NEW u \in Vends, Asks(u)
      PROVE  Running' /\ InMailbox(ops, v)'
  <2>1. PICK op \in {"Approve", "Deny"}, arg \in Cash : decide(u, Command(op, u, arg))
    BY <1>8 DEF Asks
  <2> DEFINE c == Command(op, u, arg)
  <2>2. c \in Commands /\ c.op = op /\ c.id = u
    <3>1. u \in 0..MaxVends /\ op \in VendOps
      BY BoundsAssumption DEF Vends, VendOps
    <3> QED BY <3>1, VendCommandType DEF Command
  <2>3. /\ Post(c) /\ hand' = [hand EXCEPT ![u] = "deciding"]
        /\ verdict' = IF alive = "running" THEN verdict ELSE [verdict EXCEPT ![u] = "Disconnected"]
    BY <2>1 DEF decide
  <2> HIDE DEF c
  <2>4. CASE u = v
    <3>1. Running
      BY <1>1, <2>3, <2>4 DEF Running
    <3> QED BY <1>1, <1>2, <2>2, <2>3, <2>4, <3>1, PostSends DEF Running
  <2>5. CASE u # v
    <3>1. hand[v] = "deciding" /\ verdict[v] = "none"
      BY <1>1, <2>3, <2>5
    <3>2. Running /\ InMailbox(ops, v)
      BY <1>2, <3>1 DEF DecidersHeard
    <3> QED BY <1>1, <2>2, <2>3, <3>2, PostSends DEF Running
  <2> QED BY <2>4, <2>5
<1> QED BY <1>2, <1>4, <1>5, <1>6, <1>7, <1>8, ClientShapes

-----------------------------------------------------------------------------

\* The inductive invariant of those that wait.
WaitersOK == CallsOK /\ DecidersHeard

\* A command that is awaited stays in the channel until the handler that answers
\* it, or until the actor keeps the waiter; no handler forgets one.
THEOREM WaitersStayHeard == Spec => []WaitersOK
<1>1. Init => WaitersOK
  BY DEF Init, ActorInit, WaitersOK, CallsOK, CallHeard, DecidersHeard, EndsOK, Awaiting
<1>2. ASSUME TypeOK, BooksOK, StatusOK, WaitersOK, [Next]_vars
      PROVE  WaitersOK'
  <2>1. SessionOK /\ CallHeard /\ DecidersHeard /\ (Running => EndsOK(mailbox, app, sid))
    BY <1>2 DEF BooksOK, WaitersOK, CallsOK
  <2>2. CASE ActorStep \/ \E m \in Messages : ReceiveMessage(m)
    <3>1. CallHeard' /\ DecidersHeard'
      BY <1>2, <2>1, <2>2, ActorHeard, ActorDeciders
    <3>2. Running' => Running
      BY <2>2 DEF ActorStep, ReceiveMessage, ReceiveCommand, CommandChannelClosed, VendDeadline,
                  ExitDeadline, LinkClosed, Exit, Ready, Running
    <3>3. Running' => EndsOK(mailbox, app, sid)'
      BY <1>2, <2>1, <2>2, <3>2, EndsKept DEF Running
    <3> QED BY <3>1, <3>3 DEF WaitersOK, CallsOK
  <2>3. CASE ClientStep
    BY <1>2, <2>3, ClientDeciders, CallsMade, CallsOver, CallsElsewhere DEF WaitersOK, ClientStep
  <2>4. CASE Stopped \/ UNCHANGED vars
    <3>1. UNCHANGED vars
      BY <2>4 DEF Stopped
    <3>2. UNCHANGED <<alive, active, stopWaiter, mailbox, app, sid, reply, hand, verdict>>
      BY <3>1 DEF vars, stopVars, clientVars, vendVars
    <3> QED BY <1>2, <3>2 DEF WaitersOK, CallsOK, CallHeard, DecidersHeard, InMailbox, EndsOK, Running
  <2> QED BY <1>2, <2>2, <2>3, <2>4 DEF Next
<1> QED BY <1>1, <1>2, TypeCorrect, BooksStayInOrder, StatusStaysRight, PTL DEF Spec

\* Nobody waits in vain: whatever is dropped, ends or breaks, a call of the
\* device and a decision of a vend is still to be answered or has been.
THEOREM NobodyWaitsInVain == Spec => []NoLostWaiter
<1>1. WaitersOK => NoLostWaiter
  BY DEF WaitersOK, CallsOK, CallHeard, DecidersHeard, NoLostWaiter
<1> QED BY <1>1, WaitersStayHeard, PTL
=============================================================================
