-------------------------- MODULE DeviceEventsProofs --------------------------
(***************************************************************************)
(* Theorems about DeviceEvents: what an application that follows the       *)
(* events may believe, for every ring size, display, message and text.     *)
(***************************************************************************)
EXTENDS DeviceEvents, WireProtocolProofs
LOCAL INSTANCE SequencesExt

\* The types the argument needs.
ObservedOK ==
    /\ alive \in {"running", "failed", "exited"}
    /\ session \in BOOLEAN
    /\ publishing \in Seq(Steps)
    /\ queue \in Seq(Events)
    /\ missed \in BOOLEAN /\ subscribed \in BOOLEAN /\ over \in BOOLEAN
    /\ asked \in BOOLEAN /\ synced \in BOOLEAN

NoStatus(s) == \A i \in 1..Len(s) : s[i].kind # "StatusChanged"

\* A status is stored, then broadcast, with nothing in between.
PairsOK(p, st) ==
    \A i \in 1..Len(p) :
      /\ p[i].kind = "Set" =>
           i < Len(p) /\ p[i + 1].kind = "StatusChanged" /\ p[i + 1].value = p[i].value
      /\ p[i].kind = "StatusChanged" =>
           IF i = 1 THEN p[i].value = st
                    ELSE p[i - 1].kind = "Set" /\ p[i - 1].value = p[i].value

\* Disconnected, the fault and the end come in this order, and last.
EndingOK(p, st) ==
    \A i \in 1..Len(p) :
      /\ p[i].kind = "StatusChanged" /\ p[i].value = "Disconnected" =>
           Len(p) = i + 2 /\ p[i + 1].kind = "Fault"
      /\ p[i].kind = "Fault" =>
           /\ Len(p) = i + 1 /\ p[i + 1].kind = "Close"
           /\ IF i = 1 THEN st = "Disconnected"
                       ELSE p[i - 1].kind = "StatusChanged" /\ p[i - 1].value = "Disconnected"
      /\ p[i].kind = "Close" =>
           Len(p) = i /\ (IF i = 1 THEN st = "Disconnected" ELSE p[i - 1].kind = "Fault")

PublishingOK == PairsOK(publishing, status) /\ EndingOK(publishing, status)

\* Disconnected is for good: what is left of the failing handler, then the end.
FailingOK ==
    /\ status = "Disconnected" =>
         IF publishing = <<>> THEN alive = "failed"
                              ELSE publishing[1].kind \in {"StatusChanged", "Fault", "Close"}
    /\ alive = "failed" => status = "Disconnected"
    /\ alive # "running" => publishing = <<>>

\* With no status to be broadcast, the last one in the queue is the reader's.
LastStatusOK ==
    NoStatus(publishing) =>
      \A i \in 1..Len(queue) :
        queue[i].kind = "StatusChanged" /\ (\A j \in (i + 1)..Len(queue) : queue[j].kind # "StatusChanged")
          => queue[i].value = status

\* With none in the queue either, a follower that missed nothing is up to date,
\* and one that asked knows of the end.
ViewOK ==
    NoStatus(publishing) /\ NoStatus(queue) =>
      /\ synced /\ ~missed => view = status
      /\ asked /\ status = "Disconnected" => view = "Disconnected"

FollowerOK ==
    /\ ~subscribed => queue = <<>>
    /\ synced => subscribed
    /\ asked => subscribed
    /\ missed => queue # <<>>
    /\ over => queue = <<>> /\ alive # "running"

\* The fault comes right behind Disconnected, so it cannot overwrite it.
FaultOK ==
    subscribed /\ publishing # <<>> /\ publishing[1].kind = "Fault" =>
      NoStatus(queue) \/ (queue # <<>> /\ queue[Len(queue)].kind = "StatusChanged")

\* Nobody believes in a disconnection that has not happened.
NoRumour ==
    status # "Disconnected" =>
      /\ view # "Disconnected"
      /\ \A i \in 1..Len(queue) :
           ~(queue[i].kind = "StatusChanged" /\ queue[i].value = "Disconnected")

DeviceInv ==
    /\ ObservedOK /\ PublishingOK /\ FailingOK /\ LastStatusOK
    /\ ViewOK /\ FollowerOK /\ FaultOK /\ NoRumour

-----------------------------------------------------------------------------
(* Sequences. *)

LEMMA TailFacts ==
    ASSUME NEW S, NEW s \in Seq(S), s # <<>>
    PROVE  /\ Tail(s) \in Seq(S) /\ Len(s) \in Nat /\ Len(s) >= 1
           /\ Len(Tail(s)) = Len(s) - 1
           /\ \A i \in 1..Len(Tail(s)) : Tail(s)[i] = s[i + 1]
           /\ Head(s) = s[1] /\ s[1] \in S
<1>1. Len(s) \in Nat /\ Len(s) >= 1
  BY EmptySeq, LenProperties
<1>2. s[1] \in S
  BY <1>1, ElementOfSeq
<1> QED BY <1>1, <1>2, HeadTailProperties

\* What is left after one publication is in order again.
LEMMA TailOrdered ==
    ASSUME NEW p \in Seq(Steps), p # <<>>, NEW st, NEW nst,
           PairsOK(p, st), EndingOK(p, st),
           p[1].kind = "Set" => nst = p[1].value,
           p[1].kind # "Set" => nst = st
    PROVE  PairsOK(Tail(p), nst) /\ EndingOK(Tail(p), nst)
<1> DEFINE t == Tail(p)
<1>1. /\ Len(p) \in Nat /\ Len(p) >= 1 /\ Len(t) = Len(p) - 1
      /\ \A i \in 1..Len(t) : t[i] = p[i + 1]
  BY TailFacts
<1> HIDE DEF t
<1>2. ASSUME NEW i \in 1..Len(t)
      PROVE  /\ i + 1 \in 1..Len(p) /\ t[i] = p[i + 1]
             /\ i + 1 < Len(p) => t[i + 1] = p[i + 2]
             /\ i # 1 => t[i - 1] = p[i]
  <2>1. i + 1 \in 1..Len(p) /\ t[i] = p[i + 1]
    BY <1>1
  <2>2. ASSUME i + 1 < Len(p) PROVE t[i + 1] = p[i + 2]
    <3>1. i + 1 \in 1..Len(t) /\ (i + 1) + 1 = i + 2
      BY <1>1, <2>2
    <3> QED BY <1>1, <3>1
  <2>3. ASSUME i # 1 PROVE t[i - 1] = p[i]
    <3>1. i - 1 \in 1..Len(t) /\ (i - 1) + 1 = i
      BY <1>1, <2>3
    <3> QED BY <1>1, <3>1
  <2> QED BY <2>1, <2>2, <2>3
<1>3. 1 \in 1..Len(p)
  BY <1>1
<1>4. ASSUME NEW i \in 1..Len(t)
      PROVE  /\ t[i].kind = "Set" =>
                  i < Len(t) /\ t[i + 1].kind = "StatusChanged" /\ t[i + 1].value = t[i].value
             /\ t[i].kind = "StatusChanged" =>
                  IF i = 1 THEN t[i].value = nst
                           ELSE t[i - 1].kind = "Set" /\ t[i - 1].value = t[i].value
  <2>1. /\ p[i + 1].kind = "Set" =>
             i + 1 < Len(p) /\ p[i + 2].kind = "StatusChanged" /\ p[i + 2].value = p[i + 1].value
        /\ p[i + 1].kind = "StatusChanged" => p[i].kind = "Set" /\ p[i].value = p[i + 1].value
    <3>1. i + 1 \in 1..Len(p) /\ i + 1 # 1 /\ (i + 1) + 1 = i + 2 /\ (i + 1) - 1 = i
      BY <1>2
    <3> QED BY <3>1 DEF PairsOK
  <2>2. i + 1 < Len(p) => i < Len(t)
    BY <1>1
  <2>3. i = 1 => p[i] = p[1]
    OBVIOUS
  <2> QED BY <1>2, <2>1, <2>2, <2>3
<1>5. ASSUME NEW i \in 1..Len(t)
      PROVE  /\ t[i].kind = "StatusChanged" /\ t[i].value = "Disconnected" =>
                  Len(t) = i + 2 /\ t[i + 1].kind = "Fault"
             /\ t[i].kind = "Fault" =>
                  /\ Len(t) = i + 1 /\ t[i + 1].kind = "Close"
                  /\ IF i = 1 THEN nst = "Disconnected"
                     ELSE t[i - 1].kind = "StatusChanged" /\ t[i - 1].value = "Disconnected"
             /\ t[i].kind = "Close" =>
                  Len(t) = i /\ (IF i = 1 THEN nst = "Disconnected" ELSE t[i - 1].kind = "Fault")
  <2>1. /\ p[i + 1].kind = "StatusChanged" /\ p[i + 1].value = "Disconnected" =>
             Len(p) = i + 3 /\ p[i + 2].kind = "Fault"
        /\ p[i + 1].kind = "Fault" =>
             /\ Len(p) = i + 2 /\ p[i + 2].kind = "Close"
             /\ p[i].kind = "StatusChanged" /\ p[i].value = "Disconnected"
        /\ p[i + 1].kind = "Close" => Len(p) = i + 1 /\ p[i].kind = "Fault"
    <3>1. /\ i + 1 \in 1..Len(p) /\ i + 1 # 1 /\ (i + 1) + 1 = i + 2 /\ (i + 1) - 1 = i
          /\ (i + 1) + 2 = i + 3
      BY <1>2
    <3> QED BY <3>1 DEF EndingOK
  <2>2. /\ Len(p) = i + 3 => Len(t) = i + 2 /\ i + 1 < Len(p)
        /\ Len(p) = i + 2 => Len(t) = i + 1 /\ i + 1 < Len(p)
        /\ Len(p) = i + 1 => Len(t) = i
    BY <1>1
  <2>3. /\ p[1].kind = "StatusChanged" => p[1].value = st /\ nst = st
        /\ p[1].kind = "Fault" => st = "Disconnected" /\ nst = st
    BY <1>3 DEF PairsOK, EndingOK
  <2>4. i = 1 => p[i] = p[1]
    OBVIOUS
  <2> QED BY <1>2, <2>1, <2>2, <2>3, <2>4
<1> QED BY <1>4, <1>5 DEF t, PairsOK, EndingOK

-----------------------------------------------------------------------------
(* What the handlers publish. *)

\* In order before its first step, which changes nothing a follower has seen.
Fresh(p) ==
    /\ p \in Seq(Steps)
    /\ \A st : PairsOK(p, st) /\ EndingOK(p, st)
    /\ p # <<>> => p[1].kind \notin {"StatusChanged", "Fault", "Close"}

LEMMA FreshNothing == Fresh(<<>>)
BY DEF Fresh, PairsOK, EndingOK

LEMMA StepType ==
    ASSUME NEW k \in Kinds, NEW v \in Statuses \union {"", "device", "gone", "failed"}
    PROVE  Step(k, v) \in Steps /\ Step(k, v).kind = k /\ Step(k, v).value = v
BY DEF Step, Steps

LEMMA FreshCashSale == Fresh(<<Step("CashSale", "")>>)
<1> DEFINE c == Step("CashSale", "")
<1>1. c \in Steps /\ c.kind = "CashSale"
  BY StepType DEF Kinds
<1> HIDE DEF c
<1>2. <<c>> \in Seq(Steps) /\ Len(<<c>>) = 1 /\ <<c>>[1] = c
  BY <1>1
<1>3. Fresh(<<c>>)
  BY <1>1, <1>2 DEF Fresh, PairsOK, EndingOK
<1> QED BY <1>3 DEF c

\* The publications of a handler: an answer to finish() or none, a status, and
\* what comes with it.
LEMMA Answer ==
    ASSUME NEW h \in {"device", "gone"}
    PROVE  /\ AnswerFinish(h) \in Seq(Steps)
           /\ \/ AnswerFinish(h) = <<>>
              \/ Len(AnswerFinish(h)) = 1 /\ AnswerFinish(h)[1].kind = "Return"
<1>1. Step("Return", h) \in Steps /\ Step("Return", h).kind = "Return"
  BY StepType DEF Kinds
<1> QED BY <1>1 DEF AnswerFinish

LEMMA StatusPair ==
    ASSUME NEW s \in Statuses
    PROVE  /\ publish_status(s) \in Seq(Steps) /\ Len(publish_status(s)) = 2
           /\ publish_status(s)[1].kind = "Set" /\ publish_status(s)[1].value = s
           /\ publish_status(s)[2].kind = "StatusChanged" /\ publish_status(s)[2].value = s
<1> DEFINE a == Step("Set", s)
           b == Step("StatusChanged", s)
<1>1. /\ a \in Steps /\ a.kind = "Set" /\ a.value = s
      /\ b \in Steps /\ b.kind = "StatusChanged" /\ b.value = s
  BY StepType DEF Kinds
<1>2. publish_status(s) = <<a, b>>
  BY DEF publish_status
<1> HIDE DEF a, b
<1> QED BY <1>1, <1>2

Answers(r) == r \in Seq(Steps) /\ (r = <<>> \/ (Len(r) = 1 /\ r[1].kind = "Return"))
GoesWith(c, s) ==
    /\ c \in Seq(Steps) /\ Len(c) \in {0, 1, 2}
    /\ \A i \in 1..Len(c) : c[i].kind \notin {"Set", "StatusChanged"}
    /\ IF s = "Disconnected" THEN Len(c) = 2 /\ c[1].kind = "Fault" /\ c[2].kind = "Close"
                             ELSE \A i \in 1..Len(c) : c[i].kind \notin {"Fault", "Close"}

LEMMA FreshPair ==
    ASSUME NEW s \in Statuses, NEW r, Answers(r), NEW c, GoesWith(c, s)
    PROVE  Fresh((r \o publish_status(s)) \o c)
<1> USE DEF Answers, GoesWith
<1> DEFINE q == publish_status(s)
           p == (r \o q) \o c
<1>1. /\ q \in Seq(Steps) /\ Len(q) = 2
      /\ q[1].kind = "Set" /\ q[1].value = s
      /\ q[2].kind = "StatusChanged" /\ q[2].value = s
  BY StatusPair
<1> HIDE DEF q
<1>2. Len(r) \in {0, 1} /\ (Len(r) = 1 => r[1].kind = "Return")
  BY EmptySeq
<1>3. /\ r \o q \in Seq(Steps) /\ Len(r \o q) = Len(r) + 2
      /\ Len(r) = 1 => (r \o q)[1] = r[1]
      /\ (r \o q)[Len(r) + 1] = q[1] /\ (r \o q)[Len(r) + 2] = q[2]
  <2>1. /\ r \o q \in Seq(Steps) /\ Len(r \o q) = Len(r) + Len(q)
        /\ \A i \in 1..(Len(r) + Len(q)) : (r \o q)[i] = IF i <= Len(r) THEN r[i] ELSE q[i - Len(r)]
    BY <1>1, ConcatProperties
  <2> QED BY <2>1, <1>1, <1>2
<1>4. /\ p \in Seq(Steps) /\ Len(p) = Len(r) + 2 + Len(c)
      /\ Len(r) = 1 => p[1] = r[1]
      /\ p[Len(r) + 1] = q[1] /\ p[Len(r) + 2] = q[2]
      /\ \A j \in 1..Len(c) : p[Len(r) + 2 + j] = c[j]
  <2> DEFINE rq == r \o q
  <2> HIDE DEF rq
  <2>1. /\ rq \in Seq(Steps) /\ Len(rq) = Len(r) + 2
        /\ Len(r) = 1 => rq[1] = r[1]
        /\ rq[Len(r) + 1] = q[1] /\ rq[Len(r) + 2] = q[2]
    BY <1>3 DEF rq
  <2>2. /\ rq \o c \in Seq(Steps) /\ Len(rq \o c) = Len(rq) + Len(c)
        /\ \A i \in 1..(Len(rq) + Len(c)) :
             (rq \o c)[i] = IF i <= Len(rq) THEN rq[i] ELSE c[i - Len(rq)]
    BY <2>1, ConcatProperties
  <2>3. p = rq \o c
    BY DEF rq
  <2> HIDE DEF p
  <2>4. ASSUME NEW j \in 1..Len(c) PROVE p[Len(r) + 2 + j] = c[j]
    <3>1. /\ Len(r) + 2 + j \in 1..(Len(rq) + Len(c)) /\ ~(Len(r) + 2 + j <= Len(rq))
          /\ (Len(r) + 2 + j) - Len(rq) = j
      BY <2>1, <1>2
    <3> QED BY <3>1, <2>2, <2>3
  <2> QED BY <2>1, <2>2, <2>3, <2>4, <1>2
<1> HIDE DEF p
<1>5. \A st : PairsOK(p, st) /\ EndingOK(p, st)
  <2> TAKE st
  <2>1. CASE Len(r) = 0
    <3>1. Len(p) = 2 + Len(c) /\ p[1] = q[1] /\ p[2] = q[2] /\ \A j \in 1..Len(c) : p[2 + j] = c[j]
      BY <1>4, <2>1
    <3>2. CASE Len(c) = 0
      BY <3>1, <3>2, <1>1 DEF PairsOK, EndingOK
    <3>3. CASE Len(c) = 1
      <4>1. Len(p) = 3 /\ p[3] = c[1]
        BY <3>1, <3>3
      <4> QED BY <3>1, <4>1, <3>3, <1>1 DEF PairsOK, EndingOK
    <3>4. CASE Len(c) = 2
      <4>1. Len(p) = 4 /\ p[3] = c[1] /\ p[4] = c[2]
        BY <3>1, <3>4
      <4> QED BY <3>1, <4>1, <3>4, <1>1 DEF PairsOK, EndingOK
    <3> QED BY <3>2, <3>3, <3>4
  <2>2. CASE Len(r) = 1
    <3>1. /\ Len(p) = 3 + Len(c) /\ p[1] = r[1] /\ p[2] = q[1] /\ p[3] = q[2]
          /\ \A j \in 1..Len(c) : p[3 + j] = c[j]
      BY <1>4, <2>2
    <3>2. CASE Len(c) = 0
      BY <3>1, <3>2, <1>1, <1>2, <2>2 DEF PairsOK, EndingOK
    <3>3. CASE Len(c) = 1
      <4>1. Len(p) = 4 /\ p[4] = c[1]
        BY <3>1, <3>3
      <4> QED BY <3>1, <4>1, <3>3, <1>1, <1>2, <2>2 DEF PairsOK, EndingOK
    <3>4. CASE Len(c) = 2
      <4>1. Len(p) = 5 /\ p[4] = c[1] /\ p[5] = c[2]
        BY <3>1, <3>4
      <4> QED BY <3>1, <4>1, <3>4, <1>1, <1>2, <2>2 DEF PairsOK, EndingOK
    <3> QED BY <3>2, <3>3, <3>4
  <2> QED BY <1>2, <2>1, <2>2
<1>6. p[1].kind \notin {"StatusChanged", "Fault", "Close"}
  BY <1>1, <1>2, <1>4
<1> QED BY <1>4, <1>5, <1>6 DEF Fresh, p, q

LEMMA FreshStatus ==
    ASSUME NEW s \in Statuses, s # "Disconnected" PROVE Fresh(publish_status(s))
<1>1. (<<>> \o publish_status(s)) \o <<>> = publish_status(s)
  BY StatusPair, ConcatEmptySeq
<1>2. Answers(<<>>) /\ GoesWith(<<>>, s)
  BY DEF Answers, GoesWith
<1>3. Fresh((<<>> \o publish_status(s)) \o <<>>)
  BY <1>2, FreshPair
<1> QED BY <1>1, <1>3

LEMMA FreshAnswered ==
    ASSUME NEW s \in Statuses, s # "Disconnected", NEW h \in {"device", "gone"}
    PROVE  Fresh(AnswerFinish(h) \o publish_status(s))
<1>1. AnswerFinish(h) \o publish_status(s) \in Seq(Steps)
  BY Answer, StatusPair, ConcatProperties
<1>2. (AnswerFinish(h) \o publish_status(s)) \o <<>> = AnswerFinish(h) \o publish_status(s)
  BY <1>1, ConcatEmptySeq
<1>3. Answers(AnswerFinish(h)) /\ GoesWith(<<>>, s)
  BY Answer DEF Answers, GoesWith
<1>4. Fresh((AnswerFinish(h) \o publish_status(s)) \o <<>>)
  BY <1>3, FreshPair
<1> QED BY <1>2, <1>4

LEMMA FreshReset ==
    Fresh(AnswerFinish("device") \o publish_status("Inactive") \o <<Step("Reinitialized", "")>>)
<1> DEFINE a == Step("Reinitialized", "")
<1>1. a \in Steps /\ a.kind = "Reinitialized"
  BY StepType DEF Kinds
<1>2. GoesWith(<<a>>, "Inactive")
  <2> HIDE DEF a
  <2>1. <<a>> \in Seq(Steps) /\ Len(<<a>>) = 1 /\ <<a>>[1] = a
    BY <1>1
  <2> QED BY <1>1, <2>1 DEF GoesWith
<1>3. Answers(AnswerFinish("device")) /\ "Inactive" \in Statuses
  BY Answer DEF Answers, Statuses
<1> QED BY <1>2, <1>3, FreshPair

LEMMA FreshFailure ==
    Fresh(AnswerFinish("gone") \o publish_status("Disconnected")
          \o <<Step("Fault", ""), Step("Close", "")>>)
<1> DEFINE a == Step("Fault", "")
           b == Step("Close", "")
<1>1. a \in Steps /\ a.kind = "Fault" /\ b \in Steps /\ b.kind = "Close"
  BY StepType DEF Kinds
<1>2. GoesWith(<<a, b>>, "Disconnected")
  <2> HIDE DEF a, b
  <2>1. <<a, b>> \in Seq(Steps) /\ Len(<<a, b>>) = 2 /\ <<a, b>>[1] = a /\ <<a, b>>[2] = b
    BY <1>1
  <2> QED BY <1>1, <2>1 DEF GoesWith
<1>3. Answers(AnswerFinish("gone")) /\ "Disconnected" \in Statuses
  BY Answer DEF Answers, Statuses
<1> QED BY <1>2, <1>3, FreshPair

-----------------------------------------------------------------------------
(* The steps.  First those that leave the follower alone. *)

LEMMA DeviceInvInit == DeviceInit => DeviceInv
<1> SUFFICES ASSUME DeviceInit PROVE DeviceInv
  OBVIOUS
<1>1. ObservedOK
  <2>1. <<>> \in Seq(Steps) /\ <<>> \in Seq(Events)
    BY EmptySeq
  <2> QED BY <2>1 DEF DeviceInit, ObservedOK
<1>2. PublishingOK /\ FailingOK
  BY DEF DeviceInit, PublishingOK, PairsOK, EndingOK, FailingOK
<1>3. LastStatusOK /\ ViewOK /\ FollowerOK /\ FaultOK /\ NoRumour
  BY DEF DeviceInit, LastStatusOK, ViewOK, FollowerOK, FaultOK, NoRumour
<1> QED BY <1>1, <1>2, <1>3 DEF DeviceInv

LEMMA NothingPublishedKeeps ==
    ASSUME DeviceInv, session' \in BOOLEAN, UNCHANGED <<alive, status, publishing, readerVars>>
    PROVE  DeviceInv'
BY DEF DeviceInv, ObservedOK, PublishingOK, PairsOK, EndingOK, FailingOK, LastStatusOK,
       ViewOK, FollowerOK, FaultOK, NoRumour, NoStatus, readerVars

\* A handler that starts finds everything published and the reader connected.
LEMMA HandlingMeans ==
    ASSUME DeviceInv, Handling
    PROVE  publishing = <<>> /\ NoStatus(publishing) /\ alive = "running" /\ status # "Disconnected"
BY DEF DeviceInv, FailingOK, Handling, NoStatus

LEMMA HandlerKeeps ==
    ASSUME DeviceInv, Handling, Fresh(publishing'), session' \in BOOLEAN,
           UNCHANGED <<alive, status, readerVars>>
    PROVE  DeviceInv'
<1>1. publishing = <<>> /\ NoStatus(publishing) /\ alive = "running" /\ status # "Disconnected"
  BY HandlingMeans
<1>2. ObservedOK'
  BY DEF DeviceInv, ObservedOK, Fresh, readerVars
<1>3. PublishingOK'
  BY DEF PublishingOK, Fresh
<1>4. FailingOK'
  BY <1>1 DEF FailingOK
<1>5. LastStatusOK'
  BY <1>1 DEF DeviceInv, LastStatusOK, readerVars
<1>6. ViewOK'
  BY <1>1 DEF DeviceInv, ViewOK, NoStatus, readerVars
<1>7. FollowerOK'
  BY DEF DeviceInv, FollowerOK, readerVars
<1>8. FaultOK'
  BY DEF FaultOK, Fresh
<1>9. NoRumour'
  BY DEF DeviceInv, NoRumour, readerVars
<1> QED BY <1>2, <1>3, <1>4, <1>5, <1>6, <1>7, <1>8, <1>9 DEF DeviceInv

LEMMA ReceiveEventKeeps ==
    ASSUME DeviceInv, ReceiveEvent PROVE DeviceInv'
<1>1. Handling /\ UNCHANGED <<alive, status, owner, readerVars>>
  BY DEF ReceiveEvent
<1>2. PICK message : handle_vmc_event(message)
  BY DEF ReceiveEvent
<1>3. session' \in BOOLEAN
  BY <1>1, <1>2 DEF DeviceInv, ObservedOK, handle_vmc_event, handle_reset,
     handle_setup_configuration, handle_reader_control, handle_cash_sale
<1>4. Fresh(publishing')
  <2>1. CASE handle_reset
    BY <2>1, FreshReset DEF handle_reset
  <2>2. CASE handle_setup_configuration(message.numbers)
    <3>1. publishing' = publish_status("Disabled")
      BY <2>2 DEF handle_setup_configuration
    <3> QED BY <3>1, FreshStatus DEF Statuses
  <2>3. ASSUME NEW s \in {"Enabled", "Disabled"}, handle_reader_control(s)
        PROVE  Fresh(publishing')
    <3>1. publishing' = <<>> \/ publishing' = publish_status(s)
      BY <2>3 DEF handle_reader_control
    <3>2. s \in Statuses /\ s # "Disconnected"
      BY DEF Statuses
    <3> QED BY <3>1, <3>2, FreshStatus, FreshNothing
  <2>4. CASE handle_cash_sale
    BY <2>4, FreshCashSale DEF handle_cash_sale
  <2> QED BY <1>2, <2>1, <2>2, <2>3, <2>4 DEF handle_vmc_event
<1> QED BY <1>1, <1>3, <1>4, HandlerKeeps

LEMMA BeginSessionKeeps ==
    ASSUME DeviceInv, BeginSession PROVE DeviceInv'
<1>1. Handling /\ session' \in BOOLEAN
  BY DEF BeginSession
<1>2. UNCHANGED <<alive, status, readerVars>>
  BY DEF BeginSession
<1>3. publishing' = publish_status("SessionActive")
  BY DEF BeginSession
<1>4. Fresh(publishing')
  BY <1>3, FreshStatus DEF Statuses
<1> QED BY <1>1, <1>2, <1>4, HandlerKeeps

LEMMA CompleteActiveKeeps ==
    ASSUME DeviceInv, CompleteActive PROVE DeviceInv'
<1>1. Handling /\ session' \in BOOLEAN
  BY DEF CompleteActive, DeviceInv, ObservedOK
<1>2. UNCHANGED <<alive, status, readerVars>>
  BY DEF CompleteActive
<1>3. publishing' = AnswerFinish("device") \o publish_status("Enabled")
  BY DEF CompleteActive
<1>4. Fresh(publishing')
  BY <1>3, FreshAnswered DEF Statuses
<1> QED BY <1>1, <1>2, <1>4, HandlerKeeps

LEMMA FailKeeps ==
    ASSUME DeviceInv, Fail PROVE DeviceInv'
<1>1. Handling /\ session' \in BOOLEAN
  BY DEF Fail, DeviceInv, ObservedOK
<1>2. UNCHANGED <<alive, status, readerVars>>
  BY DEF Fail
<1>3. Fresh(publishing')
  BY FreshFailure DEF Fail
<1> QED BY <1>1, <1>2, <1>3, HandlerKeeps

LEMMA ExitKeeps ==
    ASSUME DeviceInv, Exit PROVE DeviceInv'
<1>1. publishing = <<>> /\ alive = "running" /\ status # "Disconnected"
  BY HandlingMeans DEF Exit
<1>2. alive' = "exited" /\ UNCHANGED <<session, status, publishing, owner, readerVars>>
  BY DEF Exit
<1> QED BY <1>1, <1>2
        DEF DeviceInv, ObservedOK, PublishingOK, PairsOK, EndingOK, FailingOK, LastStatusOK,
            ViewOK, FollowerOK, FaultOK, NoRumour, NoStatus, readerVars

-----------------------------------------------------------------------------
(* Publishing, one step at a time. *)

\* Whoever takes the first publication off leaves the rest in order.
LEMMA Dropped ==
    ASSUME DeviceInv, publishing # <<>>, publishing' = Tail(publishing),
           status' = IF publishing[1].kind = "Set" THEN publishing[1].value ELSE status
    PROVE  /\ publishing[1] \in Steps /\ 1 \in 1..Len(publishing) /\ Len(publishing) \in Nat
           /\ publishing' \in Seq(Steps) /\ Len(publishing') = Len(publishing) - 1
           /\ Head(publishing) = publishing[1]
           /\ alive = "running"
           /\ PublishingOK'
           /\ publishing[1].kind # "StatusChanged" =>
                /\ NoStatus(publishing') => NoStatus(publishing)
                /\ publishing' # <<>> => publishing'[1].kind # "Fault"
           /\ Len(publishing) >= 2 => publishing' # <<>> /\ 1 \in 1..Len(publishing')
                                      /\ publishing'[1] = publishing[2]
<1>1. /\ publishing \in Seq(Steps)
      /\ publishing' \in Seq(Steps) /\ Len(publishing) \in Nat /\ Len(publishing) >= 1
      /\ Len(publishing') = Len(publishing) - 1
      /\ \A i \in 1..Len(publishing') : publishing'[i] = publishing[i + 1]
      /\ Head(publishing) = publishing[1] /\ publishing[1] \in Steps
  BY TailFacts DEF DeviceInv, ObservedOK
<1>2. PublishingOK'
  <2> DEFINE nst == status'
  <2>1. publishing[1].kind = "Set" => nst = publishing[1].value
    OBVIOUS
  <2>2. publishing[1].kind # "Set" => nst = status
    OBVIOUS
  <2> HIDE DEF nst
  <2>3. PairsOK(Tail(publishing), nst) /\ EndingOK(Tail(publishing), nst)
    BY <1>1, <2>1, <2>2, TailOrdered DEF DeviceInv, PublishingOK
  <2> QED BY <2>3 DEF PublishingOK, nst
<1>3. alive = "running"
  BY DEF DeviceInv, FailingOK, ObservedOK
<1>4. ASSUME publishing[1].kind # "StatusChanged", NoStatus(publishing')
      PROVE  NoStatus(publishing)
  <2> SUFFICES ASSUME NEW i \in 1..Len(publishing)
               PROVE  publishing[i].kind # "StatusChanged"
    BY DEF NoStatus
  <2>1. CASE i = 1
    BY <1>4, <2>1
  <2>2. CASE i # 1
    <3>1. i - 1 \in 1..Len(publishing') /\ (i - 1) + 1 = i
      BY <1>1, <2>2
    <3> QED BY <1>1, <1>4, <3>1 DEF NoStatus
  <2> QED BY <2>1, <2>2
<1>5. publishing' # <<>> => Len(publishing) >= 2
  <2>1. publishing' # <<>> => Len(publishing') \in Nat /\ Len(publishing') >= 1
    BY <1>1, EmptySeq
  <2> QED BY <1>1, <2>1
<1>6. Len(publishing) >= 2 => publishing' # <<>> /\ 1 \in 1..Len(publishing')
                              /\ publishing'[1] = publishing[2]
  <2> SUFFICES ASSUME Len(publishing) >= 2
               PROVE  publishing' # <<>> /\ 1 \in 1..Len(publishing')
                      /\ publishing'[1] = publishing[2]
    OBVIOUS
  <2>1. 1 \in 1..Len(publishing') /\ 1 + 1 = 2 /\ Len(publishing') >= 1
    BY <1>1
  <2>2. publishing'[1] = publishing[2]
    BY <1>1, <2>1
  <2>3. publishing' # <<>>
    <3>1. Len(<<>>) = 0
      OBVIOUS
    <3>2. Len(publishing') # 0
      BY <1>1, <2>1
    <3> QED BY <3>1, <3>2, Zenon
  <2> QED BY <2>1, <2>2, <2>3
<1>7. ASSUME publishing[1].kind # "StatusChanged", publishing' # <<>>
      PROVE  publishing'[1].kind # "Fault"
  <2>1. 2 \in 1..Len(publishing) /\ 2 # 1 /\ 2 - 1 = 1
    BY <1>1, <1>5, <1>7
  <2>2. publishing[2].kind = "Fault" => publishing[1].kind = "StatusChanged"
    BY <2>1 DEF DeviceInv, PublishingOK, EndingOK
  <2> QED BY <1>5, <1>6, <1>7, <2>2
<1>8. 1 \in 1..Len(publishing)
  BY <1>1
<1> QED BY <1>1, <1>2, <1>3, <1>4, <1>6, <1>7, <1>8

\* The answer to finish(), taken or dropped.
LEMMA ReturnKeeps ==
    ASSUME DeviceInv, publishing # <<>>, publishing[1].kind = "Return",
           publishing' = Tail(publishing), UNCHANGED <<alive, session, status, readerVars>>
    PROVE  DeviceInv'
<1>1. /\ publishing' \in Seq(Steps) /\ PublishingOK' /\ alive = "running"
      /\ NoStatus(publishing') => NoStatus(publishing)
      /\ publishing' # <<>> => publishing'[1].kind # "Fault"
  BY Dropped
<1>2. status # "Disconnected"
  BY DEF DeviceInv, FailingOK
<1>3. ObservedOK'
  BY <1>1 DEF DeviceInv, ObservedOK, readerVars
<1>4. FailingOK'
  BY <1>1, <1>2 DEF FailingOK
<1>5. LastStatusOK' /\ ViewOK'
  BY <1>1 DEF DeviceInv, LastStatusOK, ViewOK, NoStatus, readerVars
<1>6. FollowerOK' /\ FaultOK' /\ NoRumour'
  BY <1>1 DEF DeviceInv, FollowerOK, FaultOK, NoRumour, readerVars
<1> QED BY <1>1, <1>3, <1>4, <1>5, <1>6 DEF DeviceInv

LEMMA LetGoKeeps ==
    ASSUME DeviceInv, LetGo PROVE DeviceInv'
<1>1. UNCHANGED <<alive, session, status, readerVars>>
  BY DEF LetGo
<1>2. CASE publishing' = publishing
  BY <1>1, <1>2, NothingPublishedKeeps DEF DeviceInv, ObservedOK
<1>3. CASE /\ publishing # <<>> /\ Head(publishing).kind = "Return"
           /\ publishing' = Tail(publishing)
  <2>1. Head(publishing) = publishing[1]
    BY <1>3, TailFacts DEF DeviceInv, ObservedOK
  <2> QED BY <1>1, <1>3, <2>1, ReturnKeeps
<1> QED BY <1>2, <1>3 DEF LetGo

\* Storing a status: its broadcast comes next.
LEMMA SetKeeps ==
    ASSUME DeviceInv, publishing # <<>>, publishing[1].kind = "Set",
           publishing' = Tail(publishing), status' = publishing[1].value,
           UNCHANGED <<alive, session, readerVars>>
    PROVE  DeviceInv'
<1>1. /\ publishing' \in Seq(Steps) /\ PublishingOK' /\ alive = "running"
      /\ 1 \in 1..Len(publishing) /\ Len(publishing) \in Nat
      /\ Len(publishing) >= 2 => publishing' # <<>> /\ 1 \in 1..Len(publishing')
                                 /\ publishing'[1] = publishing[2]
  BY Dropped
<1>2. 1 < Len(publishing) /\ publishing[1 + 1].kind = "StatusChanged"
  BY <1>1 DEF DeviceInv, PublishingOK, PairsOK
<1>3. /\ publishing' # <<>> /\ 1 \in 1..Len(publishing')
      /\ publishing'[1].kind = "StatusChanged"
  <2>1. Len(publishing) >= 2 /\ 1 + 1 = 2
    BY <1>1, <1>2
  <2> QED BY <1>1, <1>2, <2>1
<1>4. status # "Disconnected"
  BY DEF DeviceInv, FailingOK
<1>5. ObservedOK'
  BY <1>1 DEF DeviceInv, ObservedOK, readerVars
<1>6. FailingOK'
  BY <1>1, <1>3 DEF FailingOK
<1>7. LastStatusOK' /\ ViewOK'
  BY <1>3 DEF LastStatusOK, ViewOK, NoStatus
<1>8. FollowerOK' /\ FaultOK' /\ NoRumour'
  BY <1>3, <1>4 DEF DeviceInv, FollowerOK, FaultOK, NoRumour, readerVars
<1> QED BY <1>1, <1>5, <1>6, <1>7, <1>8 DEF DeviceInv

\* The end of a failing actor.
LEMMA CloseKeeps ==
    ASSUME DeviceInv, publishing # <<>>, publishing[1].kind = "Close",
           publishing' = Tail(publishing), alive' = "failed",
           UNCHANGED <<session, status, readerVars>>
    PROVE  DeviceInv'
<1>1. /\ publishing' \in Seq(Steps) /\ PublishingOK'
      /\ 1 \in 1..Len(publishing) /\ Len(publishing') = Len(publishing) - 1
      /\ NoStatus(publishing') => NoStatus(publishing)
  BY Dropped
<1>2. Len(publishing) = 1 /\ status = "Disconnected"
  BY <1>1 DEF DeviceInv, PublishingOK, EndingOK
<1>3. publishing' = <<>>
  <2>1. Len(publishing') = 0
    BY <1>1, <1>2
  <2> QED BY <1>1, <2>1, EmptySeq
<1>4. ObservedOK'
  BY <1>1 DEF DeviceInv, ObservedOK, readerVars
<1>5. FailingOK'
  BY <1>2, <1>3 DEF FailingOK
<1>6. LastStatusOK' /\ ViewOK'
  BY <1>1 DEF DeviceInv, LastStatusOK, ViewOK, NoStatus, readerVars
<1>7. FollowerOK' /\ FaultOK' /\ NoRumour'
  BY <1>3 DEF DeviceInv, FollowerOK, FaultOK, NoRumour, readerVars
<1> QED BY <1>1, <1>4, <1>5, <1>6, <1>7 DEF DeviceInv

\* A queue after one more event, the oldest d of it overwritten.
Pushed(q, e, d, nq) ==
    /\ nq \in Seq(Events) /\ Len(q) \in Nat /\ Len(nq) = Len(q) + 1 - d
    /\ d = 1 => Len(q) >= 2
    /\ \A i \in 1..(Len(q) - d) : nq[i] = q[i + d]
    /\ nq # <<>> /\ nq[Len(nq)] = e

LEMMA AppendFacts ==
    ASSUME NEW q \in Seq(Events), NEW e \in Events
    PROVE  /\ Append(q, e) \in Seq(Events) /\ Len(q) \in Nat
           /\ Len(Append(q, e)) = Len(q) + 1 /\ Append(q, e) # <<>>
           /\ \A i \in 1..Len(q) : Append(q, e)[i] = q[i]
           /\ Append(q, e)[Len(q) + 1] = e
BY AppendProperties

LEMMA BroadcastFacts ==
    ASSUME NEW e \in Events, queue \in Seq(Events), missed \in BOOLEAN, subscribed,
           Broadcast(e)
    PROVE  \/ Pushed(queue, e, 0, queue') /\ missed' = missed
           \/ Pushed(queue, e, 1, queue') /\ missed'
<1> USE RingAssumption
<1>1. CASE Len(queue) # RingSize
  <2>1. queue' = Append(queue, e) /\ missed' = missed
    BY <1>1 DEF Broadcast
  <2> DEFINE n == Append(queue, e)
  <2>2. /\ n \in Seq(Events) /\ Len(queue) \in Nat /\ Len(n) = Len(queue) + 1 /\ n # <<>>
        /\ \A i \in 1..Len(queue) : n[i] = queue[i]
        /\ n[Len(queue) + 1] = e
    BY AppendFacts
  <2> HIDE DEF n
  <2>3. \A i \in 1..(Len(queue) - 0) : n[i] = queue[i + 0]
    BY <2>2
  <2>4. Len(n) = Len(queue) + 1 - 0
    BY <2>2
  <2>5. Pushed(queue, e, 0, n)
    BY <2>2, <2>3, <2>4 DEF Pushed
  <2> QED BY <2>1, <2>5 DEF n
<1>2. CASE Len(queue) = RingSize
  <2>1. queue # <<>> /\ Len(queue) >= 2
    BY <1>2
  <2> DEFINE t == Tail(queue)
  <2>2. queue' = Append(t, e) /\ missed'
    BY <1>2 DEF Broadcast
  <2>3. /\ t \in Seq(Events) /\ Len(queue) \in Nat /\ Len(t) = Len(queue) - 1
        /\ \A i \in 1..Len(t) : t[i] = queue[i + 1]
    BY <2>1, TailFacts
  <2> HIDE DEF t
  <2>4. /\ Append(t, e) \in Seq(Events) /\ Len(Append(t, e)) = Len(t) + 1
        /\ Append(t, e) # <<>> /\ Append(t, e)[Len(t) + 1] = e
        /\ \A i \in 1..Len(t) : Append(t, e)[i] = t[i]
    BY <2>3, AppendFacts
  <2> DEFINE n == Append(t, e)
  <2> HIDE DEF n
  <2>5. /\ n \in Seq(Events) /\ Len(n) = Len(queue) /\ n # <<>> /\ n[Len(n)] = e
        /\ \A i \in 1..(Len(queue) - 1) : n[i] = queue[i + 1]
    BY <2>3, <2>4 DEF n
  <2>6. Pushed(queue, e, 1, n)
    BY <2>1, <2>3, <2>5 DEF Pushed
  <2> QED BY <2>2, <2>6 DEF n
<1> QED BY <1>1, <1>2

\* What a broadcast does to the events a follower has yet to take.
Moved(q, e, d, nq) ==
    /\ Len(nq) \in 1..Len(nq) /\ Len(nq) \in Nat
    /\ \A i \in 1..Len(nq) : /\ i = Len(nq) => nq[i] = e
                             /\ i # Len(nq) => i + d \in 1..Len(q) /\ nq[i] = q[i + d]
    /\ \A j \in 1..Len(q) : j > d => j - d \in 1..(Len(nq) - 1) /\ nq[j - d] = q[j]

LEMMA PushedFacts ==
    ASSUME NEW q \in Seq(Events), NEW e, NEW d \in {0, 1}, NEW nq, Pushed(q, e, d, nq)
    PROVE  Moved(q, e, d, nq)
<1>1. /\ nq \in Seq(Events) /\ Len(q) \in Nat /\ Len(nq) = Len(q) + 1 - d
      /\ d = 1 => Len(q) >= 2
      /\ \A i \in 1..(Len(q) - d) : nq[i] = q[i + d]
      /\ nq[Len(nq)] = e
  BY DEF Pushed
<1>2. Len(nq) \in Nat /\ Len(nq) \in 1..Len(nq)
  BY <1>1
<1>3. ASSUME NEW i \in 1..Len(nq), i # Len(nq)
      PROVE  i + d \in 1..Len(q) /\ nq[i] = q[i + d]
  <2>1. i \in 1..(Len(q) - d) /\ i + d \in 1..Len(q)
    BY <1>1, <1>3
  <2> QED BY <1>1, <2>1
<1>4. ASSUME NEW j \in 1..Len(q), j > d
      PROVE  j - d \in 1..(Len(nq) - 1) /\ nq[j - d] = q[j]
  <2>1. j - d \in 1..(Len(q) - d) /\ (j - d) + d = j /\ j - d \in 1..(Len(nq) - 1)
    BY <1>1, <1>4
  <2> QED BY <1>1, <2>1
<1> QED BY <1>1, <1>2, <1>3, <1>4 DEF Moved

LEMMA BroadcastKeeps ==
    ASSUME DeviceInv, publishing # <<>>, publishing[1] \in Events,
           publishing' = Tail(publishing), UNCHANGED <<alive, session, status>>,
           Broadcast(publishing[1])
    PROVE  DeviceInv'
<1>1. UNCHANGED <<subscribed, over, view, asked, synced>>
  BY DEF Broadcast
<1>2. /\ publishing' \in Seq(Steps) /\ PublishingOK' /\ alive = "running"
      /\ 1 \in 1..Len(publishing) /\ Len(publishing) \in Nat
      /\ publishing[1].kind # "StatusChanged" =>
           /\ NoStatus(publishing') => NoStatus(publishing)
           /\ publishing' # <<>> => publishing'[1].kind # "Fault"
      /\ Len(publishing) >= 2 => publishing' # <<>> /\ publishing'[1] = publishing[2]
  <2>1. publishing[1].kind \in {"StatusChanged", "Reinitialized", "CashSale", "Fault"}
    BY DEF Events
  <2>2. status' = IF publishing[1].kind = "Set" THEN publishing[1].value ELSE status
    BY <2>1
  <2> QED BY <2>2, Dropped
<1>3. publishing[1].kind = "StatusChanged" => publishing[1].value = status
  BY <1>2 DEF DeviceInv, PublishingOK, PairsOK
<1>4. FailingOK'
  <2> SUFFICES ASSUME status = "Disconnected"
               PROVE  publishing' # <<>> /\ publishing'[1].kind \in {"Fault", "Close"}
    BY <1>2 DEF FailingOK
  <2>1. publishing[1].kind \in {"StatusChanged", "Fault"}
    BY DEF DeviceInv, FailingOK, Events
  <2>2. Len(publishing) >= 2 /\ publishing[1 + 1].kind \in {"Fault", "Close"}
    BY <1>2, <1>3, <2>1 DEF DeviceInv, PublishingOK, EndingOK
  <2>3. 1 + 1 = 2
    OBVIOUS
  <2> QED BY <1>2, <2>2, <2>3
<1>5. CASE ~subscribed
  <2>1. queue' = queue /\ missed' = missed /\ queue = <<>> /\ ~synced /\ ~asked
    BY <1>5 DEF Broadcast, DeviceInv, ObservedOK, FollowerOK
  <2>2. ObservedOK'
    BY <1>1, <1>2, <2>1 DEF DeviceInv, ObservedOK
  <2>3. LastStatusOK' /\ ViewOK' /\ FollowerOK' /\ FaultOK' /\ NoRumour'
    BY <1>1, <1>5, <2>1 DEF DeviceInv, LastStatusOK, ViewOK, FollowerOK, FaultOK, NoRumour
  <2> QED BY <1>2, <1>4, <2>2, <2>3 DEF DeviceInv
<1>6. CASE subscribed
  <2>1. PICK d \in {0, 1} : /\ Pushed(queue, publishing[1], d, queue')
                            /\ d = 1 => missed'
                            /\ d = 0 => missed' = missed
    BY <1>6, BroadcastFacts DEF DeviceInv, ObservedOK
  <2>2. missed' \in BOOLEAN
    BY <2>1 DEF Broadcast, DeviceInv, ObservedOK
  <2>3. /\ queue \in Seq(Events) /\ Len(queue) \in Nat
        /\ queue' \in Seq(Events) /\ queue' # <<>> /\ queue'[Len(queue')] = publishing[1]
        /\ Len(queue') \in 1..Len(queue') /\ Len(queue') \in Nat
        /\ Len(queue') = Len(queue) + 1 - d
        /\ \A i \in 1..Len(queue') :
             /\ i = Len(queue') => queue'[i] = publishing[1]
             /\ i # Len(queue') => i + d \in 1..Len(queue) /\ queue'[i] = queue[i + d]
        /\ \A j \in 1..Len(queue) :
             j > d => j - d \in 1..(Len(queue') - 1) /\ queue'[j - d] = queue[j]
        /\ d = 1 => Len(queue) >= 2
    <3> DEFINE nq == queue'
    <3> DEFINE e == publishing[1]
    <3>1. queue \in Seq(Events) /\ Pushed(queue, e, d, nq)
      BY <2>1 DEF DeviceInv, ObservedOK
    <3> HIDE DEF nq, e
    <3>2. Moved(queue, e, d, nq)
      BY <3>1, PushedFacts
    <3> QED BY <3>1, <3>2 DEF Pushed, Moved, nq, e
  <2>4. ObservedOK'
    BY <1>1, <1>2, <2>2, <2>3 DEF DeviceInv, ObservedOK
  <2>5. FollowerOK'
    BY <1>1, <1>2, <1>6, <2>3 DEF DeviceInv, FollowerOK
  <2>6. NoRumour'
    <3>1. ASSUME NEW i \in 1..Len(queue'), status # "Disconnected"
          PROVE  ~(queue'[i].kind = "StatusChanged" /\ queue'[i].value = "Disconnected")
      <4>1. CASE i = Len(queue')
        BY <1>3, <2>3, <3>1, <4>1
      <4>2. CASE i # Len(queue')
        BY <2>3, <3>1, <4>2 DEF DeviceInv, NoRumour
      <4> QED BY <4>1, <4>2
    <3> QED BY <1>1, <3>1 DEF DeviceInv, NoRumour
  <2>7. CASE publishing[1].kind = "StatusChanged"
    <3>1. LastStatusOK'
      <4> SUFFICES ASSUME NEW i \in 1..Len(queue'), queue'[i].kind = "StatusChanged",
                          \A j \in (i + 1)..Len(queue') : queue'[j].kind # "StatusChanged"
                   PROVE  queue'[i].value = status
        BY DEF LastStatusOK
      <4>1. i = Len(queue')
        <5> SUFFICES ASSUME i # Len(queue') PROVE FALSE
          OBVIOUS
        <5>1. Len(queue') \in (i + 1)..Len(queue')
          BY <2>3
        <5> QED BY <2>3, <2>7, <5>1
      <4> QED BY <1>3, <2>3, <2>7, <4>1
    <3>2. ~NoStatus(queue') /\ queue' # <<>> /\ queue'[Len(queue')].kind = "StatusChanged"
      BY <2>3, <2>7 DEF NoStatus
    <3>3. ViewOK' /\ FaultOK'
      BY <3>2 DEF ViewOK, FaultOK, NoStatus
    <3> QED BY <1>2, <1>4, <2>4, <2>5, <2>6, <3>1, <3>3 DEF DeviceInv
  <2>8. CASE publishing[1].kind # "StatusChanged"
    <3>1. LastStatusOK'
      <4> SUFFICES ASSUME NoStatus(publishing'), NEW i \in 1..Len(queue'),
                          queue'[i].kind = "StatusChanged",
                          \A j \in (i + 1)..Len(queue') : queue'[j].kind # "StatusChanged"
                   PROVE  queue'[i].value = status
        BY DEF LastStatusOK, NoStatus
      <4>1. i # Len(queue')
        BY <2>3, <2>8
      <4>2. i + d \in 1..Len(queue) /\ queue'[i] = queue[i + d]
        BY <2>3, <4>1
      <4>3. ASSUME NEW j \in ((i + d) + 1)..Len(queue) PROVE queue[j].kind # "StatusChanged"
        <5>1. j \in 1..Len(queue) /\ j > d /\ j - d \in (i + 1)..Len(queue')
          BY <2>3
        <5> QED BY <2>3, <5>1
      <4>4. NoStatus(publishing)
        BY <1>2, <2>8
      <4> QED BY <4>2, <4>3, <4>4 DEF DeviceInv, LastStatusOK
    <3>2. ASSUME NoStatus(queue'), NEW j \in 1..Len(queue), j > d
          PROVE  queue[j].kind # "StatusChanged"
      <4>1. j - d \in 1..(Len(queue') - 1) /\ queue'[j - d] = queue[j]
        BY <2>3, <3>2
      <4>2. j - d \in 1..Len(queue')
        BY <2>3, <4>1
      <4> QED BY <3>2, <4>1, <4>2 DEF NoStatus
    <3>3. ViewOK'
      <4> SUFFICES ASSUME NoStatus(publishing'), NoStatus(queue')
                   PROVE  /\ synced /\ ~missed' => view = status
                          /\ asked /\ status = "Disconnected" => view = "Disconnected"
        BY <1>1 DEF ViewOK, NoStatus
      <4>1. NoStatus(publishing)
        BY <1>2, <2>8
      <4>2. d = 0 => NoStatus(queue)
        BY <3>2 DEF NoStatus
      <4>3. synced /\ ~missed' => view = status
        BY <2>1, <4>1, <4>2 DEF DeviceInv, ViewOK
      <4>4. status = "Disconnected" => NoStatus(queue)
        <5> SUFFICES ASSUME status = "Disconnected" PROVE NoStatus(queue)
          OBVIOUS
        <5>1. publishing[1].kind = "Fault"
          BY <2>8 DEF DeviceInv, FailingOK, Events
        <5>2. NoStatus(queue) \/ (queue # <<>> /\ queue[Len(queue)].kind = "StatusChanged")
          BY <1>6, <5>1 DEF DeviceInv, FaultOK
        <5>3. queue # <<>> => Len(queue) \in 1..Len(queue) /\ Len(queue) > d
          BY <2>3, EmptySeq
        <5> QED BY <3>2, <5>2, <5>3
      <4> QED BY <4>1, <4>3, <4>4 DEF DeviceInv, ViewOK
    <3>4. FaultOK'
      BY <1>2, <2>8 DEF FaultOK
    <3> QED BY <1>2, <1>4, <2>4, <2>5, <2>6, <3>1, <3>3, <3>4 DEF DeviceInv
  <2> QED BY <2>7, <2>8
<1>7. subscribed \in BOOLEAN
  BY DEF DeviceInv, ObservedOK
<1> QED BY <1>5, <1>6, <1>7

LEMMA PublishKeeps ==
    ASSUME DeviceInv, Publish PROVE DeviceInv'
<1>1. publishing # <<>> /\ publishing' = Tail(publishing) /\ session' = session
  BY DEF Publish
<1>2. Head(publishing) = publishing[1] /\ publishing[1] \in Steps
  BY <1>1, TailFacts DEF DeviceInv, ObservedOK
<1>3. /\ status' = IF publishing[1].kind = "Set" THEN publishing[1].value ELSE status
      /\ alive' = IF publishing[1].kind = "Close" THEN "failed" ELSE alive
      /\ IF publishing[1] \in Events THEN Broadcast(publishing[1]) ELSE UNCHANGED readerVars
  BY <1>2 DEF Publish
<1>4. CASE publishing[1] \in Events
  <2>1. publishing[1].kind \notin {"Set", "Close"}
    BY <1>4 DEF Events
  <2> QED BY <1>1, <1>3, <1>4, <2>1, BroadcastKeeps
<1>5. CASE publishing[1] \notin Events
  <2>1. publishing[1].kind \in {"Set", "Return", "Close"}
    BY <1>2, <1>5 DEF Events, Steps, Kinds
  <2>2. CASE publishing[1].kind = "Set"
    BY <1>1, <1>3, <1>5, <2>2, SetKeeps
  <2>3. CASE publishing[1].kind = "Return"
    BY <1>1, <1>3, <1>5, <2>3, ReturnKeeps
  <2>4. CASE publishing[1].kind = "Close"
    BY <1>1, <1>3, <1>5, <2>4, CloseKeeps
  <2> QED BY <2>1, <2>2, <2>3, <2>4
<1> QED BY <1>4, <1>5

-----------------------------------------------------------------------------
(* What the follower does. *)

LEMMA SubscribeKeeps ==
    ASSUME DeviceInv, Subscribe PROVE DeviceInv'
<1>1. /\ subscribed' = TRUE /\ queue' = <<>> /\ missed' = FALSE /\ over' = FALSE
      /\ asked' = FALSE /\ synced' = FALSE
      /\ UNCHANGED <<alive, session, status, publishing, owner, view>>
  BY DEF Subscribe, actorVars
<1>2. ObservedOK' /\ PublishingOK' /\ FailingOK'
  <2>1. <<>> \in Seq(Events)
    BY EmptySeq
  <2> QED BY <1>1, <2>1 DEF DeviceInv, ObservedOK, PublishingOK, FailingOK
<1>3. LastStatusOK' /\ ViewOK' /\ FollowerOK' /\ FaultOK' /\ NoRumour'
  BY <1>1 DEF DeviceInv, LastStatusOK, ViewOK, FollowerOK, FaultOK, NoRumour, NoStatus
<1> QED BY <1>2, <1>3 DEF DeviceInv

LEMMA ReadStatusKeeps ==
    ASSUME DeviceInv, ReadStatus PROVE DeviceInv'
<1>1. /\ view' = status /\ asked' = subscribed /\ synced' = subscribed
      /\ UNCHANGED <<alive, session, status, publishing, owner, queue, missed, subscribed, over>>
  BY DEF ReadStatus, actorVars
<1>2. ObservedOK' /\ PublishingOK' /\ FailingOK'
  BY <1>1 DEF DeviceInv, ObservedOK, PublishingOK, FailingOK
<1>3. LastStatusOK' /\ ViewOK' /\ FollowerOK' /\ FaultOK' /\ NoRumour'
  BY <1>1 DEF DeviceInv, LastStatusOK, ViewOK, FollowerOK, FaultOK, NoRumour, NoStatus
<1> QED BY <1>2, <1>3 DEF DeviceInv

LEMMA NextEventKeeps ==
    ASSUME DeviceInv, NextEvent PROVE DeviceInv'
<1>1. UNCHANGED <<alive, session, status, publishing, owner, subscribed, asked>>
  BY DEF NextEvent, actorVars
<1>2. PublishingOK' /\ FailingOK'
  BY <1>1 DEF DeviceInv, PublishingOK, FailingOK
<1>3. CASE queue = <<>> /\ alive # "running" /\ over' = TRUE
           /\ UNCHANGED <<queue, missed, view, synced>>
  BY <1>1, <1>2, <1>3 DEF DeviceInv, ObservedOK, LastStatusOK, ViewOK, FollowerOK, FaultOK,
                          NoRumour, NoStatus
<1>4. CASE /\ queue # <<>> /\ queue' = Tail(queue) /\ Believe
           /\ missed' = FALSE /\ synced' = (synced /\ ~missed) /\ over' = over
  <2>1. /\ queue' \in Seq(Events) /\ Len(queue) \in Nat /\ Len(queue) >= 1
        /\ Len(queue') = Len(queue) - 1
        /\ \A i \in 1..Len(queue') : queue'[i] = queue[i + 1]
        /\ Head(queue) = queue[1] /\ 1 \in 1..Len(queue)
    BY <1>4, TailFacts DEF DeviceInv, ObservedOK
  <2>2. view' = IF queue[1].kind = "StatusChanged" THEN queue[1].value ELSE view
    BY <1>4, <2>1 DEF Believe, IsStatus
  <2>3. ASSUME NEW i \in 1..Len(queue), i # 1
        PROVE  i - 1 \in 1..Len(queue') /\ queue'[i - 1] = queue[i]
    <3>1. i - 1 \in 1..Len(queue') /\ (i - 1) + 1 = i
      BY <2>1, <2>3
    <3> QED BY <2>1, <3>1
  <2>4. ObservedOK'
    BY <1>1, <1>4, <2>1 DEF DeviceInv, ObservedOK
  <2>5. LastStatusOK'
    <3> SUFFICES ASSUME NoStatus(publishing), NEW i \in 1..Len(queue'),
                        queue'[i].kind = "StatusChanged",
                        \A j \in (i + 1)..Len(queue') : queue'[j].kind # "StatusChanged"
                 PROVE  queue'[i].value = status
      BY <1>1 DEF LastStatusOK, NoStatus
    <3>1. i + 1 \in 1..Len(queue) /\ queue'[i] = queue[i + 1]
      BY <2>1
    <3>2. ASSUME NEW j \in ((i + 1) + 1)..Len(queue) PROVE queue[j].kind # "StatusChanged"
      <4>1. j \in 1..Len(queue) /\ j # 1 /\ j - 1 \in (i + 1)..Len(queue')
        BY <2>1
      <4> QED BY <4>1, <2>3
    <3> QED BY <3>1, <3>2 DEF DeviceInv, LastStatusOK
  <2>6. NoStatus(queue') => \A j \in 2..Len(queue) : queue[j].kind # "StatusChanged"
    <3> SUFFICES ASSUME NoStatus(queue'), NEW j \in 2..Len(queue)
                 PROVE  queue[j].kind # "StatusChanged"
      OBVIOUS
    <3>1. j \in 1..Len(queue) /\ j # 1
      BY <2>1
    <3> QED BY <3>1, <2>3 DEF NoStatus
  <2>7. ViewOK'
    <3> SUFFICES ASSUME NoStatus(publishing), NoStatus(queue')
                 PROVE  /\ synced' /\ ~missed' => view' = status
                        /\ asked /\ status = "Disconnected" => view' = "Disconnected"
      BY <1>1 DEF ViewOK, NoStatus
    <3>1. CASE queue[1].kind = "StatusChanged"
      <4>1. \A j \in (1 + 1)..Len(queue) : queue[j].kind # "StatusChanged"
        BY <2>1, <2>6
      <4>2. queue[1].value = status
        BY <2>1, <3>1, <4>1 DEF DeviceInv, LastStatusOK
      <4> QED BY <2>2, <3>1, <4>2
    <3>2. CASE queue[1].kind # "StatusChanged"
      <4>1. ASSUME NEW i \in 1..Len(queue) PROVE queue[i].kind # "StatusChanged"
        <5>1. i = 1 \/ i \in 2..Len(queue)
          BY <2>1
        <5> QED BY <5>1, <2>6, <3>2
      <4>2. NoStatus(queue)
        BY <4>1 DEF NoStatus
      <4> QED BY <1>4, <2>2, <3>2, <4>2 DEF DeviceInv, ViewOK
    <3> QED BY <3>1, <3>2
  <2>8. FollowerOK'
    BY <1>1, <1>4 DEF DeviceInv, FollowerOK
  <2>9. FaultOK'
    <3> SUFFICES ASSUME subscribed, publishing # <<>>, publishing[1].kind = "Fault"
                 PROVE  NoStatus(queue') \/ (queue' # <<>> /\ queue'[Len(queue')].kind = "StatusChanged")
      BY <1>1 DEF FaultOK, NoStatus
    <3>1. CASE NoStatus(queue)
      <4>1. ASSUME NEW i \in 1..Len(queue') PROVE queue'[i].kind # "StatusChanged"
        <5>1. i + 1 \in 1..Len(queue)
          BY <2>1
        <5> QED BY <5>1, <2>1, <3>1 DEF NoStatus
      <4> QED BY <4>1 DEF NoStatus
    <3>2. CASE queue[Len(queue)].kind = "StatusChanged" /\ Len(queue) = 1
      BY <2>1, <3>2 DEF NoStatus
    <3>3. CASE queue[Len(queue)].kind = "StatusChanged" /\ Len(queue) # 1
      <4>1. Len(queue) \in 1..Len(queue) /\ Len(queue') >= 1
        BY <2>1, <3>3
      <4>2. queue'[Len(queue')] = queue[Len(queue)] /\ queue' # <<>>
        BY <2>1, <2>3, <3>3, <4>1
      <4> QED BY <3>3, <4>2
    <3> QED BY <3>1, <3>2, <3>3 DEF DeviceInv, FaultOK
  <2>10. NoRumour'
    <3>1. ASSUME NEW i \in 1..Len(queue'), status # "Disconnected"
          PROVE  ~(queue'[i].kind = "StatusChanged" /\ queue'[i].value = "Disconnected")
      <4>1. i + 1 \in 1..Len(queue) /\ queue'[i] = queue[i + 1]
        BY <2>1
      <4> QED BY <3>1, <4>1 DEF DeviceInv, NoRumour
    <3>2. status # "Disconnected" => view' # "Disconnected"
      BY <2>1, <2>2 DEF DeviceInv, NoRumour
    <3> QED BY <1>1, <3>1, <3>2 DEF NoRumour
  <2> QED BY <1>2, <2>4, <2>5, <2>7, <2>8, <2>9, <2>10 DEF DeviceInv
<1> QED BY <1>3, <1>4 DEF NextEvent, next_event

-----------------------------------------------------------------------------
(* The specification. *)

LEMMA DeviceInvStep ==
    DeviceInv /\ [DeviceNext]_deviceVars => DeviceInv'
<1> SUFFICES ASSUME DeviceInv, [DeviceNext]_deviceVars PROVE DeviceInv'
  OBVIOUS
<1>1. session \in BOOLEAN
  BY DEF DeviceInv, ObservedOK
<1>2. CASE DisplayMessage
  BY <1>1, <1>2, NothingPublishedKeeps DEF DisplayMessage
<1>3. CASE ExitDeadline
  BY <1>3, NothingPublishedKeeps DEF ExitDeadline
<1>4. CASE Finish
  BY <1>1, <1>4, NothingPublishedKeeps DEF Finish, actorVars
<1>5. CASE FinishAnswered
  BY <1>1, <1>5, NothingPublishedKeeps DEF FinishAnswered, actorVars
<1>6. CASE Stopped \/ UNCHANGED deviceVars
  BY <1>1, <1>6, NothingPublishedKeeps DEF Stopped, deviceVars, actorVars
<1> QED
  BY <1>2, <1>3, <1>4, <1>5, <1>6, PublishKeeps, ReceiveEventKeeps, BeginSessionKeeps,
     CompleteActiveKeeps, FailKeeps, ExitKeeps, SubscribeKeeps, ReadStatusKeeps,
     NextEventKeeps, LetGoKeeps
     DEF DeviceNext

\* publish_status, fail and next_event keep the watch channel and the broadcast
\* channel in step: the invariant the two theorems below rest on.
THEOREM ObserversStayInStep == DeviceSpec => []DeviceInv
<1>1. DeviceInit => DeviceInv
  BY DeviceInvInit
<1>2. DeviceInv /\ [DeviceNext]_deviceVars => DeviceInv'
  BY DeviceInvStep
<1> QED BY <1>1, <1>2, PTL DEF DeviceSpec

\* An application that subscribed, read status() and then took every event
\* without a lag holds the reader's status, for every length of the broadcast
\* ring: publish_status stores before it sends, and handlers do not overlap.
THEOREM FollowerConverges == DeviceSpec => []ViewConverges
<1>1. DeviceInv => ViewConverges
  <2> SUFFICES ASSUME DeviceInv, synced, queue = <<>>, publishing = <<>>
               PROVE  view = status
    BY DEF ViewConverges
  <2>1. NoStatus(publishing) /\ NoStatus(queue)
    BY DEF NoStatus
  <2>2. ~missed
    BY DEF DeviceInv, FollowerOK
  <2> QED BY <2>1, <2>2 DEF DeviceInv, ViewOK
<1> QED BY <1>1, ObserversStayInStep, PTL

\* When DeviceEvents::next_event returns Disconnected to an application that
\* asked for the status once, what it last heard of tells a reader that failed
\* from one that was closed, however many events the ring overwrote: Actor::fail
\* sends the status last but one, and a ring holds two events at least.
THEOREM FollowerKnowsTheEnd == DeviceSpec => []EndUnderstood
<1>1. DeviceInv => EndUnderstood
  <2> SUFFICES ASSUME DeviceInv, over, asked
               PROVE  alive = "failed" <=> view = "Disconnected"
    BY DEF EndUnderstood
  <2>1. queue = <<>> /\ alive # "running" /\ publishing = <<>>
    BY DEF DeviceInv, FollowerOK, FailingOK
  <2>2. NoStatus(publishing) /\ NoStatus(queue)
    BY <2>1 DEF NoStatus
  <2>3. alive = "failed" <=> status = "Disconnected"
    BY <2>1 DEF DeviceInv, FailingOK
  <2>4. status = "Disconnected" <=> view = "Disconnected"
    BY <2>2 DEF DeviceInv, ViewOK, NoRumour
  <2> QED BY <2>3, <2>4
<1> QED BY <1>1, ObserversStayInStep, PTL
-----------------------------------------------------------------------------
(* The display.                                                             *)

\* The display is that of the last SETUP, or the configured one.
DisplayOK ==
    /\ setup = <<>> => display = Fallback
    /\ setup # <<>> =>
         /\ setup[2] \in Bytes /\ setup[3] \in Bytes
         /\ display = from_setup(setup[2], setup[3], setup[4])
    /\ DisplayHonoured

\* One number ahead of others.
LEMMA Behind ==
    ASSUME NEW s \in Seq(Nat), Len(s) = 1, NEW t \in Seq(Nat), NEW n \in Nat, Len(t) = n
    PROVE  /\ s \o t \in Seq(Nat) /\ Len(s \o t) = n + 1
           /\ \A i \in 2..(n + 1) : (s \o t)[i] = t[i - 1]
<1> DEFINE st == s \o t
<1>1. /\ st \in Seq(Nat) /\ Len(st) = 1 + n
      /\ \A i \in 1..(1 + n) : st[i] = IF i <= 1 THEN s[i] ELSE t[i - 1]
  <2>1. /\ st \in Seq(Nat) /\ Len(st) = Len(s) + Len(t)
        /\ \A i \in 1..(Len(s) + Len(t)) : st[i] = IF i <= Len(s) THEN s[i] ELSE t[i - Len(s)]
    BY ConcatProperties
  <2> QED BY <2>1
<1> HIDE DEF st
<1>2. \A i \in 2..(n + 1) : i \in 1..(1 + n) /\ ~(i <= 1)
  OBVIOUS
<1>3. \A i \in 2..(n + 1) : st[i] = t[i - 1]
  BY <1>1, <1>2
<1> QED BY <1>1, <1>3 DEF st

\* A request padded to the capacity fits.
LEMMA PaddedFits ==
    ASSUME NEW columns \in Bytes, NEW rows \in Bytes, NEW set, NEW text \in Seq(Nat),
           \A i \in DOMAIN text : text[i] \in CharacterSet(set)
    PROVE  LET numbers == <<DISPLAY_TIME_MAX>> \o Padded(text, capacity(columns, rows))
           IN  /\ frame("DisplayRequest", numbers) \in Seq(Nat)
               /\ Fits(frame("DisplayRequest", numbers), columns, rows, set)
<1> DEFINE n == capacity(columns, rows)
           padded == Padded(text, n)
           head == <<DISPLAY_TIME_MAX>>
           numbers == head \o padded
           code == <<2>>
           said == code \o numbers
           sum == checksum(said)
           bytes == Append(said, sum)
<1>1. n \in Nat /\ n <= 32
  <2>1. columns * rows \in Nat
    BY DEF Bytes
  <2> QED BY <2>1 DEF capacity, MAX_DISPLAY_DATA_LENGTH
<1>2. \A i \in 1..n : padded[i] \in CharacterSet(set) /\ padded[i] \in Nat
  <2> SUFFICES ASSUME NEW i \in 1..n
               PROVE  padded[i] \in CharacterSet(set) /\ padded[i] \in Nat
    OBVIOUS
  <2>1. padded[i] = IF i <= Len(text) THEN text[i] ELSE 32
    BY DEF Padded
  <2>2. 32 \in CharacterSet(set)
    BY DEF CharacterSet
  <2>3. i <= Len(text) => i \in DOMAIN text /\ text[i] \in Nat
    BY <1>1, LenProperties, ElementOfSeq
  <2> QED BY <2>1, <2>2, <2>3
<1>3. padded \in Seq(Nat) /\ Len(padded) = n
  <2>1. padded \in [1..n -> Nat]
    BY <1>2 DEF Padded
  <2> QED BY <1>1, <2>1, IsASeq, LenProperties
<1> HIDE DEF n, padded
<1>4. head \in Seq(Nat) /\ Len(head) = 1 /\ code \in Seq(Nat) /\ Len(code) = 1 /\ code[1] = 2
  BY DEF DISPLAY_TIME_MAX
<1> HIDE DEF head, code
<1>5. /\ numbers \in Seq(Nat) /\ Len(numbers) = n + 1
      /\ \A i \in 2..(n + 1) : numbers[i] = padded[i - 1]
  BY <1>1, <1>3, <1>4, Behind
<1> HIDE DEF numbers
<1>6. /\ said \in Seq(Nat) /\ Len(said) = n + 2
      /\ \A i \in 3..(n + 2) : said[i] = padded[i - 2]
  <2>1. /\ said \in Seq(Nat) /\ Len(said) = n + 2
        /\ \A i \in 2..(n + 2) : said[i] = numbers[i - 1]
    <3>1. n + 1 \in Nat /\ (n + 1) + 1 = n + 2
      BY <1>1
    <3>2. /\ said \in Seq(Nat) /\ Len(said) = (n + 1) + 1
          /\ \A i \in 2..((n + 1) + 1) : said[i] = numbers[i - 1]
      BY <1>4, <1>5, <3>1, Behind
    <3> QED BY <3>1, <3>2
  <2>2. ASSUME NEW i \in 3..(n + 2) PROVE said[i] = padded[i - 2]
    <3>1. i - 1 \in 2..(n + 1) /\ (i - 1) - 1 = i - 2 /\ i \in 2..(n + 2)
      BY <1>1
    <3> QED BY <1>5, <2>1, <3>1
  <2> QED BY <2>1, <2>2
<1>11. sum \in Nat
  <2> HIDE DEF said
  <2>1. checksum(said) \in Bytes
    BY <1>6, ChecksumType
  <2> QED BY <2>1, BytesAreNumbers
<1> HIDE DEF said, sum
<1>7. /\ bytes \in Seq(Nat) /\ Len(bytes) = n + 3
      /\ \A i \in 1..(n + 2) : bytes[i] = said[i]
  BY <1>1, <1>6, <1>11, AppendProperties
<1>8. frame("DisplayRequest", <<DISPLAY_TIME_MAX>> \o padded) = bytes
  BY DEF frame, payload, head, numbers, code, said, sum
<1> HIDE DEF bytes
<1>9. \A i \in 3..(n + 2) : bytes[i] \in CharacterSet(set)
  <2> SUFFICES ASSUME NEW i \in 3..(n + 2) PROVE bytes[i] \in CharacterSet(set)
    OBVIOUS
  <2>1. i - 2 \in 1..n /\ i \in 1..(n + 2)
    BY <1>1
  <2> QED BY <1>2, <1>6, <1>7, <2>1
<1>10. Fits(bytes, columns, rows, set)
  <2>1. Len(bytes) = n + 3 /\ Len(bytes) <= MAX_DISPLAY_DATA_LENGTH + 3 /\ Len(bytes) - 1 = n + 2
    BY <1>1, <1>7 DEF MAX_DISPLAY_DATA_LENGTH
  <2> QED BY <1>9, <2>1 DEF Fits, n
<1> QED BY <1>7, <1>8, <1>10 DEF padded, n

LEMMA DisplayKept ==
    ASSUME DisplayOK, UNCHANGED <<display, setup>>, written' = written \/ written' = <<>>
    PROVE  DisplayOK'
BY DEF DisplayOK, DisplayHonoured

\* A BEGIN SESSION has the code of one.
LEMMA BeginSessionFrame ==
    LET bytes == frame("BeginSession", <<UNKNOWN_AMOUNT>>)
    IN  bytes \in Seq(Nat) /\ bytes[1] = 3
<1> DEFINE said == <<3>> \o Halves(65535)
           sum == checksum(said)
<1>1. said \in Seq(Nat) /\ Len(said) \in Nat /\ Len(said) >= 1 /\ said[1] = 3
  <2> DEFINE code == <<3>>
             halves == Halves(65535)
  <2>1. code \in Seq(Nat) /\ Len(code) = 1 /\ code[1] = 3
    OBVIOUS
  <2>2. halves \in Seq(Nat) /\ Len(halves) = 2
    BY DEF Halves
  <2>3. said = code \o halves
    OBVIOUS
  <2> HIDE DEF code, halves
  <2>4. /\ code \o halves \in Seq(Nat) /\ Len(code \o halves) = Len(code) + Len(halves)
        /\ \A i \in 1..(Len(code) + Len(halves)) :
             (code \o halves)[i] = IF i <= Len(code) THEN code[i] ELSE halves[i - Len(code)]
    BY <2>1, <2>2, ConcatProperties
  <2> HIDE DEF said
  <2> QED BY <2>1, <2>2, <2>3, <2>4
<1>2. frame("BeginSession", <<UNKNOWN_AMOUNT>>) = Append(said, sum)
  BY DEF frame, payload, UNKNOWN_AMOUNT
<1>3. sum \in Nat
  <2> HIDE DEF said
  <2>1. checksum(said) \in Bytes
    BY <1>1, ChecksumType
  <2> QED BY <2>1 DEF Bytes
<1> HIDE DEF said, sum
<1>4. Append(said, sum) \in Seq(Nat) /\ Append(said, sum)[1] = said[1]
  BY <1>1, <1>3, AppendProperties
<1> QED BY <1>1, <1>2, <1>4

LEMMA ReceiveEventHonours ==
    ASSUME DisplayOK, ReceiveEvent PROVE DisplayOK'
<1>1. PICK bytes \in Incoming : handle_vmc_event(parse_adapter_message(bytes))
  BY DEF ReceiveEvent
<1>2. written' = <<>>
  BY DEF ReceiveEvent, Writes
<1> DEFINE message == parse_adapter_message(bytes)
<1>3. CASE UNCHANGED <<display, setup>>
  BY <1>2, <1>3, DisplayKept
<1>4. CASE handle_reset
  BY <1>2, <1>4 DEF handle_reset, DisplayOK, DisplayHonoured
<1>5. CASE message.name = "SetupConfiguration" /\ handle_setup_configuration(message.numbers)
  <2>1. bytes \in Seq(Bytes)
    BY InputAssumption
  <2>2. message.numbers # <<>> /\ message.numbers[2] \in Bytes /\ message.numbers[3] \in Bytes
    BY <1>5, <2>1, SetupNumbers
  <2> HIDE DEF message
  <2> QED BY <1>2, <1>5, <2>2 DEF handle_setup_configuration, DisplayOK, DisplayHonoured
<1> QED
  BY <1>1, <1>3, <1>4, <1>5 DEF handle_vmc_event, handle_reader_control, handle_cash_sale

LEMMA BeginSessionHonours ==
    ASSUME DisplayOK, BeginSession PROVE DisplayOK'
<1>1. written'[1] = 3
  BY BeginSessionFrame DEF BeginSession, Writes
<1> QED BY <1>1 DEF BeginSession, DisplayOK, DisplayHonoured

LEMMA DisplayMessageHonours ==
    ASSUME DisplayOK, DisplayMessage PROVE DisplayOK'
<1>1. /\ display.kind = "Available" /\ UNCHANGED <<display, setup>>
      /\ \E text \in Texts :
           /\ \A i \in DOMAIN text : text[i] \in CharacterSet(display.characterSet)
           /\ written' = frame("DisplayRequest",
                <<DISPLAY_TIME_MAX>> \o Padded(text, capacity(display.columns, display.rows)))
  BY DEF DisplayMessage, Writes
<1>2. \A text \in Texts : text \in Seq(Nat)
  BY InputAssumption
<1>3. ASSUME display.columns \in Bytes, display.rows \in Bytes
      PROVE  Fits(written', display.columns, display.rows, display.characterSet)
  BY <1>1, <1>2, <1>3, PaddedFits
<1>4. CASE setup = <<>>
  <2>1. display = Fallback
    BY <1>4 DEF DisplayOK
  <2>2. Fallback.columns \in Bytes /\ Fallback.rows \in Bytes
    BY <1>1, <2>1, FallbackAssumption DEF Displays, Missing, Available
  <2> QED BY <1>1, <1>3, <1>4, <2>1, <2>2 DEF DisplayOK, DisplayHonoured
<1>5. CASE setup # <<>>
  <2>1. /\ setup[2] \in Bytes /\ setup[3] \in Bytes
        /\ display = from_setup(setup[2], setup[3], setup[4])
    BY <1>5 DEF DisplayOK
  <2>2. /\ display.columns = setup[2] /\ display.rows = setup[3]
        /\ display.characterSet = setup[4]
    BY <1>1, <2>1 DEF from_setup, Missing, Available
  <2> QED BY <1>1, <1>3, <1>5, <2>1, <2>2 DEF DisplayOK, DisplayHonoured
<1> QED BY <1>4, <1>5

\* Every DISPLAY REQUEST MdbDevice and MdbSession write is exactly as long as
\* the display of the last SETUP has room, for every size, character set and
\* text: display_message validates against the state that handle_reset and
\* handle_setup_configuration keep.
THEOREM DisplayAlwaysHonoured == DeviceSpec => []DisplayHonoured
<1>1. DeviceInit => DisplayOK
  BY DEF DeviceInit, DisplayOK, DisplayHonoured
<1>2. DisplayOK /\ [DeviceNext]_deviceVars => DisplayOK'
  <2> SUFFICES ASSUME DisplayOK, [DeviceNext]_deviceVars PROVE DisplayOK'
    OBVIOUS
  <2>1. CASE Publish \/ CompleteActive \/ Fail \/ ExitDeadline \/ Exit
    BY <2>1, DisplayKept DEF Publish, CompleteActive, Fail, ExitDeadline, Exit, Writes
  <2>2. CASE Subscribe \/ ReadStatus \/ NextEvent \/ Finish \/ FinishAnswered \/ LetGo
    BY <2>2, DisplayKept
       DEF Subscribe, ReadStatus, NextEvent, Finish, FinishAnswered, LetGo, actorVars
  <2>3. CASE Stopped \/ UNCHANGED deviceVars
    BY <2>3, DisplayKept DEF Stopped, deviceVars, actorVars
  <2> QED
    BY <2>1, <2>2, <2>3, ReceiveEventHonours, BeginSessionHonours, DisplayMessageHonours
       DEF DeviceNext
<1>3. DisplayOK => DisplayHonoured
  BY DEF DisplayOK
<1> QED BY <1>1, <1>2, <1>3, PTL DEF DeviceSpec
-----------------------------------------------------------------------------
(* Types.                                                                   *)

\* What is published says what its kind promises.
RightSteps ==
    {e \in Steps : /\ e.kind \in {"Set", "StatusChanged"} => e.value \in Statuses
                   /\ e.kind = "Return" => e.value \in {"device", "gone"}}

DeviceTypes ==
    /\ status \in Statuses /\ owner \in Owners /\ view \in Statuses \union {"None"}
    /\ display \in Displays
    /\ publishing \in Seq(RightSteps) /\ queue \in Seq(RightSteps)
    /\ written \in Seq(Nat) /\ setup \in Seq(Nat)

LEMMA RightStep ==
    /\ \A s \in Statuses : Step("Set", s) \in RightSteps /\ Step("StatusChanged", s) \in RightSteps
    /\ \A h \in {"device", "gone"} : Step("Return", h) \in RightSteps
    /\ \A k \in {"Reinitialized", "CashSale", "Fault", "Close"} : Step(k, "") \in RightSteps
<1>1. ASSUME NEW k \in Kinds, NEW v \in Statuses \union {"", "device", "gone", "failed"},
             k \in {"Set", "StatusChanged"} => v \in Statuses,
             k = "Return" => v \in {"device", "gone"}
      PROVE  Step(k, v) \in RightSteps
  BY <1>1, StepType DEF RightSteps
<1>2. ASSUME NEW s \in Statuses
      PROVE  Step("Set", s) \in RightSteps /\ Step("StatusChanged", s) \in RightSteps
  BY <1>1 DEF Kinds
<1>3. ASSUME NEW h \in {"device", "gone"} PROVE Step("Return", h) \in RightSteps
  BY <1>1 DEF Kinds
<1>4. ASSUME NEW k \in {"Reinitialized", "CashSale", "Fault", "Close"}
      PROVE  Step(k, "") \in RightSteps
  BY <1>1 DEF Kinds
<1> QED BY <1>2, <1>3, <1>4

LEMMA RightPublications ==
    /\ <<>> \in Seq(RightSteps)
    /\ \A s \in Statuses : publish_status(s) \in Seq(RightSteps)
    /\ \A h \in {"device", "gone"} : AnswerFinish(h) \in Seq(RightSteps)
    /\ <<Step("Reinitialized", "")>> \in Seq(RightSteps)
    /\ <<Step("CashSale", "")>> \in Seq(RightSteps)
    /\ <<Step("Fault", ""), Step("Close", "")>> \in Seq(RightSteps)
<1>1. \A a, b \in RightSteps : <<a>> \in Seq(RightSteps) /\ <<a, b>> \in Seq(RightSteps)
  OBVIOUS
<1>2. ASSUME NEW s \in Statuses PROVE publish_status(s) \in Seq(RightSteps)
  <2> DEFINE a == Step("Set", s)
             b == Step("StatusChanged", s)
  <2>1. a \in RightSteps /\ b \in RightSteps
    BY RightStep
  <2>2. publish_status(s) = <<a, b>>
    BY DEF publish_status
  <2> HIDE DEF a, b
  <2> QED BY <1>1, <2>1, <2>2
<1>3. ASSUME NEW h \in {"device", "gone"} PROVE AnswerFinish(h) \in Seq(RightSteps)
  <2>1. <<Step("Return", h)>> \in Seq(RightSteps)
    BY <1>1, RightStep
  <2>2. <<>> \in Seq(RightSteps)
    BY EmptySeq
  <2> QED BY <2>1, <2>2, Zenon DEF AnswerFinish
<1>4. /\ <<Step("Reinitialized", "")>> \in Seq(RightSteps)
      /\ <<Step("CashSale", "")>> \in Seq(RightSteps)
      /\ <<Step("Fault", ""), Step("Close", "")>> \in Seq(RightSteps)
  <2>1. /\ Step("Reinitialized", "") \in RightSteps /\ Step("CashSale", "") \in RightSteps
        /\ Step("Fault", "") \in RightSteps /\ Step("Close", "") \in RightSteps
    BY RightStep
  <2> QED BY <1>1, <2>1, Zenon
<1> QED BY <1>2, <1>3, <1>4, EmptySeq

LEMMA MissingDisplay ==
    \A kind \in {"Unavailable", "Unsupported", "Unknown"} : Missing(kind) \in Displays
BY DEF Displays

\* A SETUP of any size and character set gives a DisplayState.
LEMMA SetupDisplay ==
    ASSUME NEW columns \in Bytes, NEW rows \in Bytes, NEW characterSet
    PROVE  from_setup(columns, rows, characterSet) \in Displays
<1>1. CASE columns = 0 \/ rows = 0
  BY <1>1, MissingDisplay DEF from_setup
<1>2. CASE ~(columns = 0 \/ rows = 0) /\ characterSet \in {0, 1}
  <2>1. Available(columns, rows, characterSet) \in Displays
    BY <1>2 DEF Available, Displays
  <2> QED BY <1>2, <2>1 DEF from_setup
<1>3. CASE ~(columns = 0 \/ rows = 0) /\ characterSet \notin {0, 1}
  BY <1>3, MissingDisplay DEF from_setup
<1> QED BY <1>1, <1>2, <1>3

LEMMA TypesInit == DeviceInit => DeviceTypes
BY FallbackAssumption, EmptySeq DEF DeviceInit, DeviceTypes, Statuses, Owners

LEMMA ReceiveEventTypes ==
    ASSUME DeviceTypes, ReceiveEvent PROVE DeviceTypes'
<1>1. PICK bytes \in Incoming : handle_vmc_event(parse_adapter_message(bytes))
  BY DEF ReceiveEvent
<1> DEFINE message == parse_adapter_message(bytes)
<1>2. /\ UNCHANGED <<status, owner, queue, view>> /\ written' = <<>>
      /\ written' \in Seq(Nat)
  BY EmptySeq DEF ReceiveEvent, Writes, readerVars
<1>3. /\ "Inactive" \in Statuses /\ "Disabled" \in Statuses /\ "Enabled" \in Statuses
  BY DEF Statuses
<1>4. CASE handle_reset
  <2>1. /\ AnswerFinish("device") \in Seq(RightSteps)
        /\ publish_status("Inactive") \in Seq(RightSteps)
        /\ <<Step("Reinitialized", "")>> \in Seq(RightSteps)
    BY <1>3, RightPublications
  <2>2. publishing' \in Seq(RightSteps)
    BY <1>4, <2>1, ConcatProperties DEF handle_reset
  <2>3. display' \in Displays /\ setup' \in Seq(Nat)
    BY <1>4, FallbackAssumption, EmptySeq DEF handle_reset
  <2> QED BY <1>2, <2>2, <2>3 DEF DeviceTypes
<1>5. CASE message.name = "SetupConfiguration" /\ handle_setup_configuration(message.numbers)
  <2>1. bytes \in Seq(Bytes)
    BY InputAssumption
  <2>2. /\ message.numbers \in Seq(Nat) /\ message.numbers[2] \in Bytes
        /\ message.numbers[3] \in Bytes
    BY <1>5, <2>1, SetupNumbers
  <2> HIDE DEF message
  <2>3. display' \in Displays
    BY <1>5, <2>2, SetupDisplay DEF handle_setup_configuration
  <2>4. publishing' \in Seq(RightSteps)
    BY <1>3, <1>5, RightPublications DEF handle_setup_configuration
  <2>5. setup' \in Seq(Nat)
    BY <1>5, <2>2 DEF handle_setup_configuration
  <2> QED BY <1>2, <2>3, <2>4, <2>5 DEF DeviceTypes
<1>6. CASE handle_reader_control("Enabled") \/ handle_reader_control("Disabled") \/ handle_cash_sale
  <2>1. publishing' \in Seq(RightSteps) /\ UNCHANGED <<display, setup>>
    BY <1>3, <1>6, RightPublications DEF handle_reader_control, handle_cash_sale
  <2> QED BY <1>2, <2>1 DEF DeviceTypes
<1> QED BY <1>1, <1>4, <1>5, <1>6 DEF handle_vmc_event

LEMMA DisplayMessageTypes ==
    ASSUME DeviceTypes, DisplayMessage PROVE DeviceTypes'
<1>1. PICK text \in Texts :
        /\ \A i \in DOMAIN text : text[i] \in CharacterSet(display.characterSet)
        /\ written' = frame("DisplayRequest",
             <<DISPLAY_TIME_MAX>> \o Padded(text, capacity(display.columns, display.rows)))
  BY DEF DisplayMessage, Writes
<1>2. display.columns \in Bytes /\ display.rows \in Bytes
  BY DEF DisplayMessage, DeviceTypes, Displays, Missing, Available
<1>3. text \in Seq(Nat)
  BY InputAssumption
<1>4. written' \in Seq(Nat)
  BY <1>1, <1>2, <1>3, PaddedFits
<1> QED BY <1>4 DEF DisplayMessage, DeviceTypes, readerVars

LEMMA HandlerTypes ==
    ASSUME DeviceTypes, BeginSession \/ CompleteActive \/ Fail \/ ExitDeadline \/ Exit
    PROVE  DeviceTypes'
<1>1. /\ UNCHANGED <<status, display, setup, readerVars>>
      /\ owner' \in Owners
      /\ written' \in Seq(Nat)
  BY BeginSessionFrame, EmptySeq
     DEF BeginSession, CompleteActive, Fail, ExitDeadline, Exit, Writes, DeviceTypes, Owners
<1>2. publishing' \in Seq(RightSteps)
  <2>1. "SessionActive" \in Statuses /\ "Enabled" \in Statuses /\ "Disconnected" \in Statuses
    BY DEF Statuses
  <2>2. CASE BeginSession
    BY <2>1, <2>2, RightPublications DEF BeginSession
  <2>3. CASE CompleteActive
    <3>1. AnswerFinish("device") \in Seq(RightSteps) /\ publish_status("Enabled") \in Seq(RightSteps)
      BY <2>1, RightPublications
    <3> QED BY <2>3, <3>1, ConcatProperties DEF CompleteActive
  <2>4. CASE Fail
    <3>1. /\ AnswerFinish("gone") \in Seq(RightSteps)
          /\ publish_status("Disconnected") \in Seq(RightSteps)
          /\ <<Step("Fault", ""), Step("Close", "")>> \in Seq(RightSteps)
      BY <2>1, RightPublications
    <3> QED BY <2>4, <3>1, ConcatProperties DEF Fail
  <2>5. CASE ExitDeadline \/ Exit
    BY <2>5 DEF ExitDeadline, Exit, DeviceTypes
  <2> QED BY <2>2, <2>3, <2>4, <2>5
<1> QED BY <1>1, <1>2 DEF DeviceTypes, readerVars

LEMMA PublishTypes ==
    ASSUME DeviceTypes, Publish PROVE DeviceTypes'
<1> DEFINE step == Head(publishing)
<1>1. step \in RightSteps /\ publishing' \in Seq(RightSteps)
  BY HeadTailProperties DEF Publish, DeviceTypes
<1>2. /\ status' = (IF step.kind = "Set" THEN step.value ELSE status)
      /\ owner' = (IF step.kind = "Return" THEN step.value ELSE owner)
      /\ Broadcast(step) \/ UNCHANGED readerVars
      /\ UNCHANGED <<display, written, setup>>
  BY DEF Publish
<1> HIDE DEF step
<1>3. status' \in Statuses /\ owner' \in Owners
  BY <1>1, <1>2 DEF RightSteps, DeviceTypes, Owners
<1>4. queue' \in Seq(RightSteps) /\ UNCHANGED view
  <2>1. CASE Broadcast(step)
    <3>1. Append(queue, step) \in Seq(RightSteps)
      BY <1>1, AppendProperties DEF DeviceTypes
    <3>2. Len(queue) = RingSize => Append(Tail(queue), step) \in Seq(RightSteps)
      <4> SUFFICES ASSUME Len(queue) = RingSize PROVE Append(Tail(queue), step) \in Seq(RightSteps)
        OBVIOUS
      <4>1. queue # <<>>
        BY RingAssumption
      <4>2. Tail(queue) \in Seq(RightSteps)
        BY <4>1, HeadTailProperties DEF DeviceTypes
      <4> QED BY <1>1, <4>2, AppendProperties
    <3> QED BY <2>1, <3>1, <3>2 DEF Broadcast, DeviceTypes
  <2>2. CASE UNCHANGED readerVars
    BY <2>2 DEF readerVars, DeviceTypes
  <2> QED BY <1>2, <2>1, <2>2
<1> QED BY <1>1, <1>2, <1>3, <1>4 DEF DeviceTypes

LEMMA ApplicationTypes ==
    ASSUME DeviceTypes, Subscribe \/ ReadStatus \/ NextEvent \/ Finish \/ FinishAnswered \/ LetGo
    PROVE  DeviceTypes'
<1>1. /\ UNCHANGED <<status, display, written, setup>>
      /\ owner' \in Owners
  BY DEF Subscribe, ReadStatus, NextEvent, Finish, FinishAnswered, LetGo, actorVars, DeviceTypes,
         Owners
<1>2. publishing' \in Seq(RightSteps)
  <2>1. CASE LetGo
    <3>1. publishing # <<>> => Tail(publishing) \in Seq(RightSteps)
      BY HeadTailProperties DEF DeviceTypes
    <3> QED BY <2>1, <3>1 DEF LetGo, DeviceTypes
  <2>2. CASE Subscribe \/ ReadStatus \/ NextEvent \/ Finish \/ FinishAnswered
    BY <2>2 DEF Subscribe, ReadStatus, NextEvent, Finish, FinishAnswered, actorVars, DeviceTypes
  <2> QED BY <2>1, <2>2
<1>3. queue' \in Seq(RightSteps) /\ view' \in Statuses \union {"None"}
  <2>1. CASE NextEvent
    <3>1. CASE queue # <<>> /\ queue' = Tail(queue) /\ Believe
      <4>1. Head(queue) \in RightSteps /\ Tail(queue) \in Seq(RightSteps)
        BY <3>1, HeadTailProperties DEF DeviceTypes
      <4>2. IsStatus(Head(queue)) => Head(queue).value \in Statuses
        BY <4>1 DEF IsStatus, RightSteps
      <4> QED BY <3>1, <4>1, <4>2 DEF Believe, DeviceTypes
    <3>2. CASE UNCHANGED <<queue, view>>
      BY <3>2 DEF DeviceTypes
    <3> QED BY <2>1, <3>1, <3>2 DEF NextEvent, next_event
  <2>2. CASE Subscribe \/ ReadStatus
    BY <2>2, EmptySeq DEF Subscribe, ReadStatus, DeviceTypes
  <2>3. CASE Finish \/ FinishAnswered \/ LetGo
    BY <2>3 DEF Finish, FinishAnswered, LetGo, readerVars, DeviceTypes
  <2> QED BY <2>1, <2>2, <2>3
<1> QED BY <1>1, <1>2, <1>3 DEF DeviceTypes

\* A status is only ever one the watch channel may hold, an owner one the API
\* can hand out, the display one of the four states, and the frames written are
\* numbers, for every message of the machine and every text.
THEOREM DeviceTypesKept == DeviceSpec => []DeviceTypeOK
<1>1. DeviceTypes /\ [DeviceNext]_deviceVars => DeviceTypes'
  <2> SUFFICES ASSUME DeviceTypes, [DeviceNext]_deviceVars PROVE DeviceTypes'
    OBVIOUS
  <2>1. CASE Stopped \/ UNCHANGED deviceVars
    BY <2>1 DEF Stopped, deviceVars, actorVars, readerVars, DeviceTypes
  <2> QED
    BY <2>1, ReceiveEventTypes, DisplayMessageTypes, HandlerTypes, PublishTypes, ApplicationTypes
       DEF DeviceNext
<1>2. DeviceInv /\ DeviceTypes => DeviceTypeOK
  BY DEF DeviceInv, ObservedOK, DeviceTypes, DeviceTypeOK
<1> QED BY <1>1, <1>2, TypesInit, ObserversStayInStep, PTL DEF DeviceSpec
=============================================================================
