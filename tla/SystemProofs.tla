----------------------------- MODULE SystemProofs -----------------------------
(***************************************************************************)
(* Theorems about VendingSystem, for every number of sessions, vends,      *)
(* selections and resets, whatever state the machine starts in: what the   *)
(* reader reports of a vend is what the machine did with the product, if   *)
(* customers are patient.                                                  *)
(* The reader in the system is the one of MdbClient, so that everything    *)
(* proved of MdbClient holds in the system as well.                        *)
(***************************************************************************)
EXTENDS VendingSystem, DecisionProofs

-----------------------------------------------------------------------------
(* What is on the wires. *)

Talk(q) == {q[i] : i \in DOMAIN q}
TalkAfter(q, i) == {q[j] : j \in {k \in DOMAIN q : k > i}}
Names(q) == {q[i].name : i \in DOMAIN q}
HasApproval(q) == "Approve" \in Names(q)

\* Messages that end an offer or an approval the reader has open, and those
\* that are on the line while the machine waits.
Signals == AdapterMessages \ {"Ack", "Nak", "SetupConfiguration", "SetupPrices", "Other"}
Chatter == {"Ack", "ReaderDisable"}

\* The reader's answers to a selection, and the frame that always makes the
\* machine start the reader anew.
AnswerNames == {"Approve", "Deny"}
StopNames == {"CommandOutOfSequence"}

Awaited == active.phase = "AwaitingVendResult"

\* The machine and the reader have parted: the machine is about to restart the
\* reader, or has said something that ends what the reader has open.
Parted ==
    \/ /\ vmc = "asking" /\ Names(bus) \cap StopNames # {}
       /\ Talk(line) \cap {"VendSuccess", "VendFailure"} = {}
    \/ vmc \notin {"asking", "dispensing"} /\ Talk(line) \cap Signals # {}

\* The machine waits for the answer to the very selection the reader has open.
Agreed == vmc = "asking" /\ Names(bus) \cap StopNames = {} /\ Talk(line) \subseteq Chatter

\* A selection the reader has not read yet is the only one, nothing the reader
\* answered before can meet it, and it is still open or the reader will know.
SelectionOK ==
    \A i \in DOMAIN line : line[i] = "VendRequest" =>
      /\ \A j \in DOMAIN line : line[j] = "VendRequest" => j = i
      /\ "VendSuccess" \notin Talk(line)
      /\ Names(bus) \cap AnswerNames = {}
      /\ ~Pending /\ ~Awaited
      /\ vmc # "dispensing"
      /\ IF vmc = "asking" THEN TalkAfter(line, i) \subseteq Chatter
                           ELSE TalkAfter(line, i) \cap Signals # {}

\* No answer is under way to the vend the application is to decide.
OfferedOK ==
    Pending =>
      /\ product[active.vend.id] = "none"
      /\ Names(bus) \cap AnswerNames = {} /\ "VendSuccess" \notin Talk(line)
      /\ Agreed \/ Parted

\* The approval of the vend whose outcome is awaited is on its way, or has been
\* read and the product is being dispensed, or an outcome on the line is its own.
AwaitedOK ==
    Awaited =>
      /\ \A i \in DOMAIN bus : bus[i].name \in AnswerNames =>
           i = Len(bus) /\ bus[i].name = "Approve" /\ bus[i].vend = active.vend.id
      /\ vmc = "asking" => product[active.vend.id] = "none"
      /\ \/ Agreed /\ "Approve" \in Names(bus)
         \/ vmc = "dispensing" /\ serving = active.vend.id /\ bus = <<>> /\ Talk(line) \subseteq Chatter
         \/ /\ Parted
            /\ "VendSuccess" \in Talk(line) => product[active.vend.id] = "dispensed"
            /\ "VendFailure" \in Talk(line) => product[active.vend.id] \in {"none", "failed"}

\* An approval the machine could still act on is of a vend without an outcome,
\* unless a reset made the reader assume one.
ApprovalOK ==
    \A i \in DOMAIN bus : bus[i].name = "Approve" =>
      /\ bus[i].vend \in Vends /\ HasApproval(answer[bus[i].vend])
      /\ vmc = "asking" => \/ outcome[bus[i].vend] = <<>>
                           \/ /\ outcome[bus[i].vend][1].why = "AssumedAfterReset"
                              /\ outcome[bus[i].vend][1].kind = "VendSucceeded"

\* Only an approved vend has anything to do with a product.
ProductOK ==
    /\ serving # 0 => product[serving] = "dispensing"
    /\ \A v \in Vends : product[v] # "none" => HasApproval(answer[v])

WiresOK ==
    SelectionOK /\ OfferedOK /\ AwaitedOK /\ ApprovalOK /\ ProductOK /\ ReportsMatchProduct

\* Only messages of the machine are on the line.
LineOK == line \in Seq(Machine!MachineMessages)
-----------------------------------------------------------------------------
(* Queues. *)

\* Messages r are said after those of q.
LEMMA TalkMore ==
    ASSUME NEW S, NEW q \in Seq(S), NEW r \in Seq(S)
    PROVE  /\ q \o r \in Seq(S)
           /\ Talk(q \o r) = Talk(q) \union Talk(r)
           /\ \A i \in DOMAIN q : /\ i \in DOMAIN (q \o r) /\ (q \o r)[i] = q[i]
                                  /\ TalkAfter(q \o r, i) = TalkAfter(q, i) \union Talk(r)
           /\ \A i \in DOMAIN (q \o r) : i \in DOMAIN q \/ (q \o r)[i] \in Talk(r)
<1> DEFINE t == q \o r
<1>1. /\ t \in Seq(S) /\ Len(t) = Len(q) + Len(r)
      /\ DOMAIN t = 1..Len(t) /\ DOMAIN q = 1..Len(q) /\ DOMAIN r = 1..Len(r)
      /\ Len(q) \in Nat /\ Len(r) \in Nat
      /\ \A i \in 1..(Len(q) + Len(r)) : t[i] = IF i <= Len(q) THEN q[i] ELSE r[i - Len(q)]
  BY ConcatProperties, LenProperties
<1> HIDE DEF t
<1>2. /\ \A i \in DOMAIN q : i \in DOMAIN t /\ t[i] = q[i]
      /\ \A j \in DOMAIN r : Len(q) + j \in DOMAIN t /\ t[Len(q) + j] = r[j]
      /\ \A i \in DOMAIN t : \/ i \in DOMAIN q
                             \/ i > Len(q) /\ i - Len(q) \in DOMAIN r /\ t[i] = r[i - Len(q)]
  BY <1>1
<1>3. Talk(t) = Talk(q) \union Talk(r)
  BY <1>2 DEF Talk
<1>4. ASSUME NEW i \in DOMAIN q
      PROVE  TalkAfter(t, i) = TalkAfter(q, i) \union Talk(r)
  <2>1. i \in Nat /\ i <= Len(q) /\ \A j \in DOMAIN r : Len(q) + j > i
    BY <1>1
  <2>2. \A k \in DOMAIN t : k > i /\ k \in DOMAIN q => t[k] \in TalkAfter(q, i)
    BY <1>2 DEF TalkAfter
  <2>3. TalkAfter(t, i) \subseteq TalkAfter(q, i) \union Talk(r)
    BY <1>2, <2>2 DEF TalkAfter, Talk
  <2>4. TalkAfter(q, i) \subseteq TalkAfter(t, i)
    BY <1>2 DEF TalkAfter
  <2>5. ASSUME NEW j \in DOMAIN r
        PROVE  r[j] \in TalkAfter(t, i)
    BY <1>2, <2>1 DEF TalkAfter
  <2> QED BY <2>3, <2>4, <2>5 DEF Talk
<1>5. \A i \in DOMAIN t : i \in DOMAIN q \/ t[i] \in Talk(r)
  BY <1>2 DEF Talk
<1> QED BY <1>1, <1>2, <1>3, <1>4, <1>5 DEF t

LEMMA TalkOne ==
    /\ Talk(<<>>) = {}
    /\ \A a : Talk(<<a>>) = {a}
    /\ \A a, b : Talk(<<a, b>>) = {a, b}
    /\ \A a, b, c : Talk(<<a, b, c>>) = {a, b, c}
BY DEF Talk

\* The first message is received.
LEMMA TalkLess ==
    ASSUME NEW S, NEW q \in Seq(S), q # <<>>
    PROVE  /\ Head(q) \in S /\ Tail(q) \in Seq(S)
           /\ 1 \in DOMAIN q /\ Head(q) = q[1]
           /\ Talk(q) = Talk(Tail(q)) \union {Head(q)} /\ Talk(Tail(q)) = TalkAfter(q, 1)
           /\ \A i \in DOMAIN Tail(q) :
                /\ i + 1 \in DOMAIN q /\ i + 1 # 1 /\ Tail(q)[i] = q[i + 1]
                /\ TalkAfter(Tail(q), i) = TalkAfter(q, i + 1)
<1>1. /\ DOMAIN q = 1..Len(q) /\ Len(q) \in Nat /\ Len(q) >= 1
      /\ Head(q) \in S /\ Head(q) = q[1] /\ Tail(q) \in Seq(S)
      /\ Len(Tail(q)) = Len(q) - 1 /\ DOMAIN Tail(q) = 1..(Len(q) - 1)
      /\ \A i \in 1..(Len(q) - 1) : Tail(q)[i] = q[i + 1]
  BY HeadTailProperties, LenProperties, EmptySeq
<1> DEFINE t == Tail(q)
<1> HIDE DEF t
<1>2. /\ \A i \in DOMAIN t : i \in Int /\ i + 1 \in DOMAIN q /\ i + 1 # 1 /\ t[i] = q[i + 1]
      /\ \A k \in DOMAIN q : k \in Int /\ (k = 1 \/ (k - 1 \in DOMAIN t /\ t[k - 1] = q[k]))
  BY <1>1 DEF t
<1>3. Talk(q) = Talk(t) \union {Head(q)}
  BY <1>1, <1>2 DEF Talk
<1>5. Talk(t) = TalkAfter(q, 1)
  <2>1. /\ \A k \in DOMAIN q : k > 1 <=> k # 1
        /\ \A i \in DOMAIN t : i + 1 > 1
    BY <1>1 DEF t
  <2> QED BY <1>2, <2>1 DEF Talk, TalkAfter
<1>4. ASSUME NEW i \in DOMAIN t
      PROVE  TalkAfter(t, i) = TalkAfter(q, i + 1)
  <2>1. i \in Int /\ i >= 1
    BY <1>1 DEF t
  <2>2. ASSUME NEW k \in DOMAIN t, k > i
        PROVE  t[k] \in TalkAfter(q, i + 1)
    <3>1. k + 1 \in DOMAIN q /\ t[k] = q[k + 1] /\ k + 1 > i + 1
      BY <1>2, <2>1, <2>2
    <3> QED BY <3>1 DEF TalkAfter
  <2>3. ASSUME NEW k \in DOMAIN q, k > i + 1
        PROVE  q[k] \in TalkAfter(t, i)
    <3>1. k - 1 \in DOMAIN t /\ q[k] = t[k - 1] /\ k - 1 > i
      BY <1>2, <2>1, <2>3
    <3> QED BY <3>1 DEF TalkAfter
  <2>4. \A x \in TalkAfter(t, i) : \E k \in DOMAIN t : k > i /\ x = t[k]
    BY DEF TalkAfter
  <2>5. \A x \in TalkAfter(q, i + 1) : \E k \in DOMAIN q : k > i + 1 /\ x = q[k]
    BY DEF TalkAfter
  <2>6. TalkAfter(t, i) \subseteq TalkAfter(q, i + 1)
    BY <2>2, <2>4
  <2>7. TalkAfter(q, i + 1) \subseteq TalkAfter(t, i)
    BY <2>3, <2>5
  <2> QED BY <2>6, <2>7
<1> QED BY <1>1, <1>2, <1>3, <1>4, <1>5 DEF t

\* A frame is sent.
LEMMA BusMore ==
    ASSUME NEW q \in Seq(Frames), NEW f \in Frames
    PROVE  /\ Append(q, f) \in Seq(Frames) /\ Len(Append(q, f)) = Len(q) + 1
           /\ Len(q) \in Nat
           /\ Names(Append(q, f)) = Names(q) \union {f.name}
           /\ \A i \in DOMAIN Append(q, f) :
                \/ i \in DOMAIN q /\ Append(q, f)[i] = q[i]
                \/ i = Len(q) + 1 /\ Append(q, f)[i] = f
<1> DEFINE t == Append(q, f)
<1>1. /\ t \in Seq(Frames) /\ Len(t) = Len(q) + 1 /\ Len(q) \in Nat
      /\ DOMAIN t = 1..(Len(q) + 1) /\ DOMAIN q = 1..Len(q)
      /\ \A i \in 1..Len(q) : t[i] = q[i]
      /\ t[Len(q) + 1] = f
  BY AppendProperties, LenProperties
<1> HIDE DEF t
<1>2. /\ \A i \in DOMAIN q : i \in DOMAIN t /\ t[i] = q[i]
      /\ Len(q) + 1 \in DOMAIN t
      /\ \A i \in DOMAIN t : \/ i \in DOMAIN q /\ t[i] = q[i]
                             \/ i = Len(q) + 1 /\ t[i] = f
  <2>1. \A i \in 1..(Len(q) + 1) : i \in 1..Len(q) \/ i = Len(q) + 1
    BY <1>1
  <2>2. \A i \in 1..Len(q) : i \in 1..(Len(q) + 1)
    BY <1>1
  <2>3. Len(q) + 1 \in 1..(Len(q) + 1)
    BY <1>1
  <2> QED BY <1>1, <2>1, <2>2, <2>3
<1>3. Names(t) = Names(q) \union {f.name}
  BY <1>1, <1>2 DEF Names
<1> QED BY <1>1, <1>2, <1>3 DEF t

\* A frame is read.
LEMMA BusLess ==
    ASSUME NEW q \in Seq(Frames), q # <<>>
    PROVE  /\ Head(q) \in Frames /\ Tail(q) \in Seq(Frames)
           /\ 1 \in DOMAIN q /\ Head(q) = q[1] /\ Len(q) \in Nat
           /\ Len(Tail(q)) = Len(q) - 1 /\ (Len(q) = 1 => Tail(q) = <<>>)
           /\ Names(q) = Names(Tail(q)) \union {Head(q).name}
           /\ \A i \in DOMAIN Tail(q) : i \in Int /\ i + 1 \in DOMAIN q /\ Tail(q)[i] = q[i + 1]
<1>1. /\ DOMAIN q = 1..Len(q) /\ Len(q) \in Nat /\ Len(q) >= 1
      /\ Head(q) \in Frames /\ Head(q) = q[1] /\ Tail(q) \in Seq(Frames)
      /\ Len(Tail(q)) = Len(q) - 1 /\ DOMAIN Tail(q) = 1..(Len(q) - 1)
      /\ \A i \in 1..(Len(q) - 1) : Tail(q)[i] = q[i + 1]
  BY HeadTailProperties, LenProperties, EmptySeq
<1> DEFINE t == Tail(q)
<1>2. Len(q) = 1 => t = <<>>
  BY <1>1, EmptySeq
<1> HIDE DEF t
<1>3. /\ \A i \in DOMAIN t : i \in Int /\ i + 1 \in DOMAIN q /\ t[i] = q[i + 1]
      /\ \A k \in DOMAIN q : k = 1 \/ (k - 1 \in DOMAIN t /\ t[k - 1] = q[k])
  BY <1>1 DEF t
<1>4. Names(q) = Names(t) \union {Head(q).name}
  BY <1>1, <1>3 DEF Names
<1> QED BY <1>1, <1>2, <1>3, <1>4 DEF t
-----------------------------------------------------------------------------
(* The steps of the machine, by what they mean for the wires. *)

\* The machine says M.
Says(M) ==
    /\ LineOK'
    /\ Talk(line') = Talk(line) \union M
    /\ \A i \in DOMAIN line : /\ i \in DOMAIN line' /\ line'[i] = line[i]
                              /\ TalkAfter(line', i) = TalkAfter(line, i) \union M
    /\ \A i \in DOMAIN line' : i \in DOMAIN line \/ line'[i] \in M

\* At most one frame is read.
Reads == bus' = bus \/ (bus # <<>> /\ bus' = Tail(bus))

\* The reader is started anew.
Cuts == /\ \E M \in SUBSET {"Ack", "Reset", "SetupConfiguration", "ReaderEnable"} :
             "Reset" \in M /\ Says(M)
        /\ Machine!Cut /\ Reads

\* An approval is read in time.
Serves ==
    /\ vmc = "asking" /\ bus # <<>> /\ Head(bus).name = "Approve" /\ bus' = Tail(bus)
    /\ Says({"Ack"})
    /\ vmc' = "dispensing" /\ serving' = Head(bus).vend
    /\ product' = [product EXCEPT ![Head(bus).vend] = "dispensing"]

\* A denial is read in time.
Denied ==
    /\ vmc = "asking" /\ bus # <<>> /\ Head(bus).name = "Deny" /\ bus' = Tail(bus)
    /\ Says({"Ack"}) \/ Says({"Ack", "SessionComplete"})
    /\ vmc' \in {"session", "closing"} /\ UNCHANGED <<serving, product>>

\* Nothing that matters to a selection happens.
Minds ==
    /\ \E M \in SUBSET {"Ack", "ReaderDisable", "SessionComplete"} :
         Says(M) /\ (vmc \in {"asking", "dispensing"} => M \subseteq Chatter)
    /\ Reads
    /\ vmc = "asking" /\ bus' # bus => Head(bus).name \notin AnswerNames \union StopNames
    /\ vmc' \in Machine!VmcStates
    /\ vmc' = "asking" <=> vmc = "asking"
    /\ vmc' = "dispensing" <=> vmc = "dispensing"
    /\ UNCHANGED <<serving, product>>

\* The customer withdraws, the machine gives up or it closes an idle session.
Withdraws ==
    /\ vmc \in {"asking", "session"} /\ vmc' \in {"cancelling", "closing"}
    /\ \/ Says({"VendCancel"}) \/ Says({"SessionComplete"})
       \/ vmc = "asking" /\ line = <<>> /\ Says({"VendFailure", "SessionComplete"})
    /\ UNCHANGED <<serving, product, bus>>

Selects ==
    /\ vmc = "session" /\ vmc' = "asking" /\ Says({"VendRequest"})
    /\ Patient => /\ line = <<>> /\ Names(bus) \cap AnswerNames = {}
                  /\ line' = <<"VendRequest">>
    /\ UNCHANGED <<serving, product, bus>>

\* The product is there or is not.
Finishes ==
    /\ vmc = "dispensing" /\ serving' = 0 /\ vmc' \in {"session", "closing"}
    /\ \E M \in SUBSET {"VendSuccess", "VendFailure", "SessionComplete"}, fate \in {"dispensed", "failed"} :
         /\ Says(M)
         /\ IF fate = "dispensed" THEN "VendSuccess" \in M /\ "VendFailure" \notin M
                                  ELSE "VendFailure" \in M /\ "VendSuccess" \notin M
         /\ product' = [v \in Vends |-> IF v = serving THEN fate ELSE product[v]]
    /\ UNCHANGED bus

LEMMA MessageSets ==
    /\ Machine!MachineMessages \subseteq AdapterMessages
    /\ Machine!MachineMessages \subseteq Messages
BY LinkAssumption, MachineAssumption DEF Machine!MachineMessages, AdapterMessages

LEMMA TellSays ==
    ASSUME LineOK, NEW c \in Seq(Machine!MachineMessages), line' = line \o c
    PROVE  Says(Talk(c))
<1>1. line \in Seq(Machine!MachineMessages)
  BY DEF LineOK
<1>2. line' \in Seq(Machine!MachineMessages)
  BY <1>1, TalkMore
<1>3. /\ Talk(line') = Talk(line) \union Talk(c)
      /\ \A i \in DOMAIN line : /\ i \in DOMAIN line' /\ line'[i] = line[i]
                                /\ TalkAfter(line', i) = TalkAfter(line, i) \union Talk(c)
      /\ \A i \in DOMAIN line' : i \in DOMAIN line \/ line'[i] \in Talk(c)
  BY <1>1, TalkMore
<1> QED BY <1>2, <1>3 DEF Says, LineOK

LEMMA AcknowledgeSays ==
    ASSUME LineOK, NEW c \in Seq(Machine!MachineMessages), Machine!Acknowledge(c)
    PROVE  Says({"Ack"} \union Talk(c)) /\ bus' = Tail(bus)
<1>1. line \in Seq(Machine!MachineMessages) /\ "Ack" \in Machine!MachineMessages
  BY DEF LineOK, Machine!MachineMessages
<1>2. <<"Ack">> \in Seq(Machine!MachineMessages)
  BY <1>1
<1>3. <<"Ack">> \o c \in Seq(Machine!MachineMessages) /\ Talk(<<"Ack">> \o c) = {"Ack"} \union Talk(c)
  <2> DEFINE a == <<"Ack">>
  <2>1. a \in Seq(Machine!MachineMessages) /\ Talk(a) = {"Ack"}
    BY <1>2, TalkOne
  <2> HIDE DEF a
  <2>2. a \o c \in Seq(Machine!MachineMessages) /\ Talk(a \o c) = {"Ack"} \union Talk(c)
    BY <2>1, TalkMore
  <2> QED BY <2>2 DEF a
<1>4. line' = line \o (<<"Ack">> \o c)
  <2>1. line' = (line \o <<"Ack">>) \o c
    BY <1>1, AppendIsConcat DEF Machine!Acknowledge
  <2> QED BY <2>1, <1>1, <1>2, ConcatAssociative
<1>5. Says(Talk(<<"Ack">> \o c))
  <2> DEFINE d == <<"Ack">> \o c
  <2> HIDE DEF d
  <2>1. d \in Seq(Machine!MachineMessages) /\ line' = line \o d
    BY <1>3, <1>4 DEF d
  <2>2. Says(Talk(d))
    BY <2>1, TellSays
  <2> QED BY <2>2 DEF d
<1> QED BY <1>3, <1>5 DEF Machine!Acknowledge

\* What the machine may say, as sequences.
LEMMA Phrases ==
    /\ <<>> \in Seq(Machine!MachineMessages)
    /\ Machine!Reinitialize \in Seq(Machine!MachineMessages)
    /\ Talk(Machine!Reinitialize) = {"Reset", "SetupConfiguration", "ReaderEnable"}
    /\ \A m \in {"SessionComplete", "VendRequest", "VendCancel", "VendSuccess", "VendFailure",
                 "ReaderDisable"} :
         /\ <<m>> \in Seq(Machine!MachineMessages) /\ Talk(<<m>>) = {m}
         /\ <<m, "SessionComplete">> \in Seq(Machine!MachineMessages)
         /\ Talk(<<m, "SessionComplete">>) = {m, "SessionComplete"}
<1>1. \A m \in {"SessionComplete", "VendRequest", "VendCancel", "VendSuccess", "VendFailure",
                "ReaderDisable", "Reset", "SetupConfiguration", "ReaderEnable"} :
        m \in Machine!MachineMessages
  BY DEF Machine!MachineMessages
<1> QED BY <1>1, TalkOne DEF Machine!Reinitialize
MachineShape ==
    Cuts \/ Serves \/ Denied \/ Minds \/ Withdraws \/ Selects \/ Finishes

\* A frame that the state of the machine calls for nothing but an ACK.
LEMMA FrameMinds ==
    ASSUME bus # <<>>, bus' = Tail(bus),
           Says({"Ack"}) \/ (Says({"Ack", "SessionComplete"}) /\ vmc \notin {"asking", "dispensing"}),
           vmc = "asking" => Head(bus).name \notin AnswerNames \union StopNames,
           vmc' \in Machine!VmcStates, vmc' = "asking" <=> vmc = "asking",
           vmc' = "dispensing" <=> vmc = "dispensing", UNCHANGED <<serving, product>>
    PROVE  Minds
<1>1. \E M \in SUBSET {"Ack", "ReaderDisable", "SessionComplete"} :
        Says(M) /\ (vmc \in {"asking", "dispensing"} => M \subseteq Chatter)
  <2>1. CASE Says({"Ack"})
    <3>1. {"Ack"} \in SUBSET {"Ack", "ReaderDisable", "SessionComplete"} /\ {"Ack"} \subseteq Chatter
      BY DEF Chatter
    <3> QED BY <2>1, <3>1
  <2>2. CASE Says({"Ack", "SessionComplete"}) /\ vmc \notin {"asking", "dispensing"}
    <3>1. {"Ack", "SessionComplete"} \in SUBSET {"Ack", "ReaderDisable", "SessionComplete"}
      OBVIOUS
    <3> QED BY <2>2, <3>1
  <2> QED BY <2>1, <2>2
<1>2. vmc = "asking" /\ bus' # bus => Head(bus).name \notin AnswerNames \union StopNames
  OBVIOUS
<1> QED BY <1>1, <1>2 DEF Minds, Reads

LEMMA ReadFrameShape ==
    ASSUME SystemTypeOK, LineOK, Machine!ReadFrame
    PROVE  MachineShape
<1> DEFINE f == Head(bus)
<1>1. bus # <<>> /\ vmc \in Machine!VmcStates
  BY DEF Machine!ReadFrame, SystemTypeOK
<1> HIDE DEF f
<1>2. ASSUME Machine!Acknowledge(<<>>)
      PROVE  Says({"Ack"}) /\ bus' = Tail(bus)
  <2>1. Says({"Ack"} \union Talk(<<>>)) /\ bus' = Tail(bus)
    BY <1>2, AcknowledgeSays, Phrases
  <2> QED BY <2>1, TalkOne
<1>3. ASSUME Machine!Acknowledge(<<"SessionComplete">>)
      PROVE  Says({"Ack", "SessionComplete"}) /\ bus' = Tail(bus)
  <2> DEFINE c == <<"SessionComplete">>
  <2>1. c \in Seq(Machine!MachineMessages) /\ Talk(c) = {"SessionComplete"}
    BY Phrases
  <2>2. Machine!Acknowledge(c)
    BY <1>3
  <2> HIDE DEF c
  <2>3. Says({"Ack"} \union Talk(c)) /\ bus' = Tail(bus)
    BY <2>1, <2>2, AcknowledgeSays
  <2>4. {"Ack"} \union Talk(c) = {"Ack", "SessionComplete"}
    BY <2>1
  <2> QED BY <2>3, <2>4
<1>4. ASSUME Machine!Acknowledge(Machine!Reinitialize), Machine!Cut
      PROVE  Cuts
  <2>1. Says({"Ack"} \union Talk(Machine!Reinitialize)) /\ bus' = Tail(bus)
    BY <1>4, AcknowledgeSays, Phrases
  <2>2. Says({"Ack", "Reset", "SetupConfiguration", "ReaderEnable"})
    <3>1. {"Ack"} \union Talk(Machine!Reinitialize) = {"Ack", "Reset", "SetupConfiguration", "ReaderEnable"}
      BY Phrases
    <3> QED BY <2>1, <3>1
  <2>3. {"Ack", "Reset", "SetupConfiguration", "ReaderEnable"}
          \in SUBSET {"Ack", "Reset", "SetupConfiguration", "ReaderEnable"}
    OBVIOUS
  <2> QED BY <1>1, <1>4, <2>1, <2>2, <2>3 DEF Cuts, Reads
<1>5. CASE f.name = "BeginSession" /\ vmc = "enabled" /\ Machine!Acknowledge(<<>>) /\ Machine!Settled("session")
  BY <1>1, <1>2, <1>5, FrameMinds DEF MachineShape, Machine!Settled, Machine!VmcStates, f
<1>6. CASE Machine!Acknowledge(Machine!Reinitialize) /\ Machine!Cut
  BY <1>4, <1>6 DEF MachineShape
<1>7. CASE /\ f.name = "Approve" /\ vmc = "asking" /\ Machine!Acknowledge(<<>>)
           /\ vmc' = "dispensing" /\ serving' = f.vend
           /\ product' = [product EXCEPT ![f.vend] = "dispensing"]
  BY <1>1, <1>2, <1>7 DEF MachineShape, Serves, f
<1>8. CASE f.name = "Deny" /\ vmc = "asking" /\ Machine!MayClose(<<>>)
  <2>1. Append(<<>>, "SessionComplete") = <<"SessionComplete">>
    OBVIOUS
  <2> QED BY <1>1, <1>2, <1>3, <1>8, <2>1
          DEF MachineShape, Denied, f, Machine!MayClose, Machine!Settled
<1>9. CASE f.name = "Deny" /\ vmc = "cancelling" /\ Machine!MayClose(<<>>)
  <2>1. Append(<<>>, "SessionComplete") = <<"SessionComplete">>
    OBVIOUS
  <2>2. /\ bus' = Tail(bus) /\ vmc' \in {"session", "closing"} /\ UNCHANGED <<serving, product>>
        /\ Says({"Ack"}) \/ Says({"Ack", "SessionComplete"})
    BY <1>2, <1>3, <1>9, <2>1 DEF Machine!MayClose, Machine!Settled
  <2> QED BY <1>1, <1>9, <2>2, FrameMinds DEF MachineShape, Machine!VmcStates
<1>10. CASE f.name = "SessionCancel" /\ vmc = "session" /\ Machine!Acknowledge(<<"SessionComplete">>)
            /\ Machine!Settled("closing")
  BY <1>1, <1>3, <1>10, FrameMinds DEF MachineShape, Machine!Settled, Machine!VmcStates
<1>11. CASE f.name = "EndSession" /\ vmc \in {"session", "closing"} /\ Machine!Acknowledge(<<>>)
            /\ Machine!Settled("enabled")
  BY <1>1, <1>2, <1>11, FrameMinds DEF MachineShape, Machine!Settled, Machine!VmcStates
<1>12. CASE /\ \/ f.name \in {"DisplayRequest", "Cancelled"}
               \/ f.name = "Approve" /\ vmc # "asking"
               \/ f.name = "Deny" /\ vmc \notin {"asking", "cancelling"}
               \/ f.name = "SessionCancel" /\ vmc # "session"
               \/ f.name = "EndSession" /\ vmc \notin {"session", "closing"}
               \/ f.name = "BeginSession" /\ vmc # "enabled"
            /\ Machine!Acknowledge(<<>>) /\ Machine!Settled(vmc)
  <2>1. vmc = "asking" => Head(bus).name \notin AnswerNames \union StopNames
    BY <1>12 DEF AnswerNames, StopNames, f
  <2> QED BY <1>1, <1>2, <1>12, <2>1, FrameMinds DEF MachineShape, Machine!Settled
<1> QED BY <1>5, <1>6, <1>7, <1>8, <1>9, <1>10, <1>11, <1>12 DEF Machine!ReadFrame, f

LEMMA MachineShapes ==
    ASSUME SystemTypeOK, LineOK, Machine!MachineNext
    PROVE  MachineShape
<1>0. vmc \in Machine!VmcStates /\ line \in Seq(Machine!MachineMessages)
  BY DEF SystemTypeOK, LineOK
<1>1. CASE Machine!ReadFrame
  BY <1>1, ReadFrameShape
<1>2. CASE Machine!Select
  <2>1. line' = line \o <<"VendRequest">>
    BY <1>2 DEF Machine!Select, Machine!Tell
  <2>2. /\ <<"VendRequest">> \in Seq(Machine!MachineMessages)
        /\ Talk(<<"VendRequest">>) = {"VendRequest"}
    BY Phrases
  <2>3. Says(Talk(<<"VendRequest">>))
    BY <2>1, <2>2, TellSays
  <2>4. Says({"VendRequest"})
    BY <2>2, <2>3
  <2>5. ASSUME Patient
        PROVE  /\ line = <<>> /\ Names(bus) \cap AnswerNames = {}
               /\ line' = <<"VendRequest">>
    <3>1. line = <<>> /\ Machine!NoAnswerUnderWay
      BY <1>2, <2>5 DEF Machine!Select, Machine!NoAnswerUnderWay
    <3>2. line' = <<"VendRequest">>
      BY <2>1, <3>1
    <3>3. Names(bus) \cap AnswerNames = {}
      BY <3>1 DEF Machine!NoAnswerUnderWay, Names, AnswerNames
    <3> QED BY <3>1, <3>2, <3>3
  <2> QED BY <1>2, <2>4, <2>5
          DEF MachineShape, Selects, Machine!Select, Machine!Tell, Machine!Settled
<1>3. CASE Machine!CancelSelection \/ Machine!CloseSession
  <2>1. PICK m \in {"VendCancel", "SessionComplete"} :
          /\ line' = line \o <<m>> /\ bus' = bus /\ vmc \in {"asking", "session"}
          /\ vmc' \in {"cancelling", "closing"} /\ UNCHANGED <<serving, product>>
    BY <1>3 DEF Machine!CancelSelection, Machine!CloseSession, Machine!Tell, Machine!Settled
  <2>2. <<m>> \in Seq(Machine!MachineMessages) /\ Talk(<<m>>) = {m}
    BY Phrases
  <2>3. Says(Talk(<<m>>))
    BY <2>1, <2>2, TellSays
  <2>4. Says({"VendCancel"}) \/ Says({"SessionComplete"})
    BY <2>2, <2>3
  <2> QED BY <2>1, <2>4 DEF MachineShape, Withdraws
<1>4. CASE Machine!GiveUp
  <2>1. /\ line' = line \o <<"VendFailure", "SessionComplete">> /\ bus' = bus /\ vmc = "asking"
        /\ line = <<>> /\ vmc' = "closing" /\ UNCHANGED <<serving, product>>
    BY <1>4 DEF Machine!GiveUp, Machine!Tell, Machine!Settled
  <2>2. /\ <<"VendFailure", "SessionComplete">> \in Seq(Machine!MachineMessages)
        /\ Talk(<<"VendFailure", "SessionComplete">>) = {"VendFailure", "SessionComplete"}
    BY Phrases
  <2>3. Says(Talk(<<"VendFailure", "SessionComplete">>))
    BY <2>1, <2>2, TellSays
  <2>4. Says({"VendFailure", "SessionComplete"})
    BY <2>2, <2>3
  <2> QED BY <2>1, <2>4 DEF MachineShape, Withdraws
<1>5. CASE Machine!Dispense
  <2>1. PICK fate \in {"dispensed", "failed"} :
          LET report == IF fate = "dispensed" THEN "VendSuccess" ELSE "VendFailure" IN
          /\ product' = [v \in 1..MaxVends |-> IF v = serving THEN fate ELSE product[v]]
          /\ \/ Machine!Tell(<<report>>) /\ vmc' = "session"
             \/ Machine!Tell(<<report, "SessionComplete">>) /\ vmc' = "closing"
    BY <1>5 DEF Machine!Dispense
  <2> DEFINE report == IF fate = "dispensed" THEN "VendSuccess" ELSE "VendFailure"
  <2>2. report \in {"VendSuccess", "VendFailure"} /\ (report = "VendSuccess" <=> fate = "dispensed")
    OBVIOUS
  <2>3. /\ \/ line' = line \o <<report>> \/ line' = line \o <<report, "SessionComplete">>
        /\ bus' = bus /\ vmc' \in {"session", "closing"} /\ vmc = "dispensing" /\ serving' = 0
    BY <1>5, <2>1 DEF Machine!Dispense, Machine!Tell
  <2> HIDE DEF report
  <2>4. Says({report}) \/ Says({report, "SessionComplete"})
    <3>1. <<report>> \in Seq(Machine!MachineMessages) /\ Talk(<<report>>) = {report}
      BY <2>2, Phrases
    <3>2. /\ <<report, "SessionComplete">> \in Seq(Machine!MachineMessages)
          /\ Talk(<<report, "SessionComplete">>) = {report, "SessionComplete"}
      BY <2>2, Phrases
    <3>3. CASE line' = line \o <<report>>
      <4>1. Says(Talk(<<report>>))
        BY <3>1, <3>3, TellSays
      <4> QED BY <3>1, <4>1
    <3>4. CASE line' = line \o <<report, "SessionComplete">>
      <4>1. Says(Talk(<<report, "SessionComplete">>))
        BY <3>2, <3>4, TellSays
      <4> QED BY <3>2, <4>1
    <3> QED BY <2>3, <3>3, <3>4
  <2>5. PICK M \in SUBSET {"VendSuccess", "VendFailure", "SessionComplete"} :
          Says(M) /\ (M = {report} \/ M = {report, "SessionComplete"})
    <3>1. /\ {report} \in SUBSET {"VendSuccess", "VendFailure", "SessionComplete"}
          /\ {report, "SessionComplete"} \in SUBSET {"VendSuccess", "VendFailure", "SessionComplete"}
      BY <2>2
    <3> QED BY <2>4, <3>1
  <2>6. IF fate = "dispensed" THEN "VendSuccess" \in M /\ "VendFailure" \notin M
                              ELSE "VendFailure" \in M /\ "VendSuccess" \notin M
    BY <2>2, <2>5
  <2> QED BY <2>1, <2>3, <2>5, <2>6 DEF MachineShape, Finishes, Vends
<1>6. CASE Machine!Restart
  <2>1. line' = line \o Machine!Reinitialize /\ bus' = bus /\ Machine!Cut
    BY <1>6 DEF Machine!Restart, Machine!Tell
  <2>2. Says({"Reset", "SetupConfiguration", "ReaderEnable"})
    BY <2>1, Phrases, TellSays
  <2>3. {"Reset", "SetupConfiguration", "ReaderEnable"}
          \in SUBSET {"Ack", "Reset", "SetupConfiguration", "ReaderEnable"}
    OBVIOUS
  <2>4. \E M \in SUBSET {"Ack", "Reset", "SetupConfiguration", "ReaderEnable"} :
          "Reset" \in M /\ Says(M)
    BY <2>2, <2>3
  <2> QED BY <2>1, <2>4 DEF MachineShape, Cuts, Reads
<1>7. CASE Machine!OpenDoor
  <2>1. line' = line \o <<"ReaderDisable">> /\ bus' = bus /\ vmc' = vmc /\ UNCHANGED <<serving, product>>
    BY <1>7 DEF Machine!OpenDoor, Machine!Tell, Machine!Settled
  <2>2. <<"ReaderDisable">> \in Seq(Machine!MachineMessages) /\ Talk(<<"ReaderDisable">>) = {"ReaderDisable"}
    BY Phrases
  <2>3. Says(Talk(<<"ReaderDisable">>))
    BY <2>1, <2>2, TellSays
  <2>4. \E M \in SUBSET {"Ack", "ReaderDisable", "SessionComplete"} : Says(M) /\ M \subseteq Chatter
    <3>1. /\ {"ReaderDisable"} \in SUBSET {"Ack", "ReaderDisable", "SessionComplete"}
          /\ {"ReaderDisable"} \subseteq Chatter
      BY DEF Chatter
    <3> QED BY <2>2, <2>3, <3>1
  <2>5. \E M \in SUBSET {"Ack", "ReaderDisable", "SessionComplete"} :
          Says(M) /\ (vmc \in {"asking", "dispensing"} => M \subseteq Chatter)
    BY <2>4
  <2>6. Reads /\ bus' = bus /\ vmc' \in Machine!VmcStates
    BY <1>0, <2>1 DEF Reads
  <2> HIDE DEF Says
  <2>7. Minds
    BY <2>1, <2>5, <2>6 DEF Minds
  <2> QED BY <2>7 DEF MachineShape
<1> QED BY <1>1, <1>2, <1>3, <1>4, <1>5, <1>6, <1>7 DEF Machine!MachineNext
-----------------------------------------------------------------------------
(* The steps of the reader, by what they mean for the wires. *)

\* The outcome e of the open vend is reported on message m.
Tells(m, e) ==
    /\ Open(active) /\ e.vend = active.vend.id
    /\ outcome' = [outcome EXCEPT ![e.vend] = Append(@, e)]
    /\ \/ e.why = "AssumedAfterReset" /\ e.kind = "VendSucceeded"
       \/ Awaited /\ m = "VendSuccess" /\ e.kind = "VendSucceeded" /\ e.why = "Confirmed"
       \/ Awaited /\ m = "VendFailure" /\ e.kind = "VendFailed" /\ e.why = ""

\* What the actor may do on message m, "none" for a step of its own: only the
\* pending vend, or one that cannot be offered, is answered; nothing the machine
\* says but chatter leaves a vend open; an outcome is what the machine said, or
\* assumed after a reset.
Reacts(m) ==
    /\ wrote'.name \in AnswerNames =>
         /\ Logged(wrote')
         /\ \/ Pending /\ wrote'.vend = active.vend.id
            \/ m = "VendRequest" /\ wrote'.name = "Deny"
    /\ Pending' =>
         /\ wrote' = NoFrame
         /\ \/ Pending /\ active'.vend.id = active.vend.id /\ m \notin Signals
            \/ m = "VendRequest" /\ active.phase = "Idle" /\ active'.vend.id = vid + 1
    /\ Awaited' =>
         /\ active'.vend.id = active.vend.id
         /\ \/ Awaited /\ wrote' = NoFrame /\ m \notin Signals
            \/ /\ Pending /\ m = "none"
               /\ wrote'.name = "Approve" /\ wrote'.vend = active.vend.id
    /\ UNCHANGED outcome \/ \E e \in Events : Tells(m, e)

LEMMA FrameNamesOf ==
    /\ \A name : Frame(name).name = name
    /\ \A name, v, amount : VendFrame(name, v, amount).name = name
    /\ NoFrame.name = "None" /\ NoFrame.name \notin AnswerNames
BY DEF Frame, VendFrame, NoFrame, AnswerNames

LEMMA SessionGone ==
    ASSUME active' = NoSession
    PROVE  ~Pending' /\ ~Awaited'
BY NoSessionFacts DEF Pending, Awaited

\* No vend is open afterwards; what is written is no answer, or a lawful one.
LEMMA ReactsClosing ==
    ASSUME NEW m, ~Pending', ~Awaited', UNCHANGED outcome,
           wrote'.name \in AnswerNames =>
             /\ Logged(wrote')
             /\ \/ Pending /\ wrote'.vend = active.vend.id
                \/ m = "VendRequest" /\ wrote'.name = "Deny"
    PROVE  Reacts(m)
BY DEF Reacts

\* Nothing is said and no vend changes hands.
LEMMA ReactsResting ==
    ASSUME NEW m, wrote'.name \notin AnswerNames, UNCHANGED <<active, outcome>>,
           Pending \/ Awaited => wrote' = NoFrame /\ m \notin Signals
    PROVE  Reacts(m)
BY DEF Reacts, Pending, Awaited

LEMMA ReactsFailing ==
    ASSUME NEW m, NEW before, fail(before),
           before = <<>> \/ \E e : before = <<e>> /\ e.kind \notin Outcomes,
           NEW frame, \E sent \in {frame, NoFrame} : wrote' = sent /\ Logged(sent),
           frame.name \in AnswerNames =>
             \/ Pending /\ frame.vend = active.vend.id
             \/ m = "VendRequest" /\ frame.name = "Deny"
    PROVE  Reacts(m)
<1>1. UNCHANGED outcome
  BY FailEmits
<1>2. ~Pending' /\ ~Awaited'
  BY SessionGone DEF fail
<1>3. wrote' \in {frame, NoFrame} /\ Logged(wrote')
  OBVIOUS
<1> QED BY <1>1, <1>2, <1>3, FrameNamesOf, ReactsClosing

LEMMA EmitsNothing ==
    ASSUME NEW evs, evs = <<>> \/ \E e : evs = <<e>> /\ e.kind \notin Outcomes, Emit(evs)
    PROVE  UNCHANGED outcome
<1>1. evs = <<>> \/ evs[1].kind \notin Outcomes
  OBVIOUS
<1> QED BY <1>1, EmitNothing

LEMMA InitiateEndReacts ==
    ASSUME NEW m, m \notin Signals, NEW s \in SessionRecords, initiate_end(s, <<>>),
           s.phase = active.phase, s.vend = active.vend
    PROVE  Reacts(m)
<1> DEFINE e == [s EXCEPT !.endRequested = TRUE, !.summary.reason = "ApplicationRequested"]
<1>1. e.phase = s.phase /\ e.vend = s.vend /\ e \in SessionRecords
  BY DEF SessionRecords, Summaries, Reasons
<1> HIDE DEF e
<1>2. ASSUME NEW frame, s.phase \in {"Idle", "VendPending"},
             frame.name \in AnswerNames => Pending /\ frame.vend = active.vend.id,
             NEW phase \in {"AwaitingSessionComplete", "DenyingForEnd"},
             \/ wrote' = frame /\ Logged(frame) /\ Emit(<<>>) /\ active' = [e EXCEPT !.phase = phase]
             \/ fail(<<>>) /\ \E sent \in {frame, NoFrame} : wrote' = sent /\ Logged(sent)
      PROVE  Reacts(m)
  <2>1. CASE fail(<<>>) /\ \E sent \in {frame, NoFrame} : wrote' = sent /\ Logged(sent)
    BY <1>2, <2>1, ReactsFailing
  <2>2. CASE wrote' = frame /\ Logged(frame) /\ Emit(<<>>) /\ active' = [e EXCEPT !.phase = phase]
    <3>1. active'.phase = phase
      BY <1>1, <2>2 DEF SessionRecords
    <3> QED BY <1>2, <2>2, <3>1, EmitsNothing, ReactsClosing DEF Pending, Awaited
  <2> QED BY <1>2, <2>1, <2>2
<1>3. CASE s.phase = "Idle"
  <2> DEFINE frame == Frame("SessionCancel")
  <2>1. frame.name \notin AnswerNames
    BY FrameNamesOf DEF AnswerNames
  <2>2. \/ wrote' = frame /\ Logged(frame) /\ Emit(<<>>)
           /\ active' = [e EXCEPT !.phase = "AwaitingSessionComplete"]
        \/ fail(<<>>) /\ \E sent \in {frame, NoFrame} : wrote' = sent /\ Logged(sent)
    BY <1>3 DEF initiate_end, Send, e
  <2> HIDE DEF frame
  <2> QED BY <1>2, <1>3, <2>1, <2>2
<1>4. CASE s.phase = "VendPending"
  <2> DEFINE frame == VendFrame("Deny", s.vend.id, 0)
  <2>1. Pending /\ frame.vend = active.vend.id
    BY <1>4, UnaddressedFrames DEF Pending, VendFrame
  <2>2. \/ wrote' = frame /\ Logged(frame) /\ Emit(<<>>)
           /\ active' = [e EXCEPT !.phase = "DenyingForEnd"]
        \/ fail(<<>>) /\ \E sent \in {frame, NoFrame} : wrote' = sent /\ Logged(sent)
    BY <1>4 DEF initiate_end, Send, e
  <2> HIDE DEF frame
  <2> QED BY <1>2, <1>4, <2>1, <2>2
<1>5. CASE s.phase \notin {"Idle", "VendPending"}
  <2>0. active' \in {s, e} /\ Quiet(<<>>)
    BY <1>5 DEF initiate_end, e
  <2>1. active'.phase = active.phase /\ active'.vend = active.vend /\ ~Pending
    BY <1>1, <1>5, <2>0 DEF Pending
  <2>2. wrote' = NoFrame /\ UNCHANGED outcome
    BY <2>0, EmitsNothing DEF Quiet
  <2> QED BY <2>1, <2>2, FrameNamesOf DEF Reacts, Pending, Awaited
<1> QED BY <1>3, <1>4, <1>5

LEMMA OutOfSequenceReacts ==
    ASSUME NEW m, command_out_of_sequence
    PROVE  Reacts(m)
<1> DEFINE frame == Frame("CommandOutOfSequence")
           expired == IF Pending THEN <<VendEvent("VendDecisionExpired", active.vend.id, 0, "SessionEnded")>>
                      ELSE <<>>
<1>1. frame.name \notin AnswerNames
  BY FrameNamesOf DEF AnswerNames
<1>2. expired = <<>> \/ \E e : expired = <<e>> /\ e.kind \notin Outcomes
  BY DEF VendEvent, Outcomes
<1> HIDE DEF frame, expired
<1>3. CASE fail(expired) /\ \E sent \in {frame, NoFrame} : wrote' = sent /\ Logged(sent)
  BY <1>1, <1>2, <1>3, ReactsFailing
<1>4. CASE /\ wrote' = frame /\ Emit(expired)
           /\ active' = IF active.phase = "None" THEN active
                        ELSE [active EXCEPT !.phase = "AwaitingReset", !.vend = ApprovedVend(active)]
  <2>1. active.phase # "None" => active'.phase = "AwaitingReset" \/ active' = active
    BY <1>4
  <2> QED BY <1>1, <1>2, <1>4, EmitsNothing, ReactsClosing DEF Pending, Awaited
<1> QED BY <1>3, <1>4 DEF command_out_of_sequence, Send, frame, expired

LEMMA OrdinaryMessages ==
    /\ {"Ack", "Nak", "Other", "SetupConfiguration", "SetupPrices", "none"} \cap Signals = {}
    /\ {"Reset", "ReaderEnable", "ReaderDisable", "ReaderCancel", "VendRequest", "VendCancel",
        "VendSuccess", "VendFailure", "SessionComplete"} \subseteq Signals
BY DEF Signals, AdapterMessages

LEMMA AckReacts ==
    ASSUME active \in SessionRecords, handle_ack
    PROVE  Reacts("Ack")
<1> DEFINE frame == Frame("SessionCancel")
<1>1. frame.name \notin AnswerNames
  BY FrameNamesOf DEF AnswerNames
<1> HIDE DEF frame
<1>2. CASE fail(<<>>) /\ \E sent \in {frame, NoFrame} : wrote' = sent /\ Logged(sent)
  BY <1>1, <1>2, ReactsFailing
<1>3. CASE /\ wrote' = frame /\ Emit(<<>>)
           /\ active' = [active EXCEPT !.phase = "AwaitingSessionComplete", !.vend = NoVend]
  <2>1. active'.phase = "AwaitingSessionComplete"
    BY <1>3 DEF SessionRecords
  <2> QED BY <1>1, <1>3, <2>1, EmitsNothing, ReactsClosing DEF Pending, Awaited
<1>4. CASE active' = NoSession /\ Quiet(<<Ended(active.endReason)>>)
  <2> DEFINE d == Ended(active.endReason)
  <2>1. d.kind \notin Outcomes
    BY EndedIsNone
  <2>2. wrote' = NoFrame /\ Emit(<<d>>)
    BY <1>4 DEF Quiet
  <2> HIDE DEF d
  <2>3. UNCHANGED outcome
    BY <2>1, <2>2, EmitsNothing
  <2> QED BY <1>4, <2>2, <2>3, SessionGone, FrameNamesOf, ReactsClosing
<1>5. CASE Quiet(<<>>) /\ UNCHANGED active
  BY <1>5, EmitsNothing, FrameNamesOf, ReactsResting, OrdinaryMessages DEF Quiet
<1> QED BY <1>2, <1>3, <1>4, <1>5 DEF handle_ack, Send, complete_active, frame

LEMMA ResetReacts ==
    ASSUME Base, handle_reset
    PROVE  Reacts("Reset")
<1> DEFINE vend == ApprovedVend(active)
           e == VendEvent("VendSucceeded", vend.id, vend.amount, "AssumedAfterReset")
           d == Ended("Reset")
<1>1. active' = NoSession /\ wrote' = NoFrame
  BY DEF handle_reset, Quiet, complete_active
<1>2. d.kind \notin Outcomes
  BY EndedIsNone
<1>3. CASE active = NoSession
  <2>1. Emit(<<>>)
    BY <1>3 DEF handle_reset, Quiet
  <2> QED BY <1>1, <2>1, SessionGone, FrameNamesOf, ReactsClosing, EmitsNothing
<1>4. CASE active # NoSession /\ vend = NoVend
  <2>1. Emit(Append(<<>>, d))
    BY <1>4 DEF handle_reset, Quiet
  <2> HIDE DEF d
  <2>2. Append(<<>>, d) = <<d>>
    OBVIOUS
  <2>3. UNCHANGED outcome
    BY <1>2, <2>1, <2>2, EmitsNothing
  <2> QED BY <1>1, <2>3, SessionGone, FrameNamesOf, ReactsClosing
<1>5. CASE active # NoSession /\ vend # NoVend
  <2>1. Emit(Append(<<e>>, d))
    BY <1>5 DEF handle_reset, Quiet
  <2>2. /\ Open(active) /\ vend = active.vend
        /\ e.kind = "VendSucceeded" /\ e.vend = active.vend.id /\ e.why = "AssumedAfterReset"
    BY <1>5, BaseFacts DEF VendEvent
  <2>3. e \in Events
    <3>1. vend.id \in 0..MaxVends /\ vend.amount \in Cash
      BY BaseFacts, ApprovedVendType DEF VendRecords
    <3>2. "VendSucceeded" \in EventKinds /\ "AssumedAfterReset" \in Whys
      BY DEF EventKinds, Outcomes, Whys
    <3> QED BY <3>1, <3>2, VendEventType
  <2> HIDE DEF e, d
  <2>4. Append(<<e>>, d) # <<>> /\ Append(<<e>>, d)[1] = e
    OBVIOUS
  <2>5. outcome' = [outcome EXCEPT ![e.vend] = Append(@, e)]
    BY <2>1, <2>2, <2>4, EmitOutcome DEF Outcomes
  <2>6. Tells("Reset", e)
    BY <2>2, <2>5 DEF Tells
  <2> QED BY <1>1, <2>3, <2>6, SessionGone, FrameNamesOf DEF Reacts
<1> QED BY <1>3, <1>4, <1>5

LEMMA ReaderReacts ==
    ASSUME Base, NEW m,
           \/ m \in {"SetupConfiguration", "SetupPrices"}
                /\ (handle_setup_configuration \/ handle_setup_prices)
           \/ handle_reader_cancel
           \/ \E newStatus \in {"Enabled", "Disabled"} : handle_reader_control(newStatus)
    PROVE  Reacts(m)
<1>1. CASE command_out_of_sequence
  BY <1>1, OutOfSequenceReacts
<1>2. CASE m \in {"SetupConfiguration", "SetupPrices"} /\ Quiet(<<>>) /\ UNCHANGED active
  BY <1>2, EmitsNothing, FrameNamesOf, ReactsResting, OrdinaryMessages DEF Quiet
<1>3. CASE active = NoSession /\ Quiet(<<>>) /\ UNCHANGED active
  <2>1. ~Pending' /\ ~Awaited'
    BY <1>3, SessionGone
  <2> QED BY <1>3, <2>1, EmitsNothing, FrameNamesOf, ReactsClosing DEF Quiet
<1>4. CASE /\ active = NoSession
           /\ Send(Frame("Cancelled"), <<>>, Emit(<<>>) /\ UNCHANGED <<active, invalid>> /\ Calm)
  <2> DEFINE frame == Frame("Cancelled")
  <2>1. frame.name \notin AnswerNames
    BY FrameNamesOf DEF AnswerNames
  <2>2. \/ fail(<<>>) /\ \E sent \in {frame, NoFrame} : wrote' = sent /\ Logged(sent)
        \/ wrote' = frame /\ Emit(<<>>) /\ active' = NoSession
    BY <1>4 DEF Send
  <2> HIDE DEF frame
  <2>3. CASE fail(<<>>) /\ \E sent \in {frame, NoFrame} : wrote' = sent /\ Logged(sent)
    BY <2>1, <2>3, ReactsFailing
  <2>4. CASE wrote' = frame /\ Emit(<<>>) /\ active' = NoSession
    BY <2>1, <2>4, SessionGone, EmitsNothing, ReactsClosing
  <2> QED BY <2>2, <2>3, <2>4
<1> QED
  BY <1>1, <1>2, <1>3, <1>4
     DEF handle_setup_configuration, handle_setup_prices, handle_reader_control, handle_reader_cancel

LEMMA SessionCompleteReacts ==
    ASSUME Base, handle_session_complete
    PROVE  Reacts("SessionComplete")
<1> DEFINE frame == Frame("EndSession")
<1>1. frame.name \notin AnswerNames
  BY FrameNamesOf DEF AnswerNames
<1> HIDE DEF frame
<1>2. CASE command_out_of_sequence
  BY <1>2, OutOfSequenceReacts
<1>3. CASE fail(<<>>) /\ \E sent \in {frame, NoFrame} : wrote' = sent /\ Logged(sent)
  BY <1>1, <1>3, ReactsFailing
<1>4. CASE /\ wrote' = frame /\ Emit(<<>>)
           /\ active' = IF active = NoSession THEN active
                        ELSE [active EXCEPT !.phase = "AwaitingEndSessionAck", !.vend = NoVend,
                                            !.endReason = active.summary.reason]
  <2>1. active' = NoSession \/ active'.phase = "AwaitingEndSessionAck"
    BY <1>4, BaseFacts DEF SessionRecords
  <2>2. ~Pending' /\ ~Awaited'
    BY <2>1, SessionGone DEF Pending, Awaited
  <2> QED BY <1>1, <1>4, <2>2, EmitsNothing, ReactsClosing
<1> QED BY <1>2, <1>3, <1>4 DEF handle_session_complete, Send, frame

LEMMA VendCancelReacts ==
    ASSUME Base, handle_vend_cancel
    PROVE  Reacts("VendCancel")
<1> DEFINE frame == VendFrame("Deny", active.vend.id, 0)
           e == VendEvent("VendCancelled", active.vend.id, 0, "")
           cancelled(s) == [s EXCEPT !.summary.cancels = @ + 1]
<1>1. active \in SessionRecords
  BY BaseFacts
<1>2. \A s \in SessionRecords : cancelled(s).phase = s.phase
  BY DEF SessionRecords
<1>3. e.kind \notin Outcomes
  BY DEF VendEvent, Outcomes
<1>4. frame.vend = active.vend.id
  BY UnaddressedFrames DEF VendFrame
<1>5. CASE command_out_of_sequence
  BY <1>5, OutOfSequenceReacts
<1>6. CASE /\ Pending
           /\ \/ fail(<<>>) /\ \E sent \in {frame, NoFrame} : wrote' = sent /\ Logged(sent)
              \/ wrote' = frame /\ Logged(frame) /\ Emit(<<e>>) /\ active' = cancelled(Idling(active))
  <2>1. Idling(active) \in SessionRecords /\ Idling(active).phase = "Idle"
    BY <1>1, IdlingType DEF Idling, SessionRecords
  <2>2. cancelled(Idling(active)).phase = "Idle"
    BY <1>2, <2>1
  <2> HIDE DEF frame, e, cancelled
  <2>3. CASE fail(<<>>) /\ \E sent \in {frame, NoFrame} : wrote' = sent /\ Logged(sent)
    BY <1>4, <1>6, <2>3, ReactsFailing
  <2>4. CASE wrote' = frame /\ Logged(frame) /\ Emit(<<e>>) /\ active' = cancelled(Idling(active))
    <3>1. ~Pending' /\ ~Awaited'
      BY <2>2, <2>4 DEF Pending, Awaited
    <3>2. UNCHANGED outcome
      BY <1>3, <2>4, EmitsNothing
    <3> QED BY <1>4, <1>6, <2>4, <3>1, <3>2, ReactsClosing
  <2> QED BY <1>6, <2>3, <2>4
<1>7. CASE active.phase = "DenyingForEnd" /\ active' = cancelled(active) /\ Quiet(<<e>>)
  <2>1. cancelled(active).phase = "DenyingForEnd"
    BY <1>1, <1>2, <1>7
  <2> HIDE DEF e, cancelled
  <2>2. ~Pending' /\ ~Awaited'
    BY <1>7, <2>1 DEF Pending, Awaited
  <2>3. UNCHANGED outcome /\ wrote' = NoFrame
    BY <1>3, <1>7, EmitsNothing DEF Quiet
  <2> QED BY <2>2, <2>3, FrameNamesOf, ReactsClosing
<1> QED BY <1>5, <1>6, <1>7 DEF handle_vend_cancel, Send

LEMMA VendResultReacts ==
    ASSUME Base, NEW m, NEW kind, NEW why,
           \/ m = "VendSuccess" /\ kind = "VendSucceeded" /\ why = "Confirmed"
           \/ m = "VendFailure" /\ kind = "VendFailed" /\ why = "",
           NEW counted \in SessionRecords, VendResult(kind, why, counted)
    PROVE  Reacts(m)
<1> DEFINE e == VendEvent(kind, active.vend.id, active.vend.amount, why)
           idle == Idling(counted)
           ending == [idle EXCEPT !.endRequested = TRUE, !.summary.reason = "ApplicationRequested"]
<1>1. idle \in SessionRecords /\ idle.phase = "Idle"
  BY IdlingType DEF Idling, SessionRecords
<1>2. CASE active.phase # "AwaitingVendResult" /\ command_out_of_sequence
  BY <1>2, OutOfSequenceReacts
<1>3. CASE active.phase = "AwaitingVendResult"
  <2>1. /\ e \in Events /\ e.kind = kind /\ e.why = why /\ e.vend = active.vend.id
        /\ e.kind \in Outcomes /\ <<e>> # <<>> /\ <<e>>[1] = e
    <3>1. active.vend.id \in 0..MaxVends /\ active.vend.amount \in Cash
      BY BaseFacts DEF SessionRecords, VendRecords
    <3>2. kind \in Outcomes /\ kind \in EventKinds /\ why \in Whys
      BY DEF EventKinds, Outcomes, Whys
    <3>3. e \in Events
      BY <3>1, <3>2, VendEventType
    <3> QED BY <3>2, <3>3 DEF VendEvent
  <2>2. Awaited /\ Open(active)
    BY <1>3 DEF Awaited, Open
  <2>3. /\ idle.phase \notin {"VendPending", "AwaitingVendResult"}
        /\ [ending EXCEPT !.phase = "AwaitingSessionComplete"].phase
             \notin {"VendPending", "AwaitingVendResult"}
    BY <1>1 DEF SessionRecords
  <2>4. ASSUME outcome' = [outcome EXCEPT ![e.vend] = Append(@, e)],
               wrote'.name \notin AnswerNames, ~Pending', ~Awaited'
        PROVE  Reacts(m)
    <3> HIDE DEF e
    <3>1. Tells(m, e)
      BY <2>1, <2>2, <2>4 DEF Tells
    <3> QED BY <2>1, <2>4, <3>1 DEF Reacts
  <2>5. CASE active' = idle /\ Quiet(<<e>>)
    <3> HIDE DEF e, idle
    <3>1. wrote' = NoFrame /\ outcome' = [outcome EXCEPT ![e.vend] = Append(@, e)]
      BY <2>1, <2>5, EmitOutcome DEF Quiet
    <3> QED BY <2>3, <2>4, <2>5, <3>1, FrameNamesOf DEF Pending, Awaited
  <2>6. CASE initiate_end(idle, <<e>>)
    <3> DEFINE frame == Frame("SessionCancel")
    <3>1. frame.name \notin AnswerNames
      BY FrameNamesOf DEF AnswerNames
    <3>2. CASE fail(<<e>>) /\ \E sent \in {frame, NoFrame} : wrote' = sent /\ Logged(sent)
      <4> DEFINE evs == <<e>> \o IF active = NoSession THEN <<>> ELSE <<Ended("Disconnected")>>
      <4>1. Emit(evs) /\ active' = NoSession
        BY <3>2 DEF fail
      <4>2. outcome' = [outcome EXCEPT ![e.vend] = Append(@, e)]
        BY <2>1, <4>1, FirstOfFailure, EmitOutcome
      <4>3. wrote'.name \notin AnswerNames
        BY <3>1, <3>2, FrameNamesOf
      <4> QED BY <2>4, <4>1, <4>2, <4>3, SessionGone
    <3>3. CASE /\ wrote' = frame /\ Emit(<<e>>)
               /\ active' = [ending EXCEPT !.phase = "AwaitingSessionComplete"]
      <4>1. ~Pending' /\ ~Awaited'
        BY <2>3, <3>3 DEF Pending, Awaited
      <4>2. outcome' = [outcome EXCEPT ![e.vend] = Append(@, e)]
        BY <2>1, <3>3, EmitOutcome
      <4> QED BY <2>4, <3>1, <3>3, <4>1, <4>2
    <3> QED BY <1>1, <2>6, <3>2, <3>3 DEF initiate_end, Send
  <2>7. \/ active' = idle /\ Quiet(<<e>>)
        \/ initiate_end(idle, <<e>>)
    BY <1>3 DEF VendResult
  <2> QED BY <2>5, <2>6, <2>7
<1> QED BY <1>2, <1>3 DEF VendResult

LEMMA VendOutcomeReacts ==
    ASSUME Base, NEW m,
           (m = "VendSuccess" /\ handle_vend_success) \/ (m = "VendFailure" /\ handle_vend_failure)
    PROVE  Reacts(m)
<1> DEFINE success == [active EXCEPT !.summary.successes = @ + 1]
           failure == [active EXCEPT !.summary.failures = @ + 1]
<1>1. success \in SessionRecords /\ failure \in SessionRecords
  BY BaseFacts DEF SessionRecords, Summaries
<1> HIDE DEF success, failure
<1>2. CASE m = "VendSuccess" /\ VendResult("VendSucceeded", "Confirmed", success)
  BY <1>1, <1>2, VendResultReacts
<1>3. CASE m = "VendFailure" /\ VendResult("VendFailed", "", failure)
  BY <1>1, <1>3, VendResultReacts
<1> QED BY <1>2, <1>3 DEF handle_vend_success, handle_vend_failure, success, failure

LEMMA VendRequestReacts ==
    ASSUME Base, handle_vend_request
    PROVE  Reacts("VendRequest")
<1> DEFINE v == vid + 1
           frame == VendFrame("Deny", v, 0)
<1>1. CASE command_out_of_sequence
  BY <1>1, OutOfSequenceReacts
<1>2. CASE /\ active.phase = "Idle"
           /\ \E price \in Amounts :
                /\ active' = [active EXCEPT !.phase = "VendPending",
                                            !.vend = [id |-> v, price |-> price, amount |-> 0]]
                /\ Quiet(<<VendEvent("VendRequested", v, price, "")>>)
  <2>1. PICK price \in Amounts :
          /\ active' = [active EXCEPT !.phase = "VendPending",
                                      !.vend = [id |-> v, price |-> price, amount |-> 0]]
          /\ Quiet(<<VendEvent("VendRequested", v, price, "")>>)
    BY <1>2
  <2>2. active'.phase = "VendPending" /\ active'.vend.id = v
    BY <2>1, BaseFacts DEF SessionRecords
  <2>3. wrote' = NoFrame /\ UNCHANGED outcome
    <3> DEFINE e == VendEvent("VendRequested", v, price, "")
    <3>1. e.kind \notin Outcomes
      BY DEF VendEvent, Outcomes
    <3>2. wrote' = NoFrame /\ Emit(<<e>>)
      BY <2>1 DEF Quiet
    <3> HIDE DEF e
    <3> QED BY <3>1, <3>2, EmitsNothing
  <2> QED BY <1>2, <2>2, <2>3, FrameNamesOf DEF Reacts, Pending, Awaited
<1>3. CASE /\ active.phase = "Idle"
           /\ \/ fail(<<>>) /\ \E sent \in {frame, NoFrame} : wrote' = sent /\ Logged(sent)
              \/ wrote' = frame /\ Logged(frame) /\ Emit(<<>>) /\ UNCHANGED active
  <2>1. frame.name = "Deny"
    BY FrameNamesOf
  <2> HIDE DEF frame
  <2>2. CASE fail(<<>>) /\ \E sent \in {frame, NoFrame} : wrote' = sent /\ Logged(sent)
    BY <2>1, <2>2, ReactsFailing
  <2>3. CASE wrote' = frame /\ Logged(frame) /\ Emit(<<>>) /\ UNCHANGED active
    <3>1. ~Pending' /\ ~Awaited'
      BY <1>3, <2>3 DEF Pending, Awaited
    <3> QED BY <2>1, <2>3, <3>1, EmitsNothing, ReactsClosing
  <2> QED BY <1>3, <2>2, <2>3
<1>4. CASE wrote' = NoFrame /\ fail(<<>>)
  <2>1. ~Pending' /\ ~Awaited' /\ UNCHANGED outcome
    BY <1>4, SessionGone, FailEmits DEF fail
  <2> QED BY <1>4, <2>1, FrameNamesOf, ReactsClosing
<1> QED BY <1>1, <1>2, <1>3, <1>4 DEF handle_vend_request, Send

LEMMA ReceiveMessageReacts ==
    ASSUME Base, NEW m, ReceiveMessage(m)
    PROVE  Reacts(m)
<1>1. CASE m \in {"Nak", "Other"} /\ Quiet(<<>>) /\ UNCHANGED active
  BY <1>1, EmitsNothing, FrameNamesOf, ReactsResting, OrdinaryMessages DEF Quiet
<1>2. CASE m = "VendRequest" /\ handle_vend_request
  BY <1>2, VendRequestReacts
<1>3. CASE handle_adapter_message(m)
  <2>1. CASE (m = "Ack" /\ handle_ack) \/ (m = "Reset" /\ handle_reset)
    BY <2>1, AckReacts, ResetReacts, BaseFacts
  <2>2. CASE m \in {"VendSuccess", "VendFailure"}
    BY <1>3, <2>2, VendOutcomeReacts DEF handle_adapter_message
  <2>3. CASE m = "VendCancel" \/ m = "SessionComplete"
    BY <1>3, <2>3, VendCancelReacts, SessionCompleteReacts DEF handle_adapter_message
  <2>4. CASE m \in {"SetupConfiguration", "SetupPrices", "ReaderEnable", "ReaderDisable", "ReaderCancel"}
    BY <1>3, <2>4, ReaderReacts DEF handle_adapter_message
  <2> QED BY <1>1, <1>3, <2>1, <2>2, <2>3, <2>4 DEF handle_adapter_message
<1> QED BY <1>2, <1>3 DEF ReceiveMessage

\* Nothing is written and the session stays as it is.
LEMMA QuietReacts ==
    ASSUME NEW m, m \notin Signals, UNCHANGED active, Quiet(<<>>)
    PROVE  Reacts(m)
BY EmitsNothing, FrameNamesOf, ReactsResting DEF Quiet

\* A frame that answers the pending vend.
LEMMA RefuseReacts ==
    ASSUME Base, NEW m, NEW error, Pending, refuse_vend(active.vend.id, error)
    PROVE  Reacts(m)
<1> DEFINE frame == VendFrame("Deny", active.vend.id, 0)
           e == VendEvent("VendDecisionExpired", active.vend.id, 0, error)
<1>1. frame.vend = active.vend.id /\ e.kind \notin Outcomes
  BY UnaddressedFrames DEF VendFrame, VendEvent, Outcomes
<1>2. Idling(active).phase = "Idle"
  BY BaseFacts DEF Idling, SessionRecords
<1> HIDE DEF frame, e
<1>3. CASE fail(<<>>) /\ \E sent \in {frame, NoFrame} : wrote' = sent /\ Logged(sent)
  BY <1>1, <1>3, ReactsFailing
<1>4. CASE wrote' = frame /\ Logged(frame) /\ Emit(<<e>>) /\ active' = Idling(active)
  <2>1. ~Pending' /\ ~Awaited'
    BY <1>2, <1>4 DEF Pending, Awaited
  <2>2. UNCHANGED outcome
    BY <1>1, <1>4, EmitsNothing
  <2> QED BY <1>1, <1>4, <2>1, <2>2, ReactsClosing
<1> QED BY <1>3, <1>4 DEF refuse_vend, Send, frame, e

LEMMA BeginSessionReacts ==
    ASSUME NEW c, begin_session(c)
    PROVE  Reacts("none")
<1> DEFINE frame == Frame("BeginSession")
<1>1. frame.name \notin AnswerNames
  BY FrameNamesOf DEF AnswerNames
<1> HIDE DEF frame
<1>2. CASE UNCHANGED active /\ Quiet(<<>>)
  BY <1>2, QuietReacts, OrdinaryMessages
<1>3. CASE fail(<<>>) /\ \E sent \in {frame, NoFrame} : wrote' = sent /\ Logged(sent)
  BY <1>1, <1>3, ReactsFailing
<1>4. CASE wrote' = frame /\ Emit(<<>>) /\ active' = NewSession(c.id)
  <2>1. ~Pending' /\ ~Awaited'
    BY <1>4 DEF Pending, Awaited, NewSession
  <2> QED BY <1>1, <1>4, <2>1, EmitsNothing, ReactsClosing
<1> QED BY <1>2, <1>3, <1>4 DEF begin_session, Send, frame

LEMMA DisplayMessageReacts ==
    ASSUME NEW c, display_message(c)
    PROVE  Reacts("none")
<1> DEFINE frame == Frame("DisplayRequest")
<1>1. frame.name \notin AnswerNames
  BY FrameNamesOf DEF AnswerNames
<1> HIDE DEF frame
<1>2. CASE UNCHANGED active /\ Quiet(<<>>)
  BY <1>2, QuietReacts, OrdinaryMessages
<1>3. CASE fail(<<>>) /\ \E sent \in {frame, NoFrame} : wrote' = sent /\ Logged(sent)
  BY <1>1, <1>3, ReactsFailing
<1>4. CASE wrote' = frame /\ Emit(<<>>) /\ UNCHANGED active /\ (active = NoSession \/ active.phase = "Idle")
  <2>1. ~Pending /\ ~Awaited
    BY <1>4, NoSessionFacts DEF Pending, Awaited
  <2> QED BY <1>1, <1>4, <2>1, EmitsNothing, ReactsResting
<1> QED BY <1>2, <1>3, <1>4 DEF display_message, Send, frame

LEMMA DecideVendReacts ==
    ASSUME Base, NEW c, decide_vend(c)
    PROVE  Reacts("none")
<1>1. CASE UNCHANGED active /\ Quiet(<<>>)
  BY <1>1, QuietReacts, OrdinaryMessages
<1>2. CASE PendingIs(c.id) /\ write_decision(c)
  <2>1. Pending /\ c.id = active.vend.id /\ active \in SessionRecords
    BY <1>2, BaseFacts DEF PendingIs
  <2>2. CASE c.op = "Approve"
    <3> DEFINE frame == VendFrame("Approve", c.id, c.arg)
               approved == [active EXCEPT !.phase = "AwaitingVendResult", !.vend.amount = c.arg]
    <3>1. frame.name = "Approve" /\ frame.vend = active.vend.id
      BY <2>1 DEF VendFrame
    <3>2. approved.phase = "AwaitingVendResult" /\ approved.vend.id = active.vend.id
      BY <2>1 DEF SessionRecords, VendRecords
    <3>3. \/ fail(<<>>) /\ \E sent \in {frame, NoFrame} : wrote' = sent /\ Logged(sent)
          \/ wrote' = frame /\ Logged(frame) /\ Emit(<<>>) /\ active' = approved
      BY <1>2, <2>2 DEF write_decision, Send
    <3> HIDE DEF frame, approved
    <3>4. CASE fail(<<>>) /\ \E sent \in {frame, NoFrame} : wrote' = sent /\ Logged(sent)
      BY <2>1, <3>1, <3>4, ReactsFailing
    <3>5. CASE wrote' = frame /\ Logged(frame) /\ Emit(<<>>) /\ active' = approved
      <4>1. ~Pending' /\ UNCHANGED outcome
        BY <3>2, <3>5, EmitsNothing DEF Pending
      <4> QED BY <2>1, <3>1, <3>2, <3>5, <4>1 DEF Reacts
    <3> QED BY <3>3, <3>4, <3>5
  <2>3. CASE c.op = "Deny"
    <3> DEFINE frame == VendFrame("Deny", c.id, 0)
    <3>1. frame.vend = active.vend.id
      BY <2>1 DEF VendFrame
    <3>2. Idling(active).phase = "Idle"
      BY <2>1 DEF Idling, SessionRecords
    <3>3. \/ fail(<<>>) /\ \E sent \in {frame, NoFrame} : wrote' = sent /\ Logged(sent)
          \/ wrote' = frame /\ Logged(frame) /\ Emit(<<>>) /\ active' = Idling(active)
      BY <1>2, <2>3 DEF write_decision, Send
    <3> HIDE DEF frame
    <3>4. CASE fail(<<>>) /\ \E sent \in {frame, NoFrame} : wrote' = sent /\ Logged(sent)
      BY <2>1, <3>1, <3>4, ReactsFailing
    <3>5. CASE wrote' = frame /\ Logged(frame) /\ Emit(<<>>) /\ active' = Idling(active)
      <4>1. ~Pending' /\ ~Awaited'
        BY <3>2, <3>5 DEF Pending, Awaited
      <4> QED BY <2>1, <3>1, <3>5, <4>1, EmitsNothing, ReactsClosing
    <3> QED BY <3>3, <3>4, <3>5
  <2> QED BY <1>2, <2>2, <2>3 DEF write_decision
<1> QED BY <1>1, <1>2 DEF decide_vend

LEMMA EndingReacts ==
    ASSUME Base, NEW c, request_end(c) \/ initiate_end(active, <<>>)
    PROVE  Reacts("none")
<1> DEFINE asked == [active EXCEPT !.waiting = @ \/ c.arg = 1]
<1>1. active \in SessionRecords
  BY BaseFacts
<1>2. CASE initiate_end(active, <<>>)
  BY <1>1, <1>2, InitiateEndReacts, OrdinaryMessages
<1>3. CASE initiate_end(asked, <<>>)
  <2>1. asked \in SessionRecords /\ asked.phase = active.phase /\ asked.vend = active.vend
    BY <1>1 DEF SessionRecords
  <2> HIDE DEF asked
  <2> QED BY <1>3, <2>1, InitiateEndReacts, OrdinaryMessages
<1>4. CASE UNCHANGED active /\ Quiet(<<>>)
  BY <1>4, QuietReacts, OrdinaryMessages
<1> QED BY <1>2, <1>3, <1>4 DEF request_end

LEMMA ActorStepReacts ==
    ASSUME Base, ActorStep
    PROVE  Reacts("none")
<1> DEFINE c == Head(mailbox)
<1>1. CASE abandon_vend(c)
  <2>1. CASE Pending /\ c.id = active.vend.id /\ refuse_vend(c.id, "Abandoned")
    BY <2>1, RefuseReacts
  <2>2. CASE UNCHANGED active /\ Quiet(<<>>)
    BY <2>2, QuietReacts, OrdinaryMessages
  <2> QED BY <1>1, <2>1, <2>2 DEF abandon_vend, PendingIs
<1>2. CASE ReceiveCommand
  BY <1>1, <1>2, BeginSessionReacts, DisplayMessageReacts, DecideVendReacts, EndingReacts
     DEF ReceiveCommand, handle_command
<1>3. CASE CommandChannelClosed
  BY <1>3, EndingReacts DEF CommandChannelClosed
<1>4. CASE VendDeadline
  BY <1>4, RefuseReacts DEF VendDeadline
<1>5. CASE ExitDeadline
  <2>1. ~Pending' /\ ~Awaited' /\ Quiet(<<>>)
    BY <1>5, SessionGone DEF ExitDeadline
  <2> QED BY <2>1, EmitsNothing, FrameNamesOf, ReactsClosing DEF Quiet
<1>6. CASE LinkClosed
  <2>1. ~Pending' /\ ~Awaited' /\ UNCHANGED outcome /\ wrote' = NoFrame
    BY <1>6, SessionGone, FailEmits DEF LinkClosed, fail
  <2> QED BY <2>1, FrameNamesOf, ReactsClosing
<1>7. CASE Exit
  BY <1>7, QuietReacts, OrdinaryMessages DEF Exit
<1> QED BY <1>2, <1>3, <1>4, <1>5, <1>6, <1>7 DEF ActorStep
-----------------------------------------------------------------------------
(* How the wires survive a step of the reader. *)

\* What the client's own invariants say of the vend the session has open.
VendOK == TypeOK /\ AnswerOK /\ OpenVendOK /\ OutcomeConsistent

\* The reader acts on message m, the head of the line, or on its own.
ReaderSteps(m) ==
    /\ Reacts(m) /\ BookStep
    /\ bus' = IF wrote' = NoFrame THEN bus ELSE Append(bus, wrote')
    /\ UNCHANGED <<vmc, serving, product>>
    /\ \/ m = "none" /\ line' = line
       \/ line # <<>> /\ m = Head(line) /\ line' = Tail(line)

LEMMA VendIds ==
    ASSUME VendOK
    PROVE  /\ Pending \/ Awaited \/ Open(active) => active.vend.id \in Vends
           /\ Pending => answer[active.vend.id] = <<>> /\ outcome[active.vend.id] = <<>>
           /\ Open(active) => outcome[active.vend.id] = <<>>
           /\ Awaited => Open(active)
           /\ ~(Pending /\ Open(active))
<1>1. /\ Pending => active.vend.id \in Vends /\ answer[active.vend.id] = <<>>
                     /\ outcome[active.vend.id] = <<>>
  BY VendFacts DEF VendOK
<1> QED BY <1>1 DEF VendOK, OpenVendOK, Open, Awaited, Pending

LEMMA AppendNotEmpty ==
    ASSUME NEW S, NEW q \in Seq(S), NEW x \in S
    PROVE  Append(q, x) # <<>>
<1>1. Len(Append(q, x)) = Len(q) + 1 /\ Len(q) \in Nat
  BY AppendProperties, LenProperties
<1>2. Len(<<>>) = 0 /\ Len(Append(q, x)) # 0
  BY <1>1
<1> QED BY <1>2, Zenon

\* An approval is never taken back.
LEMMA AnswersStay ==
    ASSUME VendOK, BookStep, NEW v \in Vends, HasApproval(answer[v])
    PROVE  HasApproval(answer'[v])
<1>1. answer[v] # <<>>
  BY DEF HasApproval, Names
<1> QED BY <1>1, AnswerStands DEF VendOK

LEMMA ApprovalLogged ==
    ASSUME TypeOK, NEW frame \in Frames, Logged(frame), frame.name = "Approve",
           NEW v \in Vends, frame.vend = v
    PROVE  HasApproval(answer'[v])
<1>1. answer \in [Vends -> Seq(Frames)] /\ v # 0
  BY BoundsAssumption DEF TypeOK, ActorTypeOK, Vends
<1>2. answer'[v] = Append(answer[v], frame)
  BY <1>1 DEF Logged
<1> QED BY <1>1, <1>2, BusMore DEF HasApproval

\* An outcome is told once, of the vend that is open.
LEMMA OutcomesTold ==
    ASSUME VendOK, NEW m, Reacts(m), NEW v \in Vends
    PROVE  \/ outcome'[v] = outcome[v]
           \/ /\ Open(active) /\ v = active.vend.id
              /\ \/ outcome'[v][1].why = "AssumedAfterReset" /\ outcome'[v][1].kind = "VendSucceeded"
                 \/ Awaited /\ m = "VendSuccess" /\ outcome'[v][1].kind = "VendSucceeded"
                    /\ outcome'[v][1].why = "Confirmed"
                 \/ Awaited /\ m = "VendFailure" /\ outcome'[v][1].kind = "VendFailed"
                    /\ outcome'[v][1].why = ""
<1>1. CASE UNCHANGED outcome
  BY <1>1
<1>2. ASSUME NEW e \in Events, Tells(m, e)
      PROVE  outcome'[v] = outcome[v] \/ (v = e.vend /\ outcome'[v][1] = e)
  <2>1. outcome' = [outcome EXCEPT ![e.vend] = Append(@, e)] /\ outcome[e.vend] = <<>>
    BY <1>2, VendIds DEF Tells
  <2>2. Append(outcome[e.vend], e)[1] = e
    BY <2>1
  <2>3. outcome \in [Vends -> Seq(Events)]
    BY DEF VendOK, TypeOK, ActorTypeOK
  <2> QED BY <2>1, <2>2, <2>3
<1> QED BY <1>1, <1>2 DEF Reacts, Tells

\* What is on the line afterwards.
LEMMA LineAfter ==
    ASSUME LineOK, NEW m, ReaderSteps(m)
    PROVE  /\ Talk(line') \subseteq Talk(line)
           /\ m \notin Signals => Talk(line') \cap Signals = Talk(line) \cap Signals
           /\ m # "none" => m \in Talk(line)
           /\ m = "none" => line' = line
           /\ \E d \in {0, 1} : \A i \in DOMAIN line' :
                /\ i \in Int /\ i + d \in DOMAIN line
                /\ line'[i] = line[i + d] /\ TalkAfter(line', i) = TalkAfter(line, i + d)
                /\ m # "none" => i + d # 1
           /\ m # "none" => 1 \in DOMAIN line /\ line[1] = m /\ Talk(line') = TalkAfter(line, 1)
<1>1. line \in Seq(Machine!MachineMessages)
  BY DEF LineOK
<1>2. CASE m = "none" /\ line' = line
  <2>1. \A i \in DOMAIN line : i \in Int /\ i + 0 = i
    BY <1>1
  <2>2. \A i \in DOMAIN line' :
          /\ i \in Int /\ i + 0 \in DOMAIN line
          /\ line'[i] = line[i + 0] /\ TalkAfter(line', i) = TalkAfter(line, i + 0)
          /\ m # "none" => i + 0 # 1
    BY <1>2, <2>1
  <2> QED BY <1>2, <2>2
<1>3. CASE line # <<>> /\ m = Head(line) /\ line' = Tail(line)
  <2>1. /\ Talk(line) = Talk(line') \union {m} /\ 1 \in DOMAIN line /\ line[1] = m
        /\ Talk(line') = TalkAfter(line, 1)
        /\ \A i \in DOMAIN line' : /\ i + 1 \in DOMAIN line /\ i + 1 # 1 /\ line'[i] = line[i + 1]
                                   /\ TalkAfter(line', i) = TalkAfter(line, i + 1)
    BY <1>1, <1>3, TalkLess
  <2>2. \A i \in DOMAIN line' : i \in Int
    BY <1>1, <1>3
  <2>3. m # "none"
    BY <1>1, <1>3, TalkLess DEF Machine!MachineMessages
  <2>4. \A i \in DOMAIN line' :
          /\ i \in Int /\ i + 1 \in DOMAIN line
          /\ line'[i] = line[i + 1] /\ TalkAfter(line', i) = TalkAfter(line, i + 1)
          /\ m # "none" => i + 1 # 1
    BY <2>1, <2>2
  <2> QED BY <2>1, <2>3, <2>4
<1> QED BY <1>2, <1>3 DEF ReaderSteps

\* What is on the bus afterwards.
LEMMA BusAfter ==
    ASSUME SystemTypeOK, wrote' \in Frames, NEW m, ReaderSteps(m)
    PROVE  /\ wrote'.name \notin AnswerNames => Names(bus') \cap AnswerNames = Names(bus) \cap AnswerNames
           /\ wrote' = NoFrame => bus' = bus
           /\ wrote' # NoFrame => /\ Names(bus') = Names(bus) \union {wrote'.name}
                                  /\ Len(bus') = Len(bus) + 1
           /\ \A i \in DOMAIN bus' : \/ i \in DOMAIN bus /\ bus'[i] = bus[i]
                                     \/ wrote' # NoFrame /\ i = Len(bus') /\ bus'[i] = wrote'
<1>1. bus \in Seq(Frames)
  BY DEF SystemTypeOK
<1>2. CASE wrote' = NoFrame
  BY <1>2 DEF ReaderSteps
<1>3. CASE wrote' # NoFrame
  <2>1. bus' = Append(bus, wrote')
    BY <1>3 DEF ReaderSteps
  <2>2. /\ Len(bus') = Len(bus) + 1
        /\ Names(bus') = Names(bus) \union {wrote'.name}
        /\ \A i \in DOMAIN bus' : \/ i \in DOMAIN bus /\ bus'[i] = bus[i]
                                  \/ i = Len(bus) + 1 /\ bus'[i] = wrote'
    BY <1>1, <2>1, BusMore
  <2> QED BY <1>3, <2>2
<1> QED BY <1>2, <1>3

LEMMA ReportsAfter ==
    ASSUME LineOK, VendOK, WiresOK, NEW m, ReaderSteps(m)
    PROVE  ReportsMatchProduct'
<1> SUFFICES ASSUME NEW v \in Vends, outcome'[v] # <<>>
             PROVE  /\ outcome'[v][1].why = "Confirmed" => product'[v] = "dispensed"
                    /\ outcome'[v][1].kind = "VendFailed" => product'[v] \in {"none", "failed"}
  BY DEF ReportsMatchProduct
<1>1. Reacts(m) /\ product' = product
  BY DEF ReaderSteps
<1>2. CASE outcome'[v] = outcome[v]
  BY <1>1, <1>2 DEF WiresOK, ReportsMatchProduct
<1>3. CASE outcome'[v][1].why = "AssumedAfterReset" /\ outcome'[v][1].kind = "VendSucceeded"
  BY <1>3
<1>4. CASE /\ Awaited /\ m \in {"VendSuccess", "VendFailure"} /\ v = active.vend.id
           /\ outcome'[v][1].kind = IF m = "VendSuccess" THEN "VendSucceeded" ELSE "VendFailed"
           /\ m = "VendFailure" => outcome'[v][1].why = ""
  <2>1. m \in Talk(line)
    BY <1>4, LineAfter
  <2>2. ~(Talk(line) \subseteq Chatter)
    BY <1>4, <2>1 DEF Chatter
  <2>3. /\ "VendSuccess" \in Talk(line) => product[v] = "dispensed"
        /\ "VendFailure" \in Talk(line) => product[v] \in {"none", "failed"}
    BY <1>4, <2>2 DEF WiresOK, AwaitedOK, Agreed
  <2> QED BY <1>1, <1>4, <2>1, <2>3
<1> QED BY <1>1, <1>2, <1>3, <1>4, OutcomesTold

LEMMA ProductsAfter ==
    ASSUME VendOK, ProductOK, NEW m, ReaderSteps(m)
    PROVE  ProductOK'
<1>1. UNCHANGED <<serving, product>> /\ BookStep
  BY DEF ReaderSteps
<1> QED BY <1>1, AnswersStay DEF ProductOK

LEMMA ApprovalsAfter ==
    ASSUME SystemTypeOK, LineOK, VendOK, WiresOK, wrote' \in Frames, NEW m, ReaderSteps(m)
    PROVE  ApprovalOK'
<1>1. Reacts(m) /\ BookStep /\ vmc' = vmc
  BY DEF ReaderSteps
<1> SUFFICES ASSUME NEW i \in DOMAIN bus', bus'[i].name = "Approve"
             PROVE  LET v == bus'[i].vend IN
                    /\ v \in Vends /\ HasApproval(answer'[v])
                    /\ vmc = "asking" => \/ outcome'[v] = <<>>
                                         \/ /\ outcome'[v][1].why = "AssumedAfterReset"
                                            /\ outcome'[v][1].kind = "VendSucceeded"
  BY <1>1 DEF ApprovalOK
<1> DEFINE v == bus'[i].vend
<1>2. CASE i \in DOMAIN bus /\ bus'[i] = bus[i]
  <2>1. /\ v \in Vends /\ HasApproval(answer[v])
        /\ vmc = "asking" => \/ outcome[v] = <<>>
                             \/ /\ outcome[v][1].why = "AssumedAfterReset"
                                /\ outcome[v][1].kind = "VendSucceeded"
    BY <1>2 DEF WiresOK, ApprovalOK
  <2>3. HasApproval(answer'[v])
    BY <1>1, <2>1, AnswersStay
  <2>4. ASSUME vmc = "asking", Awaited, m \in {"VendSuccess", "VendFailure"}
        PROVE  FALSE
    <3>1. m \in Talk(line)
      BY <2>4, LineAfter
    <3> QED BY <2>4, <3>1 DEF WiresOK, AwaitedOK, Agreed, Parted, Chatter
  <2> QED BY <1>1, <2>1, <2>3, <2>4, OutcomesTold
<1>3. CASE wrote' # NoFrame /\ bus'[i] = wrote'
  <2>1. Logged(wrote') /\ Pending /\ v = active.vend.id
    BY <1>1, <1>3 DEF Reacts, AnswerNames
  <2>2. v \in Vends /\ outcome[v] = <<>> /\ ~Open(active)
    BY <2>1, VendIds
  <2>3. HasApproval(answer'[v])
    <3> DEFINE w == wrote'
    <3>1. w \in Frames /\ w.name = "Approve" /\ w.vend = v
      BY <1>3
    <3> HIDE DEF v, w
    <3> QED BY <2>1, <2>2, <3>1, ApprovalLogged DEF VendOK, w
  <2> QED BY <1>1, <2>2, <2>3, OutcomesTold
<1> QED BY <1>2, <1>3, BusAfter

LEMMA OfferedAfter ==
    ASSUME SystemTypeOK, LineOK, VendOK, WiresOK, wrote' \in Frames, active'.vend.id \in 0..MaxVends,
           NEW m, ReaderSteps(m)
    PROVE  OfferedOK'
<1>1. Reacts(m) /\ vmc' = vmc /\ product' = product
  BY DEF ReaderSteps
<1> SUFFICES ASSUME Pending'
             PROVE  /\ product'[active'.vend.id] = "none"
                    /\ Names(bus') \cap AnswerNames = {} /\ "VendSuccess" \notin Talk(line')
                    /\ Agreed' \/ Parted'
  BY DEF OfferedOK
<1>2. bus' = bus
  BY <1>1, BusAfter DEF Reacts
<1>3. CASE Pending /\ active'.vend.id = active.vend.id /\ m \notin Signals
  <2>1. OfferedOK
    BY DEF WiresOK
  <2>2. Agreed => Agreed'
    BY <1>1, <1>2, LineAfter DEF Agreed
  <2>3. Parted => Parted'
    BY <1>1, <1>2, <1>3, LineAfter DEF Parted
  <2> QED BY <1>1, <1>2, <1>3, <2>1, <2>2, <2>3, LineAfter DEF OfferedOK
<1>4. CASE m = "VendRequest" /\ active'.vend.id = vid + 1
  <2>1. 1 \in DOMAIN line /\ line[1] = "VendRequest" /\ Talk(line') = TalkAfter(line, 1)
    BY <1>4, LineAfter
  <2>2. /\ "VendSuccess" \notin Talk(line) /\ Names(bus) \cap AnswerNames = {}
        /\ vmc # "dispensing"
        /\ IF vmc = "asking" THEN Talk(line') \subseteq Chatter ELSE Talk(line') \cap Signals # {}
    BY <2>1 DEF WiresOK, SelectionOK
  <2>3. product[active'.vend.id] = "none"
    <3>1. vid \in 0..MaxVends
      BY DEF VendOK, TypeOK, ActorTypeOK
    <3>2. vid + 1 \in Vends /\ vid + 1 > vid
      BY <1>4, <3>1, BoundsAssumption DEF Vends
    <3>3. answer[vid + 1] = <<>>
      BY <3>2 DEF VendOK, AnswerOK
    <3>4. ~HasApproval(answer[vid + 1])
      BY <3>3 DEF HasApproval, Names
    <3> QED BY <1>4, <3>2, <3>4 DEF WiresOK, ProductOK
  <2>4. CASE vmc = "asking"
    <3>1. Talk(line') \cap {"VendSuccess", "VendFailure"} = {}
      BY <2>2, <2>4 DEF Chatter
    <3>2. Agreed' \/ Parted'
      BY <1>1, <1>2, <2>2, <2>4, <3>1 DEF Agreed, Parted
    <3> QED BY <1>1, <1>2, <2>2, <2>3, <3>1, <3>2
  <2>5. CASE vmc # "asking"
    <3>1. Parted'
      BY <1>1, <2>2, <2>5 DEF Parted
    <3> QED BY <1>1, <1>2, <2>2, <2>3, <3>1, LineAfter
  <2> QED BY <2>4, <2>5
<1> QED BY <1>1, <1>3, <1>4 DEF Reacts

LEMMA AwaitsAfter ==
    ASSUME SystemTypeOK, LineOK, VendOK, WiresOK, wrote' \in Frames, NEW m, ReaderSteps(m)
    PROVE  AwaitedOK'
<1>1. Reacts(m) /\ vmc' = vmc /\ product' = product /\ serving' = serving
  BY DEF ReaderSteps
<1> SUFFICES ASSUME Awaited'
             PROVE  AwaitedOK'
  BY DEF AwaitedOK
<1> DEFINE v == active.vend.id
<1>2. active'.vend.id = v
  BY <1>1 DEF Reacts
<1>3. CASE Awaited /\ wrote' = NoFrame /\ m \notin Signals
  <2>1. bus' = bus
    BY <1>3, BusAfter
  <2>2. AwaitedOK
    BY DEF WiresOK
  <2>3. Agreed => Agreed'
    BY <1>1, <2>1, LineAfter DEF Agreed
  <2>4. Parted => Parted'
    BY <1>1, <1>3, <2>1, LineAfter DEF Parted
  <2>5. Talk(line') \subseteq Talk(line)
    BY LineAfter
  <2> QED BY <1>1, <1>2, <1>3, <2>1, <2>2, <2>3, <2>4, <2>5 DEF AwaitedOK
<1>4. CASE Pending /\ m = "none" /\ wrote'.name = "Approve" /\ wrote'.vend = v
  <2>1. line' = line
    BY <1>4, LineAfter
  <2>2. /\ product[v] = "none" /\ Names(bus) \cap AnswerNames = {}
        /\ "VendSuccess" \notin Talk(line) /\ (Agreed \/ Parted)
    BY <1>4 DEF WiresOK, OfferedOK
  <2>3. wrote' # NoFrame
    BY <1>4, FrameNamesOf
  <2>4. /\ Names(bus') = Names(bus) \union {"Approve"}
        /\ \A i \in DOMAIN bus' : \/ i \in DOMAIN bus /\ bus'[i] = bus[i]
                                  \/ i = Len(bus') /\ bus'[i] = wrote'
    BY <1>4, <2>3, BusAfter
  <2>5. \A i \in DOMAIN bus' : bus'[i].name \in AnswerNames =>
          i = Len(bus') /\ bus'[i].name = "Approve" /\ bus'[i].vend = active'.vend.id
    BY <1>2, <1>4, <2>2, <2>4 DEF Names
  <2>6. Agreed => Agreed' /\ "Approve" \in Names(bus')
    BY <1>1, <2>1, <2>4 DEF Agreed, StopNames
  <2>7. Parted => Parted'
    BY <1>1, <2>1, <2>4 DEF Parted
  <2> QED BY <1>1, <1>2, <2>1, <2>2, <2>5, <2>6, <2>7 DEF AwaitedOK
<1> QED BY <1>1, <1>3, <1>4 DEF Reacts

LEMMA SameDistance == \A a, b, d \in Int : a + d = b + d => a = b
OBVIOUS

LEMMA SelectionsAfter ==
    ASSUME SystemTypeOK, LineOK, VendOK, WiresOK, wrote' \in Frames, NEW m, ReaderSteps(m)
    PROVE  SelectionOK'
<1>1. Reacts(m) /\ vmc' = vmc
  BY DEF ReaderSteps
<1> SUFFICES ASSUME NEW i \in DOMAIN line', line'[i] = "VendRequest"
             PROVE  /\ \A k \in DOMAIN line' : line'[k] = "VendRequest" => k = i
                    /\ "VendSuccess" \notin Talk(line')
                    /\ Names(bus') \cap AnswerNames = {}
                    /\ ~Pending' /\ ~Awaited'
                    /\ vmc # "dispensing"
                    /\ IF vmc = "asking" THEN TalkAfter(line', i) \subseteq Chatter
                                         ELSE TalkAfter(line', i) \cap Signals # {}
  BY <1>1 DEF SelectionOK
<1>a. PICK d \in {0, 1} : \A k \in DOMAIN line' :
        /\ k \in Int /\ k + d \in DOMAIN line
        /\ line'[k] = line[k + d] /\ TalkAfter(line', k) = TalkAfter(line, k + d)
        /\ m # "none" => k + d # 1
  BY LineAfter
<1> DEFINE j == i + d
<1>2. /\ j \in DOMAIN line /\ line'[i] = line[j] /\ TalkAfter(line', i) = TalkAfter(line, j)
      /\ m # "none" => j # 1
  BY <1>a
<1>3. /\ \A k \in DOMAIN line : line[k] = "VendRequest" => k = j
      /\ "VendSuccess" \notin Talk(line)
      /\ Names(bus) \cap AnswerNames = {}
      /\ ~Pending /\ ~Awaited
      /\ vmc # "dispensing"
      /\ IF vmc = "asking" THEN TalkAfter(line', i) \subseteq Chatter
                           ELSE TalkAfter(line', i) \cap Signals # {}
  BY <1>2 DEF WiresOK, SelectionOK
<1>4. m # "VendRequest"
  <2>1. ASSUME m = "VendRequest"
        PROVE  FALSE
    <3>1. 1 \in DOMAIN line /\ line[1] = "VendRequest" /\ j # 1
      BY <1>2, <2>1, LineAfter
    <3> QED BY <1>3, <3>1
  <2> QED BY <2>1
<1>5. ~Pending' /\ ~Awaited' /\ wrote'.name \notin AnswerNames
  BY <1>1, <1>3, <1>4 DEF Reacts
<1>6. Names(bus') \cap AnswerNames = {}
  BY <1>3, <1>5, BusAfter
<1>7. \A k \in DOMAIN line' : line'[k] = "VendRequest" => k = i
  <2>1. ASSUME NEW k \in DOMAIN line', line'[k] = "VendRequest"
        PROVE  k = i
    <3>1. k \in Int /\ i \in Int /\ d \in Int /\ k + d = i + d
      BY <1>a, <1>3, <2>1
    <3> HIDE DEF j
    <3> QED BY <3>1, SameDistance
  <2> QED BY <2>1
<1> QED BY <1>3, <1>5, <1>6, <1>7, LineAfter

\* No step of the reader upsets the wires.
LEMMA ReaderKeepsWires ==
    ASSUME SystemTypeOK, LineOK, VendOK, WiresOK, TypeOK', NEW m, ReaderSteps(m)
    PROVE  WiresOK'
<1>1. wrote' \in Frames /\ active'.vend.id \in 0..MaxVends
  BY DEF TypeOK, ActorTypeOK, SessionRecords, VendRecords
<1> QED BY <1>1, SelectionsAfter, OfferedAfter, AwaitsAfter, ApprovalsAfter, ProductsAfter, ReportsAfter
        DEF WiresOK
-----------------------------------------------------------------------------
(* How the wires survive a step of the machine. *)

ReaderRests == UNCHANGED <<active, outcome, answer>>

LEMMA ReaderStays ==
    ASSUME ReaderRests
    PROVE  (Pending' <=> Pending) /\ (Awaited' <=> Awaited)
BY DEF ReaderRests, Pending, Awaited

\* What is left on the bus.
LEMMA BusRead ==
    ASSUME SystemTypeOK, Reads
    PROVE  /\ Names(bus') \subseteq Names(bus)
           /\ bus = <<>> => bus' = bus
           /\ bus' # bus => bus # <<>> /\ Names(bus) = Names(bus') \union {Head(bus).name}
           /\ \A i \in DOMAIN bus' : \E j \in DOMAIN bus :
                bus'[i] = bus[j] /\ (j = Len(bus) => i = Len(bus'))
<1>1. bus \in Seq(Frames)
  BY DEF SystemTypeOK
<1>2. CASE bus' = bus
  BY <1>2
<1>3. CASE bus # <<>> /\ bus' = Tail(bus)
  <2>1. /\ Names(bus) = Names(bus') \union {Head(bus).name}
        /\ Len(bus') = Len(bus) - 1 /\ Len(bus) \in Nat
        /\ \A i \in DOMAIN bus' : i \in Int /\ i + 1 \in DOMAIN bus /\ bus'[i] = bus[i + 1]
    BY <1>1, <1>3, BusLess
  <2>2. ASSUME NEW i \in DOMAIN bus'
        PROVE  \E j \in DOMAIN bus : bus'[i] = bus[j] /\ (j = Len(bus) => i = Len(bus'))
    <3>1. i + 1 = Len(bus) => i = Len(bus')
      BY <2>1
    <3> QED BY <2>1, <3>1
  <2> QED BY <1>3, <2>1, <2>2
<1> QED BY <1>2, <1>3 DEF Reads

\* The approvals that stay on the bus, when the machine asks no more than before.
LEMMA ApprovalsLeft ==
    ASSUME SystemTypeOK, ReaderRests, ApprovalOK, Reads, vmc' = "asking" => vmc = "asking"
    PROVE  ApprovalOK'
<1>1. \A i \in DOMAIN bus' : \E j \in DOMAIN bus : bus'[i] = bus[j]
  BY BusRead
<1> QED BY <1>1 DEF ApprovalOK, ReaderRests

\* Answers to the vend whose outcome is awaited that stay on the bus.
LEMMA AnswersLeft ==
    ASSUME SystemTypeOK, ReaderRests, AwaitedOK, Reads, Awaited, NEW i \in DOMAIN bus',
           bus'[i].name \in AnswerNames
    PROVE  i = Len(bus') /\ bus'[i].name = "Approve" /\ bus'[i].vend = active'.vend.id
<1>1. PICK j \in DOMAIN bus : bus'[i] = bus[j] /\ (j = Len(bus) => i = Len(bus'))
  BY BusRead
<1> QED BY <1>1 DEF AwaitedOK, ReaderRests

\* Products and reports when no product changes.
LEMMA ProductsStay ==
    ASSUME ReaderRests, UNCHANGED product, serving' \in {serving, 0}, ProductOK, ReportsMatchProduct
    PROVE  ProductOK' /\ ReportsMatchProduct'
BY DEF ProductOK, ReportsMatchProduct, ReaderRests

\* A selection on the line has been there before, unless it is the machine's word.
LEMMA SelectionsStay ==
    ASSUME SystemTypeOK, ReaderRests, SelectionOK, Reads,
           NEW M, Says(M), {"VendRequest", "VendSuccess"} \cap M = {}, vmc' # "dispensing" \/ vmc = "dispensing",
           \/ vmc = "asking" /\ vmc' = "asking" /\ M \subseteq Chatter
           \/ vmc # "asking" /\ vmc' # "asking"
           \/ vmc' # "asking" /\ M \cap Signals # {}
    PROVE  SelectionOK'
<1> SUFFICES ASSUME NEW i \in DOMAIN line', line'[i] = "VendRequest"
             PROVE  /\ \A k \in DOMAIN line' : line'[k] = "VendRequest" => k = i
                    /\ "VendSuccess" \notin Talk(line')
                    /\ Names(bus') \cap AnswerNames = {}
                    /\ ~Pending' /\ ~Awaited'
                    /\ vmc' # "dispensing"
                    /\ IF vmc' = "asking" THEN TalkAfter(line', i) \subseteq Chatter
                                          ELSE TalkAfter(line', i) \cap Signals # {}
  BY DEF SelectionOK
<1>1. \A k \in DOMAIN line' : line'[k] = "VendRequest" => k \in DOMAIN line /\ line[k] = "VendRequest"
  BY DEF Says
<1>2. /\ \A k \in DOMAIN line : line[k] = "VendRequest" => k = i
      /\ "VendSuccess" \notin Talk(line)
      /\ Names(bus) \cap AnswerNames = {}
      /\ ~Pending /\ ~Awaited
      /\ vmc # "dispensing"
      /\ IF vmc = "asking" THEN TalkAfter(line, i) \subseteq Chatter
                           ELSE TalkAfter(line, i) \cap Signals # {}
  BY <1>1 DEF SelectionOK
<1>3. /\ TalkAfter(line', i) = TalkAfter(line, i) \union M
      /\ Talk(line') = Talk(line) \union M
  BY <1>1 DEF Says
<1>4. Names(bus') \cap AnswerNames = {}
  BY <1>2, BusRead
<1> QED BY <1>1, <1>2, <1>3, <1>4, ReaderStays

LEMMA MindsKeeps ==
    ASSUME SystemTypeOK, ReaderRests, WiresOK, Minds
    PROVE  WiresOK'
<1>1. PICK M \in SUBSET {"Ack", "ReaderDisable", "SessionComplete"} :
        Says(M) /\ (vmc \in {"asking", "dispensing"} => M \subseteq Chatter)
  BY DEF Minds
<1>2. /\ Reads /\ UNCHANGED <<serving, product>>
      /\ vmc' = "asking" <=> vmc = "asking"
      /\ vmc' = "dispensing" <=> vmc = "dispensing"
      /\ vmc = "asking" /\ bus' # bus => Head(bus).name \notin AnswerNames \union StopNames
  BY DEF Minds
<1>3. /\ SelectionOK /\ OfferedOK /\ AwaitedOK /\ ApprovalOK /\ ProductOK /\ ReportsMatchProduct
  BY DEF WiresOK
<1>4. SelectionOK'
  BY <1>1, <1>2, <1>3, SelectionsStay
<1>5. Talk(line') = Talk(line) \union M
  BY <1>1 DEF Says
<1>6. Agreed => Agreed'
  BY <1>1, <1>2, <1>5, BusRead DEF Agreed
<1>7. Parted => Parted'
  <2>1. vmc = "asking" => Names(bus') \cap StopNames = Names(bus) \cap StopNames
    BY <1>2, BusRead
  <2> QED BY <1>1, <1>2, <1>5, <2>1 DEF Parted
<1>8. OfferedOK'
  <2>1. "VendSuccess" \in Talk(line') => "VendSuccess" \in Talk(line)
    BY <1>1, <1>5
  <2> QED BY <1>2, <1>3, <1>6, <1>7, <2>1, BusRead, ReaderStays DEF OfferedOK, ReaderRests
<1>9. AwaitedOK'
  <2> SUFFICES ASSUME Awaited
               PROVE  AwaitedOK'
    BY ReaderStays DEF AwaitedOK
  <2>1. \A i \in DOMAIN bus' : bus'[i].name \in AnswerNames =>
          i = Len(bus') /\ bus'[i].name = "Approve" /\ bus'[i].vend = active'.vend.id
    BY <1>2, <1>3, AnswersLeft
  <2>2. vmc = "asking" /\ "Approve" \in Names(bus) => "Approve" \in Names(bus')
    BY <1>2, BusRead DEF AnswerNames
  <2>3. vmc = "dispensing" /\ bus = <<>> /\ Talk(line) \subseteq Chatter
          => vmc' = "dispensing" /\ bus' = <<>> /\ Talk(line') \subseteq Chatter
    BY <1>1, <1>2, <1>5, BusRead
  <2>4. \A r \in {"VendSuccess", "VendFailure"} : r \in Talk(line') => r \in Talk(line)
    BY <1>1, <1>5
  <2>5. active' = active /\ product' = product /\ serving' = serving
    BY <1>2 DEF ReaderRests
  <2>6. Agreed /\ "Approve" \in Names(bus) => Agreed' /\ "Approve" \in Names(bus')
    BY <1>6, <2>2 DEF Agreed
  <2> QED BY <1>2, <1>3, <1>7, <2>1, <2>3, <2>4, <2>5, <2>6 DEF AwaitedOK
<1>10. ApprovalOK' /\ ProductOK' /\ ReportsMatchProduct'
  BY <1>2, <1>3, ApprovalsLeft, ProductsStay
<1> QED BY <1>4, <1>8, <1>9, <1>10 DEF WiresOK

LEMMA CutsKeeps ==
    ASSUME SystemTypeOK, VendOK, ReaderRests, WiresOK, Cuts
    PROVE  WiresOK'
<1>1. PICK M \in SUBSET {"Ack", "Reset", "SetupConfiguration", "ReaderEnable"} : "Reset" \in M /\ Says(M)
  BY DEF Cuts
<1>2. /\ Reads /\ vmc' = "enabled" /\ serving' = 0
      /\ product' = [v \in Vends |-> IF v = serving THEN "unsettled" ELSE product[v]]
  BY DEF Cuts, Machine!Cut, Vends
<1>3. /\ SelectionOK /\ OfferedOK /\ AwaitedOK /\ ApprovalOK /\ ProductOK /\ ReportsMatchProduct
  BY DEF WiresOK
<1>4. M \cap Signals # {}
  BY <1>1, OrdinaryMessages
<1>5. SelectionOK'
  BY <1>1, <1>2, <1>3, <1>4, SelectionsStay
<1>6. Talk(line') = Talk(line) \union M
  BY <1>1 DEF Says
<1>7. Parted'
  BY <1>2, <1>4, <1>6 DEF Parted
<1>8. \A r \in {"VendSuccess", "VendFailure"} : r \in Talk(line') => r \in Talk(line)
  BY <1>1, <1>6
<1>9. vmc # "dispensing" => \A v \in Vends : product'[v] = product[v]
  BY <1>2, BoundsAssumption DEF SystemTypeOK, Vends
<1>10. OfferedOK'
  <2> SUFFICES ASSUME Pending
               PROVE  OfferedOK'
    BY ReaderStays DEF OfferedOK
  <2>1. vmc # "dispensing"
    BY <1>3 DEF OfferedOK, Agreed, Parted
  <2> QED BY <1>3, <1>7, <1>8, <1>9, <2>1, <1>2, BusRead, VendIds DEF OfferedOK, ReaderRests
<1>11. AwaitedOK'
  <2> SUFFICES ASSUME Awaited
               PROVE  AwaitedOK'
    BY ReaderStays DEF AwaitedOK
  <2>1. \A i \in DOMAIN bus' : bus'[i].name \in AnswerNames =>
          i = Len(bus') /\ bus'[i].name = "Approve" /\ bus'[i].vend = active'.vend.id
    BY <1>2, <1>3, AnswersLeft
  <2>2. ASSUME NEW r \in {"VendSuccess", "VendFailure"}, r \in Talk(line')
        PROVE  IF r = "VendSuccess" THEN product'[active.vend.id] = "dispensed"
                                    ELSE product'[active.vend.id] \in {"none", "failed"}
    <3>1. r \in Talk(line) /\ ~(Talk(line) \subseteq Chatter)
      BY <1>8, <2>2 DEF Chatter
    <3>2. Parted /\ IF r = "VendSuccess" THEN product[active.vend.id] = "dispensed"
                                         ELSE product[active.vend.id] \in {"none", "failed"}
      BY <1>3, <2>2, <3>1 DEF AwaitedOK, Agreed
    <3>3. vmc # "dispensing"
      BY <3>2 DEF Parted
    <3> QED BY <1>9, <3>2, <3>3, VendIds
  <2>3. active' = active
    BY DEF ReaderRests
  <2> QED BY <1>2, <1>7, <2>1, <2>2, <2>3 DEF AwaitedOK
<1>12. ProductOK' /\ ReportsMatchProduct'
  <2>1. ASSUME NEW v \in Vends
        PROVE  IF v = serving THEN product[v] = "dispensing" /\ HasApproval(answer[v])
                              ELSE product'[v] = product[v]
    BY <1>2, <1>3, BoundsAssumption DEF ProductOK, Vends
  <2> QED BY <1>2, <1>3, <2>1 DEF ProductOK, ReportsMatchProduct, ReaderRests
<1> QED BY <1>2, <1>3, <1>5, <1>10, <1>11, <1>12, ApprovalsLeft DEF WiresOK

LEMMA ServesKeeps ==
    ASSUME SystemTypeOK, VendOK, ReaderRests, WiresOK, Serves
    PROVE  WiresOK'
<1> DEFINE f == Head(bus)
<1>1. /\ SelectionOK /\ OfferedOK /\ AwaitedOK /\ ApprovalOK /\ ProductOK /\ ReportsMatchProduct
  BY DEF WiresOK
<1>2. /\ vmc = "asking" /\ vmc' = "dispensing" /\ serving' = f.vend
      /\ product' = [product EXCEPT ![f.vend] = "dispensing"]
      /\ Says({"Ack"}) /\ Reads /\ bus # <<>> /\ bus' = Tail(bus) /\ f.name = "Approve"
  BY DEF Serves, Reads
<1>3. /\ 1 \in DOMAIN bus /\ bus[1] = f /\ Names(bus) = Names(bus') \union {"Approve"}
      /\ Len(bus) = 1 => bus' = <<>>
  BY <1>2, BusLess DEF SystemTypeOK
<1> HIDE DEF f
<1>4. "Approve" \in Names(bus) \cap AnswerNames
  BY <1>3 DEF AnswerNames
<1>5. /\ f.vend \in Vends /\ HasApproval(answer[f.vend])
      /\ \/ outcome[f.vend] = <<>>
         \/ outcome[f.vend][1].why = "AssumedAfterReset" /\ outcome[f.vend][1].kind = "VendSucceeded"
  BY <1>1, <1>2, <1>3 DEF ApprovalOK
<1>6. ~Pending
  BY <1>1, <1>4 DEF OfferedOK
<1>7. Talk(line') = Talk(line) \union {"Ack"}
  BY <1>2 DEF Says
<1>8. SelectionOK'
  <2>1. \A i \in DOMAIN line : line[i] # "VendRequest"
    BY <1>1, <1>4 DEF SelectionOK
  <2>2. \A i \in DOMAIN line' : line'[i] # "VendRequest"
    BY <1>2, <2>1 DEF Says
  <2> QED BY <2>2 DEF SelectionOK
<1>9. AwaitedOK'
  <2> SUFFICES ASSUME Awaited
               PROVE  AwaitedOK'
    BY ReaderStays DEF AwaitedOK
  <2>1. 1 = Len(bus) /\ f.vend = active.vend.id
    BY <1>1, <1>2, <1>3 DEF AwaitedOK, AnswerNames
  <2>2. bus' = <<>> /\ Names(bus) = {"Approve"}
    BY <1>3, <2>1, TalkOne DEF Names
  <2>3. Agreed
    BY <1>1, <1>2, <2>2 DEF AwaitedOK, Parted, StopNames
  <2>4. Talk(line') \subseteq Chatter
    BY <1>7, <2>3 DEF Agreed, Chatter
  <2>5. DOMAIN bus' = {} /\ active' = active
    BY <2>2 DEF ReaderRests
  <2> QED BY <1>2, <2>1, <2>2, <2>4, <2>5 DEF AwaitedOK
<1>10. ApprovalOK'
  BY <1>1, <1>2, ApprovalsLeft
<1>11. product \in [Vends -> Machine!Products]
  BY DEF SystemTypeOK
<1>12. ProductOK' /\ ReportsMatchProduct'
  <2>1. ASSUME NEW v \in Vends
        PROVE  product'[v] = IF v = f.vend THEN "dispensing" ELSE product[v]
    BY <1>2, <1>11
  <2> QED BY <1>1, <1>2, <1>5, <2>1 DEF ProductOK, ReportsMatchProduct, ReaderRests
<1>13. OfferedOK'
  BY <1>6, ReaderStays DEF OfferedOK
<1> QED BY <1>8, <1>9, <1>10, <1>12, <1>13 DEF WiresOK

LEMMA DeniedKeeps ==
    ASSUME SystemTypeOK, VendOK, ReaderRests, WiresOK, Denied
    PROVE  WiresOK'
<1> DEFINE f == Head(bus)
<1>1. /\ SelectionOK /\ OfferedOK /\ AwaitedOK /\ ApprovalOK /\ ProductOK /\ ReportsMatchProduct
  BY DEF WiresOK
<1>2. /\ vmc = "asking" /\ vmc' \in {"session", "closing"} /\ UNCHANGED <<serving, product>>
      /\ Says({"Ack"}) \/ Says({"Ack", "SessionComplete"})
      /\ Reads /\ bus # <<>> /\ f.name = "Deny"
  BY DEF Denied, Reads
<1>3. 1 \in DOMAIN bus /\ bus[1] = f /\ "Deny" \in Names(bus) \cap AnswerNames
  BY <1>2, BusLess DEF SystemTypeOK, AnswerNames
<1> HIDE DEF f
<1>4. ~Pending
  BY <1>1, <1>3 DEF OfferedOK
<1>5. ~Awaited
  BY <1>1, <1>2, <1>3 DEF AwaitedOK, AnswerNames
<1>6. SelectionOK'
  <2>1. \A i \in DOMAIN line : line[i] # "VendRequest"
    BY <1>1, <1>3 DEF SelectionOK
  <2>2. \A i \in DOMAIN line' : line'[i] # "VendRequest"
    BY <1>2, <2>1 DEF Says
  <2> QED BY <2>2 DEF SelectionOK
<1>7. OfferedOK' /\ AwaitedOK'
  BY <1>4, <1>5, ReaderStays DEF OfferedOK, AwaitedOK
<1> QED BY <1>1, <1>2, <1>6, <1>7, ApprovalsLeft, ProductsStay DEF WiresOK

LEMMA WithdrawsKeeps ==
    ASSUME SystemTypeOK, VendOK, ReaderRests, WiresOK, Withdraws
    PROVE  WiresOK'
<1>1. /\ SelectionOK /\ OfferedOK /\ AwaitedOK /\ ApprovalOK /\ ProductOK /\ ReportsMatchProduct
  BY DEF WiresOK
<1>2. /\ vmc \in {"asking", "session"} /\ vmc' \in {"cancelling", "closing"}
      /\ UNCHANGED <<serving, product, bus>>
  BY DEF Withdraws
<1>3. Reads
  BY <1>2 DEF Reads
<1>4. PICK M \in SUBSET {"VendCancel", "SessionComplete", "VendFailure"} :
        /\ Says(M) /\ M \cap {"VendCancel", "SessionComplete"} # {}
        /\ "VendFailure" \in M => vmc = "asking"
  <2>1. /\ {"VendCancel"} \in SUBSET {"VendCancel", "SessionComplete", "VendFailure"}
        /\ {"SessionComplete"} \in SUBSET {"VendCancel", "SessionComplete", "VendFailure"}
        /\ {"VendFailure", "SessionComplete"} \in SUBSET {"VendCancel", "SessionComplete", "VendFailure"}
    OBVIOUS
  <2>2. CASE Says({"VendCancel"})
    BY <2>1, <2>2
  <2>3. CASE Says({"SessionComplete"})
    BY <2>1, <2>3
  <2>4. CASE vmc = "asking" /\ Says({"VendFailure", "SessionComplete"})
    BY <2>1, <2>4
  <2> QED BY <2>2, <2>3, <2>4 DEF Withdraws
<1>5. M \cap Signals # {}
  BY <1>4, OrdinaryMessages
<1>6. Talk(line') = Talk(line) \union M
  BY <1>4 DEF Says
<1>7. SelectionOK'
  BY <1>1, <1>2, <1>3, <1>4, <1>5, SelectionsStay
<1>8. Parted' /\ "VendSuccess" \notin M
  BY <1>2, <1>4, <1>5, <1>6 DEF Parted
<1>9. OfferedOK'
  BY <1>1, <1>2, <1>6, <1>8, ReaderStays DEF OfferedOK, ReaderRests
<1>10. AwaitedOK'
  <2> SUFFICES ASSUME Awaited
               PROVE  AwaitedOK'
    BY ReaderStays DEF AwaitedOK
  <2>1. \A i \in DOMAIN bus' : bus'[i].name \in AnswerNames =>
          i = Len(bus') /\ bus'[i].name = "Approve" /\ bus'[i].vend = active'.vend.id
    BY <1>1, <1>3, AnswersLeft
  <2>2. ASSUME NEW r \in {"VendSuccess", "VendFailure"}, r \in Talk(line')
        PROVE  IF r = "VendSuccess" THEN product[active.vend.id] = "dispensed"
                                    ELSE product[active.vend.id] \in {"none", "failed"}
    <3>1. CASE r \in Talk(line)
      <4>1. ~(Talk(line) \subseteq Chatter)
        BY <2>2, <3>1 DEF Chatter
      <4> QED BY <1>1, <2>2, <3>1, <4>1 DEF AwaitedOK, Agreed
    <3>2. CASE r \in M
      BY <1>1, <1>4, <1>8, <2>2, <3>2 DEF AwaitedOK
    <3> QED BY <1>6, <2>2, <3>1, <3>2
  <2>3. active' = active
    BY DEF ReaderRests
  <2> QED BY <1>2, <1>8, <2>1, <2>2, <2>3 DEF AwaitedOK
<1>11. ApprovalOK' /\ ProductOK' /\ ReportsMatchProduct'
  BY <1>1, <1>2, <1>3, ApprovalsLeft, ProductsStay
<1> QED BY <1>7, <1>9, <1>10, <1>11 DEF WiresOK

LEMMA SelectsKeeps ==
    ASSUME SystemTypeOK, VendOK, ReaderRests, WiresOK, Selects, Patient
    PROVE  WiresOK'
<1>1. /\ SelectionOK /\ OfferedOK /\ AwaitedOK /\ ApprovalOK /\ ProductOK /\ ReportsMatchProduct
  BY DEF WiresOK
<1>2. /\ vmc = "session" /\ vmc' = "asking" /\ UNCHANGED <<serving, product, bus>>
      /\ line = <<>> /\ line' = <<"VendRequest">> /\ Names(bus) \cap AnswerNames = {}
  BY DEF Selects
<1>3. Talk(line) = {} /\ Talk(line') = {"VendRequest"}
  BY <1>2, TalkOne
<1>4. ~Pending /\ ~Awaited
  BY <1>1, <1>2, <1>3 DEF OfferedOK, AwaitedOK, Agreed, Parted
<1>5. DOMAIN line' = {1}
  BY <1>2
<1>6. TalkAfter(line', 1) = {}
  BY <1>5 DEF TalkAfter
<1>7. SelectionOK'
  BY <1>2, <1>3, <1>4, <1>5, <1>6, ReaderStays DEF SelectionOK
<1>8. OfferedOK' /\ AwaitedOK'
  BY <1>4, ReaderStays DEF OfferedOK, AwaitedOK
<1>9. ApprovalOK'
  BY <1>2 DEF ApprovalOK, Names, AnswerNames
<1> QED BY <1>1, <1>2, <1>7, <1>8, <1>9, ProductsStay DEF WiresOK

LEMMA FinishesKeeps ==
    ASSUME SystemTypeOK, VendOK, ReaderRests, WiresOK, Finishes
    PROVE  WiresOK'
<1>1. /\ SelectionOK /\ OfferedOK /\ AwaitedOK /\ ApprovalOK /\ ProductOK /\ ReportsMatchProduct
  BY DEF WiresOK
<1>2. /\ vmc = "dispensing" /\ serving' = 0 /\ vmc' \in {"session", "closing"} /\ bus' = bus
  BY DEF Finishes
<1>3. PICK M \in SUBSET {"VendSuccess", "VendFailure", "SessionComplete"}, fate \in {"dispensed", "failed"} :
        /\ Says(M)
        /\ IF fate = "dispensed" THEN "VendSuccess" \in M /\ "VendFailure" \notin M
                                 ELSE "VendFailure" \in M /\ "VendSuccess" \notin M
        /\ product' = [v \in Vends |-> IF v = serving THEN fate ELSE product[v]]
  BY DEF Finishes
<1>4. Talk(line') = Talk(line) \union M /\ M \cap Signals # {}
  BY <1>3, OrdinaryMessages DEF Says
<1>5. Parted'
  BY <1>2, <1>4 DEF Parted
<1>6. ~Pending
  BY <1>1, <1>2 DEF OfferedOK, Agreed, Parted
<1>7. SelectionOK'
  <2>1. \A i \in DOMAIN line : line[i] # "VendRequest"
    BY <1>1, <1>2 DEF SelectionOK
  <2>2. \A i \in DOMAIN line' : line'[i] # "VendRequest"
    BY <1>3, <2>1 DEF Says
  <2> QED BY <2>2 DEF SelectionOK
<1>8. AwaitedOK'
  <2> SUFFICES ASSUME Awaited
               PROVE  AwaitedOK'
    BY ReaderStays DEF AwaitedOK
  <2>1. serving = active.vend.id /\ bus = <<>> /\ Talk(line) \subseteq Chatter
    BY <1>1, <1>2 DEF AwaitedOK, Agreed, Parted
  <2>2. product'[active.vend.id] = fate
    BY <1>3, <2>1, VendIds
  <2>3. /\ "VendSuccess" \in Talk(line') => fate = "dispensed"
        /\ "VendFailure" \in Talk(line') => fate = "failed"
    BY <1>3, <1>4, <2>1 DEF Chatter
  <2>4. DOMAIN bus' = {} /\ active' = active
    BY <1>2, <2>1 DEF ReaderRests
  <2> QED BY <1>2, <1>5, <2>2, <2>3, <2>4 DEF AwaitedOK
<1>9. ProductOK' /\ ReportsMatchProduct'
  <2>1. ASSUME NEW v \in Vends
        PROVE  IF v = serving THEN product[v] = "dispensing" /\ HasApproval(answer[v])
                              ELSE product'[v] = product[v]
    BY <1>1, <1>3, BoundsAssumption DEF ProductOK, Vends
  <2> QED BY <1>1, <1>2, <2>1 DEF ProductOK, ReportsMatchProduct, ReaderRests
<1>10. ApprovalOK'
  <2>1. Reads
    BY <1>2 DEF Reads
  <2> QED BY <1>1, <1>2, <2>1, ApprovalsLeft
<1> QED BY <1>6, <1>7, <1>8, <1>9, <1>10, ReaderStays DEF WiresOK, OfferedOK

\* No step of the machine upsets the wires.
LEMMA MachineKeepsWires ==
    ASSUME SystemTypeOK, LineOK, VendOK, WiresOK, ReaderRests, Machine!MachineNext, Patient
    PROVE  WiresOK'
BY MachineShapes, CutsKeeps, ServesKeeps, DeniedKeeps, MindsKeeps, WithdrawsKeeps, SelectsKeeps,
   FinishesKeeps DEF MachineShape
-----------------------------------------------------------------------------
(* Types, and the client in the system. *)

LEMMA BusTypes ==
    ASSUME SystemTypeOK, Reads
    PROVE  bus' \in Seq(Frames)
BY BusLess DEF SystemTypeOK, Reads

LEMMA MachineTypes ==
    ASSUME SystemTypeOK, LineOK, Machine!MachineNext
    PROVE  /\ vmc' \in Machine!VmcStates
           /\ serving' \in 0..MaxVends /\ (serving' # 0 => vmc' = "dispensing")
           /\ product' \in [Vends -> Machine!Products]
           /\ requests' \in 0..MaxRequests /\ resets' \in 0..MaxResets
           /\ LineOK' /\ bus' \in Seq(Frames)
<1>0. /\ vmc \in Machine!VmcStates /\ serving \in 0..MaxVends /\ (serving # 0 => vmc = "dispensing")
      /\ product \in [Vends -> Machine!Products] /\ bus \in Seq(Frames)
      /\ requests \in 0..MaxRequests /\ resets \in 0..MaxResets
  BY DEF SystemTypeOK
<1>1. requests' \in 0..MaxRequests /\ resets' \in 0..MaxResets
  <2>1. MaxRequests \in Nat /\ MaxResets \in Nat
    BY MachineAssumption, BoundsAssumption
  <2>2. CASE Machine!ReadFrame
    BY <1>0, <2>2 DEF Machine!ReadFrame, Machine!Acknowledge, Machine!MayClose
  <2>3. CASE Machine!Select
    BY <1>0, <2>1, <2>3 DEF Machine!Select
  <2>4. CASE Machine!CancelSelection \/ Machine!GiveUp \/ Machine!Dispense \/ Machine!CloseSession
    BY <1>0, <2>4 DEF Machine!CancelSelection, Machine!GiveUp, Machine!Dispense, Machine!CloseSession
  <2>5. CASE Machine!Restart \/ Machine!OpenDoor
    BY <1>0, <2>1, <2>5 DEF Machine!Restart, Machine!OpenDoor
  <2> QED BY <2>2, <2>3, <2>4, <2>5 DEF Machine!MachineNext
<1>2. CASE Cuts
  <2>1. /\ vmc' = "enabled" /\ serving' = 0 /\ Reads /\ LineOK'
        /\ product' = [v \in Vends |-> IF v = serving THEN "unsettled" ELSE product[v]]
    BY <1>2 DEF Cuts, Machine!Cut, Vends, Says
  <2>2. product' \in [Vends -> Machine!Products]
    BY <1>0, <2>1 DEF Machine!Products
  <2> QED BY <1>1, <2>1, <2>2, BusTypes, BoundsAssumption DEF Machine!VmcStates
<1>3. CASE Serves
  <2>1. /\ vmc' = "dispensing" /\ serving' = Head(bus).vend /\ Reads /\ LineOK' /\ bus # <<>>
        /\ product' = [product EXCEPT ![Head(bus).vend] = "dispensing"]
    BY <1>3 DEF Serves, Reads, Says
  <2>2. Head(bus) \in Frames
    BY <1>0, <2>1, BusLess
  <2>3. serving' \in 0..MaxVends
    BY <2>1, <2>2 DEF Frames
  <2>4. product' \in [Vends -> Machine!Products]
    BY <1>0, <2>1 DEF Machine!Products
  <2> QED BY <1>1, <2>1, <2>3, <2>4, BusTypes DEF Machine!VmcStates
<1>4. CASE Denied \/ Withdraws \/ Minds
  <2>1. /\ UNCHANGED <<serving, product>> /\ LineOK' /\ Reads
        /\ vmc' = "dispensing" \/ vmc # "dispensing"
        /\ vmc' \in Machine!VmcStates
    BY <1>0, <1>4 DEF Denied, Withdraws, Minds, Says, Reads, Machine!VmcStates
  <2> QED BY <1>0, <1>1, <2>1, BusTypes
<1>5. CASE Selects
  <2>1. /\ UNCHANGED <<serving, product, bus>> /\ LineOK'
        /\ vmc = "session" /\ vmc' = "asking"
    BY <1>5 DEF Selects, Says
  <2> QED BY <1>0, <1>1, <2>1 DEF Machine!VmcStates
<1>6. CASE Finishes
  <2>1. /\ serving' = 0 /\ vmc' \in {"session", "closing"} /\ bus' = bus /\ LineOK'
    BY <1>6 DEF Finishes, Says
  <2>2. PICK fate \in {"dispensed", "failed"} :
          product' = [v \in Vends |-> IF v = serving THEN fate ELSE product[v]]
    BY <1>6 DEF Finishes
  <2>3. product' \in [Vends -> Machine!Products]
    BY <1>0, <2>2 DEF Machine!Products
  <2> QED BY <1>0, <1>1, <2>1, <2>3, BoundsAssumption DEF Machine!VmcStates
<1> QED BY <1>2, <1>3, <1>4, <1>5, <1>6, MachineShapes DEF MachineShape

\* The reader's step in the system is one of the client's.
LEMMA ClientSteps ==
    ASSUME LineOK, [SystemNext]_systemVars
    PROVE  [Next]_vars
<1>1. CASE ReaderReceives
  <2>1. Head(line) \in Messages
    BY <1>1, TalkLess, MessageSets DEF LineOK, ReaderReceives
  <2> QED BY <1>1, <2>1 DEF ReaderReceives, Next
<1>2. CASE ReaderActs \/ ApplicationActs \/ Stopped
  BY <1>2 DEF ReaderActs, ApplicationActs, Next
<1>3. CASE UNCHANGED vars
  BY <1>3
<1> QED BY <1>1, <1>2, <1>3 DEF SystemNext, MachineActs, systemVars

\* What a step of the system is to the wires.
LEMMA SystemShapes ==
    ASSUME LineOK, VendOK, SessionOK, BegunInOrder, [SystemNext]_systemVars
    PROVE  \/ \E m : ReaderSteps(m)
           \/ Machine!MachineNext /\ ReaderRests
           \/ ReaderRests /\ UNCHANGED machineVars
<1>0. Base /\ TypeOK
  BY DEF Base, VendOK
<1>1. BookStep
  BY <1>0, ClientSteps, StepBooks
<1>2. CASE ReaderReceives
  <2>1. Reacts(Head(line))
    BY <1>0, <1>2, ReceiveMessageReacts DEF ReaderReceives
  <2>2. ReaderSteps(Head(line))
    BY <1>1, <1>2, <2>1 DEF ReaderReceives, ReaderSteps, Transmit
  <2> QED BY <2>2
<1>3. CASE ReaderActs
  <2>1. Reacts("none")
    BY <1>0, <1>3, ActorStepReacts DEF ReaderActs
  <2>2. ReaderSteps("none")
    BY <1>1, <1>3, <2>1 DEF ReaderActs, ReaderSteps, Transmit
  <2> QED BY <2>2
<1>4. CASE ApplicationActs
  BY <1>4, ClientRests DEF ApplicationActs, ActorRests, ReaderRests
<1>5. CASE MachineActs
  BY <1>5 DEF MachineActs, ReaderRests, vars
<1>6. CASE (Stopped /\ UNCHANGED machineVars) \/ UNCHANGED systemVars
  BY <1>6 DEF Stopped, systemVars, ReaderRests, vars
<1> QED BY <1>2, <1>3, <1>4, <1>5, <1>6 DEF SystemNext

LEMMA SystemTypeStep ==
    ASSUME SystemTypeOK, LineOK, [SystemNext]_systemVars
    PROVE  SystemTypeOK' /\ LineOK'
<1>1. TypeOK'
  BY ClientSteps, TypeStep DEF SystemTypeOK
<1>2. LineOK' => line' \in Seq(AdapterMessages)
  BY MessageSets, SeqMonotonic DEF LineOK
<1>3. CASE UNCHANGED machineVars
  <2>1. SystemTypeOK'
    BY <1>1, <1>3 DEF SystemTypeOK, machineVars
  <2>2. LineOK'
    BY <1>3 DEF LineOK, machineVars
  <2> QED BY <2>1, <2>2
<1>4. CASE Machine!MachineNext
  BY <1>1, <1>2, <1>4, MachineTypes DEF SystemTypeOK
<1>5. CASE ReaderReceives \/ ReaderActs
  <2>1. UNCHANGED <<vmc, serving, product, requests, resets>>
    BY <1>5 DEF ReaderReceives, ReaderActs, Transmit
  <2>2. LineOK'
    BY <1>5, TalkLess DEF LineOK, ReaderReceives, ReaderActs
  <2>3. bus' \in Seq(Frames)
    <3>1. wrote' \in Frames /\ bus \in Seq(Frames)
      BY <1>1 DEF TypeOK, ActorTypeOK, SystemTypeOK
    <3>2. bus' = bus \/ bus' = Append(bus, wrote')
      BY <1>5 DEF ReaderReceives, ReaderActs, Transmit
    <3> QED BY <3>1, <3>2, BusMore
  <2> QED BY <1>1, <1>2, <2>1, <2>2, <2>3 DEF SystemTypeOK
<1> QED BY <1>3, <1>4, <1>5 DEF SystemNext, ApplicationActs, MachineActs, systemVars, machineVars

LEMMA SystemInitTypes == SystemInit => SystemTypeOK /\ LineOK
<1> SUFFICES ASSUME SystemInit PROVE SystemTypeOK /\ LineOK
  OBVIOUS
<1>1. TypeOK
  BY InitType DEF SystemInit
<1>2. /\ vmc \in Machine!VmcStates /\ serving = 0 /\ requests = 0 /\ resets = 0
      /\ product = [v \in Vends |-> "none"] /\ line = <<>> /\ bus = <<>>
  BY MachineAssumption DEF SystemInit, Machine!MachineInit, Vends
<1>3. MaxVends \in Nat /\ MaxRequests \in Nat /\ MaxResets \in Nat
  BY MachineAssumption, BoundsAssumption
<1>4. product \in [Vends -> Machine!Products]
  BY <1>2 DEF Machine!Products
<1> QED BY <1>1, <1>2, <1>3, <1>4 DEF SystemTypeOK, LineOK
-----------------------------------------------------------------------------
(* The theorems. *)

\* Reader, application and machine keep every variable in its type, and only
\* what the machine says is on the line.
THEOREM SystemTypes == SystemSpec => []SystemTypeOK /\ []LineOK
BY SystemInitTypes, SystemTypeStep, PTL DEF SystemSpec

\* The system implements MdbClient: wired to the machine the reader does nothing
\* it could not do on its own, so all that is proved of MdbClient, the vend
\* ledger included, holds in the system.
THEOREM SystemIsClient == SystemSpec => Spec
<1>1. SystemInit => Init
  BY DEF SystemInit
<1>2. LineOK /\ [SystemNext]_systemVars => [Next]_vars
  BY ClientSteps
<1> QED BY <1>1, <1>2, SystemTypes, PTL DEF SystemSpec, Spec

LEMMA InitWires == SystemInit => WiresOK
<1> SUFFICES ASSUME SystemInit PROVE WiresOK
  OBVIOUS
<1>1. /\ active = NoSession /\ outcome = [v \in Vends |-> <<>>]
      /\ serving = 0 /\ product = [v \in Vends |-> "none"]
      /\ DOMAIN line = {} /\ DOMAIN bus = {}
  BY DEF SystemInit, Init, ActorInit, Machine!MachineInit, Vends
<1>2. ~Pending /\ ~Awaited
  BY <1>1, NoSessionFacts DEF Pending, Awaited
<1> QED BY <1>1, <1>2
        DEF WiresOK, SelectionOK, OfferedOK, AwaitedOK, ApprovalOK, ProductOK, ReportsMatchProduct

LEMMA WiresStep ==
    ASSUME SystemTypeOK, TypeOK', LineOK, SessionSafe, BooksOK, WiresOK, [SystemNext]_systemVars,
           Patient
    PROVE  WiresOK'
<1>1. VendOK /\ SessionOK /\ BegunInOrder
  BY DEF SystemTypeOK, SessionSafe, BooksOK, VendOK
<1>2. CASE \E m : ReaderSteps(m)
  BY <1>1, <1>2, ReaderKeepsWires
<1>3. CASE Machine!MachineNext /\ ReaderRests
  BY <1>1, <1>3, MachineKeepsWires
<1>4. CASE ReaderRests /\ UNCHANGED machineVars
  BY <1>4, ReaderStays
     DEF WiresOK, SelectionOK, OfferedOK, AwaitedOK, ApprovalOK, ProductOK, ReportsMatchProduct,
         Agreed, Parted, ReaderRests, machineVars
<1> QED BY <1>1, <1>2, <1>3, <1>4, SystemShapes

\* What is on the wires fits what machine and reader have open, however
\* selections, cancels, answers and resets cross between Link::send and
\* Link::receive, if customers are patient: this is the inductive invariant of
\* ReportsMatchProduct.
THEOREM WiresStayRight == Patient => (SystemSpec => []WiresOK)
<1> SUFFICES ASSUME Patient PROVE SystemSpec => []WiresOK
  OBVIOUS
<1>1. SystemTypeOK /\ TypeOK' /\ LineOK /\ SessionSafe /\ BooksOK /\ WiresOK
        /\ [SystemNext]_systemVars => WiresOK'
  BY WiresStep
<1> QED BY <1>1, InitWires, SystemTypes, SystemIsClient, TypeCorrect, SessionStaysSafe,
           BooksStayInOrder, PTL DEF SystemSpec

\* A confirmed success (handle_vend_success) is a product in the tray and a
\* reported failure (handle_vend_failure) is none, for every vend of every session
\* and whatever state the machine starts in, if customers are patient.
THEOREM ReportsAreTrue == Patient => (SystemSpec => []ReportsMatchProduct)
<1> SUFFICES ASSUME Patient PROVE SystemSpec => []ReportsMatchProduct
  OBVIOUS
<1>1. WiresOK => ReportsMatchProduct
  BY DEF WiresOK
<1>2. SystemSpec => []WiresOK
  BY WiresStayRight
<1> QED BY <1>1, <1>2, PTL
=============================================================================
