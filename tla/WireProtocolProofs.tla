-------------------------- MODULE WireProtocolProofs --------------------------
(***************************************************************************)
(* Theorems about WireProtocol, for every byte sequence: the checksum, the *)
(* hex text, and what parse_adapter_message can say.  checksum and compact *)
(* read a sequence element by element, so the module starts with induction *)
(* over an interval of numbers.                                            *)
(***************************************************************************)
EXTENDS WireProtocol, SequenceTheorems, TLAPS
LOCAL INSTANCE SequencesExt
WF == INSTANCE WellFoundedInduction


LEMMA BytesAreNumbers == \A b \in Bytes : b \in Nat
BY DEF Bytes

-----------------------------------------------------------------------------
(* Induction and recursion. *)

\* Every set of numbers that is not empty has a least element.
LEMMA LeastElement ==
    ASSUME NEW T \in SUBSET Nat, T # {}
    PROVE  \E x \in T : \A y \in T : x <= y
<1> DEFINE R == {ss \in Nat \X Nat : ss[1] < ss[2]}
<1>1. WF!IsWellFoundedOn(R, Nat)
  BY WF!NatLessThanWellFounded DEF WF!OpToRel
<1>2. PICK x \in T : \A y \in T : ~(<<y, x>> \in R)
  BY <1>1, WF!WFMin
<1>3. ASSUME NEW y \in T PROVE x <= y
  <2>1. x \in Nat /\ y \in Nat /\ <<y, x>> \in Nat \X Nat
    OBVIOUS
  <2>2. y < x => <<y, x>> \in R
    BY <2>1
  <2> HIDE DEF R
  <2> QED BY <1>2, <2>1, <2>2
<1> QED BY <1>3

\* Induction: what holds of 0, and of i + 1 when of i, holds of n.
LEMMA UpTo ==
    ASSUME NEW n \in Nat, NEW S \in SUBSET (0..n), 0 \in S,
           \A i \in S : i < n => i + 1 \in S
    PROVE  n \in S
<1> SUFFICES ASSUME n \notin S PROVE FALSE
  OBVIOUS
<1>1. PICK x \in (0..n) \ S : \A y \in (0..n) \ S : x <= y
  <2> DEFINE T == (0..n) \ S
  <2>1. T \in SUBSET Nat /\ T # {}
    OBVIOUS
  <2> HIDE DEF T
  <2>2. \E x \in T : \A y \in T : x <= y
    BY <2>1, LeastElement
  <2> QED BY <2>2 DEF T
<1>2. x - 1 \in S /\ x - 1 < n
  BY <1>1
<1> QED BY <1>1, <1>2

\* f begins with base and goes on by step.
Recurs(f, n, base, step) == f[0] = base /\ \A i \in 1..n : f[i] = step[i][f[i - 1]]

\* Such a function exists, so that CHOOSE finds what a recursion defines.
LEMMA Recursion ==
    ASSUME NEW n \in Nat, NEW T, NEW base \in T, NEW step \in [1..n -> [T -> T]]
    PROVE  \E f \in [0..n -> T] : Recurs(f, n, base, step)
<1> USE DEF Recurs
<1> DEFINE Right(f, m) == Recurs(f, m, base, step)
           Defined(m) == \E f \in [0..m -> T] : Right(f, m)
           S == {m \in 0..n : Defined(m)}
<1>1. Defined(0)
  <2> DEFINE f == [i \in 0..0 |-> base]
  <2>1. f \in [0..0 -> T] /\ f[0] = base
    OBVIOUS
  <2> HIDE DEF f
  <2>2. Right(f, 0)
    BY <2>1
  <2> HIDE DEF Right
  <2> QED BY <2>1, <2>2
<1>2. ASSUME NEW m \in 0..n, m < n, Defined(m) PROVE Defined(m + 1)
  <2>1. PICK f \in [0..m -> T] : Right(f, m)
    BY <1>2
  <2> DEFINE g == [i \in 0..(m + 1) |-> IF i <= m THEN f[i] ELSE step[m + 1][f[m]]]
  <2>2. step[m + 1][f[m]] \in T
    <3>1. m \in 0..m /\ m + 1 \in 1..n
      BY <1>2
    <3> QED BY <2>1, <3>1
  <2>3. g \in [0..(m + 1) -> T]
    <3>1. \A i \in 0..(m + 1) : i <= m => i \in 0..m
      BY <1>2
    <3> QED BY <2>2, <3>1
  <2>4. Right(g, m + 1)
    <3>1. g[0] = base /\ g[m + 1] = step[m + 1][g[m]]
      BY <2>1
    <3>2. \A i \in 1..m : g[i] = step[i][g[i - 1]]
      BY <2>1
    <3>3. \A i \in 1..(m + 1) : i \in 1..m \/ i = m + 1
      BY <1>2
    <3>4. m + 1 - 1 = m
      BY <1>2
    <3> HIDE DEF g
    <3>5. ASSUME NEW i \in 1..(m + 1) PROVE g[i] = step[i][g[i - 1]]
      <4>1. CASE i \in 1..m
        BY <3>2, <4>1
      <4>2. CASE i = m + 1
        BY <3>1, <3>4, <4>2
      <4> QED BY <3>3, <4>1, <4>2
    <3> QED BY <3>1, <3>5
  <2> HIDE DEF g, Right
  <2> QED BY <2>3, <2>4
<1>3. n \in S
  <2>1. S \in SUBSET (0..n) /\ 0 \in S
    BY <1>1
  <2>2. \A m \in S : m < n => m + 1 \in S
    <3> HIDE DEF Defined
    <3> QED BY <1>2
  <2> HIDE DEF S
  <2> QED BY <2>1, <2>2, UpTo
<1> QED BY <1>3

\* A part of a sequence.
LEMMA PartOfSequence ==
    ASSUME NEW S, NEW s \in Seq(S), NEW m \in 1..(Len(s) + 1), NEW n \in 0..Len(s)
    PROVE  /\ SubSeq(s, m, n) \in Seq(S)
           /\ Len(SubSeq(s, m, n)) = IF m <= n THEN n - m + 1 ELSE 0
           /\ \A i \in 1..(n - m + 1) : SubSeq(s, m, n)[i] = s[m + i - 1]
<1>1. m \in Int /\ n \in Int /\ Len(s) \in Nat
  BY LenProperties
<1>2. \A i \in m..n : s[i] \in S
  BY <1>1, ElementOfSeq
<1> QED BY <1>1, <1>2, SubSeqProperties

-----------------------------------------------------------------------------
(* The checksum. *)

\* The checksum is the last of the sums of the first bytes.
LEMMA ChecksumSums ==
    ASSUME NEW p \in Seq(Nat)
    PROVE  \E sums \in [0..Len(p) -> 0..255] :
             /\ sums[0] = 0
             /\ \A i \in 1..Len(p) : sums[i] = (sums[i - 1] + p[i]) % 256
             /\ checksum(p) = sums[Len(p)]
<1> DEFINE n == Len(p)
           T == 0..255
           step == [i \in 1..n |-> [s \in T |-> (s + p[i]) % 256]]
           Sums(f) == f = [i \in 0..n |-> IF i = 0 THEN 0 ELSE (f[i - 1] + p[i]) % 256]
           sums == CHOOSE f : Sums(f)
<1>1. n \in Nat /\ \A i \in 1..n : p[i] \in Nat
  BY LenProperties, ElementOfSeq
<1>2. ASSUME NEW i \in 1..n, NEW s \in T PROVE (s + p[i]) % 256 \in T
  <2>1. p[i] \in Nat /\ s \in Nat
    BY <1>1
  <2>2. \A a, b \in Nat : (a + b) % 256 \in 0..255
    OBVIOUS
  <2> QED BY <2>1, <2>2
<1>3. step \in [1..n -> [T -> T]]
  <2> HIDE DEF T, n
  <2> QED BY <1>2
<1>4. PICK f \in [0..n -> T] : f[0] = 0 /\ \A i \in 1..n : f[i] = step[i][f[i - 1]]
  <2> DEFINE base == 0
  <2>1. base \in T
    OBVIOUS
  <2> HIDE DEF step, T, n, base
  <2>2. n \in Nat
    BY <1>1
  <2>3. PICK f \in [0..n -> T] : Recurs(f, n, base, step)
    BY <1>3, <2>1, <2>2, Recursion
  <2> QED BY <2>3 DEF base, Recurs
<1>5. \A i \in 1..n : i - 1 \in 0..n
  BY <1>1
<1>6. ASSUME NEW i \in 1..n PROVE f[i] = (f[i - 1] + p[i]) % 256
  <2>1. f[i - 1] \in T
    BY <1>4, <1>5
  <2>2. step[i][f[i - 1]] = (f[i - 1] + p[i]) % 256
    BY <2>1
  <2> HIDE DEF step, T, n
  <2> QED BY <1>4, <2>2
<1>7. Sums(f)
  <2>1. f = [i \in 0..n |-> f[i]]
    BY <1>4
  <2>2. ASSUME NEW i \in 0..n PROVE f[i] = IF i = 0 THEN 0 ELSE (f[i - 1] + p[i]) % 256
    <3>1. i = 0 \/ i \in 1..n
      BY <1>1
    <3>2. f[0] = 0
      BY <1>4
    <3> QED BY <1>6, <3>1, <3>2
  <2> QED BY <2>1, <2>2
<1>8. Sums(sums)
  BY <1>7
<1>9. sums[0] = 0 /\ \A i \in 1..n : sums[i] = (sums[i - 1] + p[i]) % 256
  <2> HIDE DEF sums
  <2>1. \A i \in 0..n : sums[i] = IF i = 0 THEN 0 ELSE (sums[i - 1] + p[i]) % 256
    BY <1>8
  <2> QED BY <1>1, <2>1
<1>10. \A i \in 0..n : sums[i] \in T
  <2> SUFFICES ASSUME NEW m \in 0..n PROVE sums[m] \in T
    OBVIOUS
  <2> HIDE DEF sums
  <2>1. ASSUME NEW i \in 0..m, sums[i] \in T, i < m PROVE sums[i + 1] \in T
    <3>1. i + 1 \in 1..n /\ i + 1 - 1 = i
      BY <1>1, <2>1
    <3>2. sums[i + 1] = (sums[i] + p[i + 1]) % 256 /\ p[i + 1] \in Nat
      BY <1>1, <1>9, <3>1
    <3>3. \A a \in T, b \in Nat : (a + b) % 256 \in T
      OBVIOUS
    <3> HIDE DEF T
    <3>4. (sums[i] + p[i + 1]) % 256 \in T
      BY <2>1, <3>2, <3>3
    <3> QED BY <3>2, <3>4
  <2> DEFINE S == {i \in 0..m : sums[i] \in T}
  <2>2. S \in SUBSET (0..m) /\ 0 \in S /\ \A i \in S : i < m => i + 1 \in S
    BY <1>1, <1>9, <2>1
  <2>3. m \in Nat
    BY <1>1
  <2> HIDE DEF S
  <2>4. m \in S
    BY <2>2, <2>3, UpTo
  <2> QED BY <2>4 DEF S
<1>11. sums \in [0..n -> T]
  <2> HIDE DEF sums, T
  <2>1. sums = [i \in 0..n |-> sums[i]]
    BY <1>8
  <2> QED BY <1>10, <2>1
<1>12. checksum(p) = sums[n]
  BY DEF checksum
<1> HIDE DEF sums
<1> QED BY <1>9, <1>11, <1>12

-----------------------------------------------------------------------------
(* What bytes mean. *)

\* The meaning of bytes is a message, or an error.
LEMMA MeaningNamed ==
    ASSUME NEW bytes, parse_adapter_message(bytes).name \notin Errors
    PROVE  parse_adapter_message(bytes).name \in MessageNames
<1>1. CASE \E u \in Unchecked : bytes = <<u.byte>>
  <2> DEFINE c == CHOOSE u \in Unchecked : bytes = <<u.byte>>
  <2>1. c \in Unchecked
    BY <1>1
  <2>2. parse_adapter_message(bytes) = Message(c.name, <<>>)
    BY <1>1 DEF parse_adapter_message
  <2> HIDE DEF c
  <2>3. parse_adapter_message(bytes).name = c.name
    BY <2>2 DEF Message
  <2> QED BY <2>1, <2>3, Zenon DEF MessageNames
<1>2. CASE ~\E u \in Unchecked : bytes = <<u.byte>>
  <2> DEFINE body == Front(bytes)
  <2>1. parse_adapter_message(bytes) = parse_payload(body)
    <3>1. \/ parse_adapter_message(bytes) = Message("TooShort", <<>>)
          \/ parse_adapter_message(bytes) = Message("BadChecksum", <<>>)
          \/ parse_adapter_message(bytes) = parse_payload(body)
      BY <1>2, Zenon DEF parse_adapter_message
    <3> QED BY <3>1 DEF Message, Errors
  <2> HIDE DEF body
  <2> DEFINE Spoken == {e \in Vocabulary : IsPrefix(e.code, body)}
             Right(e) == Len(body) - Len(e.code) \in e.data
             c == CHOOSE e \in Spoken : Right(e)
  <2>2. CASE \E e \in Spoken : Right(e)
    <3>1. c \in Vocabulary
      BY <2>2
    <3> DEFINE data == SubSeq(body, Len(c.code) + 1, Len(body))
    <3>2. parse_payload(body) = Event(c.name, data)
      BY <2>2, Zenon DEF parse_payload
    <3> HIDE DEF c, data
    <3>3. Event(c.name, data).name \in {c.name, "ReservedAmount"}
      BY DEF Event, Message
    <3>4. parse_adapter_message(bytes).name = c.name
      BY <2>1, <3>2, <3>3 DEF Errors
    <3> QED BY <3>1, <3>4, Zenon DEF MessageNames
  <2>3. CASE Spoken = {}
    <3>1. parse_payload(body) = Message("Other", <<>>)
      BY <2>3, Zenon DEF parse_payload
    <3>2. parse_adapter_message(bytes).name = "Other"
      BY <2>1, <3>1 DEF Message
    <3> QED BY <3>2, Zenon DEF MessageNames
  <2>4. CASE Spoken # {} /\ ~\E e \in Spoken : Right(e)
    <3>1. parse_payload(body) = Message("InvalidLength", <<>>)
      BY <2>4, Zenon DEF parse_payload
    <3> QED BY <2>1, <3>1 DEF Message, Errors
  <2> QED BY <2>2, <2>3, <2>4
<1> QED BY <1>1, <1>2

\* What becomes of bytes: a one-byte message, an error, or a command.
LEMMA Parsed ==
    ASSUME NEW bytes \in Seq(Bytes)
    PROVE  \/ \E u \in Unchecked : parse_adapter_message(bytes) = Message(u.name, <<>>)
           \/ \E e \in {"TooShort", "BadChecksum"} : parse_adapter_message(bytes) = Message(e, <<>>)
           \/ /\ Len(bytes) >= 2
              /\ parse_adapter_message(bytes) = parse_payload(Front(bytes))
<1>1. CASE \E u \in Unchecked : bytes = <<u.byte>>
  <2> DEFINE c == CHOOSE u \in Unchecked : bytes = <<u.byte>>
  <2>1. c \in Unchecked
    BY <1>1
  <2>2. parse_adapter_message(bytes) = Message(c.name, <<>>)
    BY <1>1 DEF parse_adapter_message
  <2> QED BY <2>1, <2>2
<1>2. CASE ~\E u \in Unchecked : bytes = <<u.byte>>
  <2>1. Len(bytes) < 2 \/ Len(bytes) >= 2
    BY LenProperties
  <2> QED BY <1>2, <2>1, Zenon DEF parse_adapter_message
<1> QED BY <1>1, <1>2

LEMMA Worded ==
    ASSUME NEW body
    PROVE  \/ \E e \in {"Other", "InvalidLength"} : parse_payload(body) = Message(e, <<>>)
           \/ \E e \in Vocabulary :
                /\ Len(body) - Len(e.code) \in e.data
                /\ parse_payload(body) = Event(e.name, SubSeq(body, Len(e.code) + 1, Len(body)))
<1> DEFINE Spoken == {e \in Vocabulary : IsPrefix(e.code, body)}
           Right(e) == Len(body) - Len(e.code) \in e.data
           c == CHOOSE e \in Spoken : Right(e)
<1>1. CASE \E e \in Spoken : Right(e)
  <2>1. c \in Spoken /\ Right(c)
    BY <1>1
  <2>2. parse_payload(body) = Event(c.name, SubSeq(body, Len(c.code) + 1, Len(body)))
    BY <1>1, Zenon DEF parse_payload
  <2> QED BY <2>1, <2>2
<1>2. CASE Spoken = {}
  <2>1. parse_payload(body) = Message("Other", <<>>)
    BY <1>2, Zenon DEF parse_payload
  <2> QED BY <2>1
<1>3. CASE Spoken # {} /\ ~\E e \in Spoken : Right(e)
  <2>1. parse_payload(body) = Message("InvalidLength", <<>>)
    BY <1>3, Zenon DEF parse_payload
  <2> QED BY <2>1
<1> QED BY <1>1, <1>2, <1>3

LEMMA SetupSaid ==
    ASSUME NEW name, NEW data, Event(name, data).name = "SetupConfiguration"
    PROVE  /\ name = "SetupConfiguration"
           /\ Event(name, data).numbers = <<data[1], data[2], data[3], data[4] % 8>>
BY DEF Event, Message

\* A SETUP says four numbers, and names a size of two bytes.
LEMMA SetupNumbers ==
    ASSUME NEW bytes \in Seq(Bytes), parse_adapter_message(bytes).name = "SetupConfiguration"
    PROVE  LET numbers == parse_adapter_message(bytes).numbers
           IN  /\ numbers # <<>> /\ numbers \in Seq(Nat)
               /\ numbers[2] \in Bytes /\ numbers[3] \in Bytes
<1>1. Len(bytes) >= 2 /\ parse_adapter_message(bytes) = parse_payload(Front(bytes))
  BY Parsed DEF Unchecked, Message
<1> DEFINE body == Front(bytes)
<1>2. body \in Seq(Bytes) /\ Len(body) \in Nat
  <2>1. body = SubSeq(bytes, 1, Len(bytes) - 1)
    BY DEF Front
  <2>2. \A i \in 1..(Len(bytes) - 1) : bytes[i] \in Bytes
    BY LenProperties, ElementOfSeq
  <2> QED BY <1>1, <2>1, <2>2, SubSeqProperties, LenProperties
<1> HIDE DEF body
<1>3. PICK e \in Vocabulary :
        /\ Len(body) - Len(e.code) \in e.data
        /\ parse_payload(body) = Event(e.name, SubSeq(body, Len(e.code) + 1, Len(body)))
  BY <1>1, Worded DEF body, Message
<1> DEFINE data == SubSeq(body, Len(e.code) + 1, Len(body))
<1>5. /\ e.name = "SetupConfiguration"
      /\ parse_payload(body).numbers = <<data[1], data[2], data[3], data[4] % 8>>
  BY <1>1, <1>3, SetupSaid DEF body
<1>6. Len(e.code) = 2 /\ Len(body) = 6
  <2>1. e = [name |-> "SetupConfiguration", code |-> <<17, 0>>, data |-> {4}]
    BY <1>5 DEF Vocabulary
  <2>2. e.code = <<17, 0>> /\ e.data = {4}
    BY <2>1
  <2>3. Len(e.code) = 2
    BY <2>2
  <2> QED BY <1>2, <1>3, <2>2, <2>3
<1>7. \A i \in 1..4 : data[i] = body[i + 2]
  <2>1. \A i \in 3..6 : body[i] \in Bytes
    <3>1. \A i \in 3..6 : i \in 1..Len(body)
      BY <1>6
    <3> QED BY <1>2, <3>1, ElementOfSeq
  <2>2. data = SubSeq(body, 3, 6)
    BY <1>6
  <2>3. \A i \in 1..(6 - 3 + 1) : SubSeq(body, 3, 6)[i] = body[3 + i - 1]
    BY <2>1, SubSeqProperties
  <2> HIDE DEF data
  <2>4. \A i \in 1..4 : i \in 1..(6 - 3 + 1) /\ 3 + i - 1 = i + 2
    OBVIOUS
  <2>5. \A i \in 1..4 : data[i] = body[i + 2]
    BY <2>2, <2>3, <2>4
  <2> QED BY <2>5
<1>8. \A i \in 1..4 : data[i] \in Bytes
  <2>1. \A i \in 1..4 : i + 2 \in 1..Len(body)
    BY <1>6
  <2> QED BY <1>2, <1>7, <2>1, ElementOfSeq
<1>9. parse_adapter_message(bytes).numbers = <<data[1], data[2], data[3], data[4] % 8>>
  BY <1>1, <1>5 DEF body
<1> HIDE DEF data
<1>10. /\ data[1] \in Nat /\ data[2] \in Bytes /\ data[3] \in Bytes /\ data[4] \in Nat
       /\ data[2] \in Nat /\ data[3] \in Nat
  <2>1. data[1] \in Bytes /\ data[2] \in Bytes /\ data[3] \in Bytes /\ data[4] \in Bytes
    BY <1>8
  <2> QED BY <2>1, BytesAreNumbers
<1>11. data[4] % 8 \in Nat
  BY <1>10
<1> DEFINE low == data[4] % 8
<1>12. /\ parse_adapter_message(bytes).numbers = <<data[1], data[2], data[3], low>> /\ low \in Nat
  BY <1>9, <1>11
<1> HIDE DEF low
<1> QED BY <1>10, <1>12
LEMMA ChecksumType ==
    ASSUME NEW p \in Seq(Nat) PROVE checksum(p) \in Bytes
<1>1. Len(p) \in 0..Len(p)
  BY LenProperties
<1>2. PICK sums \in [0..Len(p) -> 0..255] : checksum(p) = sums[Len(p)]
  BY ChecksumSums
<1>3. sums[Len(p)] \in 0..255
  BY <1>1, <1>2
<1> QED BY <1>2, <1>3 DEF Bytes

\* Modulo 256, adding a byte is one-to-one.
LEMMA SumModulo ==
    ASSUME NEW x \in 0..510 PROVE x % 256 \in {x, x - 256}
<1>1. CASE x < 256
  <2>1. x % 256 = x
    BY <1>1
  <2> QED BY <2>1
<1>2. CASE ~(x < 256)
  <2>1. x % 256 = x - 256
    BY <1>2
  <2> QED BY <2>1
<1> QED BY <1>1, <1>2

LEMMA SumsDiffer ==
    \A a, b, c, d \in 0..255 :
      (a = b /\ c # d) \/ (a # b /\ c = d) => (a + c) % 256 # (b + d) % 256
<1> SUFFICES ASSUME NEW a \in 0..255, NEW b \in 0..255, NEW c \in 0..255, NEW d \in 0..255,
                    (a = b /\ c # d) \/ (a # b /\ c = d)
             PROVE  (a + c) % 256 # (b + d) % 256
  OBVIOUS
<1> DEFINE r == (a + c) % 256
           t == (b + d) % 256
<1>1. a + c \in 0..510 /\ b + d \in 0..510
  OBVIOUS
<1>2. r \in {a + c, a + c - 256} /\ t \in {b + d, b + d - 256}
  BY <1>1, SumModulo
<1> HIDE DEF r, t
<1>3. r # t
  BY <1>2
<1> QED BY <1>3 DEF r, t

\* One element changed changes the checksum.
LEMMA ChecksumTells ==
    ASSUME NEW p \in Seq(Bytes), NEW q \in Seq(Bytes), Len(p) = Len(q),
           NEW j \in 1..Len(p), p[j] # q[j], \A i \in 1..Len(p) : i # j => p[i] = q[i]
    PROVE  checksum(p) # checksum(q)
<1> DEFINE n == Len(p)
<1>1. n \in Nat /\ p \in Seq(Nat) /\ q \in Seq(Nat)
  <2>1. Bytes \subseteq Nat
    BY DEF Bytes
  <2> QED BY <2>1, LenProperties, SeqMonotonic
<1>2. PICK f \in [0..n -> 0..255] :
        f[0] = 0 /\ (\A i \in 1..n : f[i] = (f[i - 1] + p[i]) % 256) /\ checksum(p) = f[n]
  BY <1>1, ChecksumSums
<1>3. PICK g \in [0..n -> 0..255] :
        g[0] = 0 /\ (\A i \in 1..n : g[i] = (g[i - 1] + q[i]) % 256) /\ checksum(q) = g[n]
  <2>1. PICK g \in [0..Len(q) -> 0..255] :
          /\ g[0] = 0 /\ (\A i \in 1..Len(q) : g[i] = (g[i - 1] + q[i]) % 256)
          /\ checksum(q) = g[Len(q)]
    BY <1>1, ChecksumSums
  <2>2. Len(q) = n
    OBVIOUS
  <2> HIDE DEF n
  <2> QED BY <2>1, <2>2
<1>4. \A i \in 1..n : p[i] \in 0..255 /\ q[i] \in 0..255
  BY ElementOfSeq DEF Bytes
<1>8. (\A i \in 0..n : f[i] \in 0..255) /\ (\A i \in 0..n : g[i] \in 0..255)
  BY <1>2, <1>3
<1> HIDE DEF n
<1> DEFINE S == {i \in 0..n : IF i < j THEN f[i] = g[i] ELSE f[i] # g[i]}
<1>5. S \in SUBSET (0..n) /\ 0 \in S
  BY <1>1, <1>2, <1>3 DEF n
<1>6. ASSUME NEW i \in S, i < n PROVE i + 1 \in S
  <2>1. i \in 0..n /\ i + 1 \in 1..n /\ i + 1 - 1 = i /\ j \in 1..n
    BY <1>1, <1>6 DEF n
  <2>2. /\ f[i + 1] = (f[i] + p[i + 1]) % 256 /\ g[i + 1] = (g[i] + q[i + 1]) % 256
        /\ f[i] \in 0..255 /\ g[i] \in 0..255 /\ p[i + 1] \in 0..255 /\ q[i + 1] \in 0..255
    BY <1>2, <1>3, <1>4, <1>8, <2>1
  <2>3. i + 1 # j => p[i + 1] = q[i + 1]
    BY <2>1 DEF n
  \* Adding is one-to-one modulo 256.
  <2> DEFINE Plus(a, b) == (a + b) % 256
  <2>4. \A a, b, c, d \in 0..255 :
          (a = b /\ c # d) \/ (a # b /\ c = d) => Plus(a, c) # Plus(b, d)
    BY SumsDiffer
  <2>9. f[i + 1] = Plus(f[i], p[i + 1]) /\ g[i + 1] = Plus(g[i], q[i + 1])
    BY <2>2
  <2> DEFINE a == f[i]
             b == g[i]
             c == p[i + 1]
             d == q[i + 1]
  <2>10. a \in 0..255 /\ b \in 0..255 /\ c \in 0..255 /\ d \in 0..255
    BY <2>2
  <2> HIDE DEF Plus, a, b, c, d
  <2>11. (a = b /\ c # d) \/ (a # b /\ c = d) => f[i + 1] # g[i + 1]
    <3>1. (a = b /\ c # d) \/ (a # b /\ c = d) => Plus(a, c) # Plus(b, d)
      BY <2>4, <2>10
    <3> QED BY <2>9, <3>1 DEF a, b, c, d
  <2>5. CASE i + 1 < j
    <3>1. f[i] = g[i]
      BY <2>1, <2>5, <1>6
    <3> QED BY <2>1, <2>2, <2>3, <2>5, <3>1
  <2>6. CASE i + 1 = j
    <3>1. f[i] = g[i] /\ p[i + 1] # q[i + 1]
      BY <2>1, <2>6, <1>6
    <3>2. f[i + 1] # g[i + 1]
      BY <2>11, <3>1 DEF a, b, c, d
    <3> QED BY <2>1, <2>6, <3>2
  <2>7. CASE i + 1 > j
    <3>1. f[i] # g[i] /\ p[i + 1] = q[i + 1]
      BY <2>1, <2>3, <2>7, <1>6
    <3>2. f[i + 1] # g[i + 1]
      BY <2>11, <3>1 DEF a, b, c, d
    <3> QED BY <2>1, <2>7, <3>2
  <2> QED BY <2>1, <2>5, <2>6, <2>7
<1>7. n \in S
  <2> HIDE DEF S
  <2> QED BY <1>1, <1>5, <1>6, UpTo
<1> QED BY <1>2, <1>3, <1>7 DEF n

\* A frame with a right checksum and one byte changed has no right checksum any
\* more, whatever the byte: parse_adapter_message refuses it.
THEOREM OneByteChangeCaught ==
    ASSUME NEW bytes \in Seq(Bytes), Len(bytes) >= 2,
           parse_adapter_message(bytes) # Message("BadChecksum", <<>>),
           NEW i \in DOMAIN bytes, NEW b \in Bytes, b # bytes[i]
    PROVE  parse_adapter_message([bytes EXCEPT ![i] = b]) = Message("BadChecksum", <<>>)
<1> DEFINE other == [bytes EXCEPT ![i] = b]
           n == Len(bytes)
<1>1. n \in Nat /\ i \in 1..n /\ n >= 2
  BY LenProperties
<1>2. /\ other \in Seq(Bytes) /\ Len(other) = n
      /\ \A k \in 1..n : other[k] = IF k = i THEN b ELSE bytes[k]
  BY <1>1, ExceptSeq
<1> HIDE DEF other
<1>3. ASSUME NEW s \in Seq(Bytes), Len(s) = n
      PROVE  /\ \A u \in Unchecked : s # <<u.byte>>
             /\ Front(s) \in Seq(Bytes) /\ Len(Front(s)) = n - 1
             /\ \A k \in 1..(n - 1) : Front(s)[k] = s[k]
             /\ Last(s) = s[n]
  <2>1. Front(s) = SubSeq(s, 1, n - 1) /\ Last(s) = s[n]
    BY <1>3 DEF Front, Last
  <2>2. 1 \in 1..(Len(s) + 1) /\ n - 1 \in 0..Len(s)
    BY <1>1, <1>3
  <2>3. /\ SubSeq(s, 1, n - 1) \in Seq(Bytes)
        /\ Len(SubSeq(s, 1, n - 1)) = n - 1
        /\ \A k \in 1..(n - 1) : SubSeq(s, 1, n - 1)[k] = s[k]
    BY <1>1, <2>2, PartOfSequence
  <2>4. \A u : Len(<<u>>) = 1
    OBVIOUS
  <2>5. \A u \in Unchecked : s # <<u.byte>>
    <3>1. ASSUME NEW x, s = <<x>> PROVE FALSE
      <4>1. Len(s) = 1
        BY <3>1, <2>4
      <4> QED BY <1>1, <1>3, <4>1
    <3> QED BY <3>1
  <2> QED BY <2>1, <2>3, <2>5
<1>4. checksum(Front(bytes)) = Last(bytes)
  <2>1. ~(Len(bytes) < 2) /\ ~\E u \in Unchecked : bytes = <<u.byte>>
    BY <1>1, <1>3
  <2> QED BY <2>1, Zenon DEF parse_adapter_message
<1>5. checksum(Front(other)) # Last(other)
  <2> DEFINE p == Front(bytes)
             q == Front(other)
  <2>1. /\ p \in Seq(Bytes) /\ Len(p) = n - 1 /\ \A k \in 1..(n - 1) : p[k] = bytes[k]
        /\ q \in Seq(Bytes) /\ Len(q) = n - 1 /\ \A k \in 1..(n - 1) : q[k] = other[k]
        /\ Last(bytes) = bytes[n] /\ Last(other) = other[n]
    BY <1>2, <1>3
  <2> HIDE DEF p, q
  <2>2. CASE i = n
    <3>1. \A k \in 1..(n - 1) : k \in 1..n /\ k # i
      BY <1>1, <2>2
    <3>2. p = q
      <4>1. \A k \in 1..(n - 1) : p[k] = q[k]
        BY <1>2, <2>1, <3>1
      <4> QED BY <2>1, <4>1, SeqEqual
    <3> QED BY <1>1, <1>2, <1>4, <2>1, <2>2, <3>2 DEF p, q
  <2>3. CASE i # n
    <3>1. i \in 1..(n - 1) /\ (\A k \in 1..(n - 1) : k \in 1..n) /\ n \in 1..n
      BY <1>1, <2>3
    <3>2. p[i] # q[i] /\ \A k \in 1..(n - 1) : k # i => p[k] = q[k]
      BY <1>2, <2>1, <3>1
    <3>3. checksum(p) # checksum(q)
      BY <2>1, <3>1, <3>2, ChecksumTells
    <3>4. Last(other) = Last(bytes)
      BY <1>2, <2>1, <2>3, <3>1
    <3> QED BY <1>4, <3>3, <3>4 DEF p, q
  <2> QED BY <2>2, <2>3
<1>6. ~(Len(other) < 2) /\ ~\E u \in Unchecked : other = <<u.byte>>
  BY <1>1, <1>2, <1>3
<1>7. parse_adapter_message(other) = Message("BadChecksum", <<>>)
  BY <1>5, <1>6, Zenon DEF parse_adapter_message
<1> QED BY <1>7 DEF other
-----------------------------------------------------------------------------
(* The hex text.                                                           *)

\* What the adapter writes for a byte are digits, and none is white space.
Lower == (48..57) \union (97..102)

LEMMA LowerDigits ==
    /\ \A d \in 0..15 : HexDigit(d) \in Lower /\ DigitValue(HexDigit(d)) = d
    /\ \A c \in Lower : c \in Bytes /\ c \notin Whitespace /\ c # STX /\ c # ETX
<1>1. ASSUME NEW d \in 0..15 PROVE HexDigit(d) \in Lower /\ DigitValue(HexDigit(d)) = d
  <2>1. CASE d < 10
    <3>1. HexDigit(d) = 48 + d /\ 48 + d \in 48..57 /\ 48 + d \notin 65..70 /\ 48 + d \notin 97..102
      BY <2>1 DEF HexDigit
    <3>2. DigitValue(48 + d) = 48 + d - 48
      BY <3>1 DEF DigitValue
    <3> QED BY <3>1, <3>2 DEF Lower
  <2>2. CASE ~(d < 10)
    <3>1. HexDigit(d) = 87 + d /\ 87 + d \in 97..102 /\ 87 + d \notin 65..70 /\ 87 + d \notin 48..57
      BY <2>2 DEF HexDigit
    <3>2. DigitValue(87 + d) = 87 + d - 87
      BY <3>1 DEF DigitValue
    <3> QED BY <3>1, <3>2 DEF Lower
  <2> QED BY <2>1, <2>2
<1>2. \A c \in Lower : c \in Bytes /\ c \notin Whitespace /\ c # STX /\ c # ETX
  BY DEF Lower, Bytes, Whitespace, STX, ETX
<1> QED BY <1>1, <1>2

\* The digits of a byte and back.
LEMMA ByteDigits ==
    ASSUME NEW b \in Bytes
    PROVE  b \div 16 \in 0..15 /\ b % 16 \in 0..15 /\ 16 * (b \div 16) + (b % 16) = b
BY DEF Bytes

LEMMA DigitsOfBytes ==
    ASSUME NEW bytes \in Seq(Bytes)
    PROVE  /\ Digits(bytes) \in Seq(Lower) /\ Len(Digits(bytes)) = 2 * Len(bytes)
           /\ \A i \in 1..Len(bytes) :
                /\ Digits(bytes)[2 * i - 1] = HexDigit(bytes[i] \div 16)
                /\ Digits(bytes)[2 * i] = HexDigit(bytes[i] % 16)
<1> DEFINE n == Len(bytes)
           Digit(i) == HexDigit(IF i % 2 = 1 THEN bytes[(i + 1) \div 2] \div 16
                                             ELSE bytes[(i + 1) \div 2] % 16)
<1>1. n \in Nat /\ 2 * n \in Nat /\ \A i \in 1..n : bytes[i] \in Bytes
  BY LenProperties, ElementOfSeq
<1>2. Digits(bytes) = [i \in 1..(2 * n) |-> Digit(i)]
  BY DEF Digits
<1>3. ASSUME NEW i \in 1..(2 * n) PROVE Digit(i) \in Lower
  <2>1. (i + 1) \div 2 \in 1..n
    BY <1>1
  <2>2. bytes[(i + 1) \div 2] \in Bytes
    BY <1>1, <2>1
  <2> QED BY <2>2, ByteDigits, LowerDigits
<1>4. ASSUME NEW i \in 1..n
      PROVE  /\ 2 * i \in 1..(2 * n) /\ 2 * i - 1 \in 1..(2 * n)
             /\ Digit(2 * i - 1) = HexDigit(bytes[i] \div 16)
             /\ Digit(2 * i) = HexDigit(bytes[i] % 16)
  <2>1. (2 * i) % 2 = 0 /\ (2 * i - 1) % 2 = 1 /\ (2 * i + 1) \div 2 = i /\ (2 * i - 1 + 1) \div 2 = i
    BY <1>1
  <2>2. 2 * i \in 1..(2 * n) /\ 2 * i - 1 \in 1..(2 * n)
    BY <1>1
  <2> QED BY <2>1, <2>2
<1> HIDE DEF Digit, n
<1>5. Digits(bytes) \in [1..(2 * n) -> Lower]
  BY <1>2, <1>3
<1>6. Digits(bytes) \in Seq(Lower) /\ Len(Digits(bytes)) = 2 * n
  <2>1. Digits(bytes) \in Seq(Lower)
    BY <1>1, <1>5, SeqDef
  <2>2. DOMAIN Digits(bytes) = 1..(2 * n) /\ DOMAIN Digits(bytes) = 1..Len(Digits(bytes))
    BY <1>5, <2>1, LenProperties
  <2>3. Len(Digits(bytes)) \in Nat
    BY <2>1, LenProperties
  <2> QED BY <1>1, <2>1, <2>2, <2>3
<1>7. ASSUME NEW i \in 1..n
      PROVE  /\ Digits(bytes)[2 * i - 1] = HexDigit(bytes[i] \div 16)
             /\ Digits(bytes)[2 * i] = HexDigit(bytes[i] % 16)
  BY <1>2, <1>4
<1> QED BY <1>6, <1>7 DEF n

LEMMA FramedOfBytes ==
    ASSUME NEW bytes \in Seq(Bytes)
    PROVE  /\ Framed(bytes) \in Seq(Bytes) /\ Len(Framed(bytes)) = 2 * Len(bytes) + 2
           /\ Framed(bytes)[1] = STX /\ Framed(bytes)[2 * Len(bytes) + 2] = ETX
           /\ \A i \in 1..(2 * Len(bytes)) :
                Framed(bytes)[i + 1] = Digits(bytes)[i] /\ Digits(bytes)[i] \in Lower
<1> DEFINE n == 2 * Len(bytes)
           D == Digits(bytes)
           A == <<STX>>
           Z == <<ETX>>
<1>1. /\ D \in Seq(Lower) /\ Len(D) = n /\ n \in Nat
  BY DigitsOfBytes, LenProperties
<1>2. (\A i \in 1..n : D[i] \in Lower) /\ D \in Seq(Bytes)
  <2>1. Lower \subseteq Bytes
    BY LowerDigits
  <2> QED BY <1>1, <2>1, ElementOfSeq, SeqMonotonic
<1>3. /\ A \in Seq(Bytes) /\ Len(A) = 1 /\ A[1] = STX
      /\ Z \in Seq(Bytes) /\ Len(Z) = 1 /\ Z[1] = ETX
  BY DEF STX, ETX, Bytes
<1>4. Framed(bytes) = A \o D \o Z
  BY DEF Framed
<1> HIDE DEF n, D, A, Z
<1>5. /\ A \o D \in Seq(Bytes) /\ Len(A \o D) = n + 1
      /\ \A i \in 1..(n + 1) : (A \o D)[i] = IF i <= 1 THEN A[i] ELSE D[i - 1]
  <2>1. /\ A \o D \in Seq(Bytes) /\ Len(A \o D) = Len(A) + Len(D)
        /\ \A i \in 1..(Len(A) + Len(D)) :
             (A \o D)[i] = IF i <= Len(A) THEN A[i] ELSE D[i - Len(A)]
    BY <1>2, <1>3, ConcatProperties
  <2>2. Len(A) = 1 /\ Len(D) = n /\ 1 + n = n + 1
    BY <1>1, <1>3
  <2> QED BY <2>1, <2>2
<1> DEFINE B == A \o D
<1> HIDE DEF B
<1>6. /\ B \in Seq(Bytes) /\ Len(B) = n + 1
      /\ \A i \in 1..(n + 1) : B[i] = IF i <= 1 THEN A[i] ELSE D[i - 1]
  BY <1>5 DEF B
<1>7. /\ B \o Z \in Seq(Bytes) /\ Len(B \o Z) = n + 1 + 1
      /\ \A i \in 1..(n + 1 + 1) : (B \o Z)[i] = IF i <= n + 1 THEN B[i] ELSE Z[i - (n + 1)]
  <2>1. /\ B \o Z \in Seq(Bytes) /\ Len(B \o Z) = Len(B) + Len(Z)
        /\ \A i \in 1..(Len(B) + Len(Z)) :
             (B \o Z)[i] = IF i <= Len(B) THEN B[i] ELSE Z[i - Len(B)]
    BY <1>3, <1>6, ConcatProperties
  <2>2. Len(B) = n + 1 /\ Len(Z) = 1
    BY <1>3, <1>6
  <2> QED BY <2>1, <2>2
<1>8. Framed(bytes) = B \o Z
  BY <1>4 DEF B
<1> DEFINE F == B \o Z
<1> HIDE DEF F
<1>9. F[1] = STX /\ F[n + 2] = ETX
  <2>1. 1 \in 1..(n + 1 + 1) /\ 1 <= n + 1 /\ 1 \in 1..(n + 1)
        /\ n + 2 \in 1..(n + 1 + 1) /\ ~(n + 2 <= n + 1) /\ n + 2 - (n + 1) = 1
    BY <1>1
  <2> QED BY <1>3, <1>6, <1>7, <2>1 DEF F
<1>10. ASSUME NEW i \in 1..n PROVE F[i + 1] = D[i]
  <2>1. i + 1 \in 1..(n + 1 + 1) /\ i + 1 <= n + 1 /\ i + 1 \in 1..(n + 1) /\ ~(i + 1 <= 1) /\ i + 1 - 1 = i
    BY <1>1
  <2> QED BY <1>6, <1>7, <2>1 DEF F
<1>11. F \in Seq(Bytes) /\ Len(F) = n + 2
  BY <1>1, <1>7 DEF F
<1>12. Framed(bytes) = F
  BY <1>8 DEF F
<1> QED BY <1>2, <1>9, <1>10, <1>11, <1>12 DEF n, D
\* A text without white space is kept as it is.
LEMMA CompactKeeps ==
    ASSUME NEW s \in Seq(Lower) PROVE compact(s) = s
<1> DEFINE n == Len(s)
           Kept(f) == f = [i \in 0..n |->
                             IF i = 0 THEN <<>>
                             ELSE IF s[i] \in Whitespace THEN f[i - 1] ELSE Append(f[i - 1], s[i])]
           kept == CHOOSE f : Kept(f)
           g == [i \in 0..n |-> SubSeq(s, 1, i)]
<1>1. n \in Nat /\ \A i \in 1..n : s[i] \in Lower /\ s[i] \notin Whitespace
  BY LenProperties, ElementOfSeq, LowerDigits
<1>2. SubSeq(s, 1, 0) = <<>>
  BY SubSeqEmpty
<1>3. ASSUME NEW i \in 1..n PROVE Append(SubSeq(s, 1, i - 1), s[i]) = SubSeq(s, 1, i)
  <2>1. 1 \in 1..Len(s) /\ i \in 1..Len(s) /\ i - 1 \in 0..Len(s) /\ 1 \in 1..(Len(s) + 1)
    BY <1>1
  <2>2. SubSeq(s, 1, i) = SubSeq(s, 1, i - 1) \o <<s[i]>>
    BY <2>1, SubSeqRecursiveSecond
  <2>3. SubSeq(s, 1, i - 1) \in Seq(Lower)
    BY <2>1, PartOfSequence
  <2> QED BY <1>1, <2>2, <2>3, AppendIsConcat
<1>4. Kept(g)
  <2>1. ASSUME NEW i \in 0..n
        PROVE  g[i] = IF i = 0 THEN <<>>
                      ELSE IF s[i] \in Whitespace THEN g[i - 1] ELSE Append(g[i - 1], s[i])
    <3>1. CASE i = 0
      BY <1>2, <3>1
    <3>2. CASE i # 0
      <4>1. i \in 1..n /\ i - 1 \in 0..n
        BY <1>1, <3>2
      <4>2. g[i - 1] = SubSeq(s, 1, i - 1) /\ g[i] = SubSeq(s, 1, i)
        BY <4>1
      <4> QED BY <1>1, <1>3, <3>2, <4>1, <4>2
    <3> QED BY <3>1, <3>2
  <2>2. g = [i \in 0..n |-> g[i]]
    OBVIOUS
  <2> HIDE DEF g
  <2> QED BY <2>1, <2>2
<1>5. Kept(kept)
  BY <1>4
<1>11. compact(s) = kept[n]
  BY DEF compact
<1> HIDE DEF kept
<1>6. \A i \in 0..n : kept[i] = IF i = 0 THEN <<>>
                                ELSE IF s[i] \in Whitespace THEN kept[i - 1] ELSE Append(kept[i - 1], s[i])
  <2> HIDE DEF n
  <2>1. kept = [i \in 0..n |->
                  IF i = 0 THEN <<>>
                  ELSE IF s[i] \in Whitespace THEN kept[i - 1] ELSE Append(kept[i - 1], s[i])]
    BY <1>5
  <2> QED BY <2>1
<1> HIDE DEF n
<1>13. kept[0] = <<>> /\ \A i \in 1..n : kept[i] = Append(kept[i - 1], s[i])
  <2>1. 0 \in 0..n /\ \A i \in 1..n : i \in 0..n /\ i # 0
    BY <1>1
  <2> QED BY <1>1, <1>6, <2>1
<1> DEFINE Right(i) == kept[i] = SubSeq(s, 1, i)
           S == {i \in 0..n : Right(i)}
<1>7. S \in SUBSET (0..n) /\ 0 \in S
  <2>1. Right(0)
    BY <1>2, <1>13
  <2> HIDE DEF Right
  <2> QED BY <1>1, <2>1
<1>8. ASSUME NEW i \in S, i < n PROVE i + 1 \in S
  <2>1. i + 1 \in 1..n /\ i + 1 \in 0..n /\ i + 1 # 0 /\ i + 1 - 1 = i
    BY <1>1, <1>8
  <2>2. kept[i + 1] = Append(kept[i + 1 - 1], s[i + 1])
    BY <1>13, <2>1
  <2>3. kept[i + 1] = SubSeq(s, 1, i + 1)
    BY <1>3, <1>8, <2>1, <2>2
  <2> QED BY <2>1, <2>3
<1>9. n \in S
  <2> HIDE DEF S
  <2> QED BY <1>1, <1>7, <1>8, UpTo
<1>10. kept[n] = SubSeq(s, 1, Len(s))
  BY <1>9 DEF n
<1>12. SubSeq(s, 1, Len(s)) = s
  BY SubSeqFull
<1> QED BY <1>10, <1>11, <1>12 DEF n

\* parse_ascii_hex reads back what the adapter wrote, for every byte sequence.
THEOREM HexRoundTrip ==
    ASSUME NEW bytes \in Seq(Bytes)
    PROVE  /\ IsHexText(compact(Digits(bytes)))
           /\ decode(compact(Digits(bytes))) = bytes
<1> DEFINE n == Len(bytes)
           D == Digits(bytes)
<1>1. n \in Nat /\ \A i \in 1..n : bytes[i] \in Bytes
  BY LenProperties, ElementOfSeq
<1>2. /\ D \in Seq(Lower) /\ Len(D) = 2 * n /\ DOMAIN D = 1..(2 * n)
      /\ \A i \in 1..n : D[2 * i - 1] = HexDigit(bytes[i] \div 16) /\ D[2 * i] = HexDigit(bytes[i] % 16)
  BY DigitsOfBytes, LenProperties
<1>3. compact(D) = D
  BY <1>2, CompactKeeps
<1> HIDE DEF D, n
<1>4. IsHexText(D)
  <2>1. \A c \in Lower : DigitValue(c) >= 0
    <3>1. ASSUME NEW c \in Lower PROVE \E d \in 0..15 : c = HexDigit(d)
      <4>1. CASE c \in 48..57
        <5>1. c - 48 \in 0..15 /\ HexDigit(c - 48) = c
          BY <4>1 DEF HexDigit
        <5> QED BY <5>1
      <4>2. CASE c \in 97..102
        <5>1. c - 87 \in 0..15 /\ HexDigit(c - 87) = c
          BY <4>2 DEF HexDigit
        <5> QED BY <5>1
      <4> QED BY <4>1, <4>2 DEF Lower
    <3>2. \A d \in 0..15 : DigitValue(HexDigit(d)) >= 0
      BY LowerDigits
    <3> QED BY <3>1, <3>2
  <2>2. \A i \in DOMAIN D : D[i] \in Lower
    BY <1>2, LenProperties, ElementOfSeq
  <2>3. (2 * n) % 2 = 0
    BY <1>1
  <2> QED BY <1>2, <2>1, <2>2, <2>3 DEF IsHexText
<1>5. decode(D) = bytes
  <2>1. (2 * n) \div 2 = n
    BY <1>1
  <2>2. decode(D) = [i \in 1..n |-> 16 * DigitValue(D[2 * i - 1]) + DigitValue(D[2 * i])]
    BY <1>2, <2>1 DEF decode
  <2>3. ASSUME NEW i \in 1..n PROVE 16 * DigitValue(D[2 * i - 1]) + DigitValue(D[2 * i]) = bytes[i]
    <3> DEFINE h == bytes[i] \div 16
               l == bytes[i] % 16
    <3>1. h \in 0..15 /\ l \in 0..15 /\ 16 * h + l = bytes[i]
      BY <1>1, ByteDigits
    <3> HIDE DEF h, l
    <3>2. DigitValue(D[2 * i - 1]) = h /\ DigitValue(D[2 * i]) = l
      BY <1>2, <3>1, LowerDigits DEF h, l
    <3> QED BY <3>1, <3>2
  <2>4. bytes = [i \in 1..n |-> bytes[i]]
    BY LenProperties DEF n
  <2> QED BY <2>2, <2>3, <2>4
<1> QED BY <1>3, <1>4, <1>5 DEF D
=============================================================================
