-------------------------- MODULE AdapterLinkProofs --------------------------
(***************************************************************************)
(* Theorems about AdapterLink, for every buffer size, chunk size, set of   *)
(* payloads, number of messages and number of faults.                      *)
(***************************************************************************)
EXTENDS AdapterLink, WireProtocolProofs
LOCAL INSTANCE SequencesExt

Spans == [from : Nat, to : Nat]

LinkTypes ==
    /\ line \in Seq(Bytes) /\ buffer \in Seq(Bytes) /\ stream \in Seq(Bytes)
    /\ frames \in Seq(Seq(Bytes))
    /\ used \in Nat
    /\ spans \in Seq(Spans)

\* The buffer is the end of the stream, character by character.
Buffered ==
    /\ used + Len(buffer) = Len(stream)
    /\ \A i \in 1..Len(buffer) : buffer[i] = stream[used + i]

SpanOK(k) ==
    /\ spans[k].from \in 1..(spans[k].to - 1) /\ spans[k].to <= used
    /\ stream[spans[k].from] = STX /\ stream[spans[k].to] = ETX
    /\ \A i \in (spans[k].from + 1)..(spans[k].to - 1) : stream[i] # ETX
    /\ k > 1 => spans[k - 1].to < spans[k].from

SpansOK == \A k \in 1..Len(spans) : SpanOK(k)

LinkInv == LinkTypes /\ Buffered /\ SpansOK /\ NothingWithheld

-----------------------------------------------------------------------------

LEMMA LinkInvInit == LinkInit => LinkInv
BY LinkBoundsAssumption DEF LinkInit, LinkInv, LinkTypes, Buffered, SpansOK, NothingWithheld, Spans

\* What a fault makes of a text is a text.
LEMMA GarbledType ==
    ASSUME NEW s \in Seq(Bytes), NEW text \in Garbled(s)
    PROVE  text \in Seq(Bytes)
<1>1. Len(s) \in Nat /\ DOMAIN s = 1..Len(s) /\ \A i \in 1..Len(s) : s[i] \in Bytes
  BY LenProperties, ElementOfSeq
<1>2. \A i \in 1..(Len(s) + 1) : SubSeq(s, 1, i - 1) \in Seq(Bytes) /\ SubSeq(s, i, Len(s)) \in Seq(Bytes)
  <2> SUFFICES ASSUME NEW i \in 1..(Len(s) + 1)
               PROVE  SubSeq(s, 1, i - 1) \in Seq(Bytes) /\ SubSeq(s, i, Len(s)) \in Seq(Bytes)
    OBVIOUS
  <2>1. 1 \in 1..(Len(s) + 1) /\ i - 1 \in 0..Len(s) /\ Len(s) \in 0..Len(s)
    BY <1>1
  <2> QED BY <2>1, PartOfSequence
<1>3. ASSUME NEW i \in DOMAIN s PROVE RemoveAt(s, i) \in Seq(Bytes)
  <2>1. i \in 1..(Len(s) + 1) /\ i + 1 \in 1..(Len(s) + 1)
    BY <1>1
  <2> QED BY <1>2, <2>1, ConcatProperties DEF RemoveAt
<1>4. ASSUME NEW i \in DOMAIN s, NEW c \in Noise PROVE ReplaceAt(s, i, c) \in Seq(Bytes)
  <2>1. c \in Bytes /\ i \in 1..Len(s)
    BY <1>1, LineAssumption
  <2> QED BY <2>1, ExceptSeq DEF ReplaceAt
<1>5. ASSUME NEW i \in 1..(Len(s) + 1), NEW c \in Noise PROVE InsertAt(s, i, c) \in Seq(Bytes)
  <2>1. <<c>> \in Seq(Bytes)
    BY LineAssumption
  <2>2. SubSeq(s, 1, i - 1) \o <<c>> \in Seq(Bytes)
    BY <1>2, <2>1, ConcatProperties
  <2> QED BY <1>2, <2>2, ConcatProperties DEF InsertAt
<1> QED BY <1>3, <1>4, <1>5 DEF Garbled

LEMMA AdapterSendsKeeps ==
    ASSUME LinkInv, AdapterSends PROVE LinkInv'
<1>1. line' \in Seq(Bytes)
  <2>1. PICK bytes \in Payloads :
          \/ line' = line \o Framed(bytes)
          \/ \E text \in Garbled(Framed(bytes)) : line' = line \o text
    BY DEF AdapterSends
  <2>2. PICK text \in Seq(Bytes) : line' = line \o text
    <3>1. Framed(bytes) \in Seq(Bytes)
      BY LineAssumption, FramedOfBytes
    <3>2. \A text \in Garbled(Framed(bytes)) : text \in Seq(Bytes)
      BY <3>1, GarbledType
    <3> QED BY <2>1, <3>1, <3>2
  <2> QED BY <2>2, ConcatProperties DEF LinkTypes, LinkInv
<1>2. UNCHANGED <<buffer, stream, frames, used, spans, decoding>>
  BY DEF AdapterSends, link
<1> QED BY <1>1, <1>2 DEF LinkTypes, Buffered, SpansOK, SpanOK, NothingWithheld, LinkInv

LEMMA ReadKeeps ==
    ASSUME LinkInv, Read PROVE LinkInv'
<1> USE DEF LinkInv
<1>1. PICK n \in 1..MaxChunk :
        /\ n <= Len(line)
        /\ buffer' = buffer \o SubSeq(line, 1, n)
        /\ stream' = stream \o SubSeq(line, 1, n)
        /\ line' = SubSeq(line, n + 1, Len(line))
  BY DEF Read
<1>2. UNCHANGED <<frames, used, spans>> /\ decoding'
  BY DEF Read
<1>3. n \in Nat /\ Len(line) \in Nat /\ Len(buffer) \in Nat /\ Len(stream) \in Nat
  BY LinkBoundsAssumption, LenProperties DEF LinkTypes
<1> DEFINE chunk == SubSeq(line, 1, n)
<1>4. chunk \in Seq(Bytes) /\ Len(chunk) = n
  BY <1>1, <1>3, PartOfSequence DEF LinkTypes
<1>5. line' \in Seq(Bytes)
  BY <1>1, <1>3, PartOfSequence DEF LinkTypes
<1>6. /\ buffer' \in Seq(Bytes) /\ Len(buffer') = Len(buffer) + n
      /\ \A i \in 1..(Len(buffer) + n) :
           buffer'[i] = IF i <= Len(buffer) THEN buffer[i] ELSE chunk[i - Len(buffer)]
  BY <1>1, <1>4, ConcatProperties DEF LinkTypes
<1>7. /\ stream' \in Seq(Bytes) /\ Len(stream') = Len(stream) + n
      /\ \A i \in 1..(Len(stream) + n) :
           stream'[i] = IF i <= Len(stream) THEN stream[i] ELSE chunk[i - Len(stream)]
  BY <1>1, <1>4, ConcatProperties DEF LinkTypes
<1> HIDE DEF chunk
<1>8. LinkTypes'
  BY <1>2, <1>5, <1>6, <1>7 DEF LinkTypes
<1>9. Buffered'
  <2>1. used \in Nat /\ used + Len(buffer) = Len(stream)
    BY DEF LinkTypes, Buffered
  <2>2. ASSUME NEW i \in 1..(Len(buffer) + n) PROVE buffer'[i] = stream'[used + i]
    <3>1. CASE i <= Len(buffer)
      <4>1. i \in 1..Len(buffer) /\ used + i \in 1..(Len(stream) + n) /\ used + i <= Len(stream)
        BY <3>1, <1>3, <2>1
      <4>2. buffer'[i] = buffer[i] /\ stream'[used + i] = stream[used + i]
        BY <3>1, <4>1, <1>6, <1>7
      <4> QED BY <4>1, <4>2 DEF Buffered
    <3>2. CASE ~(i <= Len(buffer))
      <4>1. /\ used + i \in 1..(Len(stream) + n) /\ ~(used + i <= Len(stream))
            /\ used + i - Len(stream) = i - Len(buffer)
        BY <3>2, <1>3, <2>1
      <4>2. buffer'[i] = chunk[i - Len(buffer)]
        BY <3>2, <1>6
      <4>3. stream'[used + i] = chunk[used + i - Len(stream)]
        BY <4>1, <1>3, <1>7, <2>1
      <4> QED BY <4>1, <4>2, <4>3
    <3> QED BY <3>1, <3>2
  <2>3. used' = used /\ Len(buffer') = Len(buffer) + n /\ Len(stream') = Len(stream) + n
    BY <1>2, <1>6, <1>7
  <2>4. used + (Len(buffer) + n) = Len(stream) + n
    BY <1>3, <2>1
  <2> QED BY <2>2, <2>3, <2>4 DEF Buffered
<1>10. SpansOK'
  <2> SUFFICES ASSUME NEW k \in 1..Len(spans) PROVE SpanOK(k)'
    BY <1>2 DEF SpansOK
  <2>1. SpanOK(k) /\ spans[k] \in Spans
    BY ElementOfSeq DEF SpansOK, LinkTypes
  <2>2. used <= Len(stream) /\ used \in Nat
    BY <1>3 DEF Buffered, LinkTypes
  <2>3. \A i \in 1..used : stream'[i] = stream[i]
    BY <1>3, <1>7, <2>2
  <2>4. \A i \in spans[k].from..spans[k].to : i \in 1..used
    BY <2>1, <2>2 DEF SpanOK, Spans
  <2>5. spans[k].from \in spans[k].from..spans[k].to /\ spans[k].to \in spans[k].from..spans[k].to
    BY <2>1 DEF SpanOK, Spans
  <2>6. stream'[spans[k].from] = STX /\ stream'[spans[k].to] = ETX
    BY <2>1, <2>3, <2>4, <2>5 DEF SpanOK
  <2>7. \A i \in (spans[k].from + 1)..(spans[k].to - 1) : stream'[i] # ETX
    <3>1. \A i \in (spans[k].from + 1)..(spans[k].to - 1) : i \in spans[k].from..spans[k].to
      BY <2>1 DEF Spans
    <3> QED BY <2>1, <2>3, <2>4, <3>1 DEF SpanOK
  <2> QED BY <1>2, <2>1, <2>6, <2>7 DEF SpanOK
<1> QED BY <1>2, <1>8, <1>9, <1>10 DEF NothingWithheld

\* What is left of the buffer behind its m-th character.
TrimmedBy(m) ==
    buffer' = SubSeq(buffer, m + 1, Len(buffer)) /\ used' = used + m /\ stream' = stream

LEMMA RestOfBuffer ==
    ASSUME LinkInv, NEW m \in 0..Len(buffer), TrimmedBy(m)
    PROVE  /\ buffer' \in Seq(Bytes) /\ used' \in Nat /\ Buffered'
           /\ Len(buffer') = Len(buffer) - m
           /\ \A i \in 1..Len(buffer') : buffer'[i] = buffer[m + i]
<1>1. Len(buffer) \in Nat /\ used \in Nat /\ buffer \in Seq(Bytes)
  BY LenProperties DEF LinkInv, LinkTypes
<1>2. buffer' \in Seq(Bytes) /\ Len(buffer') = Len(buffer) - m /\ used' \in Nat
  BY <1>1, PartOfSequence DEF TrimmedBy
<1>3. \A i \in 1..Len(buffer') : buffer'[i] = buffer[m + i]
  <2> SUFFICES ASSUME NEW i \in 1..Len(buffer') PROVE buffer'[i] = buffer[m + i]
    OBVIOUS
  <2>1. i \in 1..(Len(buffer) - (m + 1) + 1)
    BY <1>1, <1>2
  <2>2. SubSeq(buffer, m + 1, Len(buffer))[i] = buffer[m + 1 + i - 1]
    BY <1>1, <2>1, PartOfSequence
  <2> QED BY <2>1, <2>2, <1>1 DEF TrimmedBy
<1>4. Buffered'
  <2>1. used + Len(buffer) = Len(stream)
    BY DEF LinkInv, Buffered
  <2>2. ASSUME NEW i \in 1..Len(buffer') PROVE buffer'[i] = stream[used + m + i]
    <3>1. m + i \in 1..Len(buffer) /\ used + (m + i) = used + m + i
      BY <1>1, <1>2
    <3>2. buffer[m + i] = stream[used + (m + i)]
      BY <3>1 DEF LinkInv, Buffered
    <3> QED BY <1>3, <3>1, <3>2
  <2>3. stream' = stream /\ used' = used + m
    BY DEF TrimmedBy
  <2>4. used' + Len(buffer') = Len(stream)
    BY <1>1, <1>2, <2>1, <2>3
  <2> QED BY <2>2, <2>3, <2>4 DEF Buffered
<1> QED BY <1>1, <1>2, <1>3, <1>4

\* Where the buffer has a character, the stream has it too.
LEMMA BufferInStream ==
    ASSUME LinkInv, NEW i \in DOMAIN buffer
    PROVE  i \in 1..Len(buffer) /\ used + i \in 1..Len(stream) /\ stream[used + i] = buffer[i]
<1>1. Len(buffer) \in Nat /\ used \in Nat /\ DOMAIN buffer = 1..Len(buffer)
  BY LenProperties DEF LinkInv, LinkTypes
<1> QED BY <1>1 DEF LinkInv, Buffered

\* The spans found so far stay where they are.
LEMMA SpansKept ==
    ASSUME LinkInv, NEW k \in 1..Len(spans), UNCHANGED <<spans, stream>>,
           used' \in Nat, used <= used'
    PROVE  SpanOK(k)'
<1>1. SpanOK(k) /\ spans[k] \in Spans /\ used \in Nat
  BY ElementOfSeq DEF LinkInv, SpansOK, LinkTypes
<1> QED BY <1>1 DEF SpanOK, Spans

LEMMA ExtractFrameKeeps ==
    ASSUME LinkInv, ExtractFrame PROVE LinkInv'
<1>1. PICK start, end \in DOMAIN buffer :
        /\ IsFirst(start, STX, 0) /\ IsFirst(end, ETX, start)
        /\ frames' = Append(frames, SubSeq(buffer, start + 1, end - 1))
        /\ spans' = Append(spans, [from |-> used + start, to |-> used + end])
        /\ buffer' = SubSeq(buffer, end + 1, Len(buffer))
        /\ used' = used + end
  BY DEF ExtractFrame
<1>2. decoding /\ UNCHANGED <<line, decoding, stream>>
  BY DEF ExtractFrame
<1>3. /\ Len(buffer) \in Nat /\ used \in Nat /\ Len(spans) \in Nat
      /\ DOMAIN buffer = 1..Len(buffer)
  BY LenProperties DEF LinkInv, LinkTypes
<1>4. /\ start \in 1..Len(buffer) /\ end \in 1..Len(buffer) /\ start < end
      /\ buffer[start] = STX /\ buffer[end] = ETX
      /\ \A i \in (start + 1)..(end - 1) : buffer[i] # ETX
  <2>1. start \in Positions(STX, 0) /\ end \in Positions(ETX, start)
    BY <1>1 DEF IsFirst
  <2>2. \A i \in (start + 1)..(end - 1) : buffer[i] = ETX => i \in Positions(ETX, start)
    <3>1. start \in 1..Len(buffer) /\ end \in 1..Len(buffer)
      BY <1>1, <1>3
    <3>2. \A i \in (start + 1)..(end - 1) : i \in DOMAIN buffer /\ i > start
      BY <1>3, <3>1
    <3> QED BY <3>2 DEF Positions
  <2>3. \A i \in (start + 1)..(end - 1) : ~(end <= i)
    BY <1>3
  <2> QED BY <1>1, <1>3, <2>1, <2>2, <2>3 DEF IsFirst, Positions
<1>5. buffer' \in Seq(Bytes) /\ used' \in Nat /\ Buffered'
  <2>1. end \in 0..Len(buffer)
    BY <1>3, <1>4
  <2> QED BY <1>1, <1>2, <2>1, RestOfBuffer DEF TrimmedBy
<1>6. frames' \in Seq(Seq(Bytes))
  <2>1. start + 1 \in 1..(Len(buffer) + 1) /\ end - 1 \in 0..Len(buffer)
    BY <1>3, <1>4
  <2>2. SubSeq(buffer, start + 1, end - 1) \in Seq(Bytes)
    BY <2>1, PartOfSequence DEF LinkInv, LinkTypes
  <2> QED BY <1>1, <2>2, AppendProperties DEF LinkInv, LinkTypes
<1> DEFINE span == [from |-> used + start, to |-> used + end]
<1>7. span \in Spans
  BY <1>3, <1>4 DEF Spans
<1>8. /\ spans' \in Seq(Spans) /\ Len(spans') = Len(spans) + 1
      /\ \A k \in 1..Len(spans) : spans'[k] = spans[k]
      /\ spans'[Len(spans) + 1] = span
  BY <1>1, <1>7, AppendProperties DEF LinkInv, LinkTypes
<1>9. ASSUME NEW k \in 1..Len(spans) PROVE SpanOK(k)'
  <2>1. SpanOK(k) /\ spans[k] \in Spans
    BY ElementOfSeq DEF LinkInv, SpansOK, LinkTypes
  <2>2. spans'[k] = spans[k] /\ (k > 1 => spans'[k - 1] = spans[k - 1])
    BY <1>3, <1>8
  <2>3. spans[k].to <= used'
    <3>1. spans[k].to <= used /\ spans[k].to \in Nat
      BY <2>1 DEF SpanOK, Spans
    <3>2. used' = used + end
      BY <1>1
    <3> QED BY <1>3, <1>4, <3>1, <3>2
  <2>4. stream' = stream
    BY <1>2
  <2> QED BY <2>1, <2>2, <2>3, <2>4 DEF SpanOK
<1>10. ASSUME NEW k \in {Len(spans) + 1} PROVE SpanOK(k)'
  <2>1. spans'[k].from = used + start /\ spans'[k].to = used + end
    BY <1>8
  <2>2. stream[used + start] = STX /\ stream[used + end] = ETX
    BY <1>1, <1>4, BufferInStream
  <2>3. \A i \in (used + start + 1)..(used + end - 1) : stream[i] # ETX
    <3> SUFFICES ASSUME NEW i \in (used + start + 1)..(used + end - 1) PROVE stream[i] # ETX
      OBVIOUS
    <3>1. i - used \in (start + 1)..(end - 1) /\ i - used \in 1..Len(buffer) /\ used + (i - used) = i
      BY <1>3, <1>4
    <3> QED BY <1>3, <1>4, <3>1, BufferInStream
  <2>4. k > 1 => spans'[k - 1].to < used + start
    <3> SUFFICES ASSUME k > 1 PROVE spans'[k - 1].to < used + start
      OBVIOUS
    <3>1. Len(spans) \in 1..Len(spans) /\ k - 1 = Len(spans)
      BY <1>3
    <3>2. SpanOK(Len(spans)) /\ spans[Len(spans)] \in Spans
      BY <3>1, ElementOfSeq DEF LinkInv, SpansOK, LinkTypes
    <3>3. spans[Len(spans)].to <= used /\ spans[Len(spans)].to \in Nat
      BY <3>2 DEF SpanOK, Spans
    <3>4. spans'[k - 1] = spans[Len(spans)]
      BY <1>8, <3>1
    <3> QED BY <1>3, <1>4, <3>3, <3>4
  <2>5. used + start \in 1..(used + end - 1) /\ used + end <= used'
    BY <1>1, <1>3, <1>4
  <2>6. stream' = stream
    BY <1>2
  <2>7. \A i \in (spans'[k].from + 1)..(spans'[k].to - 1) : stream'[i] # ETX
    BY <1>3, <1>4, <2>1, <2>3, <2>6
  <2>8. k > 1 => spans'[k - 1].to < spans'[k].from
    BY <2>1, <2>4
  <2>9. spans'[k].from \in 1..(spans'[k].to - 1) /\ spans'[k].to <= used'
    BY <1>3, <1>4, <2>1, <2>5
  <2>10. stream'[spans'[k].from] = STX /\ stream'[spans'[k].to] = ETX
    BY <2>1, <2>2, <2>6
  <2> QED BY <2>7, <2>8, <2>9, <2>10 DEF SpanOK
<1>11. SpansOK'
  <2>1. \A k \in 1..Len(spans') : k \in 1..Len(spans) \/ k \in {Len(spans) + 1}
    BY <1>3, <1>8
  <2>2. ASSUME NEW k \in 1..Len(spans') PROVE SpanOK(k)'
    BY <1>9, <1>10, <2>1
  <2> QED BY <2>2 DEF SpansOK
<1> QED BY <1>2, <1>5, <1>6, <1>8, <1>11 DEF LinkInv, LinkTypes, NothingWithheld

LEMMA SettleKeeps ==
    ASSUME LinkInv, Settle PROVE LinkInv'
<1>1. /\ UNCHANGED <<line, frames, stream, spans>> /\ decoding' = FALSE
      /\ \A start \in Positions(STX, 0) : Positions(ETX, start) = {}
  BY DEF Settle
<1>2. /\ Len(buffer) \in Nat /\ used \in Nat /\ Len(stream) \in Nat
      /\ used + Len(buffer) = Len(stream)
      /\ DOMAIN buffer = 1..Len(buffer) /\ buffer \in Seq(Bytes)
  BY LenProperties DEF LinkInv, LinkTypes, Buffered

\* What is kept are the characters behind the m-th.
<1>3. \E m \in 0..Len(buffer) :
        /\ buffer' = SubSeq(buffer, m + 1, Len(buffer))
        /\ Len(SubSeq(buffer, m + 1, Len(buffer))) <= MaxBuffer
        /\ used' = used + m
  <2>1. PICK start \in 1..(Len(buffer) + 1) : KeepUnlessOverlong(SubSeq(buffer, start, Len(buffer)))
    <3>1. CASE Positions(STX, 0) = {} /\ KeepUnlessOverlong(buffer)
      <4>1. buffer = SubSeq(buffer, 1, Len(buffer))
        BY <1>2, SubSeqFull
      <4>2. 1 \in 1..(Len(buffer) + 1)
        BY <1>2
      <4> QED BY <3>1, <4>1, <4>2
    <3>2. CASE \E start \in DOMAIN buffer :
                 IsFirst(start, STX, 0) /\ KeepUnlessOverlong(SubSeq(buffer, start, Len(buffer)))
      BY <3>2, <1>2
    <3> QED BY <3>1, <3>2 DEF Settle
  <2> DEFINE rest == SubSeq(buffer, start, Len(buffer))
  <2>2. Len(buffer) \in 0..Len(buffer) /\ rest \in Seq(Bytes) /\ Len(rest) = Len(buffer) - start + 1
    BY <1>2, PartOfSequence
  <2>3. CASE Len(rest) <= MaxBuffer
    <3>1. buffer' = rest /\ used' = Len(stream) - Len(rest)
      <4>1. ~(Len(rest) > MaxBuffer)
        BY <1>2, <2>2, <2>3, LinkBoundsAssumption
      <4> QED BY <2>1, <4>1 DEF KeepUnlessOverlong
    <3>2. start - 1 \in 0..Len(buffer) /\ (start - 1) + 1 = start /\ used' = used + (start - 1)
      BY <1>2, <2>2, <3>1
    <3> QED BY <2>3, <3>1, <3>2
  <2>4. CASE Len(rest) > MaxBuffer
    <3>1. buffer' = <<>> /\ used' = Len(stream)
      BY <1>2, <2>1, <2>2, <2>4, LinkBoundsAssumption DEF KeepUnlessOverlong
    <3>2. Len(buffer) + 1 \in 1..(Len(buffer) + 1)
      BY <1>2
    <3>3. /\ SubSeq(buffer, Len(buffer) + 1, Len(buffer)) \in Seq(Bytes)
          /\ Len(SubSeq(buffer, Len(buffer) + 1, Len(buffer))) = 0
      BY <1>2, <2>2, <3>2, PartOfSequence
    <3>4. SubSeq(buffer, Len(buffer) + 1, Len(buffer)) = <<>>
      BY <3>3, EmptySeq
    <3> QED BY <1>2, <2>2, <3>1, <3>3, <3>4, LinkBoundsAssumption
  <2> QED BY <2>2, <2>3, <2>4, LinkBoundsAssumption
<1>4. PICK m \in 0..Len(buffer) :
        /\ buffer' = SubSeq(buffer, m + 1, Len(buffer))
        /\ Len(SubSeq(buffer, m + 1, Len(buffer))) <= MaxBuffer
        /\ used' = used + m
  BY <1>3
<1>5. /\ buffer' \in Seq(Bytes) /\ used' \in Nat /\ Buffered'
      /\ Len(buffer') = Len(buffer) - m
      /\ \A i \in 1..Len(buffer') : buffer'[i] = buffer[m + i]
  BY <1>1, <1>4, RestOfBuffer DEF TrimmedBy
<1>6. SpansOK'
  <2>1. used <= used'
    BY <1>2, <1>4
  <2> QED BY <1>1, <1>5, <2>1, SpansKept DEF SpansOK
<1>7. NothingWithheld'
  <2>1. Len(buffer') <= MaxBuffer
    BY <1>4
  <2>2. ASSUME NEW i \in DOMAIN buffer', NEW j \in DOMAIN buffer', i < j, buffer'[i] = STX
        PROVE  buffer'[j] # ETX
    <3>1. i \in 1..Len(buffer') /\ j \in 1..Len(buffer')
      BY <1>5, LenProperties
    <3>2. m + i \in 1..Len(buffer) /\ m + j \in 1..Len(buffer) /\ m + j > m + i /\ m + i > 0
      BY <1>2, <1>5, <2>2, <3>1
    <3>3. m + i \in Positions(STX, 0)
      BY <1>2, <1>5, <2>2, <3>1, <3>2 DEF Positions
    <3>4. buffer[m + j] # ETX
      BY <1>1, <1>2, <3>2, <3>3 DEF Positions
    <3> QED BY <1>5, <3>1, <3>4
  <2> QED BY <2>1, <2>2 DEF NothingWithheld
<1> QED BY <1>1, <1>5, <1>6, <1>7 DEF LinkInv, LinkTypes

LEMMA TakeFrameKeeps ==
    ASSUME LinkInv, TakeFrame PROVE LinkInv'
<1>1. UNCHANGED <<line, buffer, stream, used, spans, decoding>>
  BY DEF TakeFrame
<1>2. frames' \in Seq(Seq(Bytes))
  BY HeadTailProperties DEF TakeFrame, LinkInv, LinkTypes
<1> QED BY <1>1, <1>2 DEF LinkInv, LinkTypes, Buffered, SpansOK, SpanOK, NothingWithheld

LEMMA EndOfFileKeeps ==
    ASSUME LinkInv, EndOfFile PROVE LinkInv'
<1>1. line' = <<>> /\ UNCHANGED <<frames, buffer, stream, used, spans, decoding>>
  BY DEF EndOfFile, history
<1>2. line' \in Seq(Bytes)
  BY <1>1, EmptySeq
<1> QED BY <1>1, <1>2 DEF LinkInv, LinkTypes, Buffered, SpansOK, SpanOK, NothingWithheld

LEMMA LinkStutters ==
    ASSUME LinkInv, UNCHANGED linkVars PROVE LinkInv'
BY DEF linkVars, link, history, LinkInv, LinkTypes, Buffered, SpansOK, SpanOK, NothingWithheld

-----------------------------------------------------------------------------

\* The buffer is the unread end of the stream and the spans are frames of it,
\* at every point of Link::receive.
THEOREM LinkStaysSound == LinkSpec => []LinkInv
<1>1. LinkInv /\ [LinkNext]_linkVars => LinkInv'
  BY AdapterSendsKeeps, ReadKeeps, ExtractFrameKeeps, SettleKeeps, TakeFrameKeeps,
     EndOfFileKeeps, LinkStutters DEF LinkNext
<1> QED BY <1>1, LinkInvInit, PTL DEF LinkSpec

\* However the line is cut into chunks and whatever is garbled on it, no
\* complete frame stays in the decoder's buffer and the buffer stays bounded.
THEOREM NoFrameWithheld == LinkSpec => []NothingWithheld
<1>1. LinkInv => NothingWithheld
  BY DEF LinkInv
<1> QED BY <1>1, LinkStaysSound, PTL

\* The decoder cuts frames out of the stream between an STX and the next ETX,
\* one behind the other, and loses no character but those it gives up.
THEOREM FramesComeFromStream == LinkSpec => []FramesFromStream
<1>1. ASSUME LinkInv PROVE FramesFromStream
  <2>1. /\ Len(buffer) \in Nat /\ used \in Nat /\ Len(stream) \in Nat
        /\ used + Len(buffer) = Len(stream)
        /\ buffer \in Seq(Bytes) /\ stream \in Seq(Bytes)
    BY <1>1, LenProperties DEF LinkInv, LinkTypes, Buffered
  <2>2. buffer = SubSeq(stream, used + 1, Len(stream))
    <3> DEFINE rest == SubSeq(stream, used + 1, Len(stream))
    <3>1. used + 1 \in 1..(Len(stream) + 1) /\ Len(stream) \in 0..Len(stream)
      BY <2>1
    <3>2. /\ rest \in Seq(Bytes) /\ Len(rest) = Len(buffer)
          /\ \A i \in 1..(Len(stream) - (used + 1) + 1) : rest[i] = stream[used + 1 + i - 1]
      BY <2>1, <3>1, PartOfSequence
    <3> HIDE DEF rest
    <3>3. ASSUME NEW i \in 1..Len(buffer) PROVE buffer[i] = rest[i]
      <4>1. i \in 1..(Len(stream) - (used + 1) + 1) /\ used + 1 + i - 1 = used + i
        BY <2>1
      <4> QED BY <1>1, <3>2, <4>1 DEF LinkInv, Buffered
    <3> QED BY <2>1, <3>2, <3>3, SeqEqual DEF rest
  <2>3. ASSUME NEW k \in DOMAIN spans
        PROVE  /\ spans[k].from < spans[k].to /\ spans[k].to <= used
               /\ stream[spans[k].from] = STX /\ stream[spans[k].to] = ETX
               /\ \A i \in (spans[k].from + 1)..(spans[k].to - 1) : stream[i] # ETX
               /\ k > 1 => spans[k - 1].to < spans[k].from
    <3>1. k \in 1..Len(spans)
      BY <1>1, LenProperties DEF LinkInv, LinkTypes
    <3>2. SpanOK(k) /\ spans[k] \in Spans
      BY <1>1, <3>1, ElementOfSeq DEF LinkInv, LinkTypes, SpansOK
    <3> QED BY <3>2 DEF SpanOK, Spans
  <2> QED BY <2>2, <2>3 DEF FramesFromStream
<1> QED BY <1>1, LinkStaysSound, PTL

-----------------------------------------------------------------------------
(* Every frame is found.                                                    *)

\* What has left the buffer was part of a frame or no beginning of one.
CoveredOK ==
    ~dropped =>
      \A i \in 1..used : stream[i] = STX =>
        \E k \in 1..Len(spans) : i \in spans[k].from..spans[k].to

LEMMA ExtractFrameCovers ==
    ASSUME LinkInv, CoveredOK, ExtractFrame PROVE CoveredOK'
<1>1. PICK start, end \in DOMAIN buffer :
        /\ IsFirst(start, STX, 0)
        /\ spans' = Append(spans, [from |-> used + start, to |-> used + end])
        /\ used' = used + end
  BY DEF ExtractFrame
<1>2. UNCHANGED <<stream, dropped>>
  BY DEF ExtractFrame
<1>3. /\ Len(buffer) \in Nat /\ used \in Nat /\ Len(spans) \in Nat
      /\ DOMAIN buffer = 1..Len(buffer)
  BY LenProperties DEF LinkInv, LinkTypes
<1>4. start \in 1..Len(buffer) /\ end \in 1..Len(buffer)
  BY <1>1, <1>3
<1> DEFINE span == [from |-> used + start, to |-> used + end]
<1>5. span \in Spans /\ span.from = used + start /\ span.to = used + end
  BY <1>3, <1>4 DEF Spans
<1> HIDE DEF span
<1>6. /\ Len(spans') = Len(spans) + 1
      /\ \A k \in 1..Len(spans) : spans'[k] = spans[k]
      /\ spans'[Len(spans) + 1] = span
  BY <1>1, <1>5, AppendProperties DEF LinkInv, LinkTypes, span
<1> SUFFICES ASSUME ~dropped, NEW i \in 1..used', stream[i] = STX
             PROVE  \E k \in 1..Len(spans') : i \in spans'[k].from..spans'[k].to
  BY <1>2 DEF CoveredOK
<1>7. CASE i <= used
  <2>1. i \in 1..used
    BY <1>3, <1>7
  <2>2. PICK k \in 1..Len(spans) : i \in spans[k].from..spans[k].to
    BY <2>1 DEF CoveredOK
  <2>3. k \in 1..Len(spans') /\ spans'[k] = spans[k]
    BY <1>3, <1>6, <2>2
  <2> QED BY <2>2, <2>3
<1>8. CASE ~(i <= used)
  <2>1. i - used \in 1..Len(buffer) /\ used + (i - used) = i /\ i - used <= end
    BY <1>1, <1>3, <1>4, <1>8
  <2>2. buffer[i - used] = STX
    BY <1>3, <2>1, BufferInStream
  <2>3. i - used \in Positions(STX, 0)
    BY <1>3, <2>1, <2>2 DEF Positions
  <2>4. start <= i - used
    BY <1>1, <2>3 DEF IsFirst
  <2>5. i \in span.from..span.to
    BY <1>3, <1>4, <1>5, <2>1, <2>4
  <2>6. Len(spans) + 1 \in 1..Len(spans')
    BY <1>3, <1>6
  <2> QED BY <1>6, <2>5, <2>6
<1> QED BY <1>7, <1>8

LEMMA SettleCovers ==
    ASSUME LinkInv, CoveredOK, Settle PROVE CoveredOK'
<1> SUFFICES ASSUME ~dropped', NEW i \in 1..used', stream[i] = STX
             PROVE  \E k \in 1..Len(spans) : i \in spans[k].from..spans[k].to
  BY DEF Settle, CoveredOK
<1>1. /\ Len(buffer) \in Nat /\ used \in Nat /\ Len(stream) \in Nat
      /\ used + Len(buffer) = Len(stream)
      /\ DOMAIN buffer = 1..Len(buffer) /\ buffer \in Seq(Bytes)
  BY LenProperties DEF LinkInv, LinkTypes, Buffered
<1>2. CASE i \in 1..used
  <2>1. ~dropped
    BY DEF Settle, KeepUnlessOverlong
  <2> QED BY <1>2, <2>1 DEF CoveredOK
<1>3. CASE ~(i \in 1..used)
  \* A character that leaves now stood ahead of the first STX.
  <2>1. i > used /\ (i - used \in 1..Len(buffer) => used + (i - used) = i)
    <3>1. used' \in Nat
      BY SettleKeeps DEF LinkInv, LinkTypes
    <3> QED BY <1>1, <1>3, <3>1
  <2>2. CASE Positions(STX, 0) = {} /\ KeepUnlessOverlong(buffer)
    <3>1. used' = used
      <4>1. ~(Len(buffer) > MaxBuffer)
        BY <2>2 DEF KeepUnlessOverlong
      <4>2. used' = Len(stream) - Len(buffer)
        BY <2>2, <4>1 DEF KeepUnlessOverlong
      <4> QED BY <1>1, <4>2
    <3> QED BY <1>1, <2>1, <3>1
  <2>3. ASSUME NEW start \in DOMAIN buffer, IsFirst(start, STX, 0),
               KeepUnlessOverlong(SubSeq(buffer, start, Len(buffer)))
        PROVE  FALSE
    <3> DEFINE rest == SubSeq(buffer, start, Len(buffer))
    <3>1. start \in 1..(Len(buffer) + 1) /\ Len(buffer) \in 0..Len(buffer) /\ start <= Len(buffer)
      BY <1>1, <2>3
    <3>2. Len(rest) = Len(buffer) - start + 1
      BY <1>1, <3>1, PartOfSequence
    <3>3. ~(Len(rest) > MaxBuffer)
      BY <2>3 DEF KeepUnlessOverlong
    <3>4. used' = Len(stream) - Len(rest)
      BY <2>3, <3>3 DEF KeepUnlessOverlong
    <3> HIDE DEF rest
    <3>5. used' = used + (start - 1)
      BY <1>1, <3>1, <3>2, <3>4
    <3>6. i - used \in 1..Len(buffer) /\ i - used < start
      BY <1>1, <2>1, <3>1, <3>5
    <3>7. buffer[i - used] = STX
      BY <1>1, <2>1, <3>6, BufferInStream
    <3>8. i - used \in Positions(STX, 0)
      BY <1>1, <3>6, <3>7 DEF Positions
    <3>9. start <= i - used
      BY <2>3, <3>8 DEF IsFirst
    <3> QED BY <1>1, <3>1, <3>6, <3>9
  <2> QED BY <2>2, <2>3 DEF Settle
<1> QED BY <1>2, <1>3

LEMMA ReadCovers ==
    ASSUME LinkInv, CoveredOK, Read PROVE CoveredOK'
<1>1. UNCHANGED <<used, spans, dropped>>
  BY DEF Read
<1>2. used \in Nat /\ Len(stream) \in Nat /\ used <= Len(stream)
  BY LenProperties DEF LinkInv, LinkTypes, Buffered
<1>3. PICK n \in 1..MaxChunk : n <= Len(line) /\ stream' = stream \o SubSeq(line, 1, n)
  BY DEF Read
<1> DEFINE chunk == SubSeq(line, 1, n)
<1>4. chunk \in Seq(Bytes) /\ Len(chunk) = n /\ n \in Nat
  <2>1. n \in Nat /\ Len(line) \in Nat /\ n \in 0..Len(line) /\ 1 \in 1..(Len(line) + 1)
    BY <1>3, LinkBoundsAssumption, LenProperties DEF LinkInv, LinkTypes
  <2> QED BY <2>1, PartOfSequence DEF LinkInv, LinkTypes
<1> HIDE DEF chunk
<1>5. \A i \in 1..(Len(stream) + Len(chunk)) :
        (stream \o chunk)[i] = IF i <= Len(stream) THEN stream[i] ELSE chunk[i - Len(stream)]
  BY <1>4, ConcatProperties DEF LinkInv, LinkTypes
<1>6. \A i \in 1..used : stream'[i] = stream[i]
  BY <1>2, <1>3, <1>4, <1>5 DEF chunk
<1> QED BY <1>1, <1>6 DEF CoveredOK

\* No frame is overlooked, however the line is cut into reads and whatever
\* junk is on it: with FramesFromStream it says that FrameDecoder::push finds
\* the frames of a reader that looks at one character after the other.
THEOREM EveryFrameIsFound == LinkSpec => []EveryFrameFound
<1>1. LinkInit => CoveredOK
  BY DEF LinkInit, CoveredOK
<1>2. LinkInv /\ CoveredOK /\ [LinkNext]_linkVars => CoveredOK'
  <2> SUFFICES ASSUME LinkInv, CoveredOK, [LinkNext]_linkVars PROVE CoveredOK'
    OBVIOUS
  <2>1. CASE AdapterSends \/ TakeFrame
    BY <2>1 DEF AdapterSends, TakeFrame, CoveredOK
  <2>2. CASE EndOfFile \/ UNCHANGED linkVars
    BY <2>2 DEF EndOfFile, linkVars, history, CoveredOK
  <2> QED BY <2>1, <2>2, ReadCovers, ExtractFrameCovers, SettleCovers DEF LinkNext
<1>3. ASSUME LinkInv, CoveredOK PROVE EveryFrameFound
  <2> SUFFICES ASSUME ~decoding, ~dropped, NEW i \in DOMAIN stream, NEW j \in DOMAIN stream,
                      i < j, stream[i] = STX, stream[j] = ETX
               PROVE  \E k \in DOMAIN spans : i \in spans[k].from..spans[k].to
    BY DEF EveryFrameFound
  <2>1. /\ DOMAIN stream = 1..Len(stream) /\ DOMAIN spans = 1..Len(spans)
        /\ DOMAIN buffer = 1..Len(buffer) /\ used \in Nat
        /\ Len(buffer) \in Nat /\ Len(stream) \in Nat /\ used + Len(buffer) = Len(stream)
    BY <1>3, LenProperties DEF LinkInv, LinkTypes, Buffered
  <2>2. i \in 1..used
    <3> SUFFICES ASSUME ~(i \in 1..used) PROVE FALSE
      OBVIOUS
    <3>1. /\ i - used \in DOMAIN buffer /\ j - used \in DOMAIN buffer /\ i - used < j - used
          /\ used + (i - used) = i /\ used + (j - used) = j
      BY <2>1
    <3>2. buffer[i - used] = STX /\ buffer[j - used] = ETX
      BY <1>3, <3>1, BufferInStream
    <3> QED BY <1>3, <3>1, <3>2 DEF LinkInv, NothingWithheld
  <2> QED BY <1>3, <2>1, <2>2 DEF CoveredOK
<1> QED BY <1>1, <1>2, <1>3, LinkInvInit, LinkStaysSound, PTL DEF LinkSpec

-----------------------------------------------------------------------------
(* Types.                                                                   *)

Sendings == [bytes : Payloads, garbled : BOOLEAN]

\* What receive() returned is a sequence of messages.
OnlyMessages ==
    \E S : delivered \in Seq(S) /\ \A m \in S : m.name \in MessageNames

RestTypes ==
    /\ decoding \in BOOLEAN /\ closed \in BOOLEAN /\ dropped \in BOOLEAN
    /\ sent \in Seq(Sendings) /\ faults \in 0..MaxFaults
    /\ OnlyMessages

LEMMA AdapterSendsTypes ==
    ASSUME RestTypes, AdapterSends PROVE RestTypes'
<1>1. UNCHANGED <<decoding, closed, dropped, delivered>>
  BY DEF AdapterSends, link
<1>2. \E s \in Sendings : sent' = Append(sent, s)
  BY DEF AdapterSends, Sendings
<1>3. sent' \in Seq(Sendings)
  BY <1>2, AppendProperties DEF RestTypes
<1>4. faults' \in 0..MaxFaults
  BY LinkBoundsAssumption DEF AdapterSends, RestTypes
<1> QED BY <1>1, <1>3, <1>4 DEF RestTypes, OnlyMessages

LEMMA TakeFrameTypes ==
    ASSUME RestTypes, TakeFrame PROVE RestTypes'
<1>1. UNCHANGED <<decoding, closed, dropped, sent, faults>>
  BY DEF TakeFrame
<1>2. \/ UNCHANGED delivered
      \/ \E bytes : /\ parse_adapter_message(bytes).name \notin Errors
                    /\ delivered' = Append(delivered, parse_adapter_message(bytes))
  BY DEF TakeFrame
<1>3. PICK S : delivered \in Seq(S) /\ \A m \in S : m.name \in MessageNames
  BY DEF RestTypes, OnlyMessages
<1>4. CASE UNCHANGED delivered
  BY <1>1, <1>4 DEF RestTypes, OnlyMessages
<1>5. ASSUME NEW message, message.name \in MessageNames, delivered' = Append(delivered, message)
      PROVE  RestTypes'
  <2> DEFINE T == S \union {message}
  <2>1. delivered \in Seq(T) /\ message \in T
    BY <1>3, SeqMonotonic
  <2>2. delivered' \in Seq(T)
    BY <1>5, <2>1, AppendProperties
  <2>3. \A m \in T : m.name \in MessageNames
    BY <1>3, <1>5
  <2> HIDE DEF T
  <2>4. OnlyMessages'
    BY <2>2, <2>3 DEF OnlyMessages
  <2> QED BY <1>1, <2>4 DEF RestTypes
<1> QED BY <1>2, <1>4, <1>5, MeaningNamed

LEMMA OtherStepsTypes ==
    ASSUME RestTypes, Read \/ ExtractFrame \/ Settle \/ EndOfFile \/ UNCHANGED linkVars
    PROVE  RestTypes'
<1>1. UNCHANGED <<sent, faults, delivered>>
  BY DEF Read, ExtractFrame, Settle, EndOfFile, linkVars, history
<1>2. decoding' \in BOOLEAN /\ closed' \in BOOLEAN /\ dropped' \in BOOLEAN
  BY Zenon DEF RestTypes, Read, ExtractFrame, Settle, KeepUnlessOverlong, EndOfFile, linkVars,
     link, history
<1> QED BY <1>1, <1>2 DEF RestTypes, OnlyMessages

LEMMA LinkRestInit == LinkInit => RestTypes
<1> SUFFICES ASSUME LinkInit PROVE RestTypes
  OBVIOUS
<1>1. sent \in Seq(Sendings) /\ delivered \in Seq({})
  BY EmptySeq DEF LinkInit
<1>2. OnlyMessages
  BY <1>1 DEF OnlyMessages
<1>3. faults \in 0..MaxFaults
  BY LinkBoundsAssumption DEF LinkInit
<1> QED BY <1>1, <1>2, <1>3 DEF LinkInit, RestTypes

\* Only messages come out of Link::receive, never an error of
\* parse_adapter_message, and everything keeps its type, whatever bytes the
\* adapter sends and whatever the line does to them.
THEOREM LinkTypesKept == LinkSpec => []LinkTypeOK
<1>1. LinkInit => RestTypes
  BY LinkRestInit
<1>2. RestTypes /\ [LinkNext]_linkVars => RestTypes'
  BY AdapterSendsTypes, TakeFrameTypes, OtherStepsTypes DEF LinkNext
<1>3. ASSUME LinkInv, RestTypes PROVE LinkTypeOK
  <2>1. PICK S : delivered \in Seq(S) /\ \A m \in S : m.name \in MessageNames
    BY <1>3 DEF RestTypes, OnlyMessages
  <2>2. \A i \in DOMAIN delivered : delivered[i].name \in MessageNames
    BY <2>1, LenProperties, ElementOfSeq
  <2> QED
    BY <1>3, <2>2 DEF LinkInv, LinkTypes, Spans, RestTypes, Sendings, LinkTypeOK
<1> QED BY <1>1, <1>2, <1>3, LinkStaysSound, PTL DEF LinkSpec

-----------------------------------------------------------------------------
(* Chunks do not matter.                                                    *)

Listeners == [inside : BOOLEAN, text : Seq(Bytes), texts : Seq(Seq(Bytes))]
Silence == [inside |-> FALSE, text |-> <<>>, texts |-> <<>>]

LEMMA ListenType ==
    ASSUME NEW s \in Listeners, NEW c \in Bytes PROVE Listen(s, c) \in Listeners
<1>1. s.inside \in BOOLEAN /\ s.text \in Seq(Bytes) /\ s.texts \in Seq(Seq(Bytes))
  BY DEF Listeners
<1>2. Append(s.text, c) \in Seq(Bytes) /\ Append(s.texts, s.text) \in Seq(Seq(Bytes))
      /\ <<>> \in Seq(Bytes)
  BY <1>1, AppendProperties, EmptySeq
<1>3. CASE ~s.inside
  <2>1. Listen(s, c) = [s EXCEPT !.inside = (c = STX)]
    BY <1>3 DEF Listen
  <2>2. (c = STX) \in BOOLEAN
    OBVIOUS
  <2> QED BY <2>1, <2>2 DEF Listeners
<1>4. CASE s.inside /\ c = ETX
  <2>1. Listen(s, c) = [inside |-> FALSE, text |-> <<>>, texts |-> Append(s.texts, s.text)]
    BY <1>4 DEF Listen
  <2> QED BY <1>2, <2>1 DEF Listeners
<1>5. CASE s.inside /\ c # ETX
  <2>1. Listen(s, c) = [s EXCEPT !.text = Append(@, c)]
    BY <1>5 DEF Listen
  <2> QED BY <1>2, <2>1 DEF Listeners
<1> QED BY <1>1, <1>3, <1>4, <1>5

\* What is heard is what the last of the listener's states holds.
LEMMA ListenedHeard ==
    ASSUME NEW text \in Seq(Bytes)
    PROVE  \E heard \in [0..Len(text) -> Listeners] :
             /\ heard[0] = Silence
             /\ \A i \in 1..Len(text) : heard[i] = Listen(heard[i - 1], text[i])
             /\ Listened(text) = heard[Len(text)].texts
<1> DEFINE n == Len(text)
           step == [i \in 1..n |-> [s \in Listeners |-> Listen(s, text[i])]]
           Heard(f) == f = [i \in 0..n |->
                              IF i = 0 THEN [inside |-> FALSE, text |-> <<>>, texts |-> <<>>]
                                       ELSE Listen(f[i - 1], text[i])]
           heard == CHOOSE f : Heard(f)
<1>1. n \in Nat /\ \A i \in 1..n : text[i] \in Bytes
  BY LenProperties, ElementOfSeq
<1>2. Silence \in Listeners
  BY EmptySeq DEF Silence, Listeners
<1>3. step \in [1..n -> [Listeners -> Listeners]]
  BY <1>1, ListenType
<1>4. PICK f \in [0..n -> Listeners] :
        f[0] = Silence /\ \A i \in 1..n : f[i] = step[i][f[i - 1]]
  <2> DEFINE base == Silence
  <2> HIDE DEF step, n, base
  <2>1. PICK f \in [0..n -> Listeners] : Recurs(f, n, base, step)
    BY <1>1, <1>2, <1>3, Recursion DEF base
  <2> QED BY <2>1 DEF base, Recurs
<1>5. ASSUME NEW i \in 1..n PROVE f[i] = Listen(f[i - 1], text[i])
  <2>1. i - 1 \in 0..n
    BY <1>1
  <2>2. f[i - 1] \in Listeners
    BY <1>4, <2>1
  <2>3. step[i][f[i - 1]] = Listen(f[i - 1], text[i])
    BY <2>2
  <2> HIDE DEF step, n
  <2> QED BY <1>4, <2>3
<1>6. Heard(f)
  <2>1. f = [i \in 0..n |-> f[i]]
    BY <1>4
  <2>2. ASSUME NEW i \in 0..n
        PROVE  f[i] = IF i = 0 THEN [inside |-> FALSE, text |-> <<>>, texts |-> <<>>]
                               ELSE Listen(f[i - 1], text[i])
    <3>1. i = 0 \/ i \in 1..n
      BY <1>1
    <3>2. f[0] = [inside |-> FALSE, text |-> <<>>, texts |-> <<>>]
      BY <1>4 DEF Silence
    <3>3. CASE i = 0
      BY <3>2, <3>3
    <3>4. CASE i \in 1..n
      <4>1. i # 0
        BY <3>4
      <4> QED BY <1>5, <3>4, <4>1
    <3> QED BY <3>1, <3>3, <3>4
  <2> QED BY <2>1, <2>2
<1>7. Heard(heard)
  BY <1>6
<1>8. Listened(text) = heard[n].texts
  BY DEF Listened
<1> HIDE DEF heard, n
<1>9. \A i \in 0..n : heard[i] = IF i = 0 THEN [inside |-> FALSE, text |-> <<>>, texts |-> <<>>]
                                          ELSE Listen(heard[i - 1], text[i])
  <2>1. heard = [i \in 0..n |->
                   IF i = 0 THEN [inside |-> FALSE, text |-> <<>>, texts |-> <<>>]
                            ELSE Listen(heard[i - 1], text[i])]
    BY <1>7
  <2> QED BY <2>1
<1>10. heard[0] = Silence /\ \A i \in 1..n : heard[i] = Listen(heard[i - 1], text[i])
  <2>1. 0 \in 0..n /\ \A i \in 1..n : i \in 0..n /\ i # 0
    BY <1>1
  <2> QED BY <1>9, <2>1 DEF Silence
<1>11. ASSUME NEW m \in 0..n PROVE heard[m] \in Listeners
  <2> DEFINE U == {i \in 0..m : heard[i] \in Listeners}
  <2>1. U \in SUBSET (0..m) /\ 0 \in U /\ m \in Nat
    BY <1>1, <1>2, <1>10
  <2>2. ASSUME NEW i \in U, i < m PROVE i + 1 \in U
    <3>1. i \in Nat /\ i + 1 \in 1..n /\ i + 1 \in 0..m /\ i + 1 - 1 = i
      BY <1>1, <2>2
    <3>2. heard[i + 1] = Listen(heard[i], text[i + 1]) /\ text[i + 1] \in Bytes
      BY <1>1, <1>10, <3>1
    <3>3. heard[i] \in Listeners
      BY <2>2
    <3>4. heard[i + 1] \in Listeners
      BY <3>2, <3>3, ListenType
    <3> QED BY <3>1, <3>4
  <2>3. m \in U
    <3> HIDE DEF U
    <3> QED BY <2>1, <2>2, UpTo
  <2> QED BY <2>3
<1>12. heard \in [0..n -> Listeners]
  <2>1. heard = [i \in 0..n |-> heard[i]]
    BY <1>7
  <2> QED BY <1>11, <2>1
<1> QED BY <1>8, <1>10, <1>12 DEF n

\* The spans follow one another.
LEMMA SpansOrdered ==
    ASSUME LinkInv, NEW k \in 1..Len(spans), NEW l \in 1..Len(spans), k < l
    PROVE  spans[k].to < spans[l].from
<1>1. Len(spans) \in Nat /\ \A i \in 1..Len(spans) : spans[i] \in Spans /\ SpanOK(i)
  BY LenProperties, ElementOfSeq DEF LinkInv, LinkTypes, SpansOK
<1> DEFINE Right(i) == spans[k].to < spans[k + 1 + i].from
           m == Len(spans) - k - 1
           S == {i \in 0..m : Right(i)}
<1>2. m \in Nat /\ l - k - 1 \in 0..m
  BY <1>1
<1>3. Right(0)
  <2>1. k + 1 \in 1..Len(spans) /\ k + 1 > 1 /\ k + 1 - 1 = k /\ k + 1 + 0 = k + 1
    BY <1>1
  <2>2. spans[k + 1 - 1].to < spans[k + 1].from
    BY <1>1, <2>1 DEF SpanOK
  <2> QED BY <2>1, <2>2
<1>4. ASSUME NEW i \in 0..m, Right(i), i < m PROVE Right(i + 1)
  <2>1. /\ k + 1 + i \in 1..Len(spans) /\ k + 1 + (i + 1) \in 1..Len(spans)
        /\ k + 1 + (i + 1) > 1 /\ k + 1 + (i + 1) - 1 = k + 1 + i
    BY <1>1, <1>4
  <2>2. spans[k + 1 + i].to < spans[k + 1 + (i + 1)].from
    BY <1>1, <2>1 DEF SpanOK
  <2>3. /\ spans[k + 1 + i].from \in Nat /\ spans[k + 1 + i].to \in Nat
        /\ spans[k + 1 + i].from < spans[k + 1 + i].to /\ spans[k].to \in Nat
        /\ spans[k + 1 + (i + 1)].from \in Nat
    BY <1>1, <2>1 DEF SpanOK, Spans
  <2> DEFINE last == spans[k].to
             mid == spans[k + 1 + i]
             next == spans[k + 1 + (i + 1)].from
  <2>4. last < mid.from /\ mid.to < next
    BY <1>4, <2>2
  <2>5. Right(i + 1) <=> last < next
    OBVIOUS
  <2> HIDE DEF last, mid, next, Right
  <2>6. last < next
    <3>1. last \in Nat /\ next \in Nat /\ mid.from \in Nat /\ mid.to \in Nat /\ mid.from < mid.to
      BY <2>3 DEF last, mid, next
    <3> QED BY <2>4, <3>1
  <2> QED BY <2>5, <2>6
<1>5. \A j \in 0..m : Right(j)
  <2> SUFFICES ASSUME NEW j \in 0..m PROVE Right(j)
    OBVIOUS
  <2> DEFINE U == {i \in 0..j : Right(i)}
  <2> HIDE DEF Right, m
  <2>1. U \in SUBSET (0..j) /\ 0 \in U /\ j \in Nat
    BY <1>2, <1>3
  <2>2. ASSUME NEW i \in U, i < j PROVE i + 1 \in U
    <3>1. i \in 0..m /\ Right(i) /\ i < m /\ i + 1 \in 0..j
      BY <1>2, <2>2
    <3> QED BY <1>4, <3>1
  <2>3. j \in U
    <3> HIDE DEF U
    <3> QED BY <2>1, <2>2, UpTo
  <2> QED BY <2>3
<1>6. Right(l - k - 1)
  BY <1>2, <1>5
<1>7. k + 1 + (l - k - 1) = l
  BY <1>1
<1> QED BY <1>6, <1>7

\* The first c frames end here.
End(c) == IF c = 0 THEN 0 ELSE spans[c].to

\* What is known of the spans and of the stream when push() has returned.
LEMMA FramesSoFar ==
    ASSUME LinkInv, EveryFrameFound, ~decoding, ~dropped
    PROVE  /\ Len(spans) \in Nat /\ Len(stream) \in Nat /\ stream \in Seq(Bytes)
           /\ \A k \in 1..Len(spans) :
                /\ spans[k].from \in Nat /\ spans[k].to \in Nat /\ spans[k].from >= 1
                /\ spans[k].from < spans[k].to /\ spans[k].to <= Len(stream)
                /\ stream[spans[k].from] = STX /\ stream[spans[k].to] = ETX
                /\ \A i \in (spans[k].from + 1)..(spans[k].to - 1) : stream[i] # ETX
                /\ End(k - 1) < spans[k].from
           /\ \A c \in 0..Len(spans) : End(c) \in Nat /\ End(c) <= Len(stream)
           /\ \A c \in 0..Len(spans), p, j \in 1..Len(stream) :
                End(c) < p /\ p < j /\ stream[p] = STX /\ stream[j] = ETX =>
                  c + 1 \in 1..Len(spans) /\ spans[c + 1].from <= p
<1>1. /\ Len(spans) \in Nat /\ Len(stream) \in Nat /\ used \in Nat /\ Len(buffer) \in Nat
      /\ used + Len(buffer) = Len(stream) /\ stream \in Seq(Bytes)
      /\ DOMAIN stream = 1..Len(stream) /\ DOMAIN spans = 1..Len(spans)
  BY LenProperties DEF LinkInv, LinkTypes, Buffered
<1>2. \A k \in 1..Len(spans) : spans[k] \in Spans /\ SpanOK(k)
  BY ElementOfSeq DEF LinkInv, LinkTypes, SpansOK
<1>3. ASSUME NEW k \in 1..Len(spans)
      PROVE  /\ spans[k].from \in Nat /\ spans[k].to \in Nat /\ spans[k].from >= 1
             /\ spans[k].from < spans[k].to /\ spans[k].to <= Len(stream)
             /\ stream[spans[k].from] = STX /\ stream[spans[k].to] = ETX
             /\ \A i \in (spans[k].from + 1)..(spans[k].to - 1) : stream[i] # ETX
             /\ End(k - 1) < spans[k].from
  <2>1. spans[k] \in Spans /\ SpanOK(k)
    BY <1>2
  <2>2. /\ spans[k].from \in Nat /\ spans[k].to \in Nat /\ spans[k].from >= 1
        /\ spans[k].from < spans[k].to
    BY <2>1 DEF SpanOK, Spans
  <2>3. spans[k].to <= Len(stream)
    BY <1>1, <2>1, <2>2 DEF SpanOK
  <2>4. End(k - 1) < spans[k].from
    <3>1. CASE k = 1
      BY <2>2, <3>1 DEF End
    <3>2. CASE k > 1
      <4>1. k - 1 # 0
        BY <3>2
      <4> QED BY <2>1, <3>2, <4>1 DEF End, SpanOK
    <3> QED BY <3>1, <3>2
  <2> QED BY <2>1, <2>2, <2>3, <2>4 DEF SpanOK
<1>4. ASSUME NEW c \in 0..Len(spans) PROVE End(c) \in Nat /\ End(c) <= Len(stream)
  <2>1. CASE c = 0
    BY <1>1, <2>1 DEF End
  <2>2. CASE c # 0
    <3>1. c \in 1..Len(spans)
      BY <1>1, <2>2
    <3> QED BY <1>3, <2>2, <3>1 DEF End
  <2> QED BY <2>1, <2>2
<1>5. ASSUME NEW c \in 0..Len(spans), NEW p \in 1..Len(stream), NEW j \in 1..Len(stream),
             End(c) < p, p < j, stream[p] = STX, stream[j] = ETX
      PROVE  c + 1 \in 1..Len(spans) /\ spans[c + 1].from <= p
  <2>1. PICK k \in 1..Len(spans) : p \in spans[k].from..spans[k].to
    BY <1>1, <1>5 DEF EveryFrameFound
  <2>2. k > c
    <3> SUFFICES ASSUME ~(k > c) PROVE FALSE
      OBVIOUS
    <3>1. c \in 1..Len(spans) /\ c # 0 /\ (k < c \/ k = c)
      BY <1>1, <2>1
    <3>2. spans[k].to <= spans[c].to
      <4>1. CASE k < c
        <5>1. spans[k].to < spans[c].from /\ spans[c].from < spans[c].to
          BY <1>3, <3>1, <4>1, SpansOrdered
        <5> QED BY <1>3, <3>1, <5>1
      <4>2. CASE k = c
        BY <1>3, <4>2
      <4> QED BY <3>1, <4>1, <4>2
    <3>3. End(c) = spans[c].to
      BY <3>1 DEF End
    <3> QED BY <1>3, <1>5, <2>1, <3>1, <3>2, <3>3
  <2>3. c + 1 \in 1..Len(spans) /\ (c + 1 < k \/ c + 1 = k)
    BY <1>1, <2>1, <2>2
  <2>4. spans[c + 1].from <= spans[k].from
    <3>1. CASE c + 1 < k
      <4>1. spans[c + 1].to < spans[k].from /\ spans[c + 1].from < spans[c + 1].to
        BY <1>3, <2>3, <3>1, SpansOrdered
      <4> QED BY <1>3, <2>3, <4>1
    <3>2. CASE c + 1 = k
      BY <1>3, <3>2
    <3> QED BY <2>3, <3>1, <3>2
  <2> QED BY <1>3, <2>1, <2>3, <2>4
<1> QED BY <1>1, <1>3, <1>4, <1>5

\* A listener inside a frame that began at p, or outside, behind c frames.
Inside(h, c, n, p) ==
    /\ End(c) < p /\ stream[p] = STX /\ \A i \in (p + 1)..n : stream[i] # ETX
    /\ h.text = SubSeq(stream, p + 1, n)
    /\ c < Len(spans) /\ spans[c + 1].from <= n => p = spans[c + 1].from
Outside(h, c, n) ==
    h.text = <<>> /\ \A i \in (End(c) + 1)..n : stream[i] # STX
Behind(h, c, n) ==
    /\ End(c) <= n /\ (c < Len(spans) => n < spans[c + 1].to)
    /\ h.texts = [k \in 1..c |-> TextOf(spans[k])]
    /\ IF h.inside THEN \E p \in 1..n : Inside(h, c, n, p) ELSE Outside(h, c, n)

LEMMA ListenerOutside ==
    ASSUME LinkInv, EveryFrameFound, ~decoding, ~dropped,
           NEW h \in Listeners, NEW c \in 0..Len(spans), NEW n \in 0..(Len(stream) - 1),
           Behind(h, c, n), ~h.inside
    PROVE  Behind(Listen(h, stream[n + 1]), c, n + 1)
<1> DEFINE ch == stream[n + 1]
           g == Listen(h, ch)
<1>1. /\ Len(spans) \in Nat /\ Len(stream) \in Nat /\ End(c) \in Nat /\ n \in Nat
      /\ n + 1 \in 1..Len(stream)
  BY FramesSoFar
<1>2. g = [h EXCEPT !.inside = (ch = STX)]
  BY DEF Listen
<1>3. g.texts = h.texts /\ g.text = h.text /\ (g.inside <=> ch = STX)
  BY <1>2 DEF Listeners
<1>4. /\ h.text = <<>> /\ (\A i \in (End(c) + 1)..n : stream[i] # STX) /\ End(c) <= n
      /\ (c < Len(spans) => n < spans[c + 1].to) /\ h.texts = [k \in 1..c |-> TextOf(spans[k])]
  BY DEF Behind, Outside
<1> HIDE DEF g
\* The next frame does not begin before n + 1.
<1>5. ASSUME c < Len(spans) PROVE spans[c + 1].from >= n + 1 /\ n + 1 < spans[c + 1].to
  <2>1. /\ c + 1 \in 1..Len(spans) /\ c + 1 - 1 = c
    BY <1>1, <1>5
  <2>2. /\ spans[c + 1].from \in Nat /\ spans[c + 1].to \in Nat /\ End(c) < spans[c + 1].from
        /\ spans[c + 1].from < spans[c + 1].to /\ stream[spans[c + 1].from] = STX
    BY <2>1, FramesSoFar
  <2>3. ~(spans[c + 1].from <= n)
    <3> SUFFICES ASSUME spans[c + 1].from <= n PROVE FALSE
      OBVIOUS
    <3>1. spans[c + 1].from \in (End(c) + 1)..n
      BY <1>1, <2>2
    <3> QED BY <1>4, <2>2, <3>1
  <2> QED BY <1>1, <2>2, <2>3
<1>6. End(c) <= n + 1 /\ g.texts = [k \in 1..c |-> TextOf(spans[k])]
  BY <1>1, <1>3, <1>4
<1>7. CASE ch = STX
  <2>1. SubSeq(stream, n + 1 + 1, n + 1) = <<>>
    BY <1>1, SubSeqEmpty
  <2>2. c < Len(spans) /\ spans[c + 1].from <= n + 1 => n + 1 = spans[c + 1].from
    <3> SUFFICES ASSUME c < Len(spans), spans[c + 1].from <= n + 1
                 PROVE  n + 1 = spans[c + 1].from
      OBVIOUS
    <3>1. c + 1 \in 1..Len(spans)
      BY <1>1
    <3>2. spans[c + 1].from \in Nat
      BY <3>1, FramesSoFar
    <3> QED BY <1>1, <1>5, <3>2
  <2>3. End(c) < n + 1 /\ \A i \in (n + 1 + 1)..(n + 1) : stream[i] # ETX
    BY <1>1, <1>4
  <2>4. Inside(g, c, n + 1, n + 1)
    BY <1>3, <1>4, <1>7, <2>1, <2>2, <2>3 DEF Inside
  <2>5. n + 1 \in 1..(n + 1)
    BY <1>1
  <2> QED BY <1>3, <1>5, <1>6, <1>7, <2>4, <2>5 DEF Behind, g
<1>8. CASE ch # STX
  <2>1. \A i \in (End(c) + 1)..(n + 1) : stream[i] # STX
    <3>1. \A i \in (End(c) + 1)..(n + 1) : i \in (End(c) + 1)..n \/ i = n + 1
      BY <1>1
    <3> QED BY <1>4, <1>8, <3>1
  <2>2. Outside(g, c, n + 1)
    BY <1>3, <1>4, <2>1 DEF Outside
  <2> QED BY <1>3, <1>5, <1>6, <1>8, <2>2 DEF Behind, g
<1> QED BY <1>7, <1>8

LEMMA ListenerInside ==
    ASSUME LinkInv, EveryFrameFound, ~decoding, ~dropped,
           NEW h \in Listeners, NEW c \in 0..Len(spans), NEW n \in 0..(Len(stream) - 1),
           Behind(h, c, n), h.inside
    PROVE  \E d \in 0..Len(spans) : Behind(Listen(h, stream[n + 1]), d, n + 1)
<1> DEFINE ch == stream[n + 1]
           g == Listen(h, ch)
<1>1. /\ Len(spans) \in Nat /\ Len(stream) \in Nat /\ End(c) \in Nat /\ n \in Nat
      /\ n + 1 \in 1..Len(stream) /\ stream \in Seq(Bytes)
  BY FramesSoFar
<1>2. PICK p \in 1..n : Inside(h, c, n, p)
  BY DEF Behind
<1>3. /\ End(c) < p /\ stream[p] = STX /\ (\A i \in (p + 1)..n : stream[i] # ETX)
      /\ h.text = SubSeq(stream, p + 1, n)
      /\ (c < Len(spans) /\ spans[c + 1].from <= n => p = spans[c + 1].from)
  BY <1>2 DEF Inside
<1>4. /\ End(c) <= n /\ (c < Len(spans) => n < spans[c + 1].to)
      /\ h.texts = [k \in 1..c |-> TextOf(spans[k])]
  BY DEF Behind
<1>5. p \in 1..Len(stream) /\ p < n + 1
  BY <1>1
<1>6. CASE ch = ETX
  <2>1. g = [inside |-> FALSE, text |-> <<>>, texts |-> Append(h.texts, h.text)]
    BY <1>6 DEF Listen
  <2>2. c + 1 \in 1..Len(spans) /\ spans[c + 1].from <= p
    BY <1>1, <1>3, <1>5, <1>6, FramesSoFar
  <2> DEFINE k == c + 1
  <2>3. /\ spans[k].from \in Nat /\ spans[k].to \in Nat /\ spans[k].from < spans[k].to
        /\ \A i \in (spans[k].from + 1)..(spans[k].to - 1) : stream[i] # ETX
    BY <2>2, FramesSoFar
  <2>4. p = spans[k].from /\ n < spans[k].to
    BY <1>1, <1>3, <1>4, <2>2, <2>3
  <2>5. spans[k].to = n + 1
    <3>1. ~(n + 1 <= spans[k].to - 1)
      <4> SUFFICES ASSUME n + 1 <= spans[k].to - 1 PROVE FALSE
        OBVIOUS
      <4>1. n + 1 \in (spans[k].from + 1)..(spans[k].to - 1)
        BY <1>1, <1>5, <2>3, <2>4
      <4> QED BY <1>6, <2>3, <4>1
    <3> QED BY <1>1, <2>3, <2>4, <3>1
  <2>6. h.text = TextOf(spans[k])
    <3>1. spans[k].to - 1 = n
      BY <1>1, <2>5
    <3> QED BY <1>3, <2>4, <3>1 DEF TextOf
  <2>7. Append(h.texts, h.text) = [i \in 1..k |-> TextOf(spans[i])]
    <3>1. h.texts \in Seq(Seq(Bytes)) /\ h.text \in Seq(Bytes)
      BY DEF Listeners
    <3> DEFINE a == Append(h.texts, h.text)
    <3>2. DOMAIN h.texts = 1..c
      BY <1>4
    <3>3. Len(h.texts) = c
      <4>1. Len(h.texts) \in Nat /\ DOMAIN h.texts = 1..Len(h.texts)
        BY <3>1, LenProperties
      <4> QED BY <1>1, <3>2, <4>1
    <3>4. /\ a \in Seq(Seq(Bytes)) /\ Len(a) = c + 1
          /\ (\A i \in 1..c : a[i] = h.texts[i]) /\ a[c + 1] = h.text
      BY <3>1, <3>3, AppendProperties
    <3> HIDE DEF a
    <3>5. a = [i \in 1..k |-> a[i]]
      BY <3>4, LenProperties
    <3>6. ASSUME NEW i \in 1..k PROVE a[i] = TextOf(spans[i])
      <4>1. i \in 1..c \/ i = k
        BY <1>1
      <4>2. ASSUME i \in 1..c PROVE a[i] = TextOf(spans[i])
        BY <1>4, <3>4, <4>2
      <4> QED BY <2>6, <3>4, <4>1, <4>2
    <3> QED BY <3>5, <3>6 DEF a
  <2>8. End(k) = n + 1
    BY <1>1, <2>5 DEF End
  <2>9. k < Len(spans) => n + 1 < spans[k + 1].to
    <3> SUFFICES ASSUME k < Len(spans) PROVE n + 1 < spans[k + 1].to
      OBVIOUS
    <3>1. k + 1 \in 1..Len(spans) /\ k + 1 - 1 = k
      BY <1>1
    <3>2. /\ End(k) < spans[k + 1].from /\ spans[k + 1].from < spans[k + 1].to
          /\ spans[k + 1].from \in Nat /\ spans[k + 1].to \in Nat
      BY <3>1, FramesSoFar
    <3> QED BY <1>1, <2>8, <3>2
  <2>10. Outside(g, k, n + 1) /\ ~g.inside /\ g.texts = [i \in 1..k |-> TextOf(spans[i])]
    <3>1. g.text = <<>> /\ ~g.inside /\ g.texts = Append(h.texts, h.text)
      BY <2>1
    <3>2. \A i \in (n + 1 + 1)..(n + 1) : stream[i] # STX
      BY <1>1
    <3> HIDE DEF g
    <3> QED BY <2>7, <2>8, <3>1, <3>2 DEF Outside
  <2>11. End(k) <= n + 1 /\ k \in 0..Len(spans)
    BY <1>1, <2>2, <2>8
  <2> HIDE DEF g, k
  <2>12. Behind(g, k, n + 1)
    BY <2>9, <2>10, <2>11 DEF Behind
  <2> QED BY <2>11, <2>12 DEF g
<1>7. CASE ch # ETX
  <2>1. g = [h EXCEPT !.text = Append(@, ch)]
    BY <1>7 DEF Listen
  <2>2. g.inside /\ g.text = Append(h.text, ch) /\ g.texts = h.texts
    BY <2>1 DEF Listeners
  <2> HIDE DEF g
  <2>3. g.text = SubSeq(stream, p + 1, n + 1)
    <3>1. SubSeq(stream, p + 1, n + 1) = SubSeq(stream, p + 1, n + 1 - 1) \o <<ch>>
      <4>1. p + 1 \in 1..Len(stream) /\ n + 1 \in (p + 1)..Len(stream)
        BY <1>1, <1>5
      <4> QED BY <1>1, <4>1, SubSeqRecursiveSecond
    <3>2. n + 1 - 1 = n /\ ch \in Bytes
      BY <1>1, ElementOfSeq
    <3>3. h.text \in Seq(Bytes)
      BY DEF Listeners
    <3>4. Append(h.text, ch) = h.text \o <<ch>>
      BY <3>2, <3>3, AppendIsConcat
    <3> HIDE DEF ch
    <3> QED BY <1>3, <2>2, <3>1, <3>2, <3>4
  <2>4. \A i \in (p + 1)..(n + 1) : stream[i] # ETX
    <3>1. \A i \in (p + 1)..(n + 1) : i \in (p + 1)..n \/ i = n + 1
      BY <1>1
    <3> QED BY <1>3, <1>7, <3>1
  <2>5. c < Len(spans) => /\ n + 1 < spans[c + 1].to
                          /\ spans[c + 1].from <= n + 1 => p = spans[c + 1].from
    <3> SUFFICES ASSUME c < Len(spans)
                 PROVE  /\ n + 1 < spans[c + 1].to
                        /\ spans[c + 1].from <= n + 1 => p = spans[c + 1].from
      OBVIOUS
    <3>1. c + 1 \in 1..Len(spans)
      BY <1>1
    <3>2. /\ spans[c + 1].from \in Nat /\ spans[c + 1].to \in Nat
          /\ spans[c + 1].from < spans[c + 1].to /\ spans[c + 1].to <= Len(stream)
          /\ stream[spans[c + 1].to] = ETX
      BY <3>1, FramesSoFar
    <3>3. n + 1 < spans[c + 1].to
      <4>1. spans[c + 1].to # n + 1
        BY <1>7, <3>2
      <4> QED BY <1>1, <1>4, <3>2, <4>1
    <3>4. ~(spans[c + 1].from = n + 1)
      <4> SUFFICES ASSUME spans[c + 1].from = n + 1 PROVE FALSE
        OBVIOUS
      <4>1. spans[c + 1].to \in 1..Len(stream) /\ p < spans[c + 1].to
        BY <1>1, <1>5, <3>2
      <4>2. spans[c + 1].from <= p
        BY <1>3, <1>5, <3>2, <4>1, FramesSoFar
      <4> QED BY <1>1, <1>5, <4>2
    <3>5. ASSUME spans[c + 1].from <= n + 1 PROVE p = spans[c + 1].from
      <4>1. spans[c + 1].from <= n
        BY <1>1, <3>2, <3>4, <3>5
      <4> QED BY <1>3, <4>1
    <3> QED BY <3>3, <3>5
  <2>6. Inside(g, c, n + 1, p)
    BY <1>3, <2>3, <2>4, <2>5 DEF Inside
  <2>7. p \in 1..(n + 1) /\ End(c) <= n + 1
    BY <1>1, <1>4
  <2>8. Behind(g, c, n + 1)
    BY <1>4, <2>2, <2>5, <2>6, <2>7 DEF Behind
  <2> QED BY <2>8 DEF g
<1> QED BY <1>6, <1>7

\* push() finds the frames of a reader that looks at one character at a time,
\* however the stream is cut into chunks and whatever is on it, as long as the
\* buffer does not overflow.
THEOREM ChunkingNeverMatters == LinkSpec => []ChunkingIrrelevant
<1>1. ASSUME LinkInv, EveryFrameFound PROVE ChunkingIrrelevant
  <2> SUFFICES ASSUME ~decoding, ~dropped
               PROVE  [k \in DOMAIN spans |-> TextOf(spans[k])] = Listened(stream)
    BY DEF ChunkingIrrelevant
  <2> DEFINE n == Len(stream)
  <2>1. /\ Len(spans) \in Nat /\ n \in Nat /\ stream \in Seq(Bytes)
        /\ DOMAIN spans = 1..Len(spans)
    BY <1>1, FramesSoFar, LenProperties DEF LinkInv, LinkTypes
  <2>2. PICK heard \in [0..n -> Listeners] :
          /\ heard[0] = Silence
          /\ \A i \in 1..n : heard[i] = Listen(heard[i - 1], stream[i])
          /\ Listened(stream) = heard[n].texts
    BY <2>1, ListenedHeard
  <2> DEFINE Right(i) == \E c \in 0..Len(spans) : Behind(heard[i], c, i)
             S == {i \in 0..n : Right(i)}
  <2>3. Right(0)
    <3>1. 0 \in 0..Len(spans)
      BY <2>1
    <3>2. End(0) = 0 /\ (0 < Len(spans) => 0 < spans[0 + 1].to)
      <4>1. ASSUME 0 < Len(spans) PROVE 0 < spans[1].to
        <5>1. 1 \in 1..Len(spans)
          BY <2>1, <4>1
        <5>2. spans[1].to \in Nat /\ spans[1].from \in Nat /\ spans[1].from < spans[1].to
          BY <1>1, <5>1, FramesSoFar
        <5> QED BY <5>2
      <4> QED BY <4>1 DEF End
    <3>3. Silence.texts = [k \in 1..0 |-> TextOf(spans[k])]
      BY DEF Silence
    <3>4. Outside(Silence, 0, 0) /\ ~Silence.inside
      BY <3>2 DEF Outside, Silence
    <3>5. Behind(Silence, 0, 0)
      BY <3>2, <3>3, <3>4 DEF Behind
    <3> QED BY <2>2, <3>1, <3>5
  <2>4. ASSUME NEW i \in 0..n, Right(i), i < n PROVE Right(i + 1)
    <3>1. /\ i \in 0..(Len(stream) - 1) /\ i + 1 \in 1..n /\ i + 1 - 1 = i
      BY <2>1, <2>4
    <3>2. PICK c \in 0..Len(spans) : Behind(heard[i], c, i)
      BY <2>4
    <3>3. heard[i] \in Listeners /\ heard[i].inside \in BOOLEAN
      BY <2>2 DEF Listeners
    <3>4. heard[i + 1] = Listen(heard[i], stream[i + 1])
      BY <2>2, <3>1
    <3>5. CASE ~heard[i].inside
      <4>1. Behind(Listen(heard[i], stream[i + 1]), c, i + 1)
        BY <1>1, <3>1, <3>2, <3>3, <3>5, ListenerOutside
      <4> QED BY <3>4, <4>1
    <3>6. CASE heard[i].inside
      <4>1. \E d \in 0..Len(spans) : Behind(Listen(heard[i], stream[i + 1]), d, i + 1)
        BY <1>1, <3>1, <3>2, <3>3, <3>6, ListenerInside
      <4> QED BY <3>4, <4>1
    <3> QED BY <3>5, <3>6
  <2>5. n \in S
    <3> HIDE DEF Right, n
    <3>1. S \in SUBSET (0..n) /\ 0 \in S
      BY <2>1, <2>3
    <3>2. \A i \in S : i < n => i + 1 \in S
      <4> SUFFICES ASSUME NEW i \in S, i < n PROVE i + 1 \in S
        OBVIOUS
      <4>1. i \in 0..n /\ Right(i) /\ i + 1 \in 0..n
        BY <2>1
      <4> QED BY <2>4, <4>1
    <3> HIDE DEF S
    <3> QED BY <2>1, <3>1, <3>2, UpTo
  <2>6. PICK c \in 0..Len(spans) : Behind(heard[n], c, n)
    BY <2>5
  <2>7. c = Len(spans)
    <3>1. ASSUME c < Len(spans) PROVE FALSE
      <4>1. c + 1 \in 1..Len(spans)
        BY <2>1, <3>1
      <4>2. spans[c + 1].to \in Nat /\ spans[c + 1].to <= Len(stream)
        BY <1>1, <4>1, FramesSoFar
      <4>3. n < spans[c + 1].to
        BY <2>6, <3>1 DEF Behind
      <4> QED BY <2>1, <4>2, <4>3
    <3>2. ~(c < Len(spans))
      BY <3>1
    <3>3. c \in 0..Len(spans)
      BY <2>6
    <3> HIDE DEF S, Right, n
    <3>4. Len(spans) \in Nat
      BY <2>1
    <3> QED BY <3>2, <3>3, <3>4
  <2>8. heard[n].texts = [k \in 1..c |-> TextOf(spans[k])]
    BY <2>6 DEF Behind
  <2> QED BY <2>1, <2>2, <2>7, <2>8
<1> QED BY <1>1, LinkStaysSound, EveryFrameIsFound, PTL

-----------------------------------------------------------------------------
(* What a fault costs.                                                      *)

\* The characters the adapter's messages became, read or not.
Total == Len(stream) + Len(line)
At(x) == IF x <= Len(stream) THEN stream[x] ELSE line[x - Len(stream)]

\* cut[i] characters are ahead of message i, and an ungarbled one is there.
Placed(cut) ==
    /\ cut \in [1..(Len(sent) + 1) -> Nat] /\ cut[1] = 0 /\ cut[Len(sent) + 1] = Total
    /\ \A i, j \in 1..(Len(sent) + 1) : i <= j => cut[i] <= cut[j]
    /\ \A i \in 1..Len(sent) : ~sent[i].garbled =>
         /\ cut[i + 1] = cut[i] + Len(Framed(sent[i].bytes))
         /\ \A j \in 1..Len(Framed(sent[i].bytes)) : At(cut[i] + j) = Framed(sent[i].bytes)[j]

\* A spared message has not left the buffer, or as a frame.
FoundIn(a, b) == \E k \in 1..Len(spans) : spans[k].from = a + 1 /\ spans[k].to = b
Sifted(cut) ==
    \A i \in 1..Len(sent) : Spared(i) =>
      used <= cut[i] \/ (cut[i + 1] <= used /\ FoundIn(cut[i], cut[i + 1]))

SparingInv == ~closed => \E cut : Placed(cut) /\ Sifted(cut)

LEMMA ReadMoves ==
    ASSUME LinkInv, Read
    PROVE  /\ Total' = Total /\ Total \in Nat
           /\ \A x \in 1..Total : At(x)' = At(x)
<1>1. PICK n \in 1..MaxChunk :
        /\ n <= Len(line)
        /\ stream' = stream \o SubSeq(line, 1, n)
        /\ line' = SubSeq(line, n + 1, Len(line))
  BY DEF Read
<1>2. n \in Nat /\ n >= 1 /\ Len(line) \in Nat /\ Len(stream) \in Nat
  BY LinkBoundsAssumption, LenProperties DEF LinkInv, LinkTypes
<1> DEFINE chunk == SubSeq(line, 1, n)
           rest == SubSeq(line, n + 1, Len(line))
<1>3. /\ chunk \in Seq(Bytes) /\ Len(chunk) = n
      /\ \A i \in 1..n : chunk[i] = line[i]
  <2>1. 1 \in 1..(Len(line) + 1) /\ n \in 0..Len(line) /\ 1 <= n /\ n - 1 + 1 = n
    BY <1>1, <1>2
  <2>2. /\ chunk \in Seq(Bytes) /\ Len(chunk) = n
        /\ \A i \in 1..(n - 1 + 1) : chunk[i] = line[1 + i - 1]
    BY <1>2, <2>1, PartOfSequence DEF LinkInv, LinkTypes
  <2>3. \A i \in 1..n : 1 + i - 1 = i
    BY <1>2
  <2> HIDE DEF chunk
  <2> QED BY <2>1, <2>2, <2>3
<1>4. Len(rest) = Len(line) - n /\ \A i \in 1..(Len(line) - n) : rest[i] = line[n + i]
  <2>1. n + 1 \in 1..(Len(line) + 1) /\ Len(line) \in 0..Len(line)
    BY <1>1, <1>2
  <2>2. /\ Len(rest) = IF n + 1 <= Len(line) THEN Len(line) - (n + 1) + 1 ELSE 0
        /\ \A i \in 1..(Len(line) - (n + 1) + 1) : rest[i] = line[n + 1 + i - 1]
    BY <2>1, PartOfSequence DEF LinkInv, LinkTypes
  <2> HIDE DEF rest
  <2>3. Len(rest) = Len(line) - n
    BY <1>1, <1>2, <2>2
  <2>4. ASSUME NEW i \in 1..(Len(line) - n) PROVE rest[i] = line[n + i]
    <3>1. i \in 1..(Len(line) - (n + 1) + 1) /\ n + 1 + i - 1 = n + i
      BY <1>1, <1>2
    <3> QED BY <2>2, <3>1
  <2> QED BY <2>3, <2>4
<1> HIDE DEF chunk, rest
<1>5. /\ Len(stream') = Len(stream) + n
      /\ \A i \in 1..(Len(stream) + n) :
           stream'[i] = IF i <= Len(stream) THEN stream[i] ELSE chunk[i - Len(stream)]
  <2>1. /\ Len(stream \o chunk) = Len(stream) + Len(chunk)
        /\ \A i \in 1..(Len(stream) + Len(chunk)) :
             (stream \o chunk)[i] = IF i <= Len(stream) THEN stream[i] ELSE chunk[i - Len(stream)]
    BY <1>3, ConcatProperties DEF LinkInv, LinkTypes
  <2> QED BY <1>1, <1>3, <2>1 DEF chunk
<1>6. line' = rest
  BY <1>1 DEF rest
<1>7. Total' = Total /\ Total \in Nat
  <2>1. Len(line') = Len(line) - n
    BY <1>4, <1>6
  <2>2. Len(stream') + Len(line') = Len(stream) + Len(line)
    BY <1>2, <1>5, <2>1
  <2> QED BY <1>2, <2>2 DEF Total
<1>8. ASSUME NEW x \in 1..Total PROVE At(x)' = At(x)
  <2>1. x \in 1..(Len(stream) + Len(line))
    BY DEF Total
  <2>2. CASE x <= Len(stream)
    <3>1. x \in 1..(Len(stream) + n) /\ x <= Len(stream')
      BY <1>2, <1>5, <2>1, <2>2
    <3>2. stream'[x] = stream[x]
      BY <1>5, <2>2, <3>1
    <3> QED BY <2>2, <3>1, <3>2 DEF At
  <2>3. CASE ~(x <= Len(stream)) /\ x <= Len(stream) + n
    <3>1. x \in 1..(Len(stream) + n) /\ x <= Len(stream') /\ x - Len(stream) \in 1..n
      BY <1>2, <1>5, <2>1, <2>3
    <3>2. stream'[x] = line[x - Len(stream)]
      BY <1>3, <1>5, <2>3, <3>1
    <3> QED BY <2>3, <3>1, <3>2 DEF At
  <2>4. CASE ~(x <= Len(stream) + n)
    <3>1. /\ ~(x <= Len(stream')) /\ ~(x <= Len(stream))
          /\ x - Len(stream') \in 1..(Len(line) - n)
          /\ n + (x - Len(stream')) = x - Len(stream)
      BY <1>2, <1>5, <2>1, <2>4
    <3>2. line'[x - Len(stream')] = line[x - Len(stream)]
      BY <1>4, <1>6, <3>1
    <3> QED BY <3>1, <3>2 DEF At
  <2> QED BY <2>2, <2>3, <2>4
<1> QED BY <1>7, <1>8

LEMMA SendAppends ==
    ASSUME LinkInv, NEW text \in Seq(Bytes), line' = line \o text, stream' = stream
    PROVE  /\ Total' = Total + Len(text) /\ Total \in Nat /\ Len(text) \in Nat
           /\ \A x \in 1..Total : At(x)' = At(x)
           /\ \A x \in (Total + 1)..(Total + Len(text)) : At(x)' = text[x - Total]
<1>1. Len(line) \in Nat /\ Len(stream) \in Nat /\ Len(text) \in Nat
  BY LenProperties DEF LinkInv, LinkTypes
<1>2. /\ Len(line') = Len(line) + Len(text)
      /\ \A i \in 1..(Len(line) + Len(text)) :
           line'[i] = IF i <= Len(line) THEN line[i] ELSE text[i - Len(line)]
  BY ConcatProperties DEF LinkInv, LinkTypes
<1>3. Total' = Total + Len(text) /\ Total \in Nat
  BY <1>1, <1>2 DEF Total
<1>4. ASSUME NEW x \in 1..Total PROVE At(x)' = At(x)
  <2>1. CASE x <= Len(stream)
    BY <2>1 DEF At
  <2>2. CASE ~(x <= Len(stream))
    <3>1. /\ x - Len(stream) \in 1..(Len(line) + Len(text)) /\ x - Len(stream) <= Len(line)
          /\ ~(x <= Len(stream'))
      BY <1>1, <2>2 DEF Total
    <3>2. line'[x - Len(stream)] = line[x - Len(stream)]
      BY <1>2, <3>1
    <3> QED BY <2>2, <3>1, <3>2 DEF At
  <2> QED BY <2>1, <2>2
<1>5. ASSUME NEW x \in (Total + 1)..(Total + Len(text)) PROVE At(x)' = text[x - Total]
  <2>1. /\ ~(x <= Len(stream)) /\ x - Len(stream) \in 1..(Len(line) + Len(text))
        /\ ~(x - Len(stream) <= Len(line)) /\ x - Len(stream) - Len(line) = x - Total
    BY <1>1 DEF Total
  <2>2. line'[x - Len(stream)] = text[x - Total]
    BY <1>2, <2>1
  <2> QED BY <2>1, <2>2 DEF At
<1> QED BY <1>1, <1>3, <1>4, <1>5

\* Where nothing is sent or read, everything stays where it was.
LEMMA PlacedKept ==
    ASSUME NEW cut, Placed(cut), Total' = Total, sent' = sent,
           \A x \in 1..Total : At(x)' = At(x),
           sent \in Seq(Sendings)
    PROVE  Placed(cut)'
<1>1. Len(sent) \in Nat
  BY LenProperties
<1>2. /\ cut \in [1..(Len(sent) + 1) -> Nat] /\ cut[1] = 0 /\ cut[Len(sent) + 1] = Total
      /\ \A i, j \in 1..(Len(sent) + 1) : i <= j => cut[i] <= cut[j]
  BY DEF Placed
<1>3. ASSUME NEW i \in 1..Len(sent), ~sent[i].garbled
      PROVE  /\ cut[i + 1] = cut[i] + Len(Framed(sent[i].bytes))
             /\ \A j \in 1..Len(Framed(sent[i].bytes)) : At(cut[i] + j)' = Framed(sent[i].bytes)[j]
  <2> DEFINE F == Framed(sent[i].bytes)
  <2>1. /\ cut[i + 1] = cut[i] + Len(F)
        /\ \A j \in 1..Len(F) : At(cut[i] + j) = F[j]
    BY <1>3 DEF Placed
  <2>2. F \in Seq(Bytes) /\ Len(F) \in Nat
    <3>1. sent[i] \in Sendings
      BY ElementOfSeq
    <3>2. sent[i].bytes \in Seq(Bytes)
      BY <3>1, LineAssumption DEF Sendings
    <3> QED BY <3>2, FramedOfBytes, LenProperties
  <2> HIDE DEF F
  <2>3. i + 1 \in 1..(Len(sent) + 1) /\ i \in 1..(Len(sent) + 1) /\ Len(sent) + 1 \in 1..(Len(sent) + 1)
        /\ i + 1 <= Len(sent) + 1
    BY <1>1
  <2>4. cut[i] \in Nat /\ cut[i + 1] <= Total /\ Total \in Nat
    BY <1>2, <2>3
  <2>5. ASSUME NEW j \in 1..Len(F) PROVE At(cut[i] + j)' = F[j]
    <3>1. cut[i] + j \in 1..Total
      BY <2>1, <2>2, <2>4
    <3> QED BY <2>1, <3>1
  <2> QED BY <2>1, <2>5 DEF F
<1> QED BY <1>2, <1>3 DEF Placed

\* A message that was not garbled: STX, its digits, ETX.
LEMMA UngarbledText ==
    ASSUME NEW cut, Placed(cut), sent \in Seq(Sendings),
           NEW i \in 1..Len(sent), ~sent[i].garbled
    PROVE  /\ cut[i] \in Nat /\ cut[i + 1] \in Nat /\ Total \in Nat
           /\ sent[i].bytes \in Seq(Bytes) /\ Len(sent[i].bytes) \in Nat
           /\ cut[i + 1] = cut[i] + 2 * Len(sent[i].bytes) + 2
           /\ cut[i + 1] - cut[i] <= MaxBuffer /\ cut[i + 1] <= Total
           /\ At(cut[i] + 1) = STX /\ At(cut[i + 1]) = ETX
           /\ \A j \in 1..(2 * Len(sent[i].bytes)) :
                At(cut[i] + 1 + j) = Digits(sent[i].bytes)[j] /\ Digits(sent[i].bytes)[j] \in Lower
<1> DEFINE b == sent[i].bytes
           F == Framed(b)
           n == 2 * Len(b)
<1>1. /\ b \in Payloads /\ b \in Seq(Bytes) /\ Len(b) \in Nat /\ Len(sent) \in Nat
      /\ Len(F) <= MaxBuffer
  <2>1. sent[i] \in Sendings
    BY ElementOfSeq
  <2>2. b \in Payloads
    BY <2>1 DEF Sendings
  <2> QED BY <2>2, LineAssumption, LenProperties
<1>2. /\ Len(F) = n + 2 /\ F[1] = STX /\ F[n + 2] = ETX
      /\ \A j \in 1..n : F[j + 1] = Digits(b)[j] /\ Digits(b)[j] \in Lower
  BY <1>1, FramedOfBytes
<1>3. /\ cut[i + 1] = cut[i] + Len(F)
      /\ \A j \in 1..Len(F) : At(cut[i] + j) = F[j]
  BY DEF Placed
<1>4. cut[i] \in Nat /\ cut[i + 1] \in Nat /\ cut[i + 1] <= Total /\ Total \in Nat
  <2>1. /\ cut \in [1..(Len(sent) + 1) -> Nat] /\ cut[Len(sent) + 1] = Total
        /\ \A k, j \in 1..(Len(sent) + 1) : k <= j => cut[k] <= cut[j]
    BY DEF Placed
  <2>2. i + 1 \in 1..(Len(sent) + 1) /\ i \in 1..(Len(sent) + 1) /\ Len(sent) + 1 \in 1..(Len(sent) + 1)
        /\ i + 1 <= Len(sent) + 1
    BY <1>1
  <2> QED BY <2>1, <2>2
<1> HIDE DEF F
<1>5. n \in Nat
  BY <1>1
<1>6. cut[i + 1] = cut[i] + n + 2 /\ cut[i + 1] - cut[i] <= MaxBuffer
  <2> DEFINE p == cut[i]
             q == cut[i + 1]
             l == Len(F)
  <2>1. p \in Nat /\ q = p + l /\ l = n + 2 /\ l <= MaxBuffer
    BY <1>1, <1>2, <1>3, <1>4
  <2> HIDE DEF p, q, l, n
  <2>2. q = p + n + 2 /\ q - p <= MaxBuffer
    BY <1>5, <2>1, LinkBoundsAssumption
  <2> QED BY <2>2 DEF p, q
<1>7. At(cut[i] + 1) = STX
  <2>1. 1 \in 1..Len(F)
    BY <1>2, <1>5
  <2> QED BY <1>2, <1>3, <2>1
<1>8. At(cut[i + 1]) = ETX
  <2>1. n + 2 \in 1..Len(F) /\ cut[i] + (n + 2) = cut[i + 1]
    BY <1>2, <1>4, <1>5, <1>6
  <2>2. At(cut[i] + (n + 2)) = ETX
    BY <1>2, <1>3, <2>1
  <2> QED BY <2>1, <2>2
<1>9. ASSUME NEW j \in 1..n
      PROVE  At(cut[i] + 1 + j) = Digits(b)[j] /\ Digits(b)[j] \in Lower
  <2>1. j + 1 \in 1..Len(F) /\ cut[i] + (j + 1) = cut[i] + 1 + j
    BY <1>2, <1>4, <1>5
  <2>2. At(cut[i] + (j + 1)) = F[j + 1]
    BY <1>3, <2>1
  <2> QED BY <1>2, <2>1, <2>2
<1> QED BY <1>1, <1>4, <1>6, <1>7, <1>8, <1>9

\* A spared message: no ETX and no STX inside, and an ETX right ahead of it.
LEMMA SparedText ==
    ASSUME NEW cut, Placed(cut), sent \in Seq(Sendings),
           NEW i \in 1..Len(sent), Spared(i)
    PROVE  /\ cut[i] \in Nat /\ cut[i + 1] \in Nat
           /\ cut[i] + 1 < cut[i + 1] /\ cut[i + 1] <= cut[i] + MaxBuffer
           /\ cut[i + 1] <= Total /\ Total \in Nat
           /\ At(cut[i] + 1) = STX /\ At(cut[i + 1]) = ETX
           /\ \A x \in (cut[i] + 2)..(cut[i + 1] - 1) : At(x) # ETX /\ At(x) # STX
           /\ cut[i] > 0 => At(cut[i]) = ETX
<1>1. Len(sent) \in Nat /\ ~sent[i].garbled /\ (i > 1 => ~sent[i - 1].garbled)
  BY LenProperties DEF Spared
<1>2. /\ cut[i] \in Nat /\ cut[i + 1] \in Nat /\ Total \in Nat
      /\ Len(sent[i].bytes) \in Nat
      /\ cut[i + 1] = cut[i] + 2 * Len(sent[i].bytes) + 2
      /\ cut[i + 1] - cut[i] <= MaxBuffer /\ cut[i + 1] <= Total
      /\ At(cut[i] + 1) = STX /\ At(cut[i + 1]) = ETX
      /\ \A j \in 1..(2 * Len(sent[i].bytes)) :
           At(cut[i] + 1 + j) = Digits(sent[i].bytes)[j] /\ Digits(sent[i].bytes)[j] \in Lower
  BY <1>1, UngarbledText
<1>3. ASSUME NEW x \in (cut[i] + 2)..(cut[i + 1] - 1) PROVE At(x) # ETX /\ At(x) # STX
  <2>1. x - cut[i] - 1 \in 1..(2 * Len(sent[i].bytes)) /\ cut[i] + 1 + (x - cut[i] - 1) = x
    <3> DEFINE p == cut[i]
               q == cut[i + 1]
               n == 2 * Len(sent[i].bytes)
    <3>1. p \in Nat /\ q \in Nat /\ n \in Nat /\ q = p + n + 2 /\ x \in (p + 2)..(q - 1)
      BY <1>2
    <3> HIDE DEF p, q, n
    <3>2. x - p - 1 \in 1..n /\ p + 1 + (x - p - 1) = x
      BY <3>1
    <3> QED BY <3>2 DEF p, n
  <2>2. At(x) \in Lower
    BY <1>2, <2>1
  <2> QED BY <2>2, LowerDigits
<1>4. ASSUME cut[i] > 0 PROVE At(cut[i]) = ETX
  <2>1. CASE i = 1
    BY <1>4, <2>1 DEF Placed
  <2>2. CASE i > 1
    <3>1. i - 1 \in 1..Len(sent) /\ i - 1 + 1 = i
      BY <1>1, <2>2
    <3>2. At(cut[i - 1 + 1]) = ETX
      BY <1>1, <2>2, <3>1, UngarbledText
    <3> QED BY <3>1, <3>2
  <2> QED BY <2>1, <2>2
<1>5. cut[i] + 1 < cut[i + 1] /\ cut[i + 1] <= cut[i] + MaxBuffer
  <2> DEFINE p == cut[i]
             q == cut[i + 1]
             n == 2 * Len(sent[i].bytes)
  <2>1. p \in Nat /\ q \in Nat /\ n \in Nat /\ q = p + n + 2 /\ q - p <= MaxBuffer
    BY <1>2
  <2> HIDE DEF p, q, n
  <2>2. p + 1 < q /\ q <= p + MaxBuffer
    BY <2>1, LinkBoundsAssumption
  <2> QED BY <2>2 DEF p, q
<1> QED BY <1>2, <1>3, <1>4, <1>5

LEMMA UsedIsRead ==
    ASSUME LinkInv
    PROVE  /\ Len(stream) \in Nat /\ Len(line) \in Nat /\ used \in Nat /\ Total \in Nat
           /\ used <= Len(stream) /\ Len(stream) <= Total
           /\ Len(spans) \in Nat /\ Len(buffer) \in Nat /\ used + Len(buffer) = Len(stream)
           /\ DOMAIN buffer = 1..Len(buffer)
<1>1. /\ Len(stream) \in Nat /\ Len(line) \in Nat /\ used \in Nat /\ Len(spans) \in Nat
      /\ Len(buffer) \in Nat /\ used + Len(buffer) = Len(stream)
      /\ DOMAIN buffer = 1..Len(buffer)
  BY LenProperties DEF LinkInv, LinkTypes, Buffered
<1> QED BY <1>1 DEF Total

\* A step that touches neither the messages nor the line nor the spans, and
\* lets nothing leave the buffer.
LEMMA SparingKept ==
    ASSUME LinkInv, RestTypes, SparingInv, closed' = closed,
           UNCHANGED <<sent, spans, used>>,
           Total' = Total, \A x \in 1..Total : At(x)' = At(x)
    PROVE  SparingInv'
<1> SUFFICES ASSUME ~closed PROVE \E c : Placed(c)' /\ Sifted(c)'
  BY DEF SparingInv
<1>1. PICK cut : Placed(cut) /\ Sifted(cut)
  BY DEF SparingInv
<1>2. sent \in Seq(Sendings) /\ sent' = sent
  BY DEF RestTypes
<1>3. Placed(cut)'
  BY <1>1, <1>2, PlacedKept
<1>4. Sifted(cut)'
  BY <1>1, <1>2 DEF Sifted, Spared, FoundIn
<1> QED BY <1>3, <1>4

LEMMA AdapterSendsSpares ==
    ASSUME LinkInv, RestTypes, SparingInv, AdapterSends PROVE SparingInv'
<1> SUFFICES ASSUME ~closed PROVE \E c : Placed(c)' /\ Sifted(c)'
  BY DEF SparingInv, AdapterSends, link
<1>1. PICK cut : Placed(cut) /\ Sifted(cut)
  BY DEF SparingInv
<1>2. PICK bytes \in Payloads, g \in BOOLEAN, text \in Seq(Bytes) :
        /\ sent' = Append(sent, [bytes |-> bytes, garbled |-> g])
        /\ line' = line \o text
        /\ ~g => text = Framed(bytes)
  <2>1. PICK b \in Payloads :
          \/ sent' = Append(sent, [bytes |-> b, garbled |-> FALSE]) /\ line' = line \o Framed(b)
          \/ /\ sent' = Append(sent, [bytes |-> b, garbled |-> TRUE])
             /\ \E text \in Garbled(Framed(b)) : line' = line \o text
    BY DEF AdapterSends
  <2>2. Framed(b) \in Seq(Bytes)
    BY LineAssumption, FramedOfBytes
  <2>3. \A text \in Garbled(Framed(b)) : text \in Seq(Bytes)
    BY <2>2, GarbledType
  <2>4. CASE sent' = Append(sent, [bytes |-> b, garbled |-> FALSE]) /\ line' = line \o Framed(b)
    BY <2>2, <2>4
  <2>5. CASE /\ sent' = Append(sent, [bytes |-> b, garbled |-> TRUE])
             /\ \E text \in Garbled(Framed(b)) : line' = line \o text
    BY <2>3, <2>5
  <2> QED BY <2>1, <2>4, <2>5
<1>3. UNCHANGED <<stream, used, spans>> /\ sent \in Seq(Sendings)
  BY DEF AdapterSends, link, RestTypes
<1> DEFINE new == [bytes |-> bytes, garbled |-> g]
<1>4. new \in Sendings /\ new.garbled = g /\ new.bytes = bytes
  BY DEF Sendings
<1> HIDE DEF new
<1>5. /\ Len(sent) \in Nat /\ Len(sent') = Len(sent) + 1
      /\ \A i \in 1..Len(sent) : sent'[i] = sent[i]
      /\ sent'[Len(sent) + 1] = new
  BY <1>2, <1>3, <1>4, AppendProperties, LenProperties DEF new
<1>6. PICK n \in Nat : n = Len(sent)
  BY <1>5
<1>7. PICK t \in Nat : t = Total
  BY UsedIsRead
<1>8. PICK l \in Nat : l = Len(text)
  BY LenProperties
<1>9. /\ Total' = t + l
      /\ \A x \in 1..t : At(x)' = At(x)
      /\ \A x \in (t + 1)..(t + l) : At(x)' = text[x - t]
  BY <1>2, <1>3, <1>7, <1>8, SendAppends
<1>10. /\ cut \in [1..(n + 1) -> Nat] /\ cut[1] = 0 /\ cut[n + 1] = t
       /\ \A i, j \in 1..(n + 1) : i <= j => cut[i] <= cut[j]
  BY <1>1, <1>6, <1>7 DEF Placed
<1>11. PICK c \in [1..(n + 2) -> Nat] :
         (\A i \in 1..(n + 1) : c[i] = cut[i]) /\ c[n + 2] = t + l
  <2> DEFINE d == [i \in 1..(n + 2) |-> IF i <= n + 1 THEN cut[i] ELSE t + l]
  <2>1. d \in [1..(n + 2) -> Nat]
    <3> SUFFICES ASSUME NEW i \in 1..(n + 2) PROVE (IF i <= n + 1 THEN cut[i] ELSE t + l) \in Nat
      OBVIOUS
    <3>1. i <= n + 1 => i \in 1..(n + 1)
      OBVIOUS
    <3> QED BY <1>10, <3>1
  <2>2. \A i \in 1..(n + 1) : i \in 1..(n + 2) /\ i <= n + 1
    OBVIOUS
  <2>3. n + 2 \in 1..(n + 2) /\ ~(n + 2 <= n + 1)
    OBVIOUS
  <2> QED BY <2>1, <2>2, <2>3
<1>12. \A i, j \in 1..(n + 2) : i <= j => c[i] <= c[j]
  <2> SUFFICES ASSUME NEW i \in 1..(n + 2), NEW j \in 1..(n + 2), i <= j PROVE c[i] <= c[j]
    OBVIOUS
  <2>1. CASE j \in 1..(n + 1)
    <3>1. i \in 1..(n + 1)
      BY <2>1
    <3> QED BY <1>10, <1>11, <2>1, <3>1
  <2>2. CASE i \in 1..(n + 1) /\ j = n + 2
    <3>1. n + 1 \in 1..(n + 1) /\ i <= n + 1
      BY <2>2
    <3>2. cut[i] <= t /\ cut[i] \in Nat
      BY <1>10, <2>2, <3>1
    <3> QED BY <1>11, <2>2, <3>2
  <2>3. CASE i = n + 2 /\ j = n + 2
    <3>1. c[n + 2] \in Nat
      BY <1>11
    <3> QED BY <2>3, <3>1
  <2>4. i \in 1..(n + 1) \/ i = n + 2
    OBVIOUS
  <2>5. j \in 1..(n + 1) \/ j = n + 2
    OBVIOUS
  <2>6. i = n + 2 => j = n + 2
    OBVIOUS
  <2> QED BY <2>1, <2>2, <2>3, <2>4, <2>5, <2>6
<1>13. ASSUME NEW i \in 1..(n + 1), ~sent'[i].garbled
       PROVE  /\ c[i + 1] = c[i] + Len(Framed(sent'[i].bytes))
              /\ \A j \in 1..Len(Framed(sent'[i].bytes)) :
                   At(c[i] + j)' = Framed(sent'[i].bytes)[j]
  <2>1. CASE i \in 1..n
    <3>1. sent'[i] = sent[i]
      BY <1>5, <1>6, <2>1
    <3>2. i \in 1..(n + 1) /\ i + 1 \in 1..(n + 1) /\ n + 1 \in 1..(n + 1) /\ i + 1 <= n + 1
      BY <2>1
    <3> DEFINE F == Framed(sent[i].bytes)
    <3>3. cut[i + 1] = cut[i] + Len(F) /\ \A j \in 1..Len(F) : At(cut[i] + j) = F[j]
      BY <1>1, <1>6, <1>13, <2>1, <3>1 DEF Placed
    <3>4. cut[i] \in Nat /\ cut[i + 1] \in Nat /\ cut[i + 1] <= t
      BY <1>10, <3>2
    <3>5. F \in Seq(Bytes) /\ Len(F) \in Nat
      <4>1. sent[i] \in Sendings
        BY <1>3, <1>6, <2>1, ElementOfSeq
      <4>2. sent[i].bytes \in Seq(Bytes)
        BY <4>1, LineAssumption DEF Sendings
      <4> QED BY <4>2, FramedOfBytes, LenProperties
    <3> HIDE DEF F
    <3>6. ASSUME NEW j \in 1..Len(F) PROVE At(cut[i] + j)' = F[j]
      <4>1. cut[i] + j \in 1..t
        BY <3>3, <3>4, <3>5
      <4> QED BY <1>9, <3>3, <4>1
    <3>7. c[i] = cut[i] /\ c[i + 1] = cut[i + 1]
      BY <1>11, <3>2
    <3>8. c[i + 1] = c[i] + Len(F) /\ \A j \in 1..Len(F) : At(c[i] + j)' = F[j]
      BY <3>3, <3>6, <3>7
    <3> QED BY <3>1, <3>8 DEF F
  <2>2. CASE i = n + 1
    <3>1. sent'[i] = new
      BY <1>5, <1>6, <2>2
    <3>2. sent'[i].bytes = bytes /\ text = Framed(bytes)
      BY <1>2, <1>4, <1>13, <3>1
    <3>3. c[i] = t /\ c[i + 1] = t + l
      <4>1. n + 1 \in 1..(n + 1) /\ i + 1 = n + 2
        BY <2>2
      <4> QED BY <1>10, <1>11, <2>2, <4>1
    <3>4. ASSUME NEW j \in 1..l PROVE At(t + j)' = text[j]
      <4>1. t + j \in (t + 1)..(t + l) /\ t + j - t = j
        OBVIOUS
      <4> QED BY <1>9, <4>1
    <3> QED BY <1>8, <3>2, <3>3, <3>4
  <2> QED BY <2>1, <2>2
<1>14. Placed(c)'
  <2>1. Len(sent') = n + 1 /\ Len(sent') + 1 = n + 2
    BY <1>5, <1>6
  <2>2. c[1] = 0
    <3>1. 1 \in 1..(n + 1)
      OBVIOUS
    <3> QED BY <1>10, <1>11, <3>1
  <2> QED BY <1>9, <1>11, <1>12, <1>13, <2>1, <2>2 DEF Placed
<1>15. ASSUME NEW i \in 1..(n + 1), Spared(i)'
       PROVE  used' <= c[i] \/ (c[i + 1] <= used' /\ FoundIn(c[i], c[i + 1])')
  <2>1. CASE i \in 1..n
    <3>1. sent'[i] = sent[i] /\ (i > 1 => sent'[i - 1] = sent[i - 1])
      <4>1. i > 1 => i - 1 \in 1..n
        BY <2>1
      <4> QED BY <1>5, <1>6, <2>1, <4>1
    <3>2. Spared(i)
      BY <1>15, <3>1 DEF Spared
    <3>3. used <= cut[i] \/ (cut[i + 1] <= used /\ FoundIn(cut[i], cut[i + 1]))
      BY <1>1, <1>6, <2>1, <3>2 DEF Sifted
    <3>4. c[i] = cut[i] /\ c[i + 1] = cut[i + 1]
      <4>1. i \in 1..(n + 1) /\ i + 1 \in 1..(n + 1)
        BY <2>1
      <4> QED BY <1>11, <4>1
    <3> QED BY <1>3, <3>3, <3>4 DEF FoundIn
  <2>2. CASE i = n + 1
    <3>1. n + 1 \in 1..(n + 1)
      OBVIOUS
    <3>2. c[i] = t
      BY <1>10, <1>11, <2>2, <3>1
    <3>3. used' <= t
      BY <1>3, <1>7, UsedIsRead
    <3> QED BY <3>2, <3>3
  <2> QED BY <2>1, <2>2
<1>16. Sifted(c)'
  <2>1. Len(sent') = n + 1
    BY <1>5, <1>6
  <2> QED BY <1>15, <2>1 DEF Sifted
<1> QED BY <1>14, <1>16

\* The first frame in the buffer, in the stream.
LEMMA FirstFrame ==
    ASSUME LinkInv, NEW start \in DOMAIN buffer, IsFirst(start, STX, 0),
           NEW end \in DOMAIN buffer, IsFirst(end, ETX, start)
    PROVE  /\ start \in Nat /\ end \in Nat /\ 1 <= start /\ start < end
           /\ used + end <= Len(stream)
           /\ stream[used + start] = STX /\ stream[used + end] = ETX
           /\ \A x \in (used + 1)..(used + start - 1) : stream[x] # STX
           /\ \A x \in (used + start + 1)..(used + end - 1) : stream[x] # ETX
<1>1. Len(buffer) \in Nat /\ used \in Nat /\ DOMAIN buffer = 1..Len(buffer)
  BY UsedIsRead
<1>2. /\ start \in Positions(STX, 0) /\ \A j \in Positions(STX, 0) : start <= j
      /\ end \in Positions(ETX, start) /\ \A j \in Positions(ETX, start) : end <= j
  BY DEF IsFirst
<1>3. start \in Nat /\ end \in Nat /\ 1 <= start /\ start < end /\ end <= Len(buffer)
  BY <1>1, <1>2 DEF Positions
<1>4. /\ used + end <= Len(stream)
      /\ stream[used + start] = STX /\ stream[used + end] = ETX
  BY <1>2, BufferInStream DEF Positions
<1>5. ASSUME NEW x \in (used + 1)..(used + start - 1) PROVE stream[x] # STX
  <2>1. x - used \in 1..Len(buffer) /\ used + (x - used) = x /\ x - used > 0 /\ ~(start <= x - used)
    BY <1>1, <1>3
  <2>2. stream[x] = buffer[x - used]
    BY <1>1, <2>1, BufferInStream
  <2>3. ~(x - used \in Positions(STX, 0))
    BY <1>2, <2>1
  <2> QED BY <1>1, <2>1, <2>2, <2>3 DEF Positions
<1>6. ASSUME NEW x \in (used + start + 1)..(used + end - 1) PROVE stream[x] # ETX
  <2>1. x - used \in 1..Len(buffer) /\ used + (x - used) = x /\ x - used > start /\ ~(end <= x - used)
    BY <1>1, <1>3
  <2>2. stream[x] = buffer[x - used]
    BY <1>1, <2>1, BufferInStream
  <2>3. ~(x - used \in Positions(ETX, start))
    BY <1>2, <2>1
  <2> QED BY <1>1, <2>1, <2>2, <2>3 DEF Positions
<1> QED BY <1>3, <1>4, <1>5, <1>6

LEMMA ExtractFrameSpares ==
    ASSUME LinkInv, RestTypes, SparingInv, ExtractFrame PROVE SparingInv'
<1> SUFFICES ASSUME ~closed PROVE \E c : Placed(c)' /\ Sifted(c)'
  BY DEF SparingInv, ExtractFrame
<1>1. PICK cut : Placed(cut) /\ Sifted(cut)
  BY DEF SparingInv
<1>2. PICK start \in DOMAIN buffer, end \in DOMAIN buffer :
        /\ IsFirst(start, STX, 0) /\ IsFirst(end, ETX, start)
        /\ spans' = Append(spans, [from |-> used + start, to |-> used + end])
        /\ used' = used + end
  BY DEF ExtractFrame
<1>3. UNCHANGED <<line, stream, sent>> /\ sent \in Seq(Sendings)
  BY DEF ExtractFrame, RestTypes
<1>4. Placed(cut)'
  <2>1. Total' = Total /\ \A x \in 1..Total : At(x)' = At(x)
    BY <1>3 DEF Total, At
  <2> QED BY <1>1, <1>3, <2>1, PlacedKept
<1>5. /\ start \in Nat /\ end \in Nat /\ 1 <= start /\ start < end
      /\ used + end <= Len(stream)
      /\ stream[used + start] = STX /\ stream[used + end] = ETX
      /\ \A x \in (used + 1)..(used + start - 1) : stream[x] # STX
      /\ \A x \in (used + start + 1)..(used + end - 1) : stream[x] # ETX
  BY <1>2, FirstFrame
<1>6. used \in Nat /\ Len(stream) \in Nat /\ Len(spans) \in Nat
  BY UsedIsRead
<1> DEFINE s == used + start
           e == used + end
           span == [from |-> s, to |-> e]
<1>7. /\ Len(spans') = Len(spans) + 1
      /\ \A k \in 1..Len(spans) : spans'[k] = spans[k]
      /\ spans'[Len(spans) + 1] = span
  <2>1. span \in Spans
    BY <1>5, <1>6 DEF Spans
  <2> HIDE DEF span
  <2>2. spans \in Seq(Spans)
    BY DEF LinkInv, LinkTypes
  <2>3. spans' = Append(spans, span)
    BY <1>2 DEF span
  <2> QED BY <2>1, <2>2, <2>3, AppendProperties
<1>8. /\ s \in Nat /\ e \in Nat /\ used < s /\ s < e /\ e <= Len(stream) /\ used' = e
      /\ stream[s] = STX /\ stream[e] = ETX
      /\ \A x \in (used + 1)..(s - 1) : stream[x] # STX
      /\ \A x \in (s + 1)..(e - 1) : stream[x] # ETX
      /\ span.from = s /\ span.to = e
  BY <1>2, <1>5, <1>6
<1> HIDE DEF s, e, span
<1>9. ASSUME NEW i \in 1..Len(sent), Spared(i)
      PROVE  used' <= cut[i] \/ (cut[i + 1] <= used' /\ FoundIn(cut[i], cut[i + 1])')
  <2>1. used <= cut[i] \/ (cut[i + 1] <= used /\ FoundIn(cut[i], cut[i + 1]))
    BY <1>1, <1>9 DEF Sifted
  <2> DEFINE a == cut[i]
             b == cut[i + 1]
  <2>2. /\ a \in Nat /\ b \in Nat /\ a + 1 < b
        /\ At(a + 1) = STX /\ At(b) = ETX
        /\ \A x \in (a + 2)..(b - 1) : At(x) # ETX
        /\ a > 0 => At(a) = ETX
    BY <1>1, <1>3, <1>9, SparedText
  <2>3. \A x : x <= Len(stream) => At(x) = stream[x]
    BY DEF At
  <2> HIDE DEF a, b
  <2>4. CASE used <= a
    <3>1. CASE e <= a
      BY <1>8, <3>1 DEF a
    <3>2. CASE ~(e <= a)
      <4>1. ~(s <= a)
        <5>1. ASSUME s <= a PROVE FALSE
          <6>1. a > 0 /\ a <= Len(stream)
            BY <1>6, <1>8, <2>2, <3>2, <5>1
          <6>2. stream[a] = ETX
            BY <2>2, <2>3, <6>1
          <6>3. s # a
            BY <1>8, <6>2 DEF STX, ETX
          <6>4. a \in (s + 1)..(e - 1)
            BY <1>8, <2>2, <3>2, <5>1, <6>3
          <6> QED BY <1>8, <6>2, <6>4
        <5> QED BY <5>1
      <4>2. s = a + 1
        <5>1. a + 1 <= Len(stream)
          BY <1>6, <1>8, <2>2, <3>2
        <5>2. stream[a + 1] = STX
          BY <2>2, <2>3, <5>1
        <5>3. ~(a + 1 \in (used + 1)..(s - 1))
          BY <1>8, <5>2
        <5> QED BY <1>6, <1>8, <2>2, <2>4, <4>1, <5>3
      <4>3. ~(e < b)
        <5>1. ASSUME e < b PROVE FALSE
          <6>1. e \in (a + 2)..(b - 1)
            BY <1>8, <2>2, <4>2, <5>1
          <6> QED BY <1>8, <2>2, <2>3, <6>1
        <5> QED BY <5>1
      <4>4. ~(b < e)
        <5>1. ASSUME b < e PROVE FALSE
          <6>1. b \in (s + 1)..(e - 1) /\ b <= Len(stream)
            BY <1>6, <1>8, <2>2, <4>2, <5>1
          <6> QED BY <1>8, <2>2, <2>3, <6>1
        <5> QED BY <5>1
      <4>5. e = b
        BY <1>8, <2>2, <4>3, <4>4
      <4>6. spans'[Len(spans) + 1].from = a + 1 /\ spans'[Len(spans) + 1].to = b
        BY <1>7, <1>8, <4>2, <4>5
      <4>7. Len(spans) + 1 \in 1..Len(spans')
        BY <1>6, <1>7
      <4>8. \E k \in 1..Len(spans') : spans'[k].from = a + 1 /\ spans'[k].to = b
        BY <4>6, <4>7
      <4>9. b <= used'
        BY <1>8, <2>2, <4>5
      <4> QED BY <4>8, <4>9 DEF a, b, FoundIn
    <3> QED BY <3>1, <3>2
  <2>5. CASE b <= used /\ FoundIn(a, b)
    <3>1. b <= used'
      BY <1>6, <1>8, <2>2, <2>5
    <3>2. PICK k \in 1..Len(spans) : spans[k].from = a + 1 /\ spans[k].to = b
      BY <2>5 DEF FoundIn
    <3>3. k \in 1..Len(spans') /\ spans'[k] = spans[k]
      BY <1>6, <1>7
    <3>4. \E j \in 1..Len(spans') : spans'[j].from = a + 1 /\ spans'[j].to = b
      BY <3>2, <3>3
    <3> QED BY <3>1, <3>4 DEF a, b, FoundIn
  <2> QED BY <2>1, <2>4, <2>5 DEF a, b
<1>10. Sifted(cut)'
  BY <1>3, <1>9 DEF Sifted, Spared
<1> QED BY <1>4, <1>10

LEMMA SettleSpares ==
    ASSUME LinkInv, RestTypes, SparingInv, Settle PROVE SparingInv'
<1> SUFFICES ASSUME ~closed PROVE \E c : Placed(c)' /\ Sifted(c)'
  BY DEF SparingInv, Settle
<1>1. PICK cut : Placed(cut) /\ Sifted(cut)
  BY DEF SparingInv
<1>2. /\ UNCHANGED <<line, stream, sent, spans>> /\ sent \in Seq(Sendings)
      /\ \A start \in Positions(STX, 0) : Positions(ETX, start) = {}
      /\ \/ Positions(STX, 0) = {} /\ KeepUnlessOverlong(buffer)
         \/ \E start \in DOMAIN buffer :
              IsFirst(start, STX, 0) /\ KeepUnlessOverlong(SubSeq(buffer, start, Len(buffer)))
  BY DEF Settle, RestTypes
<1>3. Placed(cut)'
  <2>1. Total' = Total /\ \A x \in 1..Total : At(x)' = At(x)
    BY <1>2 DEF Total, At
  <2> QED BY <1>1, <1>2, <2>1, PlacedKept
<1>4. /\ used \in Nat /\ Len(stream) \in Nat /\ Len(buffer) \in Nat
      /\ used + Len(buffer) = Len(stream)
      /\ DOMAIN buffer = 1..Len(buffer) /\ buffer \in Seq(Bytes)
  BY UsedIsRead DEF LinkInv, LinkTypes
<1>5. ASSUME NEW x \in (used + 1)..Len(stream)
      PROVE  x - used \in DOMAIN buffer /\ x - used > 0 /\ buffer[x - used] = stream[x]
  <2>1. x - used \in DOMAIN buffer /\ x - used > 0 /\ used + (x - used) = x
    BY <1>4
  <2> QED BY <2>1, BufferInStream
\* What leaves the buffer, and what is then known of it.
<1>6. \/ /\ used' = used \/ used' = Len(stream)
         /\ \A x \in (used + 1)..Len(stream) : stream[x] # STX
      \/ \E s \in (used + 1)..Len(stream) :
           /\ used' = s - 1 \/ (used' = Len(stream) /\ Len(stream) - s + 1 > MaxBuffer)
           /\ \A x \in (used + 1)..(s - 1) : stream[x] # STX
           /\ \A x \in (s + 1)..Len(stream) : stream[x] # ETX
           /\ stream[s] = STX
  <2>1. CASE Positions(STX, 0) = {} /\ KeepUnlessOverlong(buffer)
    <3>1. ASSUME NEW x \in (used + 1)..Len(stream) PROVE stream[x] # STX
      BY <1>5, <2>1 DEF Positions
    <3>2. used' = used \/ used' = Len(stream)
      <4>1. CASE Len(buffer) > MaxBuffer
        <5>1. Len(buffer') = 0 /\ used' = Len(stream) - Len(buffer')
          BY <2>1, <4>1, EmptySeq DEF KeepUnlessOverlong
        <5> QED BY <1>4, <5>1
      <4>2. CASE ~(Len(buffer) > MaxBuffer)
        <5>1. used' = Len(stream) - Len(buffer)
          BY <2>1, <4>2 DEF KeepUnlessOverlong
        <5> QED BY <1>4, <5>1
      <4> QED BY <4>1, <4>2
    <3> QED BY <3>1, <3>2
  <2>2. ASSUME NEW start \in DOMAIN buffer, IsFirst(start, STX, 0),
               KeepUnlessOverlong(SubSeq(buffer, start, Len(buffer)))
        PROVE  \E s \in (used + 1)..Len(stream) :
                 /\ used' = s - 1 \/ (used' = Len(stream) /\ Len(stream) - s + 1 > MaxBuffer)
                 /\ \A x \in (used + 1)..(s - 1) : stream[x] # STX
                 /\ \A x \in (s + 1)..Len(stream) : stream[x] # ETX
                 /\ stream[s] = STX
    <3> DEFINE rest == SubSeq(buffer, start, Len(buffer))
               s == used + start
    <3>1. start \in 1..(Len(buffer) + 1) /\ Len(buffer) \in 0..Len(buffer) /\ start <= Len(buffer)
      BY <1>4, <2>2
    <3>2. Len(rest) = Len(buffer) - start + 1
      BY <1>4, <3>1, PartOfSequence
    <3>3. s \in (used + 1)..Len(stream) /\ s - used = start /\ Len(rest) = Len(stream) - s + 1
      BY <1>4, <3>1, <3>2
    <3>4. used' = s - 1 \/ (used' = Len(stream) /\ Len(stream) - s + 1 > MaxBuffer)
      <4>1. CASE Len(rest) > MaxBuffer
        <5>1. Len(buffer') = 0 /\ used' = Len(stream) - Len(buffer')
          BY <2>2, <4>1, EmptySeq DEF KeepUnlessOverlong
        <5>2. used' = Len(stream)
          BY <1>4, <5>1
        <5>3. Len(stream) - s + 1 > MaxBuffer
          BY <3>3, <4>1
        <5> QED BY <5>2, <5>3
      <4>2. CASE ~(Len(rest) > MaxBuffer)
        <5>1. used' = Len(stream) - Len(rest)
          BY <2>2, <4>2 DEF KeepUnlessOverlong
        <5> HIDE DEF rest
        <5> QED BY <1>4, <3>1, <3>3, <5>1
      <4> QED BY <4>1, <4>2
    <3>5. start \in Positions(STX, 0) /\ \A j \in Positions(STX, 0) : start <= j
      BY <2>2 DEF IsFirst
    <3>6. stream[s] = STX
      <4>1. buffer[start] = STX
        BY <3>5 DEF Positions
      <4> QED BY <1>5, <3>3, <4>1
    <3>7. ASSUME NEW x \in (used + 1)..(s - 1) PROVE stream[x] # STX
      <4>1. x \in (used + 1)..Len(stream) /\ ~(start <= x - used)
        BY <1>4, <3>1
      <4>2. ~(x - used \in Positions(STX, 0))
        BY <3>5, <4>1
      <4> QED BY <1>5, <4>1, <4>2 DEF Positions
    <3>8. ASSUME NEW x \in (s + 1)..Len(stream) PROVE stream[x] # ETX
      <4>1. x \in (used + 1)..Len(stream) /\ x - used > start
        BY <1>4, <3>1
      <4>2. ~(x - used \in Positions(ETX, start))
        BY <1>2, <3>5
      <4> QED BY <1>5, <4>1, <4>2 DEF Positions
    <3> HIDE DEF s, rest
    <3> QED BY <3>3, <3>4, <3>6, <3>7, <3>8
  <2> QED BY <1>2, <2>1, <2>2
<1>7. used <= used' /\ used' <= Len(stream) /\ used' \in Nat
  BY <1>4, <1>6
<1>8. ASSUME NEW i \in 1..Len(sent), Spared(i)
      PROVE  used' <= cut[i] \/ (cut[i + 1] <= used' /\ FoundIn(cut[i], cut[i + 1]))
  <2>1. used <= cut[i] \/ (cut[i + 1] <= used /\ FoundIn(cut[i], cut[i + 1]))
    BY <1>1, <1>8 DEF Sifted
  <2> DEFINE a == cut[i]
             b == cut[i + 1]
  <2>2. /\ a \in Nat /\ b \in Nat /\ a + 1 < b /\ b <= a + MaxBuffer
        /\ At(a + 1) = STX /\ At(b) = ETX
        /\ a > 0 => At(a) = ETX
    BY <1>1, <1>2, <1>8, SparedText
  <2>3. \A x : x <= Len(stream) => At(x) = stream[x]
    BY DEF At
  <2> HIDE DEF a, b
  <2>4. ASSUME used <= a, a < used' PROVE FALSE
    <3>1. a + 1 \in (used + 1)..Len(stream)
      BY <1>4, <1>7, <2>2, <2>4
    <3>2. stream[a + 1] = STX
      BY <2>2, <2>3, <3>1
    <3>3. PICK s \in (used + 1)..Len(stream) :
            /\ used' = s - 1 \/ (used' = Len(stream) /\ Len(stream) - s + 1 > MaxBuffer)
            /\ \A x \in (used + 1)..(s - 1) : stream[x] # STX
            /\ \A x \in (s + 1)..Len(stream) : stream[x] # ETX
            /\ stream[s] = STX
      BY <1>6, <3>1, <3>2
    <3>4. s <= a + 1
      <4>1. ~(a + 1 \in (used + 1)..(s - 1))
        BY <3>2, <3>3
      <4> QED BY <1>4, <2>2, <3>1, <4>1
    <3>5. Len(stream) - s + 1 > MaxBuffer
      BY <1>4, <2>2, <2>4, <3>3, <3>4
    <3>6. ~(s <= a)
      <4>1. ASSUME s <= a PROVE FALSE
        <5>1. a > 0 /\ a <= Len(stream)
          BY <1>4, <2>2, <3>1, <4>1
        <5>2. stream[a] = ETX
          BY <2>2, <2>3, <5>1
        <5>3. s # a
          BY <3>3, <5>2 DEF STX, ETX
        <5>4. a \in (s + 1)..Len(stream)
          BY <1>4, <2>2, <4>1, <5>1, <5>3
        <5> QED BY <3>3, <5>2, <5>4
      <4> QED BY <4>1
    <3>7. b \in (s + 1)..Len(stream) /\ b <= Len(stream)
      BY <1>4, <2>2, <3>4, <3>5, <3>6, LinkBoundsAssumption
    <3> QED BY <2>2, <2>3, <3>3, <3>7
  <2>5. CASE used <= a
    <3>1. used' <= a
      BY <1>7, <2>2, <2>4, <2>5
    <3> QED BY <3>1 DEF a
  <2>6. CASE b <= used /\ FoundIn(a, b)
    <3>1. b <= used'
      BY <1>4, <1>7, <2>2, <2>6
    <3> QED BY <2>6, <3>1 DEF a, b
  <2> QED BY <2>1, <2>5, <2>6 DEF a, b
<1>9. Sifted(cut)'
  BY <1>2, <1>8 DEF Sifted, Spared, FoundIn
<1> QED BY <1>3, <1>9

LEMMA SparingStep ==
    ASSUME LinkInv, RestTypes, SparingInv, [LinkNext]_linkVars PROVE SparingInv'
<1>1. CASE Read
  <2>1. closed' = closed /\ UNCHANGED <<sent, spans, used>>
    BY <1>1 DEF Read
  <2>2. Total' = Total /\ \A x \in 1..Total : At(x)' = At(x)
    BY <1>1, ReadMoves
  <2> QED BY <2>1, <2>2, SparingKept
<1>2. CASE TakeFrame \/ UNCHANGED linkVars
  <2>1. closed' = closed /\ UNCHANGED <<sent, spans, used, line, stream>>
    BY <1>2 DEF TakeFrame, linkVars, link, history
  <2>2. Total' = Total /\ \A x \in 1..Total : At(x)' = At(x)
    BY <2>1 DEF Total, At
  <2> QED BY <2>1, <2>2, SparingKept
<1>3. CASE EndOfFile
  BY <1>3 DEF EndOfFile, SparingInv
<1> QED
  BY <1>1, <1>2, <1>3, AdapterSendsSpares, ExtractFrameSpares, SettleSpares DEF LinkNext

LEMMA SparingInit == LinkInit => SparingInv
<1> SUFFICES ASSUME LinkInit PROVE \E c : Placed(c) /\ Sifted(c)
  BY DEF SparingInv
<1>1. sent = <<>> /\ Len(sent) = 0 /\ Total = 0
  <2>1. Len(line) = 0 /\ Len(stream) = 0 /\ Len(sent) = 0
    BY EmptySeq DEF LinkInit
  <2> QED BY <2>1 DEF LinkInit, Total
<1>2. PICK c \in [1..1 -> Nat] : c[1] = 0
  <2>1. [i \in 1..1 |-> 0] \in [1..1 -> Nat] /\ [i \in 1..1 |-> 0][1] = 0
    OBVIOUS
  <2> QED BY <2>1
<1>3. Placed(c)
  <2>1. /\ Len(sent) + 1 = 1 /\ c \in [1..(Len(sent) + 1) -> Nat]
        /\ c[Len(sent) + 1] = Total
    BY <1>1, <1>2
  <2>2. \A i, j \in 1..(Len(sent) + 1) : i <= j => c[i] <= c[j]
    <3>1. \A i \in 1..(Len(sent) + 1) : i = 1
      BY <2>1
    <3> QED BY <1>2, <3>1
  <2>3. \A i \in 1..Len(sent) : FALSE
    BY <1>1
  <2> QED BY <1>2, <2>1, <2>2, <2>3 DEF Placed
<1>4. Sifted(c)
  BY <1>1 DEF Sifted
<1> QED BY <1>3, <1>4

-----------------------------------------------------------------------------
(* What receive() makes of the frames.                                      *)

MessageIn(text) == parse_adapter_message(decode(compact(text)))
GoodText(text) == IsHexText(compact(text)) /\ MessageIn(text).name \notin Errors

Texts == [k \in 1..Len(spans) |-> TextOf(spans[k])]

\* The frames that wait are those behind the n-th.
Waiting(fs, txt, n) == \A j \in 1..Len(fs) : fs[j] = txt[n + j]

\* Of the first n texts the good ones were delivered, in their order.
Took(at, txt, n, del) ==
    \A k \in 1..n : GoodText(txt[k]) =>
      /\ at[k] \in 1..Len(del) /\ del[at[k]] = MessageIn(txt[k])
      /\ \A l \in 1..(k - 1) : GoodText(txt[l]) => at[l] < at[k]

TakenInv ==
    \E n \in Nat : /\ Len(spans) = n + Len(frames) /\ Waiting(frames, Texts, n)
                   /\ \E at : Took(at, Texts, n, delivered)

LEMMA TookSame ==
    ASSUME NEW n \in Nat, NEW at, NEW txt, NEW txt2, NEW del, Took(at, txt, n, del),
           \A k \in 1..n : txt2[k] = txt[k]
    PROVE  Took(at, txt2, n, del)
<1>1. ASSUME NEW k \in 1..n, NEW l \in 1..(k - 1) PROVE l \in 1..n
  OBVIOUS
<1> QED BY <1>1 DEF Took

LEMMA TookNext ==
    ASSUME NEW n \in Nat, NEW at, NEW txt, NEW del, NEW S, del \in Seq(S),
           Took(at, txt, n, del), NEW del2,
           del2 = IF GoodText(txt[n + 1]) THEN Append(del, MessageIn(txt[n + 1])) ELSE del
    PROVE  \E at2 : Took(at2, txt, n + 1, del2)
<1>1. Len(del) \in Nat
  BY LenProperties
<1>2. /\ \A i \in 1..Len(del) : i \in 1..Len(del2) /\ del2[i] = del[i]
      /\ GoodText(txt[n + 1]) =>
           /\ Len(del) + 1 \in 1..Len(del2)
           /\ del2[Len(del) + 1] = MessageIn(txt[n + 1])
  <2>1. CASE GoodText(txt[n + 1])
    <3> DEFINE message == MessageIn(txt[n + 1])
               T == S \union {message}
    <3>1. del \in Seq(T) /\ message \in T
      BY SeqMonotonic
    <3>2. del2 = Append(del, message)
      BY <2>1
    <3> HIDE DEF T, message
    <3>3. /\ Len(del2) = Len(del) + 1 /\ del2[Len(del) + 1] = message
          /\ \A i \in 1..Len(del) : del2[i] = del[i]
      BY <3>1, <3>2, AppendProperties
    <3> QED BY <1>1, <3>3 DEF message
  <2>2. CASE ~GoodText(txt[n + 1])
    BY <2>2
  <2> QED BY <2>1, <2>2
<1>3. PICK at2 : /\ \A k \in 1..n : at2[k] = at[k]
                 /\ at2[n + 1] = Len(del) + 1
  <2> DEFINE f == [k \in 1..(n + 1) |-> IF k <= n THEN at[k] ELSE Len(del) + 1]
  <2>1. (\A k \in 1..n : f[k] = at[k]) /\ f[n + 1] = Len(del) + 1
    OBVIOUS
  <2> QED BY <2>1
<1>4. ASSUME NEW k \in 1..(n + 1), GoodText(txt[k])
      PROVE  /\ at2[k] \in 1..Len(del2) /\ del2[at2[k]] = MessageIn(txt[k])
             /\ \A l \in 1..(k - 1) : GoodText(txt[l]) => at2[l] < at2[k]
  <2>1. CASE k \in 1..n
    <3>1. /\ at[k] \in 1..Len(del) /\ del[at[k]] = MessageIn(txt[k])
          /\ \A l \in 1..(k - 1) : GoodText(txt[l]) => at[l] < at[k]
      BY <1>4, <2>1 DEF Took
    <3>2. \A l \in 1..(k - 1) : l \in 1..n
      BY <2>1
    <3> QED BY <1>2, <1>3, <2>1, <3>1, <3>2
  <2>2. CASE k = n + 1
    <3>1. at2[k] = Len(del) + 1
      BY <1>3, <2>2
    <3>2. at2[k] \in 1..Len(del2) /\ del2[at2[k]] = MessageIn(txt[k])
      BY <1>2, <1>4, <2>2, <3>1
    <3>3. ASSUME NEW l \in 1..(k - 1), GoodText(txt[l]) PROVE at2[l] < at2[k]
      <4>1. l \in 1..n
        BY <2>2
      <4>2. at[l] \in 1..Len(del)
        BY <3>3, <4>1 DEF Took
      <4>3. at2[l] = at[l]
        BY <1>3, <4>1
      <4> QED BY <1>1, <3>1, <4>2, <4>3
    <3> QED BY <3>2, <3>3
  <2> QED BY <2>1, <2>2
<1> QED BY <1>4 DEF Took

LEMMA ReadTexts ==
    ASSUME LinkInv, Read PROVE Texts' = Texts
<1>1. PICK n \in 1..MaxChunk : n <= Len(line) /\ stream' = stream \o SubSeq(line, 1, n)
  BY DEF Read
<1> DEFINE chunk == SubSeq(line, 1, n)
<1>2. chunk \in Seq(Bytes)
  <2>1. n \in Nat /\ Len(line) \in Nat /\ n \in 0..Len(line) /\ 1 \in 1..(Len(line) + 1)
    BY <1>1, LinkBoundsAssumption, UsedIsRead
  <2> QED BY <2>1, PartOfSequence DEF LinkInv, LinkTypes
<1>3. spans' = spans
  BY DEF Read
<1>4. ASSUME NEW k \in 1..Len(spans)
      PROVE  SubSeq(stream', spans[k].from + 1, spans[k].to - 1)
               = SubSeq(stream, spans[k].from + 1, spans[k].to - 1)
  <2>1. spans[k] \in Spans /\ SpanOK(k)
    BY ElementOfSeq DEF LinkInv, LinkTypes, SpansOK
  <2>2. spans[k].from + 1 \in 1..Len(stream) /\ spans[k].to - 1 \in 1..Len(stream)
    BY <2>1, UsedIsRead DEF SpanOK, Spans
  <2>3. stream \in Seq(Bytes) /\ stream' = stream \o chunk
    BY <1>1 DEF LinkInv, LinkTypes
  <2> HIDE DEF chunk
  <2> QED BY <1>2, <2>2, <2>3, SubSeqOfConcat1
<1> QED BY <1>3, <1>4 DEF Texts, TextOf

\* The text ExtractFrame cuts out of the buffer is the one between the span's ends.
LEMMA ExtractedText ==
    ASSUME LinkInv, NEW start \in DOMAIN buffer, IsFirst(start, STX, 0),
           NEW end \in DOMAIN buffer, IsFirst(end, ETX, start)
    PROVE  SubSeq(buffer, start + 1, end - 1) = SubSeq(stream, used + start + 1, used + end - 1)
<1>1. start \in Nat /\ end \in Nat /\ 1 <= start /\ start < end /\ used + end <= Len(stream)
  BY FirstFrame
<1>2. /\ used \in Nat /\ Len(buffer) \in Nat /\ Len(stream) \in Nat
      /\ used + Len(buffer) = Len(stream) /\ DOMAIN buffer = 1..Len(buffer)
  BY UsedIsRead
<1> DEFINE u == SubSeq(buffer, start + 1, end - 1)
           p == used + start + 1
           q == used + end - 1
           v == SubSeq(stream, p, q)
           l == end - start - 1
<1>3. /\ start + 1 \in 1..(Len(buffer) + 1) /\ end - 1 \in 0..Len(buffer)
      /\ used + start + 1 \in 1..(Len(stream) + 1) /\ used + end - 1 \in 0..Len(stream)
  BY <1>1, <1>2
<1>4. /\ u \in Seq(Bytes)
      /\ Len(u) = IF start + 1 <= end - 1 THEN end - 1 - (start + 1) + 1 ELSE 0
      /\ \A i \in 1..(end - 1 - (start + 1) + 1) : u[i] = buffer[start + 1 + i - 1]
  BY <1>3, PartOfSequence DEF LinkInv, LinkTypes
<1>5. /\ v \in Seq(Bytes)
      /\ Len(v) = IF p <= q THEN q - p + 1 ELSE 0
      /\ \A i \in 1..(q - p + 1) : v[i] = stream[p + i - 1]
  <2>1. stream \in Seq(Bytes) /\ p \in 1..(Len(stream) + 1) /\ q \in 0..Len(stream)
    BY <1>3 DEF LinkInv, LinkTypes
  <2> HIDE DEF p, q
  <2> QED BY <2>1, PartOfSequence
<1> HIDE DEF u, v
<1>6. l \in Nat /\ Len(u) = l /\ Len(v) = l
  <2>1. (p <= q <=> start + 1 <= end - 1) /\ q - p + 1 = l /\ end - 1 - (start + 1) + 1 = l
    BY <1>1, <1>2
  <2>2. l \in Nat /\ (~(start + 1 <= end - 1) => l = 0)
    BY <1>1
  <2> HIDE DEF p, q, l
  <2> QED BY <1>4, <1>5, <2>1, <2>2
<1>7. ASSUME NEW i \in 1..l PROVE u[i] = v[i]
  <2>1. /\ i \in 1..(end - 1 - (start + 1) + 1) /\ start + 1 + i - 1 = start + i
        /\ i \in 1..(q - p + 1) /\ p + i - 1 = used + (start + i)
        /\ start + i \in DOMAIN buffer
    <3>1. q - p + 1 = l /\ end - 1 - (start + 1) + 1 = l
      BY <1>1, <1>2
    <3>2. i \in Nat /\ 1 <= i /\ i <= l
      BY <1>6
    <3>3. start + 1 + i - 1 = start + i /\ p + i - 1 = used + (start + i)
      BY <1>1, <1>2, <3>2
    <3>4. start + i \in 1..Len(buffer)
      BY <1>1, <1>2, <3>2
    <3> HIDE DEF p, q, l
    <3> QED BY <1>2, <1>6, <3>1, <3>2, <3>3, <3>4
  <2>2. u[i] = buffer[start + i]
    BY <1>4, <2>1
  <2>3. v[i] = stream[used + (start + i)]
    <3> HIDE DEF p, q
    <3> QED BY <1>5, <2>1
  <2> QED BY <2>1, <2>2, <2>3, BufferInStream
<1> HIDE DEF l
<1>8. u = v
  BY <1>4, <1>5, <1>6, <1>7, SeqEqual
<1> QED BY <1>8 DEF u, v

LEMMA NothingTaken ==
    ASSUME TakenInv, Texts' = Texts, UNCHANGED <<spans, frames, delivered>>
    PROVE  TakenInv'
<1>1. PICK n \in Nat : /\ Len(spans) = n + Len(frames) /\ Waiting(frames, Texts, n)
                       /\ \E at : Took(at, Texts, n, delivered)
  BY DEF TakenInv
<1>2. PICK at : Took(at, Texts, n, delivered)
  BY <1>1
<1>3. Waiting(frames', Texts', n)
  BY <1>1
<1>4. Took(at, Texts', n, delivered')
  BY <1>2
<1> QED BY <1>1, <1>3, <1>4 DEF TakenInv

LEMMA ExtractFrameTaken ==
    ASSUME LinkInv, TakenInv, ExtractFrame PROVE TakenInv'
<1>1. PICK start \in DOMAIN buffer, end \in DOMAIN buffer :
        /\ IsFirst(start, STX, 0) /\ IsFirst(end, ETX, start)
        /\ frames' = Append(frames, SubSeq(buffer, start + 1, end - 1))
        /\ spans' = Append(spans, [from |-> used + start, to |-> used + end])
  BY DEF ExtractFrame
<1>2. stream' = stream /\ delivered' = delivered
  BY DEF ExtractFrame
<1>3. PICK n, at : /\ n \in Nat /\ Len(spans) = n + Len(frames)
                   /\ Waiting(frames, Texts, n) /\ Took(at, Texts, n, delivered)
  BY DEF TakenInv
<1> DEFINE text == SubSeq(buffer, start + 1, end - 1)
           span == [from |-> used + start, to |-> used + end]
<1>4. /\ start \in Nat /\ end \in Nat /\ 1 <= start /\ start < end
      /\ used \in Nat /\ Len(buffer) \in Nat /\ DOMAIN buffer = 1..Len(buffer)
      /\ Len(spans) \in Nat /\ Len(frames) \in Nat
  BY <1>1, FirstFrame, UsedIsRead, LenProperties DEF LinkInv, LinkTypes
<1>5. text \in Seq(Bytes)
  <2>1. start + 1 \in 1..(Len(buffer) + 1) /\ end - 1 \in 0..Len(buffer)
    BY <1>4
  <2> QED BY <2>1, PartOfSequence DEF LinkInv, LinkTypes
<1>6. span \in Spans /\ span.from = used + start /\ span.to = used + end
  BY <1>4 DEF Spans
<1>7. text = SubSeq(stream, used + start + 1, used + end - 1)
  BY <1>1, ExtractedText
<1>8. frames' = Append(frames, text) /\ spans' = Append(spans, span)
  BY <1>1
<1> HIDE DEF text, span
<1>9. /\ Len(frames') = Len(frames) + 1 /\ frames'[Len(frames) + 1] = text
      /\ \A j \in 1..Len(frames) : frames'[j] = frames[j]
  BY <1>5, <1>8, AppendProperties DEF LinkInv, LinkTypes
<1>10. /\ Len(spans') = Len(spans) + 1 /\ spans'[Len(spans) + 1] = span
       /\ \A k \in 1..Len(spans) : spans'[k] = spans[k]
  BY <1>6, <1>8, AppendProperties DEF LinkInv, LinkTypes
<1>11. PICK old : old = Texts
  OBVIOUS
<1>12. PICK new : new = Texts'
  OBVIOUS
<1>13. \A k \in 1..Len(spans) : new[k] = old[k]
  <2> SUFFICES ASSUME NEW k \in 1..Len(spans) PROVE new[k] = old[k]
    OBVIOUS
  <2>1. k \in 1..Len(spans')
    BY <1>4, <1>10
  <2>2. new[k] = SubSeq(stream', spans'[k].from + 1, spans'[k].to - 1)
    BY <1>12, <2>1 DEF Texts, TextOf
  <2>3. old[k] = SubSeq(stream, spans[k].from + 1, spans[k].to - 1)
    BY <1>11 DEF Texts, TextOf
  <2> QED BY <1>2, <1>10, <2>2, <2>3
<1>14. new[Len(spans) + 1] = text
  <2>1. Len(spans) + 1 \in 1..Len(spans')
    BY <1>4, <1>10
  <2>2. new[Len(spans) + 1]
          = SubSeq(stream', spans'[Len(spans) + 1].from + 1, spans'[Len(spans) + 1].to - 1)
    BY <1>12, <2>1 DEF Texts, TextOf
  <2>3. spans'[Len(spans) + 1].from = used + start /\ spans'[Len(spans) + 1].to = used + end
    BY <1>6, <1>10
  <2> DEFINE p == spans'[Len(spans) + 1].from
             q == spans'[Len(spans) + 1].to
  <2>4. new[Len(spans) + 1] = SubSeq(stream, p + 1, q - 1) /\ p = used + start /\ q = used + end
    BY <1>2, <2>2, <2>3
  <2> HIDE DEF p, q
  <2>5. p + 1 = used + start + 1 /\ q - 1 = used + end - 1
    BY <1>4, <2>4
  <2> QED BY <1>7, <2>4, <2>5
<1>15. Waiting(frames', new, n)
  <2> SUFFICES ASSUME NEW j \in 1..Len(frames') PROVE frames'[j] = new[n + j]
    BY DEF Waiting
  <2>1. CASE j \in 1..Len(frames)
    <3>1. n + j \in 1..Len(spans)
      BY <1>3, <1>4, <2>1
    <3>2. frames[j] = old[n + j]
      BY <1>3, <1>11, <2>1 DEF Waiting
    <3> QED BY <1>9, <1>13, <2>1, <3>1, <3>2
  <2>2. CASE j = Len(frames) + 1
    <3>1. n + j = Len(spans) + 1
      BY <1>3, <1>4, <2>2
    <3> QED BY <1>9, <1>14, <2>2, <3>1
  <2>3. j \in 1..Len(frames) \/ j = Len(frames) + 1
    BY <1>4, <1>9
  <2> QED BY <2>1, <2>2, <2>3
<1>16. Took(at, new, n, delivered)
  <2>1. \A k \in 1..n : new[k] = old[k]
    <3>1. \A k \in 1..n : k \in 1..Len(spans)
      BY <1>3, <1>4
    <3> QED BY <1>13, <3>1
  <2> QED BY <1>3, <1>11, <2>1, TookSame
<1>17. Len(spans') = n + Len(frames')
  BY <1>3, <1>4, <1>9, <1>10
<1> QED BY <1>2, <1>3, <1>12, <1>15, <1>16, <1>17 DEF TakenInv

LEMMA TakeFrameTaken ==
    ASSUME LinkInv, RestTypes, TakenInv, TakeFrame PROVE TakenInv'
<1>1. /\ frames # <<>> /\ frames' = Tail(frames) /\ UNCHANGED <<spans, stream>>
      /\ delivered' = IF GoodText(Head(frames)) THEN Append(delivered, MessageIn(Head(frames)))
                                                ELSE delivered
  BY DEF TakeFrame, GoodText, MessageIn
<1>2. PICK n, at : /\ n \in Nat /\ Len(spans) = n + Len(frames)
                   /\ Waiting(frames, Texts, n) /\ Took(at, Texts, n, delivered)
  BY DEF TakenInv
<1>3. Texts' = Texts
  BY <1>1 DEF Texts, TextOf
<1>4. PICK txt : txt = Texts
  OBVIOUS
<1>5. /\ Len(frames) \in Nat /\ Len(frames') = Len(frames) - 1 /\ 1 \in 1..Len(frames)
      /\ \A j \in 1..Len(frames') : frames'[j] = frames[j + 1]
      /\ Head(frames) = frames[1]
  BY <1>1, HeadTailProperties, EmptySeq, LenProperties DEF LinkInv, LinkTypes
<1>6. Head(frames) = txt[n + 1]
  BY <1>2, <1>4, <1>5 DEF Waiting
<1>7. PICK S : delivered \in Seq(S)
  BY DEF RestTypes, OnlyMessages
<1>8. \E at2 : Took(at2, txt, n + 1, delivered')
  BY <1>1, <1>2, <1>4, <1>6, <1>7, TookNext
<1>9. Waiting(frames', txt, n + 1)
  <2> SUFFICES ASSUME NEW j \in 1..Len(frames') PROVE frames'[j] = txt[n + 1 + j]
    BY DEF Waiting
  <2>1. j + 1 \in 1..Len(frames) /\ n + (j + 1) = n + 1 + j
    BY <1>2, <1>5
  <2>2. frames[j + 1] = txt[n + (j + 1)]
    BY <1>2, <1>4, <2>1 DEF Waiting
  <2> QED BY <1>5, <2>1, <2>2
<1>10. n + 1 \in Nat /\ Len(spans') = n + 1 + Len(frames')
  BY <1>1, <1>2, <1>5
<1>11. Waiting(frames', Texts', n + 1) /\ \E at2 : Took(at2, Texts', n + 1, delivered')
  BY <1>3, <1>4, <1>8, <1>9
<1> QED BY <1>10, <1>11 DEF TakenInv

LEMMA TakenStep ==
    ASSUME LinkInv, RestTypes, TakenInv, [LinkNext]_linkVars PROVE TakenInv'
<1>1. CASE Read
  <2>1. UNCHANGED <<spans, frames, delivered>>
    BY <1>1 DEF Read
  <2> QED BY <1>1, <2>1, ReadTexts, NothingTaken
<1>2. CASE AdapterSends \/ Settle \/ EndOfFile \/ UNCHANGED linkVars
  <2>1. UNCHANGED <<spans, frames, delivered, stream>>
    BY <1>2 DEF AdapterSends, Settle, EndOfFile, linkVars, link, history
  <2>2. Texts' = Texts
    BY <2>1 DEF Texts, TextOf
  <2> QED BY <2>1, <2>2, NothingTaken
<1> QED BY <1>1, <1>2, ExtractFrameTaken, TakeFrameTaken DEF LinkNext

LEMMA TakenInit == LinkInit => TakenInv
<1> SUFFICES ASSUME LinkInit PROVE TakenInv
  OBVIOUS
<1>1. frames = <<>> /\ spans = <<>> /\ Len(frames) = 0 /\ Len(spans) = 0
  BY EmptySeq DEF LinkInit
<1>2. Waiting(frames, Texts, 0) /\ Took(0, Texts, 0, delivered)
  BY <1>1 DEF Waiting, Took
<1> QED BY <1>1, <1>2 DEF TakenInv

\* A span from the STX to the ETX of an ungarbled message has its digits.
LEMMA SpanText ==
    ASSUME LinkInv, NEW cut, Placed(cut), sent \in Seq(Sendings),
           NEW i \in 1..Len(sent), ~sent[i].garbled,
           NEW k \in 1..Len(spans), spans[k].from = cut[i] + 1, spans[k].to = cut[i + 1]
    PROVE  IsHexText(compact(Texts[k])) /\ MessageIn(Texts[k]) = Meaning(sent[i])
<1> DEFINE a == cut[i]
           b == cut[i + 1]
           bytes == sent[i].bytes
           n == 2 * Len(bytes)
           p == a + 1 + 1
           q == b - 1
           text == SubSeq(stream, p, q)
<1>1. /\ a \in Nat /\ b \in Nat /\ bytes \in Seq(Bytes) /\ Len(bytes) \in Nat
      /\ b = a + n + 2
      /\ \A j \in 1..n : At(a + 1 + j) = Digits(bytes)[j]
  BY UngarbledText
<1>2. n \in Nat /\ Digits(bytes) \in Seq(Lower) /\ Len(Digits(bytes)) = n
  BY <1>1, DigitsOfBytes
<1>3. Texts[k] = text
  BY DEF Texts, TextOf
<1>4. b <= Len(stream) /\ Len(stream) \in Nat
  <2>1. spans[k] \in Spans /\ SpanOK(k)
    BY ElementOfSeq DEF LinkInv, LinkTypes, SpansOK
  <2> QED BY <2>1, UsedIsRead DEF SpanOK, Spans
<1> HIDE DEF a, b, n
<1>5. /\ p \in 1..(Len(stream) + 1) /\ q \in 0..Len(stream) /\ q - p + 1 = n
      /\ (p <= q <=> n > 0)
  BY <1>1, <1>2, <1>4
<1>6. \A j \in 1..n : p + j - 1 = a + 1 + j /\ p + j - 1 <= Len(stream)
  BY <1>1, <1>2, <1>4
<1> HIDE DEF p, q
<1>7. /\ text \in Seq(Bytes) /\ Len(text) = n
      /\ \A j \in 1..n : text[j] = stream[p + j - 1]
  <2>1. /\ text \in Seq(Bytes) /\ Len(text) = IF p <= q THEN q - p + 1 ELSE 0
        /\ \A j \in 1..(q - p + 1) : text[j] = stream[p + j - 1]
    BY <1>5, PartOfSequence DEF LinkInv, LinkTypes
  <2> HIDE DEF text
  <2>2. n \in Nat /\ q - p + 1 = n /\ (p <= q <=> n > 0)
    BY <1>2, <1>5
  <2>3. Len(text) = n
    BY <2>1, <2>2
  <2> QED BY <2>1, <2>2, <2>3
<1> HIDE DEF text, bytes
<1>8. \A j \in 1..n : text[j] = Digits(bytes)[j]
  <2>1. \A x : x <= Len(stream) => At(x) = stream[x]
    BY DEF At
  <2> QED BY <1>1, <1>6, <1>7, <2>1
<1> DEFINE S == Bytes \union Lower
<1>9. text \in Seq(S) /\ Digits(bytes) \in Seq(S)
  BY <1>2, <1>7, SeqMonotonic
<1> HIDE DEF S
<1>10. text = Digits(bytes)
  BY <1>2, <1>7, <1>8, <1>9, SeqEqual
<1>11. IsHexText(compact(Texts[k])) /\ decode(compact(Texts[k])) = bytes
  BY <1>1, <1>3, <1>10, HexRoundTrip
<1> QED BY <1>11 DEF MessageIn, Meaning, bytes

\* Once all is read, the span of a spared message has its text.
LEMMA SurvivorFound ==
    ASSUME LinkInv, RestTypes, NEW cut, Placed(cut), Sifted(cut),
           line = <<>>, ~decoding, NEW i \in Survivors
    PROVE  \E k \in 1..Len(spans) :
             /\ spans[k].from = cut[i] + 1 /\ spans[k].to = cut[i + 1]
             /\ GoodText(Texts[k]) /\ MessageIn(Texts[k]) = Meaning(sent[i])
<1>1. /\ sent \in Seq(Sendings) /\ Len(sent) \in Nat /\ i \in 1..Len(sent)
      /\ Spared(i) /\ ~sent[i].garbled /\ Meaning(sent[i]).name \notin Errors
  BY LenProperties DEF Survivors, Spared, RestTypes
<1>2. /\ used \in Nat /\ Len(stream) \in Nat /\ Len(buffer) \in Nat /\ Total = Len(stream)
      /\ used + Len(buffer) = Len(stream) /\ DOMAIN buffer = 1..Len(buffer)
  <2>1. Len(line) = 0
    BY EmptySeq
  <2> QED BY <2>1, UsedIsRead DEF Total
<1> DEFINE a == cut[i]
           b == cut[i + 1]
<1>3. a \in Nat /\ b \in Nat /\ a + 1 < b /\ b <= Total /\ At(a + 1) = STX /\ At(b) = ETX
  BY <1>1, SparedText
<1>5. \A x : x <= Len(stream) => At(x) = stream[x]
  BY DEF At
<1>6. used <= a \/ (b <= used /\ FoundIn(a, b))
  BY <1>1 DEF Sifted
<1> HIDE DEF a, b
<1>7. ~(used <= a)
  <2>1. ASSUME used <= a PROVE FALSE
    <3>1. /\ a + 1 - used \in DOMAIN buffer /\ b - used \in DOMAIN buffer
          /\ used + (a + 1 - used) = a + 1 /\ used + (b - used) = b
          /\ a + 1 - used < b - used /\ a + 1 <= Len(stream) /\ b <= Len(stream)
      BY <1>2, <1>3, <2>1
    <3>2. stream[a + 1] = STX /\ stream[b] = ETX
      BY <1>3, <1>5, <3>1
    <3>3. buffer[a + 1 - used] = STX /\ buffer[b - used] = ETX
      BY <3>1, <3>2, BufferInStream
    <3> QED BY <3>1, <3>3 DEF LinkInv, NothingWithheld
  <2> QED BY <2>1
<1>8. PICK k \in 1..Len(spans) : spans[k].from = a + 1 /\ spans[k].to = b
  BY <1>6, <1>7 DEF FoundIn
<1>9. IsHexText(compact(Texts[k])) /\ MessageIn(Texts[k]) = Meaning(sent[i])
  BY <1>1, <1>8, SpanText DEF a, b
<1>10. GoodText(Texts[k])
  BY <1>1, <1>9 DEF GoodText
<1> QED BY <1>8, <1>9, <1>10 DEF a, b

\* A fault costs the message it hits and at most the one behind it: once the
\* line is read to its end, receive() has returned every other message that
\* parse_adapter_message understands, in the order they were sent.
THEOREM FaultsCostLittle == LinkSpec => []LossBounded
<1>1. ASSUME LinkInv, RestTypes, SparingInv, TakenInv PROVE LossBounded
  <2> SUFFICES ASSUME line = <<>>, ~decoding, frames = <<>>, ~closed
               PROVE  \E at \in [Survivors -> DOMAIN delivered] :
                        \A i, j \in Survivors :
                          delivered[at[i]] = Meaning(sent[i]) /\ (i < j => at[i] < at[j])
    BY DEF LossBounded
  <2>1. PICK cut : Placed(cut) /\ Sifted(cut)
    BY <1>1 DEF SparingInv
  <2>2. PICK took : Took(took, Texts, Len(spans), delivered)
    <3>1. PICK n \in Nat : /\ Len(spans) = n + Len(frames)
                           /\ \E at : Took(at, Texts, n, delivered)
      BY <1>1 DEF TakenInv
    <3>2. Len(frames) = 0
      BY EmptySeq
    <3>3. n = Len(spans)
      BY <3>1, <3>2
    <3> QED BY <3>1, <3>3
  <2> DEFINE Right(i, k) ==
               /\ spans[k].from = cut[i] + 1 /\ spans[k].to = cut[i + 1]
               /\ GoodText(Texts[k]) /\ MessageIn(Texts[k]) = Meaning(sent[i])
             place == [i \in Survivors |-> CHOOSE k \in 1..Len(spans) : Right(i, k)]
  <2>3. \A i \in Survivors : place[i] \in 1..Len(spans) /\ Right(i, place[i])
    <3> SUFFICES ASSUME NEW i \in Survivors PROVE place[i] \in 1..Len(spans) /\ Right(i, place[i])
      OBVIOUS
    <3>1. \E k \in 1..Len(spans) : Right(i, k)
      BY <1>1, <2>1, SurvivorFound
    <3> HIDE DEF Right
    <3> QED BY <3>1
  <2>4. PICK span \in [Survivors -> 1..Len(spans)] : \A i \in Survivors : Right(i, span[i])
    <3>1. place \in [Survivors -> 1..Len(spans)]
      BY <2>3
    <3> HIDE DEF Right, place
    <3> QED BY <2>3, <3>1
  <2>5. \A i \in Survivors : /\ took[span[i]] \in 1..Len(delivered)
                             /\ delivered[took[span[i]]] = Meaning(sent[i])
    BY <2>2, <2>4 DEF Took
  <2>6. ASSUME NEW i \in Survivors, NEW j \in Survivors, i < j PROVE took[span[i]] < took[span[j]]
    <3> DEFINE k == span[i]
               l == span[j]
    <3>1. k \in 1..Len(spans) /\ l \in 1..Len(spans) /\ Right(i, k) /\ Right(j, l)
      BY <2>4
    <3>2. cut[i + 1] <= cut[j] /\ cut[i + 1] \in Nat /\ cut[j] \in Nat
      <4>1. /\ Len(sent) \in Nat /\ i \in 1..Len(sent) /\ j \in 1..Len(sent)
        BY <1>1, LenProperties DEF Survivors, RestTypes
      <4>2. i + 1 \in 1..(Len(sent) + 1) /\ j \in 1..(Len(sent) + 1) /\ i + 1 <= j
        BY <2>6, <4>1
      <4> QED BY <2>1, <4>2 DEF Placed
    <3>3. spans[k].to < spans[l].from /\ spans[k].to \in Nat /\ spans[l].from \in Nat
      BY <3>1, <3>2
    <3>4. /\ Len(spans) \in Nat /\ k \in Nat /\ l \in Nat
          /\ spans[k].from \in Nat /\ spans[k].from < spans[k].to
          /\ spans[l].to \in Nat /\ spans[l].from < spans[l].to
      <4>1. spans[k] \in Spans /\ SpanOK(k) /\ spans[l] \in Spans /\ SpanOK(l)
        BY <1>1, <3>1, ElementOfSeq DEF LinkInv, LinkTypes, SpansOK
      <4>2. Len(spans) \in Nat
        BY <1>1, UsedIsRead
      <4> QED BY <3>1, <4>1, <4>2 DEF SpanOK, Spans
    <3>5. ~(l < k)
      <4>1. ASSUME l < k PROVE FALSE
        <5>1. spans[l].to < spans[k].from
          BY <1>1, <3>1, <4>1, SpansOrdered
        <5> HIDE DEF k, l
        <5> QED BY <3>3, <3>4, <5>1
      <4> QED BY <4>1
    <3>6. GoodText(Texts[k]) /\ GoodText(Texts[l])
      BY <3>1
    <3> HIDE DEF k, l, Right
    <3>7. l # k
      BY <3>3, <3>4
    <3>8. k \in 1..(l - 1)
      BY <3>1, <3>4, <3>5, <3>7
    <3>9. took[k] < took[l]
      BY <2>2, <3>1, <3>6, <3>8 DEF Took
    <3> QED BY <3>9 DEF k, l
  <2> DEFINE at == [i \in Survivors |-> took[span[i]]]
  <2>7. at \in [Survivors -> DOMAIN delivered]
    <3>1. DOMAIN delivered = 1..Len(delivered)
      BY <1>1, LenProperties DEF RestTypes, OnlyMessages
    <3> QED BY <2>5, <3>1
  <2>8. \A i, j \in Survivors :
          delivered[at[i]] = Meaning(sent[i]) /\ (i < j => at[i] < at[j])
    BY <2>5, <2>6
  <2> HIDE DEF at
  <2> QED BY <2>7, <2>8
<1>2. LinkInit => RestTypes
  BY LinkRestInit
<1>3. LinkInv /\ RestTypes /\ [LinkNext]_linkVars => RestTypes'
  BY AdapterSendsTypes, TakeFrameTypes, OtherStepsTypes DEF LinkNext
<1>4. LinkInv /\ RestTypes /\ SparingInv /\ [LinkNext]_linkVars => SparingInv'
  BY SparingStep
<1>5. LinkInv /\ RestTypes /\ TakenInv /\ [LinkNext]_linkVars => TakenInv'
  BY TakenStep
<1> QED
  BY <1>1, <1>2, <1>3, <1>4, <1>5, SparingInit, TakenInit, LinkStaysSound, PTL DEF LinkSpec

-----------------------------------------------------------------------------
(* A line without faults.                                                   *)

Clean == \A i \in 1..Len(sent) : ~sent[i].garbled

\* Every character on the line is one of some message.
LEMMA WhichMessage ==
    ASSUME NEW cut, Placed(cut), Len(sent) \in Nat, NEW x \in 1..Total, Total \in Nat
    PROVE  \E i \in 1..Len(sent) : cut[i] < x /\ x <= cut[i + 1]
<1>1. /\ cut \in [1..(Len(sent) + 1) -> Nat] /\ cut[1] = 0 /\ cut[Len(sent) + 1] = Total
  BY DEF Placed
<1> DEFINE T == {j \in 1..(Len(sent) + 1) : x <= cut[j]}
<1>2. PICK j \in T : \A k \in T : j <= k
  <2>1. T \in SUBSET Nat
    OBVIOUS
  <2>2. Len(sent) + 1 \in T
    BY <1>1
  <2> HIDE DEF T
  <2> QED BY <2>1, <2>2, LeastElement
<1>3. j # 1
  BY <1>1
<1>4. j - 1 \in 1..Len(sent) /\ j - 1 + 1 = j /\ j - 1 \in 1..(Len(sent) + 1) /\ ~(j <= j - 1)
  BY <1>3
<1>5. ~(x <= cut[j - 1])
  BY <1>2, <1>4
<1>6. cut[j - 1] \in Nat /\ cut[j] \in Nat
  BY <1>1, <1>4
<1>7. cut[j - 1] < x /\ x <= cut[j - 1 + 1]
  BY <1>2, <1>4, <1>5, <1>6
<1> QED BY <1>4, <1>7

\* Where nothing was garbled each span is a message from its STX to its ETX.
LEMMA SpanIsMessage ==
    ASSUME LinkInv, RestTypes, Clean, NEW cut, Placed(cut), NEW k \in 1..Len(spans)
    PROVE  \E i \in 1..Len(sent) : spans[k].from = cut[i] + 1 /\ spans[k].to = cut[i + 1]
<1>1. sent \in Seq(Sendings) /\ Len(sent) \in Nat
  BY LenProperties DEF RestTypes
<1> DEFINE x == spans[k].from
           e == spans[k].to
<1>2. /\ x \in Nat /\ e \in Nat /\ 1 <= x /\ x < e /\ e <= Len(stream)
      /\ stream[x] = STX /\ stream[e] = ETX
      /\ \A y \in (x + 1)..(e - 1) : stream[y] # ETX
      /\ Len(stream) \in Nat /\ Total \in Nat /\ Len(stream) <= Total
  <2>1. spans[k] \in Spans /\ SpanOK(k)
    BY ElementOfSeq DEF LinkInv, LinkTypes, SpansOK
  <2> QED BY <2>1, UsedIsRead DEF SpanOK, Spans
<1> HIDE DEF x, e
<1>3. x \in 1..Total
  BY <1>2
<1>4. PICK i \in 1..Len(sent) : cut[i] < x /\ x <= cut[i + 1]
  BY <1>1, <1>2, <1>3, WhichMessage
<1>5. Spared(i)
  <2>1. i > 1 => i - 1 \in 1..Len(sent)
    BY <1>1
  <2> QED BY <2>1 DEF Spared, Clean
<1> DEFINE a == cut[i]
           b == cut[i + 1]
<1>6. /\ a \in Nat /\ b \in Nat /\ a + 1 < b /\ a < x /\ x <= b
      /\ At(a + 1) = STX /\ At(b) = ETX
      /\ \A y \in (a + 2)..(b - 1) : At(y) # ETX /\ At(y) # STX
  BY <1>1, <1>4, <1>5, SparedText
<1> HIDE DEF a, b
<1>7. \A y : y <= Len(stream) => At(y) = stream[y]
  BY DEF At
<1>8. At(x) = STX /\ At(e) = ETX
  BY <1>2, <1>7
<1>9. x = a + 1
  <2>1. x # b
    BY <1>6, <1>8 DEF STX, ETX
  <2>2. ~(x \in (a + 2)..(b - 1))
    BY <1>6, <1>8
  <2> QED BY <1>2, <1>6, <2>1, <2>2
<1>10. ~(e < b)
  <2>1. ASSUME e < b PROVE FALSE
    <3>1. e \in (a + 2)..(b - 1)
      BY <1>2, <1>6, <1>9, <2>1
    <3> QED BY <1>6, <1>8, <3>1
  <2> QED BY <2>1
<1>11. ~(b < e)
  <2>1. ASSUME b < e PROVE FALSE
    <3>1. b \in (x + 1)..(e - 1) /\ b <= Len(stream)
      BY <1>2, <1>6, <1>9, <2>1
    <3> QED BY <1>2, <1>6, <1>7, <3>1
  <2> QED BY <2>1
<1>12. e = b
  BY <1>2, <1>6, <1>10, <1>11
<1> QED BY <1>9, <1>12 DEF x, e, a, b

\* The k-th frame is the k-th message: none is passed over, none is found twice.
LEMMA SpansAreMessages ==
    ASSUME LinkInv, RestTypes, Clean, NEW cut, Placed(cut), Sifted(cut)
    PROVE  \A k \in 1..Len(spans) :
             k <= Len(sent) /\ spans[k].from = cut[k] + 1 /\ spans[k].to = cut[k + 1]
<1>1. sent \in Seq(Sendings) /\ Len(sent) \in Nat /\ Len(spans) \in Nat
  BY UsedIsRead, LenProperties DEF RestTypes
<1>2. \A i \in 1..Len(sent) : Spared(i)
  <2>1. \A i \in 1..Len(sent) : i > 1 => i - 1 \in 1..Len(sent)
    BY <1>1
  <2> QED BY <2>1 DEF Spared, Clean
<1>3. \A i \in 1..Len(sent) : cut[i] \in Nat /\ cut[i + 1] \in Nat /\ cut[i] + 1 < cut[i + 1]
  BY <1>1, <1>2, SparedText
<1>4. \A i, j \in 1..(Len(sent) + 1) : i <= j => cut[i] <= cut[j]
  BY DEF Placed
<1>5. \A i \in 1..Len(spans) :
        /\ spans[i].from \in Nat /\ spans[i].to \in Nat /\ spans[i].from < spans[i].to
        /\ spans[i].to <= used /\ used \in Nat
  <2> SUFFICES ASSUME NEW i \in 1..Len(spans)
               PROVE  /\ spans[i].from \in Nat /\ spans[i].to \in Nat /\ spans[i].from < spans[i].to
                      /\ spans[i].to <= used /\ used \in Nat
    OBVIOUS
  <2>1. spans[i] \in Spans /\ SpanOK(i)
    BY ElementOfSeq DEF LinkInv, LinkTypes, SpansOK
  <2> QED BY <2>1, UsedIsRead DEF SpanOK, Spans
<1> DEFINE Right(k) ==
             k > 0 => k <= Len(sent) /\ spans[k].from = cut[k] + 1 /\ spans[k].to = cut[k + 1]
<1>6. ASSUME NEW k \in Nat, k < Len(spans), Right(k) PROVE Right(k + 1)
  <2> DEFINE m == k + 1
  <2>1. m \in 1..Len(spans) /\ m \in Nat /\ m > 0
    BY <1>1, <1>6
  <2>2. PICK i \in 1..Len(sent) : spans[m].from = cut[i] + 1 /\ spans[m].to = cut[i + 1]
    BY <2>1, SpanIsMessage
  <2>3. cut[i] \in Nat /\ cut[i + 1] \in Nat /\ cut[i] + 1 < cut[i + 1]
    BY <1>3
  <2>4. ~(i < m)
    <3>1. ASSUME i < m PROVE FALSE
      <4>1. k \in 1..Len(spans) /\ k > 0 /\ k < m /\ k <= Len(sent)
        BY <1>1, <1>6, <2>1, <3>1
      <4>2. spans[k].to < spans[m].from /\ spans[k].to = cut[k + 1]
        BY <1>6, <2>1, <4>1, SpansOrdered
      <4>3. i + 1 \in 1..(Len(sent) + 1) /\ k + 1 \in 1..(Len(sent) + 1) /\ i + 1 <= k + 1
        BY <1>1, <3>1, <4>1
      <4>4. cut[i + 1] <= cut[k + 1]
        BY <1>4, <4>3
      <4>5. cut[k + 1] \in Nat
        BY <1>3, <4>1
      <4> HIDE DEF m
      <4> QED BY <2>2, <2>3, <4>2, <4>4, <4>5
    <3> QED BY <3>1
  <2>5. ~(m < i)
    <3>1. ASSUME m < i PROVE FALSE
      <4>1. m \in 1..Len(sent) /\ m + 1 \in 1..(Len(sent) + 1) /\ i \in 1..(Len(sent) + 1)
            /\ m + 1 <= i
        BY <1>1, <2>1, <3>1
      <4>2. used <= cut[m] \/ FoundIn(cut[m], cut[m + 1])
        BY <1>2, <4>1 DEF Sifted
      <4>3. cut[m] \in Nat /\ cut[m + 1] \in Nat /\ cut[m] + 1 < cut[m + 1] /\ cut[m + 1] <= cut[i]
        BY <1>3, <1>4, <4>1
      <4>4. spans[m].to <= used /\ used \in Nat
        BY <1>5, <2>1
      <4> HIDE DEF m
      <4>5. ~(used <= cut[m])
        BY <2>2, <2>3, <4>3, <4>4
      <4>6. PICK j \in 1..Len(spans) : spans[j].from = cut[m] + 1 /\ spans[j].to = cut[m + 1]
        BY <4>2, <4>5 DEF FoundIn
      <4>7. ~(m < j)
        <5>1. ASSUME m < j PROVE FALSE
          <6>1. spans[m].to < spans[j].from
            BY <2>1, <5>1, SpansOrdered
          <6> QED BY <2>2, <2>3, <4>3, <4>6, <6>1
        <5> QED BY <5>1
      <4>8. m # j
        BY <2>2, <2>3, <4>3, <4>6
      <4>9. k \in 1..Len(spans) /\ j <= k /\ k > 0
        <5>1. j < k + 1
          BY <1>1, <2>1, <4>7, <4>8 DEF m
        <5> QED BY <1>1, <1>6, <5>1
      <4>10. spans[k].to = cut[k + 1]
        BY <1>6, <4>9
      <4>11. spans[j].to <= spans[k].to
        <5>1. CASE j = k
          BY <1>5, <4>9, <5>1
        <5>2. CASE j < k
          <6>1. spans[j].to < spans[k].from
            BY <4>9, <5>2, SpansOrdered
          <6> QED BY <1>5, <4>9, <6>1
        <5> QED BY <1>1, <4>9, <5>1, <5>2
      <4>12. cut[m + 1] <= cut[m]
        BY <4>6, <4>10, <4>11 DEF m
      <4> QED BY <4>3, <4>12
    <3> QED BY <3>1
  <2>6. i = m
    BY <1>1, <2>1, <2>4, <2>5
  <2> QED BY <1>1, <2>2, <2>6
<1>7. \A k \in 1..Len(spans) : Right(k)
  <2> SUFFICES ASSUME NEW k \in 1..Len(spans) PROVE Right(k)
    OBVIOUS
  <2> DEFINE U == {i \in 0..k : Right(i)}
  <2>1. Right(0)
    OBVIOUS
  <2> HIDE DEF Right
  <2>2. U \in SUBSET (0..k) /\ 0 \in U /\ k \in Nat
    BY <2>1
  <2>3. ASSUME NEW i \in U, i < k PROVE i + 1 \in U
    <3>1. i \in Nat /\ i < Len(spans) /\ Right(i) /\ i + 1 \in 0..k
      BY <1>1, <2>3
    <3> QED BY <1>6, <3>1
  <2>4. k \in U
    <3> HIDE DEF U
    <3> QED BY <2>2, <2>3, UpTo
  <2> QED BY <2>4
<1>8. \A k \in 1..Len(spans) : k > 0
  BY <1>1
<1> QED BY <1>7, <1>8

\* As long as the line has garbled nothing.
Faultless == faults = 0 => Clean

LEMMA FaultsStay ==
    ASSUME RestTypes, [LinkNext]_linkVars, faults' = 0 PROVE faults = 0
<1>1. faults' = faults \/ faults' = faults + 1
  BY DEF LinkNext, AdapterSends, Read, ExtractFrame, Settle, TakeFrame, EndOfFile, linkVars, history
<1> QED BY <1>1, LinkBoundsAssumption DEF RestTypes

LEMMA FaultlessStep ==
    ASSUME RestTypes, Faultless, [LinkNext]_linkVars PROVE Faultless'
<1> SUFFICES ASSUME faults' = 0 PROVE Clean'
  BY DEF Faultless
<1>1. faults = 0 /\ Clean
  BY FaultsStay DEF Faultless
<1>2. CASE AdapterSends
  <2>1. PICK s \in Sendings : sent' = Append(sent, s) /\ ~s.garbled
    <3>1. ~(faults' = faults + 1)
      BY <1>1
    <3>2. PICK bytes \in Payloads : sent' = Append(sent, [bytes |-> bytes, garbled |-> FALSE])
      BY <1>2, <3>1 DEF AdapterSends
    <3> DEFINE s == [bytes |-> bytes, garbled |-> FALSE]
    <3>3. s \in Sendings /\ ~s.garbled /\ sent' = Append(sent, s)
      BY <3>2 DEF Sendings
    <3> HIDE DEF s
    <3> QED BY <3>3
  <2>2. /\ Len(sent) \in Nat /\ Len(sent') = Len(sent) + 1 /\ sent'[Len(sent) + 1] = s
        /\ \A i \in 1..Len(sent) : sent'[i] = sent[i]
    BY <2>1, AppendProperties, LenProperties DEF RestTypes
  <2>3. \A i \in 1..Len(sent') : i \in 1..Len(sent) \/ i = Len(sent) + 1
    BY <2>2
  <2> QED BY <1>1, <2>1, <2>2, <2>3 DEF Clean
<1>3. CASE Read \/ ExtractFrame \/ Settle \/ TakeFrame \/ EndOfFile \/ UNCHANGED linkVars
  <2>1. sent' = sent
    BY <1>3 DEF Read, ExtractFrame, Settle, TakeFrame, EndOfFile, linkVars, history
  <2> QED BY <1>1, <2>1 DEF Clean
<1> QED BY <1>2, <1>3 DEF LinkNext

\* What the adapter sent is a sequence of meanings.
LEMMA MeaningsOfSent ==
    ASSUME NEW s \in Seq(Sendings)
    PROVE  /\ [i \in DOMAIN s |-> Meaning(s[i])] \in Seq(AllMeanings)
           /\ Len([i \in DOMAIN s |-> Meaning(s[i])]) = Len(s)
<1>1. Len(s) \in Nat /\ DOMAIN s = 1..Len(s)
  BY LenProperties
<1>2. \A i \in 1..Len(s) : s[i] \in Sendings
  BY ElementOfSeq
<1>3. \A i \in 1..Len(s) : Meaning(s[i]) \in AllMeanings
  BY <1>2 DEF Meaning, AllMeanings, Sendings
<1> DEFINE m == [i \in DOMAIN s |-> Meaning(s[i])]
<1>4. m \in Seq(AllMeanings)
  BY <1>1, <1>3, IsASeq
<1>5. DOMAIN m = 1..Len(s) /\ DOMAIN m = 1..Len(m) /\ Len(m) \in Nat
  BY <1>1, <1>4, LenProperties
<1> HIDE DEF m
<1>6. Len(m) = Len(s)
  BY <1>1, <1>5
<1> QED BY <1>4, <1>6 DEF m

LEMMA SendingSays ==
    ASSUME RestTypes, AdapterSends
    PROVE  \E m \in AllMeanings : Meanings' = Append(Meanings, m)
<1>1. PICK s \in Sendings : sent' = Append(sent, s)
  BY DEF AdapterSends, Sendings
<1> DEFINE m == Meaning(s)
<1>2. m \in AllMeanings
  BY DEF Meaning, AllMeanings, Sendings
<1>3. sent \in Seq(Sendings) /\ sent' \in Seq(Sendings)
  BY <1>1, AppendProperties DEF RestTypes
<1>4. /\ Len(sent) \in Nat /\ Len(sent') = Len(sent) + 1 /\ sent'[Len(sent) + 1] = s
      /\ \A i \in 1..Len(sent) : sent'[i] = sent[i]
      /\ DOMAIN sent = 1..Len(sent) /\ DOMAIN sent' = 1..Len(sent')
  BY <1>1, <1>3, AppendProperties, LenProperties
<1>5. PICK old : old = Meanings
  OBVIOUS
<1>6. PICK new : new = Meanings'
  OBVIOUS
<1>7. /\ old \in Seq(AllMeanings) /\ Len(old) = Len(sent)
      /\ \A i \in 1..Len(sent) : old[i] = Meaning(sent[i])
  BY <1>3, <1>4, <1>5, MeaningsOfSent DEF Meanings
<1>8. new = [i \in DOMAIN sent' |-> Meaning(sent'[i])]
  BY <1>6 DEF Meanings, Meaning
<1>9. /\ new \in Seq(AllMeanings) /\ Len(new) = Len(sent')
      /\ \A i \in 1..Len(sent') : new[i] = Meaning(sent'[i])
  BY <1>3, <1>4, <1>8, MeaningsOfSent
<1> HIDE DEF m
<1>10. /\ Append(old, m) \in Seq(AllMeanings) /\ Len(Append(old, m)) = Len(sent) + 1
       /\ Append(old, m)[Len(sent) + 1] = m
       /\ \A i \in 1..Len(sent) : Append(old, m)[i] = old[i]
  BY <1>2, <1>7, AppendProperties
<1>11. ASSUME NEW i \in 1..Len(new) PROVE new[i] = Append(old, m)[i]
  <2>1. i \in 1..Len(sent) \/ i = Len(sent) + 1
    BY <1>4, <1>9
  <2> QED BY <1>4, <1>7, <1>9, <1>10, <2>1 DEF m
<1>12. new = Append(old, m)
  BY <1>4, <1>9, <1>10, <1>11, SeqEqual
<1> QED BY <1>2, <1>5, <1>6, <1>12

\* The frame receive() takes next is the next of the adapter's messages.
LEMMA NextFrame ==
    ASSUME LinkInv, RestTypes, Clean, SparingInv, TakenInv, TakeFrame
    PROVE  LET n == Len(spans) - Len(frames) IN
           /\ n \in Nat /\ n < Len(Meanings) /\ Len(frames') = Len(frames) - 1
           /\ Len(frames) \in Nat /\ Len(spans) \in Nat
           /\ IsHexText(compact(Head(frames)))
           /\ MessageIn(Head(frames)) = Meanings[n + 1] /\ Meanings[n + 1] \in AllMeanings
<1>1. ~closed /\ frames # <<>> /\ frames' = Tail(frames)
  BY DEF TakeFrame
<1>2. PICK cut : Placed(cut) /\ Sifted(cut)
  BY <1>1 DEF SparingInv
<1>3. PICK n \in Nat : Len(spans) = n + Len(frames) /\ Waiting(frames, Texts, n)
  BY DEF TakenInv
<1>4. /\ Len(frames) \in Nat /\ Len(frames') = Len(frames) - 1 /\ 1 \in 1..Len(frames)
      /\ Head(frames) = frames[1] /\ Len(spans) \in Nat
  BY <1>1, HeadTailProperties, EmptySeq, LenProperties, UsedIsRead DEF LinkInv, LinkTypes
<1>5. Head(frames) = Texts[n + 1]
  BY <1>3, <1>4 DEF Waiting
<1> DEFINE k == n + 1
<1>6. k \in 1..Len(spans)
  BY <1>3, <1>4
<1>7. sent \in Seq(Sendings) /\ Len(sent) \in Nat
  BY LenProperties DEF RestTypes
<1>8. k <= Len(sent) /\ spans[k].from = cut[k] + 1 /\ spans[k].to = cut[k + 1]
  BY <1>2, <1>6, SpansAreMessages
<1>9. k \in 1..Len(sent) /\ ~sent[k].garbled
  BY <1>6, <1>7, <1>8 DEF Clean
<1>10. IsHexText(compact(Texts[k])) /\ MessageIn(Texts[k]) = Meaning(sent[k])
  <2> HIDE DEF k
  <2> QED BY <1>2, <1>6, <1>7, <1>8, <1>9, SpanText
<1>11. Len(Meanings) = Len(sent) /\ Meanings[k] = Meaning(sent[k]) /\ Meaning(sent[k]) \in AllMeanings
  <2>1. DOMAIN sent = 1..Len(sent) /\ sent[k] \in Sendings
    BY <1>7, <1>9, LenProperties, ElementOfSeq
  <2> HIDE DEF k
  <2>2. Len(Meanings) = Len(sent) /\ Meanings[k] = Meaning(sent[k])
    BY <1>7, <1>9, <2>1, MeaningsOfSent DEF Meanings
  <2> QED BY <2>1, <2>2 DEF Meaning, AllMeanings, Sendings
<1>12. Len(spans) - Len(frames) = n
  BY <1>3, <1>4
<1>13. n < Len(Meanings)
  BY <1>7, <1>9, <1>11
<1> QED BY <1>4, <1>5, <1>10, <1>11, <1>12, <1>13

LEMMA FifoStep ==
    ASSUME LinkInv, RestTypes, Clean, SparingInv, TakenInv, [LinkNext]_linkVars
    PROVE  [Fifo!LineNext]_Fifo!lineVars
<1>1. CASE AdapterSends
  <2>1. UNCHANGED <<spans, frames, delivered>>
    BY <1>1 DEF AdapterSends, link
  <2>2. Fifo!Say
    BY <1>1, <2>1, SendingSays DEF Fifo!Say
  <2> QED BY <2>2 DEF Fifo!LineNext
<1>2. CASE TakeFrame
  <2> DEFINE n == Len(spans) - Len(frames)
             m == Meanings[n + 1]
  <2>1. /\ n \in Nat /\ n < Len(Meanings) /\ Len(frames') = Len(frames) - 1
        /\ Len(frames) \in Nat /\ Len(spans) \in Nat
        /\ IsHexText(compact(Head(frames))) /\ MessageIn(Head(frames)) = m /\ m \in AllMeanings
    BY <1>2, NextFrame
  <2>2. /\ UNCHANGED <<sent, spans>>
        /\ delivered' = IF GoodText(Head(frames)) THEN Append(delivered, MessageIn(Head(frames)))
                                                  ELSE delivered
    BY <1>2 DEF TakeFrame, GoodText, MessageIn
  <2>3. GoodText(Head(frames)) <=> m \in {x \in AllMeanings : x.name \notin Errors}
    BY <2>1 DEF GoodText
  <2>4. Len(spans') - Len(frames') = n + 1
    BY <2>1, <2>2
  <2>5. Meanings' = Meanings
    BY <2>2 DEF Meanings, Meaning
  <2>6. Fifo!Take
    BY <2>1, <2>2, <2>3, <2>4, <2>5 DEF Fifo!Take
  <2> QED BY <2>6 DEF Fifo!LineNext
<1>3. CASE Read \/ ExtractFrame \/ Settle \/ EndOfFile \/ UNCHANGED linkVars
  <2>1. UNCHANGED <<sent, delivered>>
    BY <1>3 DEF Read, ExtractFrame, Settle, EndOfFile, linkVars, history
  <2>2. Len(spans') - Len(frames') = Len(spans) - Len(frames)
    <3>1. CASE UNCHANGED <<spans, frames>>
      BY <3>1
    <3>2. CASE ExtractFrame
      <4>1. PICK start \in DOMAIN buffer, end \in DOMAIN buffer :
              /\ IsFirst(start, STX, 0) /\ IsFirst(end, ETX, start)
              /\ frames' = Append(frames, SubSeq(buffer, start + 1, end - 1))
              /\ spans' = Append(spans, [from |-> used + start, to |-> used + end])
        BY <3>2 DEF ExtractFrame
      <4> DEFINE text == SubSeq(buffer, start + 1, end - 1)
                 span == [from |-> used + start, to |-> used + end]
      <4>2. /\ start \in Nat /\ end \in Nat /\ 1 <= start /\ start < end
            /\ used \in Nat /\ Len(buffer) \in Nat /\ DOMAIN buffer = 1..Len(buffer)
            /\ Len(spans) \in Nat /\ Len(frames) \in Nat
        BY <4>1, FirstFrame, UsedIsRead, LenProperties DEF LinkInv, LinkTypes
      <4>3. text \in Seq(Bytes)
        <5>1. start + 1 \in 1..(Len(buffer) + 1) /\ end - 1 \in 0..Len(buffer)
          BY <4>2
        <5> QED BY <5>1, PartOfSequence DEF LinkInv, LinkTypes
      <4>4. span \in Spans
        BY <4>2 DEF Spans
      <4>5. frames' = Append(frames, text) /\ spans' = Append(spans, span)
        BY <4>1
      <4> HIDE DEF text, span
      <4>6. Len(frames') = Len(frames) + 1 /\ Len(spans') = Len(spans) + 1
        BY <4>3, <4>4, <4>5, AppendProperties DEF LinkInv, LinkTypes
      <4> QED BY <4>2, <4>6
    <3>3. Read \/ Settle \/ EndOfFile \/ UNCHANGED linkVars => UNCHANGED <<spans, frames>>
      BY DEF Read, Settle, EndOfFile, linkVars, link, history
    <3> QED BY <1>3, <3>1, <3>2, <3>3
  <2>3. Meanings' = Meanings
    BY <2>1 DEF Meanings, Meaning
  <2> QED BY <2>1, <2>2, <2>3 DEF Fifo!lineVars
<1> QED BY <1>1, <1>2, <1>3 DEF LinkNext

\* As long as the line has garbled nothing, decoder and receive() take the steps
\* of a first-in-first-out line of messages: what the reader said is delivered
\* once, in its order and unchanged, however the bytes are cut into chunks, and
\* only what parse_adapter_message has no name for is left out.
THEOREM LinkIsFifo == LinkSpec => KeepsFifo
<1>1. LinkInit => Fifo!LineInit
  <2> SUFFICES ASSUME LinkInit PROVE Fifo!LineInit
    OBVIOUS
  <2>1. sent = <<>> /\ spans = <<>> /\ frames = <<>> /\ delivered = <<>>
    BY DEF LinkInit
  <2>2. sent \in Seq(Sendings) /\ Len(sent) = 0 /\ Len(spans) = 0 /\ Len(frames) = 0
    BY <2>1, EmptySeq
  <2>3. Meanings \in Seq(AllMeanings) /\ Len(Meanings) = 0
    BY <2>2, MeaningsOfSent DEF Meanings
  <2>4. Meanings = <<>>
    BY <2>3, EmptySeq
  <2> QED BY <2>1, <2>2, <2>4 DEF Fifo!LineInit
<1>2. LinkInit => Faultless
  BY EmptySeq DEF LinkInit, Faultless, Clean
<1>3. RestTypes /\ Faultless /\ [LinkNext]_linkVars => Faultless'
  BY FaultlessStep
<1>4. LinkInv /\ RestTypes /\ Faultless /\ SparingInv /\ TakenInv /\ [LinkNext]_linkVars
        => [faults' = 0 => Fifo!LineNext \/ UNCHANGED Fifo!lineVars]_linkVars
  <2> SUFFICES ASSUME LinkInv, RestTypes, Faultless, SparingInv, TakenInv, [LinkNext]_linkVars,
                      faults' = 0
               PROVE  Fifo!LineNext \/ UNCHANGED Fifo!lineVars
    OBVIOUS
  <2>1. Clean
    BY FaultsStay DEF Faultless
  <2>2. [Fifo!LineNext]_Fifo!lineVars
    BY <2>1, FifoStep
  <2> QED BY <2>2
<1>5. LinkInit => RestTypes
  BY LinkRestInit
<1>6. LinkInv /\ RestTypes /\ [LinkNext]_linkVars => RestTypes'
  BY AdapterSendsTypes, TakeFrameTypes, OtherStepsTypes DEF LinkNext
<1>7. LinkInv /\ RestTypes /\ SparingInv /\ [LinkNext]_linkVars => SparingInv'
  BY SparingStep
<1>8. LinkInv /\ RestTypes /\ TakenInv /\ [LinkNext]_linkVars => TakenInv'
  BY TakenStep
<1> QED
  BY <1>1, <1>2, <1>3, <1>4, <1>5, <1>6, <1>7, <1>8, SparingInit, TakenInit, LinkStaysSound,
     PTL DEF LinkSpec, KeepsFifo

\* Over a line without faults the link therefore implements MessageLine, which is
\* what VendingSystem takes the wires between reader and machine to be.
THEOREM LinkImplementsLine ==
    ASSUME MaxFaults = 0
    PROVE  LinkSpec => Fifo!LineSpec
<1>1. LinkInit => RestTypes
  BY LinkRestInit
<1>2. RestTypes /\ [LinkNext]_linkVars => RestTypes'
  BY AdapterSendsTypes, TakeFrameTypes, OtherStepsTypes DEF LinkNext
<1>3. RestTypes' /\ [faults' = 0 => Fifo!LineNext \/ UNCHANGED Fifo!lineVars]_linkVars
        => [Fifo!LineNext]_Fifo!lineVars
  <2> SUFFICES ASSUME RestTypes',
                      [faults' = 0 => Fifo!LineNext \/ UNCHANGED Fifo!lineVars]_linkVars
               PROVE  [Fifo!LineNext]_Fifo!lineVars
    OBVIOUS
  <2>1. faults' = 0
    BY DEF RestTypes
  <2>2. CASE UNCHANGED linkVars
    <3>1. UNCHANGED <<sent, spans, frames, delivered>>
      BY <2>2 DEF linkVars, link, history
    <3>2. Meanings' = Meanings
      BY <3>1 DEF Meanings, Meaning
    <3> QED BY <3>1, <3>2 DEF Fifo!lineVars
  <2> QED BY <2>1, <2>2
<1> QED BY <1>1, <1>2, <1>3, LinkIsFifo, PTL DEF LinkSpec, KeepsFifo, Fifo!LineSpec
=============================================================================
