----------------------------- MODULE AdapterLink -----------------------------
(***************************************************************************)
(* Link::receive of src/src/link.rs with the FrameDecoder of               *)
(* src/src/protocol.rs: bytes arrive in chunks of any size over a line     *)
(* that may garble them, and come out as messages.  A step is what happens *)
(* between two points where the future of receive() can be dropped, or one *)
(* round of the decoder's loop.                                            *)
(* An operator name_variant ahead of `name` is a faulty variant of it.     *)
(***************************************************************************)
EXTENDS WireProtocol
LOCAL INSTANCE SequencesExt

CONSTANTS
    MaxBuffer,    \* MAX_BUFFER_SIZE (4096 in the code)
    MaxChunk,     \* bytes one read returns at most (256 in the code)
    Payloads,     \* what the adapter may send, as bytes
    MaxSent,      \* messages the adapter sends (bound)
    Noise,        \* characters a fault may put on the line
    MaxFaults     \* characters lost, changed or added on the line (bound)

ASSUME LinkBoundsAssumption ==
    /\ MaxBuffer \in Nat /\ MaxChunk \in Nat \ {0}
    /\ MaxSent \in Nat /\ MaxFaults \in Nat
\* What a fault makes of a text: a character is lost, changed or added (external).
Garbled(s) ==
    {RemoveAt(s, i) : i \in DOMAIN s}
    \union {ReplaceAt(s, i, c) : i \in DOMAIN s, c \in Noise}
    \union {InsertAt(s, i, c) : i \in 1..(Len(s) + 1), c \in Noise}

\* A frame fits the buffer: the adapter's longest has less than 100 characters.
ASSUME LineAssumption ==
    /\ Noise \subseteq Bytes
    /\ \A bytes \in Payloads : bytes \in Seq(Bytes) /\ Len(Framed(bytes)) <= MaxBuffer

VARIABLES
    line,       \* characters the host has not read
    buffer,     \* FrameDecoder.buffer
    frames,     \* Link.decoded_frames
    decoding,   \* push() is in its loop
    closed,     \* receive() has returned UnexpectedEof
    (* history *)
    sent,       \* what the adapter sent: bytes, and whether the line garbled them
    faults,     \* characters garbled so far
    stream,     \* every character read
    used,       \* how many of them have left the buffer
    spans,      \* where in the stream each decoded frame was found
    dropped,    \* the buffer was cleared
    delivered   \* messages receive() has returned

link == <<buffer, frames, decoding, closed>>
history == <<sent, faults, stream, used, spans, dropped, delivered>>
linkVars == <<line, link, history>>

-----------------------------------------------------------------------------
(* The adapter and the line (external). *)

AdapterSends ==
    /\ Len(sent) < MaxSent
    /\ \E bytes \in Payloads :
         \/ /\ sent' = Append(sent, [bytes |-> bytes, garbled |-> FALSE])
            /\ line' = line \o Framed(bytes)
            /\ UNCHANGED faults
         \/ /\ faults < MaxFaults /\ faults' = faults + 1
            /\ sent' = Append(sent, [bytes |-> bytes, garbled |-> TRUE])
            /\ \E text \in Garbled(Framed(bytes)) : line' = line \o text
    /\ UNCHANGED <<link, stream, used, spans, dropped, delivered>>

-----------------------------------------------------------------------------
(* FrameDecoder::push *)

Positions(c, after) == {i \in DOMAIN buffer : i > after /\ buffer[i] = c}
IsFirst(i, c, after) ==
    i \in Positions(c, after) /\ \A j \in Positions(c, after) : i <= j

ExtractFrame_greedy ==
    /\ decoding
    /\ \E start, end \in DOMAIN buffer :
         /\ IsFirst(start, STX, 0)
         /\ end \in Positions(ETX, start) /\ \A j \in Positions(ETX, start) : j <= end
         /\ frames' = Append(frames, SubSeq(buffer, start + 1, end - 1))
         /\ spans' = Append(spans, [from |-> used + start, to |-> used + end])
         /\ buffer' = SubSeq(buffer, end + 1, Len(buffer))
         /\ used' = used + end
    /\ UNCHANGED <<line, decoding, closed, sent, faults, stream, dropped, delivered>>
\* The payload of the first complete frame is cut out of the buffer.
ExtractFrame ==
    /\ decoding
    /\ \E start, end \in DOMAIN buffer :
         /\ IsFirst(start, STX, 0) /\ IsFirst(end, ETX, start)
         /\ frames' = Append(frames, SubSeq(buffer, start + 1, end - 1))
         /\ spans' = Append(spans, [from |-> used + start, to |-> used + end])
         /\ buffer' = SubSeq(buffer, end + 1, Len(buffer))
         /\ used' = used + end
    /\ UNCHANGED <<line, decoding, closed, sent, faults, stream, dropped, delivered>>

\* An overlong buffer is given up.
KeepUnlessOverlong(rest) ==
    /\ buffer' = IF Len(rest) > MaxBuffer THEN <<>> ELSE rest
    /\ dropped' = (dropped \/ Len(rest) > MaxBuffer)
    /\ used' = Len(stream) - Len(buffer')

Settle_forgetful ==
    /\ decoding
    /\ \A start \in Positions(STX, 0) : Positions(ETX, start) = {}
    /\ KeepUnlessOverlong(<<>>)
    /\ decoding' = FALSE
    /\ UNCHANGED <<line, frames, closed, sent, faults, stream, spans, delivered>>
Settle_early ==
    /\ decoding
    /\ frames # <<>> \/ \A start \in Positions(STX, 0) : Positions(ETX, start) = {}
    /\ KeepUnlessOverlong(buffer)
    /\ decoding' = FALSE
    /\ UNCHANGED <<line, frames, closed, sent, faults, stream, spans, delivered>>
\* No complete frame is left: junk stays until it is overlong, and so does the
\* beginning of a frame.
Settle ==
    /\ decoding
    /\ \A start \in Positions(STX, 0) : Positions(ETX, start) = {}
    /\ \/ Positions(STX, 0) = {} /\ KeepUnlessOverlong(buffer)
       \/ \E start \in DOMAIN buffer :
            IsFirst(start, STX, 0) /\ KeepUnlessOverlong(SubSeq(buffer, start, Len(buffer)))
    /\ decoding' = FALSE
    /\ UNCHANGED <<line, frames, closed, sent, faults, stream, spans, delivered>>

-----------------------------------------------------------------------------
(* Link::receive *)

\* The future is dropped at this read whenever another arm of the actor's
\* select! is taken; the next one goes on from the same buffer and frames.
Read ==
    /\ ~closed /\ ~decoding /\ frames = <<>>
    /\ \E n \in 1..MaxChunk :
         /\ n <= Len(line)
         /\ buffer' = buffer \o SubSeq(line, 1, n)
         /\ stream' = stream \o SubSeq(line, 1, n)
         /\ line' = SubSeq(line, n + 1, Len(line))
    /\ decoding' = TRUE
    /\ UNCHANGED <<frames, closed, sent, faults, used, spans, dropped, delivered>>

TakeFrame_resets ==
    /\ ~closed /\ ~decoding /\ frames # <<>>
    /\ LET text == compact(Head(frames))
           message == parse_adapter_message(decode(text))
           good == IsHexText(text) /\ message.name \notin Errors
       IN  /\ delivered' = IF good THEN Append(delivered, message) ELSE delivered
           /\ frames' = IF good THEN Tail(frames) ELSE <<>>
    /\ UNCHANGED <<line, buffer, decoding, closed, sent, faults, stream, used, spans, dropped>>
TakeFrame_lenient ==
    /\ ~closed /\ ~decoding /\ frames # <<>>
    /\ LET text == compact(Head(frames)) IN
       delivered' = IF IsHexText(text) THEN Append(delivered, parse_adapter_message(decode(text)))
                                       ELSE delivered
    /\ frames' = Tail(frames)
    /\ UNCHANGED <<line, buffer, decoding, closed, sent, faults, stream, used, spans, dropped>>
\* A frame that is no hex text, or no message, is skipped.
TakeFrame ==
    /\ ~closed /\ ~decoding /\ frames # <<>>
    /\ LET text == compact(Head(frames))
           message == parse_adapter_message(decode(text))
           good == IsHexText(text) /\ message.name \notin Errors
       IN  delivered' = IF good THEN Append(delivered, message) ELSE delivered
    /\ frames' = Tail(frames)
    /\ UNCHANGED <<line, buffer, decoding, closed, sent, faults, stream, used, spans, dropped>>

\* The adapter is unplugged: what was not read is lost.
EndOfFile ==
    /\ ~closed /\ ~decoding /\ frames = <<>>
    /\ closed' = TRUE /\ line' = <<>>
    /\ UNCHANGED <<buffer, frames, decoding, history>>

-----------------------------------------------------------------------------

LinkInit ==
    /\ line = <<>> /\ buffer = <<>> /\ frames = <<>>
    /\ decoding = FALSE /\ closed = FALSE
    /\ sent = <<>> /\ faults = 0 /\ stream = <<>> /\ used = 0
    /\ spans = <<>> /\ dropped = FALSE /\ delivered = <<>>

LinkNext == AdapterSends \/ Read \/ ExtractFrame \/ Settle \/ TakeFrame \/ EndOfFile

LinkSpec == LinkInit /\ [][LinkNext]_linkVars

-----------------------------------------------------------------------------
(* Safety. *)

\* Every variable keeps its type, and only messages come out of the link: an
\* error of parse_adapter_message never reaches the actor.
LinkTypeOK ==
    /\ line \in Seq(Bytes) /\ buffer \in Seq(Bytes) /\ stream \in Seq(Bytes)
    /\ frames \in Seq(Seq(Bytes))
    /\ decoding \in BOOLEAN /\ closed \in BOOLEAN /\ dropped \in BOOLEAN
    /\ sent \in Seq([bytes : Payloads, garbled : BOOLEAN]) /\ faults \in 0..MaxFaults
    /\ used \in Nat
    /\ spans \in Seq([from : Nat, to : Nat])
    /\ \A i \in DOMAIN delivered : delivered[i].name \in MessageNames

\* Between two calls of push() the buffer is within its limit and holds no
\* complete frame: neither memory grows with a line that never sends ETX, nor
\* does a VEND REQUEST wait in the buffer until something else is sent.
NothingWithheld ==
    ~decoding =>
      /\ Len(buffer) <= MaxBuffer
      /\ \A i, j \in DOMAIN buffer : i < j /\ buffer[i] = STX => buffer[j] # ETX

\* The buffer is what is left of the stream, and each frame was found between
\* an STX and the next ETX, behind the frame before it: no character belongs
\* to two frames, none is reordered, also across a cleared buffer.
FramesFromStream ==
    /\ buffer = SubSeq(stream, used + 1, Len(stream))
    /\ \A k \in DOMAIN spans :
         /\ spans[k].from < spans[k].to /\ spans[k].to <= used
         /\ stream[spans[k].from] = STX /\ stream[spans[k].to] = ETX
         /\ \A i \in (spans[k].from + 1)..(spans[k].to - 1) : stream[i] # ETX
         /\ k > 1 => spans[k - 1].to < spans[k].from

\* Whichever reads brought them, an STX that an ETX follows is part of a frame,
\* unless the buffer overflowed: push() skips junk, never a frame's beginning.
EveryFrameFound ==
    ~decoding /\ ~dropped =>
      \A i \in DOMAIN stream :
        stream[i] = STX /\ (\E j \in DOMAIN stream : i < j /\ stream[j] = ETX) =>
          \E k \in DOMAIN spans : i \in spans[k].from..spans[k].to

\* What a reader that looks at one character at a time makes of a text.
Listen(s, c) ==
    IF ~s.inside THEN [s EXCEPT !.inside = (c = STX)]
    ELSE IF c = ETX THEN [inside |-> FALSE, text |-> <<>>, texts |-> Append(s.texts, s.text)]
    ELSE [s EXCEPT !.text = Append(@, c)]
Listened(text) ==
    LET heard[i \in 0..Len(text)] ==
          IF i = 0 THEN [inside |-> FALSE, text |-> <<>>, texts |-> <<>>]
                   ELSE Listen(heard[i - 1], text[i])
    IN  heard[Len(text)].texts

TextOf(span) == SubSeq(stream, span.from + 1, span.to - 1)

\* However the stream is cut into chunks, the frames found are those of a
\* reader that looks at each character once, unless the buffer overflowed.
ChunkingIrrelevant ==
    ~decoding /\ ~dropped => [k \in DOMAIN spans |-> TextOf(spans[k])] = Listened(stream)

\* s is t with some elements left out.
ComesFrom(s, t) ==
    \E at \in [DOMAIN s -> DOMAIN t] :
      \A i \in DOMAIN s : s[i] = t[at[i]] /\ (i > 1 => at[i - 1] < at[i])

Meaning(s) == parse_adapter_message(s.bytes)
IsUnchecked(m) == m.name \in {u.name : u \in Unchecked} /\ m.numbers = <<>>
Checked(messages) == SelectSeq(messages, LAMBDA m : ~IsUnchecked(m))
Meanings == [i \in DOMAIN sent |-> Meaning(sent[i])]

\* A fault never makes a message the VMC did not send, nor changes or reorders
\* one, as far as messages carry a checksum: the one-byte messages do not, and
\* a fault can turn an ACK into a RESET.  It holds for the payloads of the run
\* and not for all: eight bits of checksum can be right by accident, as in some
\* VEND SUCCESS cut short.
NothingInvented == ComesFrom(Checked(delivered), Checked(Meanings))

\* Neither message i nor the one before it was garbled.
Spared(i) == ~sent[i].garbled /\ (i > 1 => ~sent[i - 1].garbled)
Survivors == {i \in DOMAIN sent : Spared(i) /\ Meaning(sent[i]).name \notin Errors}

\* A fault costs the message it hits and, if it hides the end of that frame,
\* the one behind it; every other good message is delivered, also when the
\* buffer overflows in between.
LossBounded ==
    line = <<>> /\ ~decoding /\ frames = <<>> /\ ~closed =>
      \E at \in [Survivors -> DOMAIN delivered] :
        \A i, j \in Survivors :
          delivered[at[i]] = Meaning(sent[i]) /\ (i < j => at[i] < at[j])

AllMeanings == {parse_adapter_message(bytes) : bytes \in Payloads}

Fifo == INSTANCE MessageLine WITH
            Messages <- AllMeanings,
            Understood <- {m \in AllMeanings : m.name \notin Errors},
            said <- Meanings,
            taken <- Len(spans) - Len(frames)

\* As long as nothing was garbled the link is the first-in-first-out line of
\* messages that VendingSystem wires reader and machine with, however the bytes
\* are cut into chunks: receive() takes one frame after the other, and each is
\* the adapter's next message.
KeepsFifo ==
    Fifo!LineInit /\ [][faults' = 0 => Fifo!LineNext \/ UNCHANGED Fifo!lineVars]_linkVars
=============================================================================
