---------------------------- MODULE WireProtocol ----------------------------
(***************************************************************************)
(* The encoding of src/src/protocol.rs: what the adapter's bytes mean and  *)
(* what bytes a command of the reader becomes.  Bytes are numbers, a frame *)
(* from the adapter is STX, ASCII hex digits, ETX.                         *)
(* An operator name_variant ahead of `name` is a faulty variant of it.     *)
(***************************************************************************)
EXTENDS Integers, Sequences
LOCAL INSTANCE FiniteSets
LOCAL INSTANCE SequencesExt

Bytes == 0..255
STX == 2
ETX == 3
UNKNOWN_AMOUNT == 65535
NoAmount == -1                  \* None of Option<Level1Amount>
MAX_DISPLAY_DATA_LENGTH == 32

checksum(payload) ==
    LET sums[i \in 0..Len(payload)] == IF i = 0 THEN 0 ELSE (sums[i - 1] + payload[i]) % 256
    IN  sums[Len(payload)]

U16(high, low) == 256 * high + low
Halves(n) == <<n \div 256, n % 256>>

-----------------------------------------------------------------------------
(* ASCII hex. *)

Whitespace == {9, 10, 12, 13, 32}
DigitValue(c) ==
    CASE c \in 48..57 -> c - 48
      [] c \in 65..70 -> c - 55
      [] c \in 97..102 -> c - 87
      [] OTHER -> -1
IsHexText(text) == Len(text) % 2 = 0 /\ \A i \in DOMAIN text : DigitValue(text[i]) >= 0

\* The characters of the adapter's text that count.
compact(input) ==
    LET kept[i \in 0..Len(input)] ==
          IF i = 0 THEN <<>>
          ELSE IF input[i] \in Whitespace THEN kept[i - 1] ELSE Append(kept[i - 1], input[i])
    IN  kept[Len(input)]
\* parse_ascii_hex, for a text that IsHexText.
decode(text) ==
    [i \in 1..(Len(text) \div 2) |-> 16 * DigitValue(text[2 * i - 1]) + DigitValue(text[2 * i])]

\* How the adapter writes bytes: lower-case digits between STX and ETX.
HexDigit(d) == IF d < 10 THEN 48 + d ELSE 87 + d
Digits(bytes) ==
    [i \in 1..(2 * Len(bytes)) |->
       LET byte == bytes[(i + 1) \div 2]
       IN  HexDigit(IF i % 2 = 1 THEN byte \div 16 ELSE byte % 16)]
Framed(bytes) == <<STX>> \o Digits(bytes) \o <<ETX>>

-----------------------------------------------------------------------------
(* parse_adapter_message: a message is its name and its numbers.           *)

Message(name, numbers) == [name |-> name, numbers |-> numbers]

\* The one-byte messages, which carry no checksum.
Unchecked == {
    [byte |-> 0, name |-> "Ack"], [byte |-> 16, name |-> "Reset"],
    [byte |-> 255, name |-> "Nak"], [byte |-> 170, name |-> "Retransmit"]}

\* The commands the VMC sends: their code and the lengths their data may have.
Vocabulary == {
    [name |-> "Reset", code |-> <<16>>, data |-> {0}],
    [name |-> "SetupConfiguration", code |-> <<17, 0>>, data |-> {4}],
    [name |-> "SetupPrices", code |-> <<17, 1>>, data |-> {4}],
    [name |-> "VendRequest", code |-> <<19, 0>>, data |-> {4}],
    [name |-> "VendCancel", code |-> <<19, 1>>, data |-> {0}],
    [name |-> "VendSuccess", code |-> <<19, 2>>, data |-> {0, 2}],
    [name |-> "VendFailure", code |-> <<19, 3>>, data |-> {0}],
    [name |-> "SessionComplete", code |-> <<19, 4>>, data |-> {0}],
    [name |-> "CashSale", code |-> <<19, 5>>, data |-> {4}],
    [name |-> "ReaderDisable", code |-> <<20, 0>>, data |-> {0}],
    [name |-> "ReaderEnable", code |-> <<20, 1>>, data |-> {0}],
    [name |-> "ReaderCancel", code |-> <<20, 2>>, data |-> {0}]}

Errors == {"TooShort", "BadChecksum", "InvalidLength", "ReservedAmount"}
MessageNames == {e.name : e \in Unchecked \union Vocabulary} \union {"Other"}

optional_amount(n) == IF n = UNKNOWN_AMOUNT THEN NoAmount ELSE n

\* What the data of a well-formed command says.
Event(name, data) ==
    LET first == U16(data[1], data[2])
        second == U16(data[3], data[4])
    IN
    CASE name \in {"VendRequest", "CashSale"} ->
           IF first = UNKNOWN_AMOUNT THEN Message("ReservedAmount", <<>>)
                                     ELSE Message(name, <<first, second>>)
      [] name = "SetupPrices" ->
           Message(name, <<optional_amount(first), optional_amount(second)>>)
      [] name = "SetupConfiguration" ->
           Message(name, <<data[1], data[2], data[3], data[4] % 8>>)
      [] name = "VendSuccess" /\ data # <<>> -> Message(name, <<first>>)
      [] OTHER -> Message(name, <<>>)

parse_payload(body) ==
    LET Says(e) == IsPrefix(e.code, body)
        Fits(e) == Len(body) - Len(e.code) \in e.data
        Spoken == {e \in Vocabulary : Says(e)}
    IN
    CASE Spoken = {} -> Message("Other", <<>>)
      [] \E e \in Spoken : Fits(e) ->
           LET e == CHOOSE c \in Spoken : Fits(c)
           IN  Event(e.name, SubSeq(body, Len(e.code) + 1, Len(body)))
      [] OTHER -> Message("InvalidLength", <<>>)

parse_adapter_message_unchecked(bytes) ==
    IF \E u \in Unchecked : bytes = <<u.byte>>
      THEN Message((CHOOSE u \in Unchecked : bytes = <<u.byte>>).name, <<>>)
      ELSE IF Len(bytes) < 2 THEN Message("TooShort", <<>>)
      ELSE parse_payload(Front(bytes))
\* An error is a message whose name is one of Errors.
parse_adapter_message(bytes) ==
    IF \E u \in Unchecked : bytes = <<u.byte>>
      THEN Message((CHOOSE u \in Unchecked : bytes = <<u.byte>>).name, <<>>)
      ELSE IF Len(bytes) < 2 THEN Message("TooShort", <<>>)
      ELSE IF checksum(Front(bytes)) # Last(bytes) THEN Message("BadChecksum", <<>>)
      ELSE parse_payload(Front(bytes))

-----------------------------------------------------------------------------
(* ReaderCommand.  Its numbers are an amount, or a time and characters.     *)

payload(name, numbers) ==
    CASE name = "BeginSession" -> <<3>> \o Halves(numbers[1])
      [] name = "DisplayRequest" -> <<2>> \o numbers
      [] name = "SessionCancel" -> <<4>>
      [] name = "Approve" -> <<5>> \o Halves(numbers[1])
      [] name = "Deny" -> <<6>>
      [] name = "EndSession" -> <<7>>
      [] name = "Cancelled" -> <<8>>
      [] name = "CommandOutOfSequence" -> <<11>>

frame(name, numbers) ==
    LET bytes == payload(name, numbers) IN Append(bytes, checksum(bytes))

-----------------------------------------------------------------------------
(* DisplayDimensions: none if a side is zero. *)

capacity(columns, rows) ==
    IF columns * rows < MAX_DISPLAY_DATA_LENGTH THEN columns * rows
                                                ELSE MAX_DISPLAY_DATA_LENGTH
=============================================================================
