----------------------------- MODULE MCMdbClient -----------------------------
(* Instances of MdbClient for TLC. *)
EXTENDS MdbClient

\* Every message the VMC can send.
AllMessages == AdapterMessages

\* Those that take part in a vend, and a READER DISABLE for "out of sequence".
VendMessages ==
    {"Ack", "Reset", "ReaderDisable", "VendRequest", "VendCancel", "VendSuccess",
     "VendFailure", "SessionComplete"}

\* A VMC that never closes or disables the reader: sessions end by reset or exit.
OpenEndedMessages == VendMessages \ {"ReaderDisable", "SessionComplete", "Ack"}

\* A VMC whose SETUP announces a usable display, and one that sends no SETUP.
PlainDisplay == {"Available"}
NoDisplay == {}
=============================================================================
