--------------------------- MODULE MCVendingSystem ---------------------------
(* Instances of VendingSystem for TLC. *)
EXTENDS VendingSystem

\* The line decides which messages arrive.
AllMessages == AdapterMessages
\* A VMC that starts with the reader.
Enabled == {"enabled"}
PlainDisplay == {"Available"}
=============================================================================
