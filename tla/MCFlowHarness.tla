---------------------------- MODULE MCFlowHarness ----------------------------
(* Instances of FlowHarness for TLC. *)
EXTENDS FlowHarness

AllMessages == AdapterMessages
PlainDisplay == {"Available"}
\* A VMC that starts with the reader.
Enabled == {"enabled"}
=============================================================================
