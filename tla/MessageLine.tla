----------------------------- MODULE MessageLine -----------------------------
(***************************************************************************)
(* What the actor takes its serial link to be, with no word of bytes: the  *)
(* messages the adapter says come out in the order they were said, each    *)
(* once; one that the reader does not understand is left out.              *)
(***************************************************************************)
EXTENDS Naturals, Sequences

CONSTANTS
    Messages,      \* what the adapter may say
    Understood     \* what parse_adapter_message has a name for

VARIABLES
    said,          \* what the adapter has said
    taken,         \* how much of it the reader has looked at
    delivered      \* what came out

lineVars == <<said, taken, delivered>>

LineInit == said = <<>> /\ taken = 0 /\ delivered = <<>>

Say ==
    /\ \E m \in Messages : said' = Append(said, m)
    /\ UNCHANGED <<taken, delivered>>

Take ==
    /\ taken < Len(said)
    /\ taken' = taken + 1
    /\ delivered' = IF said[taken + 1] \in Understood THEN Append(delivered, said[taken + 1])
                                                      ELSE delivered
    /\ UNCHANGED said

LineNext == Say \/ Take

LineSpec == LineInit /\ [][LineNext]_lineVars
=============================================================================
