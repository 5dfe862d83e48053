----------------------------- MODULE VendLedger -----------------------------
(***************************************************************************)
(* What a cashless reader promises about vends, with no word on how: each  *)
(* vend is offered once, is approved at most once and never after it was   *)
(* declined, gets one final outcome, and only one vend is open at a time.  *)
(* An approved vend is left without outcome only by a reader that stops.   *)
(***************************************************************************)
EXTENDS Naturals

CONSTANT MaxVends

VARIABLES
    ledger,    \* what became of each vend
    serving    \* the reader has not stopped

vars == <<ledger, serving>>

Vends == 1..MaxVends
Open == {"offered", "approved"}
Entries == Open \union {"none", "declined", "VendSucceeded", "VendFailed", "lost"}

TypeOK == ledger \in [Vends -> Entries] /\ serving \in BOOLEAN

Init == ledger = [v \in Vends |-> "none"] /\ serving = TRUE

Record(v, from, to) ==
    /\ ledger[v] = from
    /\ ledger' = [ledger EXCEPT ![v] = to]

\* A vend the machine asks for, while no other is open; a reader may decline it
\* before anybody sees it.
Offer(v) ==
    /\ \A u \in Vends : ledger[u] \notin Open
    /\ Record(v, "none", "offered") \/ Record(v, "none", "declined")

Approve(v) == Record(v, "offered", "approved")

Decline(v) == Record(v, "offered", "declined")

Settle(v) == Record(v, "approved", "VendSucceeded") \/ Record(v, "approved", "VendFailed")

\* Stopping cuts off the open vend, approved or about to be.
Lose(v) ==
    /\ ~serving'
    /\ Record(v, "approved", "lost") \/ Record(v, "offered", "lost")

Next ==
    /\ serving /\ serving' \in BOOLEAN
    /\ \/ UNCHANGED ledger
       \/ \E v \in Vends : Offer(v) \/ Approve(v) \/ Decline(v) \/ Settle(v) \/ Lose(v)

Spec == Init /\ [][Next]_vars
=============================================================================
