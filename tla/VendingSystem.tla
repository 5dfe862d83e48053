---------------------------- MODULE VendingSystem ----------------------------
(***************************************************************************)
(* The reader and its application (MdbClient) wired to the vending machine *)
(* (VendingMachine): the actor receives the head of the serial line        *)
(* (Link::receive) and what it writes travels to the VMC (Link::send).     *)
(***************************************************************************)
EXTENDS MdbClient

CONSTANTS
    StartStates, Patient,    \* of VendingMachine
    MaxRequests, MaxResets,  \* bounds of VendingMachine
    MaxBacklog               \* unread frames and messages beyond which no display is asked for (bound)

VARIABLES vmc, serving, product, requests, resets, line, bus

Machine == INSTANCE VendingMachine

ASSUME MachineAssumption ==
    /\ StartStates \subseteq Machine!VmcStates
    /\ Machine!MachineMessages \subseteq Messages
    /\ Patient \in BOOLEAN
    /\ MaxRequests \in 0..MaxVends /\ MaxResets \in Nat /\ MaxBacklog \in Nat

machineVars == <<vmc, serving, product, requests, resets, line, bus>>
systemVars == <<vars, machineVars>>

\* Link::send: the step's frame is on its way.
Transmit ==
    /\ bus' = IF wrote' = NoFrame THEN bus ELSE Append(bus, wrote')
    /\ UNCHANGED <<vmc, serving, product, requests, resets>>

ReaderReceives ==
    /\ line # <<>>
    /\ ReceiveMessage(Head(line))
    /\ line' = Tail(line)
    /\ Transmit

ReaderActs == ActorStep /\ Transmit /\ UNCHANGED line

ApplicationActs ==
    /\ ClientStep
    /\ app \in {"device", "session"} /\ app' \in {"displayingDevice", "displayingSession"}
         => Len(bus) + Len(line) < MaxBacklog
    /\ UNCHANGED machineVars

MachineActs == Machine!MachineNext /\ UNCHANGED vars

SystemInit == Init /\ Machine!MachineInit

SystemNext ==
    \/ ReaderReceives \/ ReaderActs \/ ApplicationActs \/ MachineActs
    \/ Stopped /\ UNCHANGED machineVars

SystemSpec == SystemInit /\ [][SystemNext]_systemVars

\* The machine reads its bus, finishes what it dispenses and, unless the reader
\* answers first, gives up on a selection; the reader reads its line.
SystemFairness ==
    /\ WF_systemVars(ReaderReceives)
    /\ WF_systemVars(ReceiveCommand /\ Transmit /\ UNCHANGED line)
    /\ WF_systemVars(CommandChannelClosed /\ Transmit /\ UNCHANGED line)
    /\ WF_systemVars(VendDeadline /\ Transmit /\ UNCHANGED line)
    /\ WF_systemVars(ExitDeadline /\ Transmit /\ UNCHANGED line)
    /\ WF_systemVars(Exit /\ Transmit /\ UNCHANGED line)
    /\ WF_systemVars(DropEvent /\ UNCHANGED machineVars)
    /\ WF_systemVars(FinishReturns /\ UNCHANGED machineVars)
    /\ WF_systemVars(Machine!ReadFrame /\ UNCHANGED vars)
    /\ WF_systemVars(Machine!Dispense /\ UNCHANGED vars)

FairSystem == SystemSpec /\ SystemFairness

-----------------------------------------------------------------------------
(* Types. *)

\* The machine's variables keep their types, and only messages and frames of
\* the protocol travel.
SystemTypeOK ==
    /\ TypeOK
    /\ vmc \in Machine!VmcStates
    /\ serving \in 0..MaxVends /\ (serving # 0 => vmc = "dispensing")
    /\ product \in [Vends -> Machine!Products]
    /\ requests \in 0..MaxRequests /\ resets \in 0..MaxResets
    /\ line \in Seq(AdapterMessages)
    /\ bus \in Seq(Frames)

-----------------------------------------------------------------------------
(* Reports and reality. *)

\* A confirmed success is a product in the tray and a reported failure is none:
\* the application neither refunds a dispensed vend nor keeps the money of a
\* confirmed failure, however approval, cancel and giving up cross on the link.
ReportsMatchProduct ==
    \A v \in Vends : outcome[v] # <<>> =>
      /\ outcome[v][1].why = "Confirmed" => product[v] = "dispensed"
      /\ outcome[v][1].kind = "VendFailed" => product[v] \in {"none", "failed"}

\* A VEND FAILURE of an approved vend leads to a refund
\* (PAYMENT_INTERFACE.md:131): the vend is not reported as a success.
FailureIsRefunded ==
    \A v \in Vends : outcome[v] # <<>> =>
      (outcome[v][1].kind = "VendSucceeded" => product[v] # "failed")

\* A session is completed only once the VMC has acknowledged its END SESSION
\* (MDB_ACTOR_FOLLOW_UPS.md:19).
EndSessionSettled ==
    [][ (completed' # completed /\ completed'.id # 0 /\ completed'.reason # "Reset")
        => \A i \in DOMAIN bus' : bus'[i].name # "EndSession" ]_systemVars

-----------------------------------------------------------------------------
(* Liveness. *)

\* finish() comes back with the device or an error: every phase it can find the
\* session in is one the machine's next messages lead out of.
FinishReturnsEventually == app = "finishing" ~> app # "finishing"

\* The machine never waits for an answer to a selection for ever, even if its
\* own timeout did not exist, unless the actor has stopped: whatever becomes of
\* the PendingVend, an answer, a denial or a reset releases it.
MachineReleased ==
    vmc \in {"asking", "cancelling"} ~> vmc \notin {"asking", "cancelling"} \/ ~Running
=============================================================================
