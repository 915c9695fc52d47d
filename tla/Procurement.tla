------------------------------ MODULE Procurement ------------------------------
(***************************************************************************)
(* One workspace from candidate review to completion: approval and orders  *)
(* (ApprovalFlow) together with the receiving of the current order         *)
(* (Receiving).  The two share the status of the workspace and the order:  *)
(* whatever ApprovalFlow makes of them, Receiving has to count against,    *)
(* and scans and dispositions go on while a reapproval is under way.       *)
(***************************************************************************)
EXTENDS ApprovalFlow

CONSTANTS
    MaxReceived,  \* BOUND: copies delivered or scanned of a candidate
    MaxLoose      \* BOUND: open differences that stand for a single event

ASSUME ProcurementAssumption ==
    /\ MaxReceived \in Nat
    /\ MaxLoose \in Nat

VARIABLES session, scans, delivered, short, partial, loose  \* as in Receiving

receivingVars   == <<session, scans, delivered, short, partial, loose>>
procurementVars == <<vars, receivingVars>>

OrderedStages == {"ORDER_READY", "ORDER_SENT", "RECEIVING", "COMPLETED"}

R == INSTANCE Receiving WITH
    Books   <- Candidates,
    ws      <- IF ws \in OrderedStages THEN ws ELSE "REVISING",
    ordered <- [c \in Candidates |-> order.lines[c].qty],
    sent    <- order.sent

--------------------------------------------------------------------------------
ProcurementInit ==
    /\ Init
    /\ session = "NONE"
    /\ scans = [c \in Candidates |-> 0]
    /\ delivered = [c \in Candidates |-> 0]
    /\ short = [c \in Candidates |-> R!NoDifference]
    /\ partial = [c \in Candidates |-> R!NoDifference]
    /\ loose = 0

\* Requests about the list, its approval and its quotes touch nothing received,
\* also when a change asks for a reapproval of an order that is being received.
Prepare ==
    /\ \/ \E c \in Candidates : Autosave(c)
       \/ BulkDecide
       \/ \E u \in Users, b \in Budgets : RequestApproval(u, b)
       \/ CancelRequest
       \/ \E u \in Users, v \in {"APPROVED", "REJECTED"} : Decide(u, v)
       \/ \E u \in Users, c \in Candidates, b \in Budgets : Adjust(u, c, b)
       \/ IngestQuote
    /\ UNCHANGED receivingVars

\* Mutant: what was scanned and delivered is kept for the next order.
PlaceOrderKeepsCounts(price) ==
    /\ GenerateOrder(price)
    /\ session' = IF session = "NONE" THEN "NONE" ELSE "REPLACED"
    /\ UNCHANGED <<scans, delivered, short, partial, loose>>

\* OrderService.generate_revision: rows, scans, deliveries and differences belong
\* to an order; the new one has none, and the open session is of the old one.
PlaceOrder(price) ==
    /\ GenerateOrder(price)
    /\ session' = IF session = "NONE" THEN "NONE" ELSE "REPLACED"
    /\ scans' = [c \in Candidates |-> 0]
    /\ delivered' = [c \in Candidates |-> 0]
    /\ short' = [c \in Candidates |-> R!NoDifference]
    /\ partial' = [c \in Candidates |-> R!NoDifference]
    /\ loose' = 0

\* OrderService.mark_sent.
SendOrder == MarkSent /\ UNCHANGED receivingVars

\* ReceivingService.record_delivery and start_scan_session.
Deliver(batch, extra) == Receive /\ R!RecordDelivery(batch, extra)
StartSession          == Receive /\ R!StartScanSession

\* ReceivingService.scan and set_disposition, at whatever stage of a reapproval.
ScanOne ==
    /\ UNCHANGED vars
    /\ R!ScanOther \/ \E c \in Candidates : R!Scan(c)
Dispose == UNCHANGED vars /\ R!SetDisposition

\* ReceivingService.complete.
CompleteWorkspace == Complete /\ R!Complete

ProcurementNext ==
    \/ Prepare
    \/ \E price \in [Candidates -> Prices] : PlaceOrder(price)
    \/ SendOrder
    \/ \E batch \in [Candidates -> 0..MaxReceived], extra \in 0..MaxLoose : Deliver(batch, extra)
    \/ StartSession
    \/ ScanOne
    \/ Dispose
    \/ CompleteWorkspace

ProcurementSpec == ProcurementInit /\ [][ProcurementNext]_procurementVars

--------------------------------------------------------------------------------
(* Properties. *)

\* Copies are only counted, and differences only disposed of, for an order that
\* was sent and that stays inside a revision a reviewer approved, at every stage:
\* also while a later revision is pending, was rejected or waits for its quote.
ReceivedIsApproved ==
    (\E c \in Candidates : scans[c] > 0 \/ delivered[c] > 0 \/ short[c].disposed \/ partial[c].disposed) =>
        /\ order.sent
        /\ order.rev \in Approved
        /\ Within(order.lines, rev[order.rev].lines)
        /\ Total(order.lines) <= rev[order.rev].budget

\* Receiving counts against the order as it counts against an order that comes
\* from nowhere: what is proved and checked of Receiving holds of the workspace.
ImplementsReceiving == R!Spec

================================================================================
