------------------------------- MODULE Receiving -------------------------------
(***************************************************************************)
(* Receiving the current order of a workspace: deliveries, the scan        *)
(* session, the differences they raise and the completion of the workspace *)
(* (workflow/receiving.py, with mark_sent and the replacement of the       *)
(* current order of workflow/orders.py).                                   *)
(*                                                                         *)
(* Everything is kept for the current order only: once another order       *)
(* revision replaces it, nothing reads its deliveries, scans or            *)
(* differences again, except that its scan session may still be open.      *)
(***************************************************************************)
EXTENDS Integers

CONSTANTS
    Books,        \* order rows, one per book
    MaxQty,       \* BOUND: copies ordered of a book
    MaxReceived,  \* BOUND: copies delivered or scanned of a book
    MaxLoose      \* BOUND: open differences that stand for a single event

ASSUME ReceivingAssumption ==
    /\ MaxQty \in Nat
    /\ MaxReceived \in Nat
    /\ MaxLoose \in Nat

\* REVISING stands for every stage before the first order, and for those of a
\* reapproval; the order that was current stays current until it is replaced.
Status  == {"REVISING", "ORDER_READY", "ORDER_SENT", "RECEIVING", "COMPLETED"}
Session == {"NONE", "CURRENT", "REPLACED"}

VARIABLES
    ws,         \* acquisition_workspaces.status
    ordered,    \* order_rows of the current order
    sent,       \* the current order has an order_transmissions row
    session,    \* the open scan session, and whether its order is still current
    scans,      \* scan_events of each order row with result NORMAL or OVER
    delivered,  \* delivery_row_order_allocations by order row
    short,      \* the scan:missing difference of each order row
    partial,    \* the delivery:missing, :quantity or :over difference of each
    loose       \* active differences of single delivery rows or scans without
                \* a disposition: unordered, over, edition, ISBN, price

orderVars == <<ordered, sent>>
countVars == <<scans, delivered>>
diffVars  == <<short, partial, loose>>
vars == <<ws, orderVars, session, countVars, diffVars>>

--------------------------------------------------------------------------------
NoDifference == [active |-> FALSE, count |-> -1, disposed |-> FALSE]

Rows == {b \in Books : ordered[b] > 0}

\* Mutant: a known difference is updated in place and keeps its disposition.
InsertDifferenceInPlace(old, count) == [active |-> TRUE, count |-> count, disposed |-> old.disposed]

\* _insert_difference: the same finding is activated again with its disposition,
\* another finding under the same key is a new difference without one.
InsertDifference(old, count) ==
    IF old.count = count THEN [old EXCEPT !.active = TRUE]
    ELSE [active |-> TRUE, count |-> count, disposed |-> FALSE]

\* _refresh_scan_shortages.
RefreshShortages ==
    short' = [b \in Books |->
                 IF b \in Rows /\ scans'[b] < ordered[b]
                 THEN InsertDifference(short[b], scans'[b])
                 ELSE [short[b] EXCEPT !.active = FALSE]]

\* The part of _delivery_differences that compares totals.
RefreshDelivered ==
    partial' = [b \in Books |->
                   IF b \in Rows /\ delivered'[b] # ordered[b]
                   THEN InsertDifference(partial[b], delivered'[b])
                   ELSE [partial[b] EXCEPT !.active = FALSE]]

Unresolved ==
    \/ \E b \in Books : short[b].active /\ ~short[b].disposed
    \/ \E b \in Books : partial[b].active /\ ~partial[b].disposed
    \/ loose > 0

\* barcode_verification_gaps.
Gaps == {b \in Rows : scans[b] < ordered[b] /\ ~(short[b].active /\ short[b].disposed)}

--------------------------------------------------------------------------------
Init ==
    /\ ws = "REVISING"
    /\ ordered = [b \in Books |-> 0]
    /\ sent = FALSE
    /\ session = "NONE"
    /\ scans = [b \in Books |-> 0]
    /\ delivered = [b \in Books |-> 0]
    /\ short = [b \in Books |-> NoDifference]
    /\ partial = [b \in Books |-> NoDifference]
    /\ loose = 0

\* OrderService.generate_revision: a new current order, not sent yet.  An open
\* scan session is not ended.
GenerateOrder ==
    /\ ws \in {"REVISING", "ORDER_READY", "ORDER_SENT", "RECEIVING"}
    /\ ws' = "ORDER_READY"
    /\ ordered' \in [Books -> 0..MaxQty]
    /\ \E b \in Books : ordered'[b] > 0
    /\ sent' = FALSE
    /\ session' = IF session = "NONE" THEN "NONE" ELSE "REPLACED"
    /\ scans' = [b \in Books |-> 0]
    /\ delivered' = [b \in Books |-> 0]
    /\ short' = [b \in Books |-> NoDifference]
    /\ partial' = [b \in Books |-> NoDifference]
    /\ loose' = 0

\* ApprovalService.adjust_approved_candidate when it asks for a reapproval.
Reapprove ==
    /\ ws \in {"ORDER_READY", "ORDER_SENT", "RECEIVING"}
    /\ ws' = "REVISING"
    /\ UNCHANGED <<orderVars, session, countVars, diffVars>>

\* OrderService.mark_sent.
MarkSent ==
    /\ ws = "ORDER_READY"
    /\ ~sent
    /\ sent' = TRUE
    /\ ws' = "ORDER_SENT"
    /\ UNCHANGED <<ordered, session, countVars, diffVars>>

\* ReceivingService.record_delivery: batch copies of each book, and extra rows
\* that match no order row or differ from it in price, edition or ISBN.
RecordDelivery(batch, extra) ==
    /\ ws \in {"ORDER_SENT", "RECEIVING"}
    /\ sent
    /\ extra > 0 \/ \E b \in Rows : batch[b] > 0
    /\ loose + extra <= MaxLoose
    /\ delivered' = [b \in Books |-> IF b \in Rows THEN delivered[b] + batch[b] ELSE 0]
    /\ \A b \in Books : delivered'[b] <= MaxReceived
    /\ RefreshDelivered
    /\ loose' = loose + extra
    /\ ws' = "RECEIVING"
    /\ UNCHANGED <<orderVars, session, scans, short>>

\* ReceivingService.start_scan_session.
StartScanSession ==
    /\ ws \in {"ORDER_SENT", "RECEIVING"}
    /\ sent
    /\ session = "NONE"
    /\ session' = "CURRENT"
    /\ ws' = "RECEIVING"
    /\ UNCHANGED scans
    /\ RefreshShortages
    /\ UNCHANGED <<orderVars, delivered, partial, loose>>

\* Mutant: the shortages are only computed when the session starts.
ScanWithoutRefresh(b) ==
    /\ session = "CURRENT"
    /\ sent
    /\ b \in Rows
    /\ scans[b] < MaxReceived
    /\ scans' = [scans EXCEPT ![b] = @ + 1]
    /\ scans[b] >= ordered[b] => loose < MaxLoose
    /\ loose' = IF scans[b] < ordered[b] THEN loose ELSE loose + 1
    /\ UNCHANGED <<ws, orderVars, session, delivered, short, partial>>

\* ReceivingService.scan of an ordered book, whatever stage the workspace is at:
\* NORMAL up to the ordered quantity, OVER beyond it.
Scan(b) ==
    /\ session = "CURRENT"
    /\ sent
    /\ b \in Rows
    /\ scans[b] < MaxReceived
    /\ scans' = [scans EXCEPT ![b] = @ + 1]
    /\ scans[b] >= ordered[b] => loose < MaxLoose
    /\ loose' = IF scans[b] < ordered[b] THEN loose ELSE loose + 1
    /\ RefreshShortages
    /\ UNCHANGED <<ws, orderVars, session, delivered, partial>>

\* The same with a book that was not ordered or another edition.
ScanOther ==
    /\ session = "CURRENT"
    /\ sent
    /\ loose < MaxLoose
    /\ loose' = loose + 1
    /\ UNCHANGED scans
    /\ RefreshShortages
    /\ UNCHANGED <<ws, orderVars, session, delivered, partial>>

\* ReceivingService.set_disposition, whatever stage the workspace is at.
SetDisposition ==
    /\ sent
    /\ \/ \E b \in Books : /\ short[b].active
                           /\ short' = [short EXCEPT ![b].disposed = TRUE]
                           /\ UNCHANGED <<partial, loose>>
       \/ \E b \in Books : /\ partial[b].active
                           /\ partial' = [partial EXCEPT ![b].disposed = TRUE]
                           /\ UNCHANGED <<short, loose>>
       \/ loose > 0 /\ loose' = loose - 1 /\ UNCHANGED <<short, partial>>
    /\ UNCHANGED <<ws, orderVars, session, countVars>>

\* Mutant: the scan session stays open.
CompleteKeepsSession ==
    /\ ws = "RECEIVING"
    /\ ~Unresolved
    /\ Gaps = {}
    /\ ws' = "COMPLETED"
    /\ UNCHANGED <<orderVars, session, countVars, diffVars>>

\* ReceivingService.complete.
Complete ==
    /\ ws = "RECEIVING"
    /\ ~Unresolved
    /\ Gaps = {}
    /\ session' = "NONE"
    /\ ws' = "COMPLETED"
    /\ UNCHANGED <<orderVars, countVars, diffVars>>

--------------------------------------------------------------------------------
Next ==
    \/ GenerateOrder
    \/ Reapprove
    \/ MarkSent
    \/ \E batch \in [Books -> 0..MaxReceived], extra \in 0..MaxLoose : RecordDelivery(batch, extra)
    \/ StartScanSession
    \/ \E b \in Books : Scan(b)
    \/ ScanOther
    \/ SetDisposition
    \/ Complete

Spec == Init /\ [][Next]_vars

--------------------------------------------------------------------------------
(* Properties. *)

Difference == [active : BOOLEAN, count : -1..MaxReceived, disposed : BOOLEAN]

TypeOK ==
    /\ ws \in Status
    /\ ordered \in [Books -> 0..MaxQty]
    /\ sent \in BOOLEAN
    /\ session \in Session
    /\ scans \in [Books -> 0..MaxReceived]
    /\ delivered \in [Books -> 0..MaxReceived]
    /\ short \in [Books -> Difference]
    /\ partial \in [Books -> Difference]
    /\ loose \in 0..MaxLoose

\* A completed workspace accounts for every copy: each book was scanned as often
\* as it was ordered, or a user disposed of the shortage at the very count that
\* stands; and the same for what deliveries brought, once one brought an ordered book.
CompletedIsAccountedFor ==
    ws = "COMPLETED" =>
        /\ \A b \in Rows : scans[b] < ordered[b] => short[b].disposed /\ short[b].count = scans[b]
        /\ (\E b \in Rows : delivered[b] > 0) =>
              \A b \in Rows : delivered[b] # ordered[b] =>
                 partial[b].disposed /\ partial[b].count = delivered[b]
        /\ loose = 0

\* A shortage on the operator's list is one that exists, with the count that
\* stands, at every stage in which scans and dispositions are possible.
ShortagesAreTrue ==
    \A b \in Books : short[b].active => b \in Rows /\ short[b].count = scans[b] /\ scans[b] < ordered[b]

\* Once the workspace is completed no scan, delivery or other order changes what
\* was completed.
CompletedIsFinal ==
    [][ws = "COMPLETED" => UNCHANGED <<ws, orderVars, countVars>>]_vars

\* A disposition is given to a difference at one count: when a later scan or
\* delivery changes the count, the user has to dispose of it again.
DispositionIsForItsCount ==
    [][\A b \in Books :
          /\ short'[b].count # short[b].count => ~short'[b].disposed
          /\ partial'[b].count # partial[b].count => ~partial'[b].disposed]_vars

\* As long as ordered copies lack a scan they can be scanned: the workspace can
\* be completed by confirming what was ordered.
GapsCanBeScanned ==
    ws \in {"ORDER_SENT", "RECEIVING"} /\ Gaps # {} => session # "REPLACED"

================================================================================
