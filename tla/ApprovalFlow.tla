----------------------------- MODULE ApprovalFlow -----------------------------
(***************************************************************************)
(* From candidate review to an order that was handed to the vendor: the    *)
(* candidates of one workspace, the approval revisions taken of them, the  *)
(* quotes and the current order (workflow/candidates.py, approvals.py,     *)
(* quotes.py, orders.py and the status guard of migration 0010).           *)
(*                                                                         *)
(* Every request runs in one BEGIN IMMEDIATE transaction, so each is one   *)
(* action.  Requests name the row version they were made from and are      *)
(* refused, changing nothing, when it is no longer current; a user may     *)
(* reload at any time, so only requests made from current versions appear. *)
(* For the same reason the two-minute edit lock is left out: it decides    *)
(* which operator edits next, never what an edit may do.                   *)
(***************************************************************************)
EXTENDS Integers, Functions

CONSTANTS
    Candidates,      \* candidate_decisions of the workspace
    Users,           \* users, each both operator and reviewer
    MaxQty, Prices,  \* BOUND: quantities and unit prices that are entered
    Budgets,         \* BOUND: budgets that are entered
    MaxRev,          \* BOUND: approval revisions of the workspace
    SingleOperator   \* schools.single_operator_mode

ASSUME ApprovalAssumption ==
    /\ MaxQty \in Nat
    /\ MaxRev \in Nat
    /\ Prices \subseteq Nat
    /\ Budgets \subseteq Nat
    /\ SingleOperator \in BOOLEAN

Outcomes  == {"CANDIDATE", "NEEDS_REVIEW", "EXCLUDED"}
Revisions == 1..MaxRev

\* Mutant: candidates can be edited while the request is pending.
EditStatesPending == {"CANDIDATE_REVIEW", "CHANGES_REQUESTED", "APPROVAL_PENDING"}

EditStates   == {"CANDIDATE_REVIEW", "CHANGES_REQUESTED"}
QuoteStates  == {"APPROVED", "QUOTE_REVIEW"}
OrderStates  == {"QUOTE_REVIEW", "ORDER_READY", "ORDER_SENT", "RECEIVING"}
AdjustStates == QuoteStates \cup OrderStates
Status       == EditStates \cup AdjustStates \cup {"APPROVAL_PENDING", "COMPLETED"}

Verdicts == {"OPEN", "APPROVED", "REJECTED", "CANCELLED"}

\* A line of an approval revision or an order; quantity 0 is no line at all.
NoLine == [qty |-> 0, price |-> 0]
NoLines == [c \in Candidates |-> NoLine]
NoRevision == [lines |-> NoLines, budget |-> 0, by |-> "NOBODY", verdict |-> "OPEN"]
NoOrder == [rev |-> 0, lines |-> NoLines, sent |-> FALSE]

VARIABLES
    ws,      \* acquisition_workspaces.status
    cand,    \* candidate_decisions: outcome, quantity, unit price
    rev,     \* approval_revisions with their rows, decision or cancellation
    nrev,    \* number of the latest revision
    quoted,  \* revisions for which a sealed vendor quote exists
    order    \* workspace_current_orders: revision approved, lines, transmitted

vars == <<ws, cand, rev, nrev, quoted, order>>

--------------------------------------------------------------------------------
Included(c) == cand[c].out = "CANDIDATE" /\ cand[c].qty > 0

\* _candidate_rows.
CurrentLines ==
    [c \in Candidates |-> IF Included(c)
                          THEN [qty |-> cand[c].qty, price |-> cand[c].price]
                          ELSE NoLine]

Total(lines) == SumFunction([c \in Candidates |-> lines[c].qty * lines[c].price])

Latest(S) == CHOOSE n \in S : \A m \in S : m <= n

Approved == {n \in 1..nrev : rev[n].verdict = "APPROVED"}
Standing == {n \in 1..nrev : rev[n].verdict # "CANCELLED"}

\* _create_revision: the rows are sealed with the revision and never change.
CreateRevision(lines, budget, u) ==
    /\ lines # NoLines
    /\ nrev < MaxRev
    /\ nrev' = nrev + 1
    /\ rev' = [rev EXCEPT ![nrev + 1] =
                  [lines |-> lines, budget |-> budget, by |-> u, verdict |-> "OPEN"]]

--------------------------------------------------------------------------------
Contents == [out : Outcomes, qty : 0..MaxQty, price : Prices]

Init ==
    /\ ws = "CANDIDATE_REVIEW"
    /\ cand \in [Candidates -> Contents]
    /\ rev = [n \in Revisions |-> NoRevision]
    /\ nrev = 0
    /\ quoted = {}
    /\ order = NoOrder

--------------------------------------------------------------------------------
(* Candidates. *)

\* CandidateService.autosave.
Autosave(c) ==
    /\ ws \in EditStates
    /\ \E new \in Contents : cand' = [cand EXCEPT ![c] = new]
    /\ UNCHANGED <<ws, rev, nrev, quoted, order>>

\* CandidateService.bulk_decide: items that are locked, invalid or out of date
\* are skipped, the others are applied together.
BulkDecide ==
    /\ ws \in EditStates
    /\ \E S \in SUBSET Candidates, out \in Outcomes :
          cand' = [c \in Candidates |-> IF c \in S THEN [cand[c] EXCEPT !.out = out]
                                                   ELSE cand[c]]
    /\ UNCHANGED <<ws, rev, nrev, quoted, order>>

--------------------------------------------------------------------------------
(* Approval. *)

\* ApprovalService.request_approval.
RequestApproval(u, budget) ==
    /\ ws \in EditStates
    /\ \A c \in Candidates : cand[c].out # "NEEDS_REVIEW"
    /\ CreateRevision(CurrentLines, budget, u)
    /\ ws' = "APPROVAL_PENDING"
    /\ UNCHANGED <<cand, quoted, order>>

\* Mutant: the cancellation is not recorded with the revision.
CancelRequestUnrecorded ==
    /\ ws = "APPROVAL_PENDING"
    /\ nrev > 0
    /\ ws' = "CANDIDATE_REVIEW"
    /\ UNCHANGED <<cand, rev, nrev, quoted, order>>

\* ApprovalService.cancel_request.
CancelRequest ==
    /\ ws = "APPROVAL_PENDING"
    /\ nrev > 0
    /\ rev[nrev].verdict \in {"OPEN", "CANCELLED"}
    /\ rev' = [rev EXCEPT ![nrev].verdict = "CANCELLED"]
    /\ ws' = "CANDIDATE_REVIEW"
    /\ UNCHANGED <<cand, nrev, quoted, order>>

\* ApprovalService.approve and reject, on the latest revision not cancelled.
Decide(u, verdict) ==
    /\ Standing # {}
    /\ LET n == Latest(Standing)
       IN  /\ rev[n].verdict = "OPEN"
           /\ ws = "APPROVAL_PENDING"
           /\ verdict = "APPROVED" => rev[n].by # u \/ SingleOperator
           /\ rev' = [rev EXCEPT ![n].verdict = verdict]
    /\ ws' = IF verdict = "APPROVED" THEN "APPROVED" ELSE "CHANGES_REQUESTED"
    /\ UNCHANGED <<cand, nrev, quoted, order>>

\* Mutant: only the budget decides, the approved line is not compared.
NeedsReapprovalOfTotal(c, lines, budget) ==
    budget # rev[Latest(Approved)].budget \/ Total(lines) > budget

\* The conditions under which a change after approval must be approved again.
NeedsReapproval(c, lines, budget) ==
    LET a == rev[Latest(Approved)]
    IN  \/ budget # a.budget
        \/ lines[c].qty > a.lines[c].qty
        \/ lines[c].qty > 0 /\ lines[c].price > a.lines[c].price
        \/ Total(lines) > budget

\* ApprovalService.adjust_approved_candidate.
Adjust(u, c, budget) ==
    /\ ws \in AdjustStates
    /\ Approved # {}
    /\ \E new \in Contents : cand' = [cand EXCEPT ![c] = new]
    /\ IF NeedsReapproval(c, CurrentLines', budget)
       THEN CreateRevision(CurrentLines', budget, u) /\ ws' = "APPROVAL_PENDING"
       ELSE UNCHANGED <<rev, nrev, ws>>
    /\ UNCHANGED <<quoted, order>>

--------------------------------------------------------------------------------
(* Quotes and orders. *)

\* QuoteService.ingest: what the vendor quotes is not checked here, so the
\* lines of a quote are left open until an order is generated from it.
IngestQuote ==
    /\ ws \in QuoteStates
    /\ Approved # {}
    /\ quoted' = quoted \cup {Latest(Approved)}
    /\ ws' = "QUOTE_REVIEW"
    /\ UNCHANGED <<cand, rev, nrev, order>>

\* OrderService.generate_revision: the quote of the latest approved revision
\* covers every candidate exactly, at prices within approval and candidate.
\* The new revision replaces the current order, sent or not.
GenerateOrder(price) ==
    /\ ws \in OrderStates
    /\ Approved # {}
    /\ Latest(Approved) \in quoted
    /\ LET a == rev[Latest(Approved)]
           lines == [c \in Candidates |-> IF Included(c)
                                          THEN [qty |-> cand[c].qty, price |-> price[c]]
                                          ELSE NoLine]
       IN  /\ lines # NoLines
           /\ \A c \in Candidates : Included(c) =>
                 /\ a.lines[c] # NoLine
                 /\ price[c] <= a.lines[c].price
                 /\ price[c] <= cand[c].price
           /\ Total(lines) <= a.budget
           /\ order' = [rev |-> Latest(Approved), lines |-> lines, sent |-> FALSE]
    /\ ws' = "ORDER_READY"
    /\ UNCHANGED <<cand, rev, nrev, quoted>>

\* Mutant: any order that was not sent yet can be, whatever was changed since.
MarkSentAnyStatus ==
    /\ ws \in AdjustStates
    /\ order # NoOrder
    /\ ~order.sent
    /\ order' = [order EXCEPT !.sent = TRUE]
    /\ ws' = "ORDER_SENT"
    /\ UNCHANGED <<cand, rev, nrev, quoted>>

\* OrderService.mark_sent.
MarkSent ==
    /\ ws = "ORDER_READY"
    /\ order # NoOrder
    /\ ~order.sent
    /\ order' = [order EXCEPT !.sent = TRUE]
    /\ ws' = "ORDER_SENT"
    /\ UNCHANGED <<cand, rev, nrev, quoted>>

\* ReceivingService.record_delivery and start_scan_session, seen from here.
Receive ==
    /\ ws \in {"ORDER_SENT", "RECEIVING"}
    /\ order.sent
    /\ ws' = "RECEIVING"
    /\ UNCHANGED <<cand, rev, nrev, quoted, order>>

\* ReceivingService.complete, seen from here.
Complete ==
    /\ ws = "RECEIVING"
    /\ ws' = "COMPLETED"
    /\ UNCHANGED <<cand, rev, nrev, quoted, order>>

--------------------------------------------------------------------------------
Next ==
    \/ \E c \in Candidates : Autosave(c)
    \/ BulkDecide
    \/ \E u \in Users, b \in Budgets : RequestApproval(u, b)
    \/ CancelRequest
    \/ \E u \in Users, v \in {"APPROVED", "REJECTED"} : Decide(u, v)
    \/ \E u \in Users, c \in Candidates, b \in Budgets : Adjust(u, c, b)
    \/ IngestQuote
    \/ \E price \in [Candidates -> Prices] : GenerateOrder(price)
    \/ MarkSent
    \/ Receive
    \/ Complete

Spec == Init /\ [][Next]_vars

--------------------------------------------------------------------------------
(* Properties. *)

Line  == [qty : 0..MaxQty, price : Prices \cup {0}]
Lines == [Candidates -> Line]

TypeOK ==
    /\ ws \in Status
    /\ cand \in [Candidates -> Contents]
    /\ rev \in [Revisions -> [lines : Lines, budget : Budgets \cup {0},
                              by : Users \cup {"NOBODY"}, verdict : Verdicts]]
    /\ nrev \in 0..MaxRev
    /\ quoted \subseteq 1..nrev
    /\ order \in [rev : 0..nrev, lines : Lines, sent : BOOLEAN]

AfterApproval == AdjustStates \cup {"COMPLETED"}

\* a is no more than b, line by line.
Within(a, b) ==
    \A c \in Candidates : a[c].qty > 0 => a[c].qty <= b[c].qty /\ a[c].price <= b[c].price

\* The stage a workspace shows and the verdict on its latest revision never
\* disagree, in whatever order requests, cancellations, the decisions of several
\* reviewers and changes after approval were served.
StageMatchesVerdict ==
    /\ ws = "APPROVAL_PENDING"  <=> nrev > 0 /\ rev[nrev].verdict = "OPEN"
    /\ ws = "CHANGES_REQUESTED" <=> nrev > 0 /\ rev[nrev].verdict = "REJECTED"
    /\ ws \in AfterApproval     <=> nrev > 0 /\ rev[nrev].verdict = "APPROVED"

\* While a request is pending the list that would be ordered is exactly the list
\* the reviewer was sent.
PendingIsWhatIsReviewed ==
    ws = "APPROVAL_PENDING" => rev[nrev].lines = CurrentLines

\* After approval the list stays inside what the reviewer approved, however it
\* is adjusted: no book is added, no quantity or price raised, and the approved
\* budget is only exceeded by the very list that was approved with it.
ListWithinApproval ==
    ws \in AfterApproval =>
        /\ Within(CurrentLines, rev[nrev].lines)
        /\ Total(CurrentLines) > rev[nrev].budget => CurrentLines = rev[nrev].lines

\* The order of a workspace that is ready, sent or being received was made from
\* the revision approved last and exceeds neither its lines nor its budget: an
\* order made before a reapproval is never sent or received after it.
OrderWithinApproval ==
    ws \in {"ORDER_READY", "ORDER_SENT", "RECEIVING", "COMPLETED"} =>
        /\ order.rev = nrev
        /\ Within(order.lines, rev[nrev].lines)
        /\ Total(order.lines) <= rev[nrev].budget
        /\ order.sent <=> ws # "ORDER_READY"

================================================================================
