-------------------------- MODULE ApprovalFlowProofs --------------------------
(***************************************************************************)
(* Proofs about ApprovalFlow: what is ordered stays inside what was        *)
(* approved, for every set of candidates, users, prices and budgets and    *)
(* every number of approval revisions.                                     *)
(*                                                                         *)
(* The five invariants of ApprovalFlow are inductive together.  Totals are *)
(* only compared, never computed: SumFunction stays unexpanded.            *)
(*                                                                         *)
(* The second half is about Procurement, the approval flow and Receiving   *)
(* together: it implements both, so that what is proved of each holds of   *)
(* the whole workspace.                                                    *)
(***************************************************************************)
EXTENDS Procurement, TLAPS

\* The inductive invariant.
IInv ==
    /\ TypeOK
    /\ StageMatchesVerdict
    /\ PendingIsWhatIsReviewed
    /\ ListWithinApproval
    /\ OrderWithinApproval

--------------------------------------------------------------------------------
(* Facts about the operators. *)

\* A set of revisions that has the last one and none above it has it as latest.
LEMMA LatestIsLast ==
  ASSUME NEW n \in Nat, NEW S, S \subseteq 1..n, n \in S
  PROVE  Latest(S) = n
<1>1. \A m \in S : m <= n
  OBVIOUS
<1>2. \E k \in S : \A m \in S : m <= k
  BY <1>1
<1>3. Latest(S) \in S /\ \A m \in S : m <= Latest(S)
  BY <1>2 DEF Latest
<1>4. \A k \in S : (\A m \in S : m <= k) => k = n
  BY <1>1
<1> QED BY <1>3, <1>4

\* The decision of a reviewer falls on the last revision.
LEMMA DecidedRevision ==
  ASSUME TypeOK, StageMatchesVerdict, ws = "APPROVAL_PENDING"
  PROVE  Latest(Standing) = nrev
<1>1. nrev \in Nat /\ nrev > 0 /\ rev[nrev].verdict = "OPEN"
  BY ApprovalAssumption DEF TypeOK, StageMatchesVerdict
<1>2. nrev \in Standing /\ Standing \subseteq 1..nrev
  BY <1>1 DEF Standing
<1> QED BY <1>1, <1>2, LatestIsLast

\* After approval the revision approved latest is the last one.
LEMMA ApprovedRevision ==
  ASSUME TypeOK, StageMatchesVerdict, ws \in AfterApproval
  PROVE  nrev \in 1..MaxRev /\ Latest(Approved) = nrev
<1>1. nrev \in Nat /\ nrev > 0 /\ nrev <= MaxRev /\ rev[nrev].verdict = "APPROVED"
  BY ApprovalAssumption DEF TypeOK, StageMatchesVerdict
<1>2. nrev \in Approved /\ Approved \subseteq 1..nrev
  BY <1>1 DEF Approved
<1>3. Latest(Approved) = nrev
  BY <1>1, <1>2, LatestIsLast
<1> QED BY <1>1, <1>3, ApprovalAssumption

\* The list that would be ordered is a list of lines.
LEMMA CurrentLinesType == TypeOK => CurrentLines \in Lines
<1> SUFFICES ASSUME TypeOK, NEW c \in Candidates
             PROVE  CurrentLines[c] \in Line
  BY DEF Lines, CurrentLines
<1>1. CASE Included(c)
  BY <1>1 DEF TypeOK, CurrentLines, Line, Contents
<1>2. CASE ~Included(c)
  BY <1>2, ApprovalAssumption DEF CurrentLines, NoLine, Line
<1> QED BY <1>1, <1>2

\* A change to one candidate changes no other line.
LEMMA OtherLinesStay ==
  ASSUME TypeOK, NEW c \in Candidates, NEW new, cand' = [cand EXCEPT ![c] = new],
         NEW d \in Candidates, d # c
  PROVE  CurrentLines'[d] = CurrentLines[d]
BY DEF TypeOK, CurrentLines, Included

\* A revision that is created is open, holds the lines it was given and leaves
\* the workspace's earlier revisions alone.
LEMMA CreatedRevision ==
  ASSUME TypeOK, NEW lines \in Lines, NEW b \in Budgets, NEW u \in Users,
         CreateRevision(lines, b, u)
  PROVE  /\ nrev' = nrev + 1 /\ nrev' \in 1..MaxRev
         /\ rev'[nrev'].verdict = "OPEN"
         /\ rev'[nrev'].lines = lines
         /\ rev' \in [Revisions -> [lines : Lines, budget : Budgets \cup {0},
                                    by : Users \cup {"NOBODY"}, verdict : Verdicts]]
BY ApprovalAssumption DEF TypeOK, CreateRevision, Revisions, Verdicts

\* A verdict is all that changes of a revision that is decided or cancelled.
LEMMA JudgedRevision ==
  ASSUME TypeOK, NEW n, NEW v \in Verdicts, rev' = [rev EXCEPT ![n].verdict = v]
  PROVE  rev' \in [Revisions -> [lines : Lines, budget : Budgets \cup {0},
                                 by : Users \cup {"NOBODY"}, verdict : Verdicts]]
<1>. DEFINE T == [lines : Lines, budget : Budgets \cup {0}, by : Users \cup {"NOBODY"},
                  verdict : Verdicts]
<1>1. rev \in [Revisions -> T]
  BY DEF TypeOK
<1>2. \A r \in T : [r EXCEPT !.verdict = v] \in T
  OBVIOUS
<1>. HIDE DEF T
<1>3. n \in Revisions => [rev[n] EXCEPT !.verdict = v] \in T
  BY <1>1, <1>2
<1>4. rev' \in [Revisions -> T]
  BY <1>1, <1>3
<1>. QED
  BY <1>4 DEF T

--------------------------------------------------------------------------------
(* Type correctness. *)

\* Every variable keeps its type in every request.
LEMMA TypeStep == TypeOK /\ StageMatchesVerdict /\ [Next]_vars => TypeOK'
<1> SUFFICES ASSUME TypeOK, StageMatchesVerdict, [Next]_vars PROVE TypeOK'
  OBVIOUS
<1> USE ApprovalAssumption
<1>1. ASSUME NEW c \in Candidates, Autosave(c) PROVE TypeOK'
  BY <1>1 DEF Autosave, TypeOK
<1>2. ASSUME BulkDecide PROVE TypeOK'
  <2>1. PICK S \in SUBSET Candidates, out \in Outcomes :
           cand' = [c \in Candidates |-> IF c \in S THEN [cand[c] EXCEPT !.out = out]
                                                    ELSE cand[c]]
    BY <1>2 DEF BulkDecide
  <2>2. cand' \in [Candidates -> Contents]
    BY <2>1 DEF TypeOK, Contents
  <2> QED BY <1>2, <2>2 DEF BulkDecide, TypeOK
<1>3. ASSUME NEW u \in Users, NEW b \in Budgets, RequestApproval(u, b) PROVE TypeOK'
  BY <1>3, CurrentLinesType, CreatedRevision DEF RequestApproval, TypeOK, Status
<1>4. ASSUME CancelRequest PROVE TypeOK'
  <2>1. /\ rev' = [rev EXCEPT ![nrev].verdict = "CANCELLED"] /\ ws' = "CANDIDATE_REVIEW"
        /\ UNCHANGED <<cand, nrev, quoted, order>>
    BY <1>4 DEF CancelRequest
  <2>2. rev' \in [Revisions -> [lines : Lines, budget : Budgets \cup {0},
                                by : Users \cup {"NOBODY"}, verdict : Verdicts]]
    BY <2>1, JudgedRevision DEF Verdicts
  <2> QED BY <2>1, <2>2 DEF TypeOK, Status, EditStates
<1>5. ASSUME NEW u \in Users, NEW v \in {"APPROVED", "REJECTED"}, Decide(u, v) PROVE TypeOK'
  <2>1. /\ rev' = [rev EXCEPT ![Latest(Standing)].verdict = v]
        /\ ws' \in {"APPROVED", "CHANGES_REQUESTED"}
        /\ UNCHANGED <<cand, nrev, quoted, order>>
    BY <1>5 DEF Decide
  <2>2. rev' \in [Revisions -> [lines : Lines, budget : Budgets \cup {0},
                                by : Users \cup {"NOBODY"}, verdict : Verdicts]]
    BY <2>1, JudgedRevision DEF Verdicts
  <2> QED BY <2>1, <2>2 DEF TypeOK, Status, EditStates, AdjustStates, QuoteStates
<1>6. ASSUME NEW u \in Users, NEW c \in Candidates, NEW b \in Budgets, Adjust(u, c, b)
      PROVE  TypeOK'
  <2>1. cand' \in [Candidates -> Contents]
    BY <1>6 DEF Adjust, TypeOK
  <2>2. CurrentLines' \in Lines
    <3> SUFFICES ASSUME NEW d \in Candidates PROVE CurrentLines'[d] \in Line
      BY DEF Lines, CurrentLines
    <3>1. CASE Included(d)'
      BY <2>1, <3>1 DEF CurrentLines, Line, Contents
    <3>2. CASE ~Included(d)'
      BY <3>2 DEF CurrentLines, NoLine, Line
    <3> QED BY <3>1, <3>2
  <2>3. CASE UNCHANGED <<rev, nrev, ws>>
    BY <1>6, <2>1, <2>3 DEF Adjust, TypeOK
  <2>4. CASE CreateRevision(CurrentLines', b, u) /\ ws' = "APPROVAL_PENDING"
    BY <1>6, <2>1, <2>2, <2>4, CreatedRevision DEF Adjust, TypeOK, Status
  <2> QED BY <1>6, <2>3, <2>4 DEF Adjust
<1>7. ASSUME IngestQuote PROVE TypeOK'
  <2>1. ws \in AfterApproval
    BY <1>7 DEF IngestQuote, AfterApproval, AdjustStates
  <2>2. Latest(Approved) \in 1..nrev
    BY <2>1, ApprovedRevision DEF TypeOK
  <2> QED BY <1>7, <2>2 DEF IngestQuote, TypeOK, Status, AdjustStates, QuoteStates
<1>8. ASSUME NEW price \in [Candidates -> Prices], GenerateOrder(price) PROVE TypeOK'
  <2> DEFINE lines == [c \in Candidates |-> IF Included(c)
                                            THEN [qty |-> cand[c].qty, price |-> price[c]]
                                            ELSE NoLine]
  <2>1. lines \in Lines
    <3> SUFFICES ASSUME NEW c \in Candidates PROVE lines[c] \in Line
      BY DEF Lines
    <3>1. CASE Included(c)
      BY <3>1 DEF TypeOK, Line, Contents
    <3>2. CASE ~Included(c)
      BY <3>2 DEF NoLine, Line
    <3> QED BY <3>1, <3>2
  <2>2. ws \in AfterApproval
    BY <1>8 DEF GenerateOrder, AfterApproval, AdjustStates
  <2>3. Latest(Approved) \in 0..nrev
    BY <2>2, ApprovedRevision DEF TypeOK
  <2>4. order' = [rev |-> Latest(Approved), lines |-> lines, sent |-> FALSE]
    BY <1>8 DEF GenerateOrder
  <2> HIDE DEF lines
  <2>5. order' \in [rev : 0..nrev, lines : Lines, sent : BOOLEAN]
    BY <2>1, <2>3, <2>4
  <2> QED BY <1>8, <2>5 DEF GenerateOrder, TypeOK, Status, AdjustStates, OrderStates
<1>9. CASE MarkSent
  BY <1>9 DEF MarkSent, TypeOK, Status, AdjustStates, OrderStates
<1>10. CASE Receive
  BY <1>10 DEF Receive, TypeOK, Status, AdjustStates, OrderStates
<1>11. CASE Complete
  BY <1>11 DEF Complete, TypeOK, Status
<1>12. CASE UNCHANGED vars
  BY <1>12 DEF vars, TypeOK
<1> QED
  BY <1>1, <1>2, <1>3, <1>4, <1>5, <1>6, <1>7, <1>8, <1>9, <1>10, <1>11, <1>12 DEF Next

(* The safety invariants. *)

\* The stage of a workspace and the verdict on its last revision agree.
LEMMA StageStep == TypeOK /\ StageMatchesVerdict /\ [Next]_vars => StageMatchesVerdict'
<1> SUFFICES ASSUME TypeOK, StageMatchesVerdict, [Next]_vars PROVE StageMatchesVerdict'
  OBVIOUS
<1> USE ApprovalAssumption DEF StageMatchesVerdict, AfterApproval, AdjustStates, QuoteStates,
        OrderStates
<1>1. ASSUME NEW c \in Candidates, Autosave(c) PROVE StageMatchesVerdict'
  BY <1>1 DEF Autosave
<1>2. CASE BulkDecide
  BY <1>2 DEF BulkDecide
<1>3. ASSUME NEW u \in Users, NEW b \in Budgets, RequestApproval(u, b)
      PROVE  StageMatchesVerdict'
  BY <1>3, CurrentLinesType, CreatedRevision DEF RequestApproval
<1>4. CASE CancelRequest
  BY <1>4 DEF CancelRequest, TypeOK, Revisions
<1>5. ASSUME NEW u \in Users, NEW v \in {"APPROVED", "REJECTED"}, Decide(u, v)
      PROVE  StageMatchesVerdict'
  <2>1. Latest(Standing) = nrev
    BY <1>5, DecidedRevision DEF Decide
  <2> QED BY <1>5, <2>1 DEF Decide, TypeOK, Revisions
<1>6. ASSUME NEW u \in Users, NEW c \in Candidates, NEW b \in Budgets, Adjust(u, c, b)
      PROVE  StageMatchesVerdict'
  <2>1. CASE UNCHANGED <<rev, nrev, ws>>
    BY <2>1
  <2>2. CASE CreateRevision(CurrentLines', b, u) /\ ws' = "APPROVAL_PENDING"
    BY <2>2 DEF CreateRevision, TypeOK, Revisions
  <2> QED BY <1>6, <2>1, <2>2 DEF Adjust
<1>7. CASE IngestQuote
  BY <1>7 DEF IngestQuote
<1>8. ASSUME NEW price \in [Candidates -> Prices], GenerateOrder(price)
      PROVE  StageMatchesVerdict'
  BY <1>8 DEF GenerateOrder
<1>9. CASE MarkSent
  BY <1>9 DEF MarkSent
<1>10. CASE Receive
  BY <1>10 DEF Receive
<1>11. CASE Complete
  BY <1>11 DEF Complete
<1>12. CASE UNCHANGED vars
  BY <1>12 DEF vars
<1> QED
  BY <1>1, <1>2, <1>3, <1>4, <1>5, <1>6, <1>7, <1>8, <1>9, <1>10, <1>11, <1>12 DEF Next

\* A pending revision stays the list that would be ordered.
LEMMA PendingStep ==
  ASSUME TypeOK, StageMatchesVerdict, PendingIsWhatIsReviewed, [Next]_vars
  PROVE  PendingIsWhatIsReviewed'
<1> SUFFICES ASSUME ws' = "APPROVAL_PENDING" PROVE rev'[nrev'].lines = CurrentLines'
  BY DEF PendingIsWhatIsReviewed
<1>1. ASSUME NEW u \in Users, NEW b \in Budgets, RequestApproval(u, b)
      PROVE  rev'[nrev'].lines = CurrentLines'
  <2>1. CurrentLines' = CurrentLines
    BY <1>1 DEF RequestApproval, CurrentLines, Included
  <2> QED BY <1>1, <2>1, CurrentLinesType, CreatedRevision DEF RequestApproval
<1>2. ASSUME NEW u \in Users, NEW c \in Candidates, NEW b \in Budgets, Adjust(u, c, b)
      PROVE  rev'[nrev'].lines = CurrentLines'
  <2>1. CreateRevision(CurrentLines', b, u)
    BY <1>2 DEF Adjust, AdjustStates, QuoteStates, OrderStates
  <2> QED BY <2>1, ApprovalAssumption DEF CreateRevision, TypeOK, Revisions
<1>3. CASE UNCHANGED vars
  <2>1. CurrentLines' = CurrentLines
    BY <1>3 DEF vars, CurrentLines, Included
  <2> QED BY <1>3, <2>1 DEF vars, PendingIsWhatIsReviewed
<1> QED
  BY <1>1, <1>2, <1>3
  DEF Next, Autosave, BulkDecide, EditStates, CancelRequest, Decide, IngestQuote, GenerateOrder,
      MarkSent, Receive, Complete

\* Quantities and prices of a line are natural numbers.
LEMMA LineNumbers ==
  ASSUME NEW lines \in Lines, NEW c \in Candidates
  PROVE  lines[c].qty \in Nat /\ lines[c].price \in Nat
<1>1. lines[c] \in Line
  BY DEF Lines
<1>2. lines[c].qty \in 0..MaxQty /\ lines[c].price \in Prices \cup {0}
  BY <1>1 DEF Line
<1>3. 0..MaxQty \subseteq Nat /\ Prices \cup {0} \subseteq Nat
  BY ApprovalAssumption
<1> QED BY <1>2, <1>3, Zenon

\* A list of lines is within itself.
LEMMA WithinItself == ASSUME NEW lines \in Lines PROVE Within(lines, lines)
<1>1. ASSUME NEW c \in Candidates
      PROVE  lines[c].qty <= lines[c].qty /\ lines[c].price <= lines[c].price
  BY LineNumbers
<1> QED BY <1>1 DEF Within

\* After approval the list stays inside the revision that was approved last.
LEMMA ListStep ==
  ASSUME TypeOK, StageMatchesVerdict, PendingIsWhatIsReviewed, ListWithinApproval, [Next]_vars
  PROVE  ListWithinApproval'
<1> SUFFICES ASSUME ws' \in AfterApproval
             PROVE  /\ Within(CurrentLines, rev[nrev].lines)'
                    /\ (Total(CurrentLines) > rev[nrev].budget => CurrentLines = rev[nrev].lines)'
  BY DEF ListWithinApproval
<1> DEFINE Goal == /\ Within(CurrentLines, rev[nrev].lines)
                   /\ Total(CurrentLines) > rev[nrev].budget => CurrentLines = rev[nrev].lines
<1>1. ASSUME ws \in AfterApproval, UNCHANGED <<cand, rev, nrev>> PROVE Goal'
  <2>1. Goal
    BY <1>1 DEF ListWithinApproval
  <2>2. CurrentLines' = CurrentLines
    BY <1>1 DEF CurrentLines, Included
  <2> QED BY <1>1, <2>1, <2>2 DEF Within, Total
<1>2. ASSUME NEW u \in Users, NEW v \in {"APPROVED", "REJECTED"}, Decide(u, v) PROVE Goal'
  <2>1. ws = "APPROVAL_PENDING" /\ Latest(Standing) = nrev
    BY <1>2, DecidedRevision DEF Decide
  <2>2. rev'[nrev'].lines = rev[nrev].lines
    BY <1>2, <2>1, ApprovalAssumption DEF Decide, TypeOK, Revisions, StageMatchesVerdict
  <2>3. CurrentLines' = CurrentLines
    BY <1>2 DEF Decide, CurrentLines, Included
  <2>4. rev'[nrev'].lines = CurrentLines'
    BY <2>1, <2>2, <2>3 DEF PendingIsWhatIsReviewed
  <2>5. Within(CurrentLines', rev'[nrev'].lines)
    BY <2>3, <2>4, CurrentLinesType, WithinItself
  <2> QED BY <2>4, <2>5 DEF Within
<1>3. ASSUME NEW u \in Users, NEW c \in Candidates, NEW b \in Budgets, Adjust(u, c, b) PROVE Goal'
  <2>1. ws \in AfterApproval
    BY <1>3 DEF Adjust, AfterApproval
  <2>2. Latest(Approved) = nrev /\ nrev \in Revisions
    BY <2>1, ApprovedRevision DEF Revisions
  <2>3. ~NeedsReapproval(c, CurrentLines', b) /\ UNCHANGED <<rev, nrev, ws>>
    BY <1>3 DEF Adjust, AfterApproval, AdjustStates, QuoteStates, OrderStates
  <2>4. CurrentLines' \in Lines /\ CurrentLines \in Lines
    <3>1. TypeOK'
      BY TypeStep
    <3>2. (TypeOK => CurrentLines \in Lines)'
      BY CurrentLinesType, PTL
    <3> QED BY <3>1, <3>2, CurrentLinesType
  <2>5. ASSUME NEW d \in Candidates, CurrentLines'[d].qty > 0
        PROVE  /\ CurrentLines'[d].qty <= rev[nrev].lines[d].qty
               /\ CurrentLines'[d].price <= rev[nrev].lines[d].price
    <3>0. rev[nrev].lines \in Lines
      BY <2>2 DEF TypeOK
    <3>1. CASE d = c
      <4>1. /\ CurrentLines'[c].qty \in Nat /\ CurrentLines'[c].price \in Nat
            /\ rev[nrev].lines[c].qty \in Nat /\ rev[nrev].lines[c].price \in Nat
        BY <2>4, <3>0, LineNumbers
      <4>2. /\ ~(CurrentLines'[c].qty > rev[nrev].lines[c].qty)
            /\ ~(CurrentLines'[c].qty > 0 /\ CurrentLines'[c].price > rev[nrev].lines[c].price)
        BY <2>2, <2>3 DEF NeedsReapproval
      <4> QED BY <2>5, <3>1, <4>1, <4>2
    <3>2. CASE d # c
      <4>1. CurrentLines'[d] = CurrentLines[d]
        BY <1>3, <3>2, OtherLinesStay DEF Adjust
      <4> QED BY <2>1, <2>5, <4>1 DEF ListWithinApproval, Within
    <3> QED BY <3>1, <3>2
  <2>6. Within(CurrentLines', rev'[nrev'].lines)
    BY <2>3, <2>5 DEF Within
  <2>7. ~(Total(CurrentLines') > rev'[nrev'].budget)
    BY <2>2, <2>3 DEF NeedsReapproval
  <2> QED BY <2>6, <2>7 DEF Within, Total
<1>4. CASE UNCHANGED vars
  BY <1>1, <1>4 DEF vars
<1> QED
  BY <1>1, <1>2, <1>3, <1>4
  DEF Next, AfterApproval, AdjustStates, QuoteStates, OrderStates, Autosave, BulkDecide,
      EditStates, RequestApproval, CancelRequest, IngestQuote, GenerateOrder, MarkSent,
      Receive, Complete

\* The current order stays inside the revision that was approved last.
LEMMA OrderStep ==
  ASSUME TypeOK, StageMatchesVerdict, ListWithinApproval, OrderWithinApproval, [Next]_vars
  PROVE  OrderWithinApproval'
<1> DEFINE Placed == {"ORDER_READY", "ORDER_SENT", "RECEIVING", "COMPLETED"}
           Goal   == /\ order.rev = nrev
                     /\ Within(order.lines, rev[nrev].lines)
                     /\ Total(order.lines) <= rev[nrev].budget
                     /\ order.sent <=> ws # "ORDER_READY"
<1> SUFFICES ASSUME ws' \in Placed PROVE Goal'
  BY DEF OrderWithinApproval
<1>1. ASSUME ws \in Placed, UNCHANGED <<rev, nrev, order.rev, order.lines>>,
             order'.sent <=> ws' # "ORDER_READY"
      PROVE  Goal'
  BY <1>1 DEF OrderWithinApproval, Within, Total
<1>2. ASSUME NEW price \in [Candidates -> Prices], GenerateOrder(price) PROVE Goal'
  <2> DEFINE lines == [c \in Candidates |-> IF Included(c)
                                            THEN [qty |-> cand[c].qty, price |-> price[c]]
                                            ELSE NoLine]
  <2>1. ws \in AfterApproval
    BY <1>2 DEF GenerateOrder, AfterApproval, AdjustStates
  <2>2. Latest(Approved) = nrev
    BY <2>1, ApprovedRevision
  <2>3. order' = [rev |-> nrev, lines |-> lines, sent |-> FALSE] /\ ws' = "ORDER_READY"
    BY <1>2, <2>2 DEF GenerateOrder
  <2>4. ASSUME NEW c \in Candidates, lines[c].qty > 0
        PROVE  lines[c].qty <= rev[nrev].lines[c].qty /\ lines[c].price <= rev[nrev].lines[c].price
    <3>1. Included(c)
      BY <2>4 DEF NoLine
    <3>2. price[c] <= rev[nrev].lines[c].price
      BY <1>2, <2>2, <3>1 DEF GenerateOrder
    <3>3. CurrentLines[c].qty > 0 /\ CurrentLines[c].qty = lines[c].qty
      BY <2>4, <3>1 DEF CurrentLines
    <3>4. lines[c].qty <= rev[nrev].lines[c].qty
      BY <2>1, <3>3 DEF ListWithinApproval, Within
    <3> QED BY <3>1, <3>2, <3>4
  <2>5. Total(lines) <= rev[nrev].budget
    BY <1>2, <2>2 DEF GenerateOrder
  <2> HIDE DEF lines
  <2>6. order'.rev = nrev /\ order'.lines = lines /\ order'.sent = FALSE
    BY <2>3
  <2>7. UNCHANGED <<rev, nrev>>
    BY <1>2 DEF GenerateOrder
  <2> QED BY <2>3, <2>4, <2>5, <2>6, <2>7 DEF Within, Total
<1>3. CASE MarkSent
  <2>1. order' = [order EXCEPT !.sent = TRUE] /\ ws = "ORDER_READY" /\ ws' = "ORDER_SENT"
    BY <1>3 DEF MarkSent
  <2>2. order'.rev = order.rev /\ order'.lines = order.lines /\ order'.sent = TRUE
    BY <2>1 DEF TypeOK
  <2> QED BY <1>1, <1>3, <2>1, <2>2 DEF MarkSent
<1>4. CASE Receive
  BY <1>1, <1>4 DEF Receive
<1>5. CASE Complete
  BY <1>1, <1>5 DEF Complete, OrderWithinApproval
<1>6. CASE UNCHANGED vars
  BY <1>1, <1>6 DEF vars, OrderWithinApproval
<1>7. ASSUME NEW u \in Users, NEW c \in Candidates, NEW b \in Budgets, Adjust(u, c, b) PROVE Goal'
  <2>1. UNCHANGED <<rev, nrev, ws, order>>
    BY <1>7 DEF Adjust
  <2> QED BY <1>1, <2>1 DEF OrderWithinApproval
<1> QED
  BY <1>2, <1>3, <1>4, <1>5, <1>6, <1>7
  DEF Next, Autosave, BulkDecide, EditStates, RequestApproval, CancelRequest, Decide, IngestQuote

--------------------------------------------------------------------------------
(* The theorems. *)

\* The five invariants hold when candidate review starts.
LEMMA InitIInv == Init => IInv
<1> SUFFICES ASSUME Init PROVE IInv
  OBVIOUS
<1> USE ApprovalAssumption
<1>1. NoLines \in Lines
  BY DEF NoLines, NoLine, Lines, Line
<1>2. TypeOK
  BY <1>1 DEF Init, TypeOK, Status, EditStates, NoRevision, NoOrder, Revisions, Verdicts
<1>3. StageMatchesVerdict /\ PendingIsWhatIsReviewed /\ ListWithinApproval /\ OrderWithinApproval
  BY DEF Init, StageMatchesVerdict, PendingIsWhatIsReviewed, ListWithinApproval,
         OrderWithinApproval, AfterApproval, AdjustStates, QuoteStates, OrderStates
<1> QED BY <1>2, <1>3 DEF IInv

\* Every request keeps them.
LEMMA NextIInv == IInv /\ [Next]_vars => IInv'
BY TypeStep, StageStep, PendingStep, ListStep, OrderStep DEF IInv

\* The five invariants hold in every reachable state.
THEOREM Invariant == Spec => []IInv
BY InitIInv, NextIInv, PTL DEF Spec

\* Type correctness of candidates, approval revisions and the current order.
THEOREM TypeCorrect == Spec => []TypeOK
<1>1. IInv => TypeOK
  BY DEF IInv
<1> QED BY <1>1, Invariant, PTL

\* The stage shown and the verdict on the last revision never disagree, for any
\* number of revisions and of reviewers deciding.
THEOREM StageIsVerdict == Spec => []StageMatchesVerdict
<1>1. IInv => StageMatchesVerdict
  BY DEF IInv
<1> QED BY <1>1, Invariant, PTL

\* A reviewer decides about exactly the list that would be ordered.
THEOREM ReviewedListIsCurrent == Spec => []PendingIsWhatIsReviewed
<1>1. IInv => PendingIsWhatIsReviewed
  BY DEF IInv
<1> QED BY <1>1, Invariant, PTL

\* However it is adjusted after approval, the list stays inside the approval.
THEOREM ListStaysApproved == Spec => []ListWithinApproval
<1>1. IInv => ListWithinApproval
  BY DEF IInv
<1> QED BY <1>1, Invariant, PTL

\* What is sent to the vendor and received was approved: no line beyond the last
\* approved revision and no total beyond its budget.
THEOREM OrderStaysApproved == Spec => []OrderWithinApproval
<1>1. IInv => OrderWithinApproval
  BY DEF IInv
<1> QED BY <1>1, Invariant, PTL

--------------------------------------------------------------------------------
(* The workspace as a whole. *)

\* The stage of the order and the quantities ordered, as receiving sees them.
Stage   == IF ws \in OrderedStages THEN ws ELSE "REVISING"
Ordered == [c \in Candidates |-> order.lines[c].qty]

--------------------------------------------------------------------------------
(* The workspace keeps to the approval flow: whatever receiving does, it does  *)
(* no more to the approval and the order than ApprovalFlow lets it.            *)

\* A workspace that begins to be received has begun to be reviewed.
LEMMA ApprovalInit == ProcurementInit => Init
BY DEF ProcurementInit

\* Every step is one of the approval flow, or leaves it alone.
LEMMA ApprovalStep == [ProcurementNext]_procurementVars => [Next]_vars
<1>. SUFFICES ASSUME [ProcurementNext]_procurementVars PROVE Next \/ UNCHANGED vars
  OBVIOUS
<1>1. CASE Prepare
  BY <1>1 DEF Prepare, Next
<1>2. CASE ~Prepare
  BY <1>2 DEF ProcurementNext, PlaceOrder, SendOrder, Deliver, StartSession, ScanOne, Dispose,
     CompleteWorkspace, procurementVars, Next
<1>. QED
  BY <1>1, <1>2

\* All that is proved above holds while copies are delivered, scanned and disposed of.
THEOREM ProcurementImplementsApproval == ProcurementSpec => Spec
<1>1. ProcurementInit => Init
  BY ApprovalInit
<1>. QED
  BY <1>1, ApprovalStep, PTL DEF ProcurementSpec, Spec

--------------------------------------------------------------------------------
(* The workspace keeps to Receiving: an order is only replaced, and the stage  *)
(* only changed, as Receiving expects it of what it does not model.            *)

\* While requests prepare the next order, receiving stands still or is told that
\* its order is being revised.
LEMMA PrepareReceives ==
  ASSUME IInv, Prepare
  PROVE  [R!Next]_R!vars
<1>1. UNCHANGED <<session, scans, delivered, short, partial, loose, order>>
  BY DEF Prepare, receivingVars, Autosave, BulkDecide, RequestApproval, CancelRequest, Decide, Adjust, IngestQuote
<1>2. ws' = ws \/ (ws' \notin OrderedStages /\ ws # "COMPLETED")
  BY DEF Prepare, OrderedStages, Autosave, BulkDecide, RequestApproval, CancelRequest, Decide, Adjust, IngestQuote,
     EditStates, AdjustStates, QuoteStates, OrderStates
<1>3. CASE Stage' = Stage
  BY <1>1, <1>3 DEF R!vars, R!orderVars, R!countVars, R!diffVars, Stage
<1>4. CASE Stage' # Stage
  <2>1. Stage' = "REVISING" /\ Stage \in {"ORDER_READY", "ORDER_SENT", "RECEIVING"}
    BY <1>2, <1>4 DEF Stage, OrderedStages
  <2>. QED
    BY <1>1, <2>1 DEF R!Next, R!Reapprove, R!orderVars, R!countVars, R!diffVars, Stage
<1>. QED
  BY <1>3, <1>4

\* An order has a line, of a quantity in range, and is not sent: receiving begins anew.
LEMMA PlaceOrderReceives ==
  ASSUME IInv, NEW price \in [Candidates -> Prices], PlaceOrder(price)
  PROVE  R!GenerateOrder
<1>1. TypeOK'
  BY ApprovalStep, NextIInv DEF IInv, ProcurementNext
<1>2. /\ Ordered' \in [Candidates -> 0..MaxQty] /\ order'.sent = FALSE /\ ws' = "ORDER_READY"
      /\ \E c \in Candidates : Ordered'[c] > 0
  <2>1. ws' = "ORDER_READY" /\ order'.sent = FALSE /\ order'.lines # NoLines
    BY DEF PlaceOrder, GenerateOrder
  <2>2. order'.lines \in Lines /\ \A c \in Candidates : order'.lines[c] = NoLine \/ order'.lines[c].qty > 0
    <3>1. \A c \in Candidates : order'.lines[c] = NoLine \/ (Included(c) /\ order'.lines[c].qty = cand[c].qty)
      BY DEF PlaceOrder, GenerateOrder
    <3>. QED
      BY <1>1, <3>1 DEF TypeOK, Included
  <2>3. \E c \in Candidates : order'.lines[c] # NoLine
    BY <2>1, <2>2 DEF NoLines, Lines
  <2>. QED
    BY <2>1, <2>2, <2>3 DEF Ordered, Lines, Line
<1>3. Stage \in {"REVISING", "ORDER_READY", "ORDER_SENT", "RECEIVING"} /\ Stage' = "ORDER_READY"
  BY <1>2 DEF Stage, PlaceOrder, GenerateOrder, OrderedStages, OrderStates
<1>. QED
  BY <1>2, <1>3 DEF R!GenerateOrder, PlaceOrder, Stage, Ordered

\* Every step is one of receiving, or leaves it alone.
LEMMA ReceivingStep == IInv /\ [ProcurementNext]_procurementVars => [R!Next]_R!vars
<1>. SUFFICES ASSUME IInv, [ProcurementNext]_procurementVars PROVE R!Next \/ UNCHANGED R!vars
  OBVIOUS
<1>1. CASE Prepare
  BY <1>1, PrepareReceives
<1>2. ASSUME NEW price \in [Candidates -> Prices], PlaceOrder(price) PROVE R!Next
  BY <1>2, PlaceOrderReceives DEF R!Next
<1>3. CASE SendOrder
  <2>1. ws = "ORDER_READY" /\ ws' = "ORDER_SENT" /\ ~order.sent /\ UNCHANGED receivingVars
        /\ order' = [order EXCEPT !.sent = TRUE] /\ order \in [rev : 0..nrev, lines : Lines, sent : BOOLEAN]
    BY <1>3 DEF SendOrder, MarkSent, IInv, TypeOK
  <2>2. order'.sent = TRUE /\ order'.lines = order.lines
    BY <2>1
  <2>3. Stage = "ORDER_READY" /\ Stage' = "ORDER_SENT" /\ Ordered' = Ordered
    BY <2>1, <2>2 DEF Stage, Ordered, OrderedStages
  <2>. QED
    BY <2>1, <2>2, <2>3 DEF R!Next, R!MarkSent, R!countVars, R!diffVars, receivingVars, Stage, Ordered
<1>4. ASSUME NEW batch \in [Candidates -> 0..MaxReceived], NEW extra \in 0..MaxLoose, Deliver(batch, extra)
      PROVE  R!Next
  BY <1>4 DEF Deliver, R!Next
<1>5. CASE StartSession
  BY <1>5 DEF StartSession, R!Next
<1>6. CASE ScanOne \/ Dispose \/ CompleteWorkspace
  BY <1>6 DEF ScanOne, Dispose, CompleteWorkspace, R!Next
<1>7. CASE UNCHANGED procurementVars
  <2>1. UNCHANGED <<ws, order, session, scans, delivered, short, partial, loose>>
    BY <1>7 DEF procurementVars, receivingVars, vars
  <2>. QED
    BY <2>1 DEF R!vars, R!orderVars, R!countVars, R!diffVars
<1>. QED
  BY <1>1, <1>2, <1>3, <1>4, <1>5, <1>6, <1>7 DEF ProcurementNext

\* Before the first order receiving is in its first state.
LEMMA ReceivingInit == ProcurementInit => R!Init
<1>. SUFFICES ASSUME ProcurementInit PROVE R!Init
  OBVIOUS
<1>1. Stage = "REVISING" /\ Ordered = [c \in Candidates |-> 0] /\ order.sent = FALSE
  BY DEF ProcurementInit, Init, Stage, Ordered, OrderedStages, NoOrder, NoLines, NoLine
<1>. QED
  BY <1>1 DEF ProcurementInit, R!Init, Stage, Ordered

\* The invariant of the approval flow holds of the workspace.
LEMMA ApprovalHolds == ProcurementSpec => []IInv
BY ProcurementImplementsApproval, Invariant, PTL

\* The approval flow and the order services drive receiving as it was modelled on
\* its own, with orders that come from nowhere.
THEOREM ProcurementImplementsReceiving == ProcurementSpec => ImplementsReceiving
<1>1. ProcurementSpec => ProcurementInit /\ [][ProcurementNext]_procurementVars
  BY DEF ProcurementSpec
<1>. QED
  BY <1>1, ReceivingInit, ReceivingStep, ApprovalHolds, PTL DEF ImplementsReceiving, R!Spec

--------------------------------------------------------------------------------
(* What is received is inside what was approved. *)

\* Something was counted or disposed of for the current order.
Counted == \E c \in Candidates : scans[c] > 0 \/ delivered[c] > 0 \/ short[c].disposed \/ partial[c].disposed

\* Nothing is counted for an order that was not sent.
CountedIsSent == Counted => order.sent

\* The current order stays inside the revision it was made from, and that stays
\* approved, whatever becomes of later revisions.
OrderIsApproved ==
    \/ order = NoOrder
    \/ /\ order.rev \in Approved
       /\ Within(order.lines, rev[order.rev].lines)
       /\ Total(order.lines) <= rev[order.rev].budget

\* The inductive invariant: with that of the approval flow, that the order is
\* approved outlives the reapprovals that its stage does not.
ProcurementInv == IInv /\ CountedIsSent /\ OrderIsApproved

\* An approved revision stays approved, with its lines and its budget: only the
\* latest can be decided or cancelled, and only while it is open.
LEMMA ApprovedStays ==
  ASSUME IInv, IInv', [Next]_vars, NEW n \in Approved
  PROVE  n \in Approved' /\ rev'[n].lines = rev[n].lines /\ rev'[n].budget = rev[n].budget
<1>. USE ApprovalAssumption
<1>1. /\ n \in 1..nrev /\ nrev \in 0..MaxRev /\ n \in Revisions /\ rev[n].verdict = "APPROVED"
      /\ rev \in [Revisions -> [lines : Lines, budget : Budgets \cup {0},
                                by : Users \cup {"NOBODY"}, verdict : Verdicts]]
  BY DEF Approved, IInv, TypeOK, Revisions
<1>2. /\ nrev \in 1..MaxRev /\ nrev \in Nat /\ nrev' \in Nat
      /\ ws = "APPROVAL_PENDING" => rev[nrev].verdict = "OPEN"
  BY <1>1 DEF IInv, TypeOK, StageMatchesVerdict
<1>3. CASE UNCHANGED <<rev, nrev>>
  BY <1>3 DEF Approved
<1>4. CASE \E lines, b, u : CreateRevision(lines, b, u)
  BY <1>1, <1>2, <1>4 DEF CreateRevision, Approved
<1>5. CASE CancelRequest
  <2>1. n # nrev /\ rev' = [rev EXCEPT ![nrev].verdict = "CANCELLED"] /\ nrev' = nrev
    BY <1>1, <1>5 DEF CancelRequest
  <2>2. rev'[n] = rev[n]
    BY <1>1, <2>1
  <2>. QED
    BY <1>1, <2>1, <2>2 DEF Approved
<1>6. ASSUME NEW u \in Users, NEW v \in {"APPROVED", "REJECTED"}, Decide(u, v)
      PROVE  n \in Approved' /\ rev'[n].lines = rev[n].lines /\ rev'[n].budget = rev[n].budget
  <2>1. /\ Latest(Standing) = nrev /\ nrev' = nrev /\ n # nrev
        /\ rev' = [rev EXCEPT ![nrev].verdict = v]
    <3>1. ws = "APPROVAL_PENDING"
      BY <1>6 DEF Decide
    <3>2. Latest(Standing) = nrev
      BY <3>1, DecidedRevision DEF IInv
    <3>. QED
      BY <1>1, <1>2, <1>6, <3>1, <3>2 DEF Decide
  <2>2. rev'[n] = rev[n]
    BY <1>1, <2>1
  <2>. QED
    BY <1>1, <2>1, <2>2 DEF Approved
<1>7. \/ UNCHANGED <<rev, nrev>> \/ \E lines, b, u : CreateRevision(lines, b, u)
      \/ CancelRequest \/ \E u \in Users, v \in {"APPROVED", "REJECTED"} : Decide(u, v)
  BY DEF Next, vars, Autosave, BulkDecide, RequestApproval, Adjust, IngestQuote, GenerateOrder,
     MarkSent, Receive, Complete
<1>. QED
  BY <1>3, <1>4, <1>5, <1>6, <1>7

\* At the stages of an order the revision approved last is the one it is inside of.
LEMMA CurrentOrderIsApproved == IInv /\ ws \in OrderedStages => OrderIsApproved
<1>. SUFFICES ASSUME IInv, ws \in OrderedStages PROVE OrderIsApproved
  OBVIOUS
<1>1. ws \in AfterApproval /\ nrev \in 0..MaxRev
  BY DEF OrderedStages, AfterApproval, AdjustStates, OrderStates, IInv, TypeOK
<1>2. nrev > 0 /\ rev[nrev].verdict = "APPROVED"
  BY <1>1 DEF IInv, StageMatchesVerdict
<1>3. nrev \in Approved
  BY <1>1, <1>2, ApprovalAssumption DEF Approved
<1>. QED
  BY <1>3 DEF IInv, OrderWithinApproval, OrderIsApproved, OrderedStages

\* The same after a step.
LEMMA NextOrderIsApproved == (IInv /\ ws \in OrderedStages => OrderIsApproved)'
BY CurrentOrderIsApproved, PTL

\* An order is made at a stage of an order; at the others it does not change.
LEMMA CurrentOrderStep == IInv /\ [Next]_vars /\ OrderIsApproved => OrderIsApproved'
<1>. SUFFICES ASSUME IInv, [Next]_vars, OrderIsApproved PROVE OrderIsApproved'
  OBVIOUS
<1>0. IInv'
  BY NextIInv
<1>1. CASE ws' \in OrderedStages
  BY <1>0, <1>1, NextOrderIsApproved DEF OrderedStages
<1>2. CASE ws' \notin OrderedStages
  <2>1. order' = order
    BY <1>2 DEF OrderedStages, Next, vars, Autosave, BulkDecide, RequestApproval, CancelRequest,
       Decide, Adjust, IngestQuote, GenerateOrder, MarkSent, Receive, Complete
  <2>2. CASE order = NoOrder
    BY <2>1, <2>2 DEF OrderIsApproved, NoOrder, NoLines, NoLine
  <2>3. CASE order # NoOrder
    <3>1. order.rev \in Approved /\ Within(order.lines, rev[order.rev].lines)
          /\ Total(order.lines) <= rev[order.rev].budget
      BY <2>3 DEF OrderIsApproved
    <3>2. /\ order.rev \in Approved' /\ rev'[order.rev].lines = rev[order.rev].lines
          /\ rev'[order.rev].budget = rev[order.rev].budget
      BY <1>0, <3>1, ApprovedStays
    <3>. QED
      BY <2>1, <3>1, <3>2 DEF OrderIsApproved, Within, Total
  <2>. QED
    BY <2>2, <2>3
<1>. QED
  BY <1>1, <1>2

\* What counts or disposes asks for a transmission, and a new order has no counts.
LEMMA CountedStep == CountedIsSent /\ [ProcurementNext]_procurementVars => CountedIsSent'
<1>. SUFFICES ASSUME CountedIsSent, [ProcurementNext]_procurementVars PROVE CountedIsSent'
  OBVIOUS
<1>1. ASSUME NEW price, PlaceOrder(price) PROVE ~Counted'
  BY <1>1 DEF PlaceOrder, Counted, R!NoDifference
<1>2. CASE Prepare \/ SendOrder \/ CompleteWorkspace \/ UNCHANGED procurementVars
  <2>1. UNCHANGED <<scans, delivered, short, partial>>
    BY <1>2 DEF Prepare, SendOrder, CompleteWorkspace, procurementVars, receivingVars, R!Complete,
       R!countVars, R!diffVars
  <2>2. order.sent => order'.sent
    <3>1. CASE Prepare \/ CompleteWorkspace \/ UNCHANGED procurementVars
      BY <3>1 DEF Prepare, CompleteWorkspace, procurementVars, vars, Autosave, BulkDecide,
         RequestApproval, CancelRequest, Decide, Adjust, IngestQuote, Complete
    <3>2. CASE SendOrder
      BY <3>2 DEF SendOrder, MarkSent
    <3>. QED
      BY <1>2, <3>1, <3>2
  <2>. QED
    BY <2>1, <2>2 DEF CountedIsSent, Counted
<1>3. ASSUME NEW batch, NEW extra, Deliver(batch, extra) PROVE order'.sent
  BY <1>3 DEF Deliver, Receive
<1>4. ASSUME StartSession PROVE order'.sent
  BY <1>4 DEF StartSession, Receive
<1>5. ASSUME ScanOne \/ Dispose PROVE order'.sent
  <2>1. order' = order
    BY <1>5 DEF ScanOne, Dispose, vars
  <2>2. CASE Dispose
    BY <2>1, <2>2 DEF Dispose, R!SetDisposition
  <2>3. CASE ScanOne
    BY <2>1, <2>3 DEF ScanOne, R!ScanOther, R!Scan
  <2>. QED
    BY <1>5, <2>2, <2>3
<1>. QED
  BY <1>1, <1>2, <1>3, <1>4, <1>5 DEF ProcurementNext, CountedIsSent

\* The invariant holds in every reachable state.
LEMMA ProcurementInvariant == ProcurementSpec => []ProcurementInv
<1>1. ProcurementInit => CountedIsSent /\ OrderIsApproved
  BY DEF ProcurementInit, Init, CountedIsSent, OrderIsApproved, Counted, R!NoDifference
<1>2. CountedIsSent /\ OrderIsApproved /\ IInv /\ [ProcurementNext]_procurementVars
        => CountedIsSent' /\ OrderIsApproved'
  BY ApprovalStep, CurrentOrderStep, CountedStep
<1>. QED
  BY <1>1, <1>2, ApprovalHolds, PTL DEF ProcurementSpec, ProcurementInv

\* Nothing is counted or disposed of in ReceivingService but for an order that was
\* sent and is inside an approved revision, also while a reapproval is under way.
THEOREM ReceivedIsApprovedHolds == ProcurementSpec => []ReceivedIsApproved
<1>1. ProcurementInv => ReceivedIsApproved
  <2>. SUFFICES ASSUME ProcurementInv, Counted PROVE ReceivedIsApproved
    BY DEF ReceivedIsApproved, Counted
  <2>1. order.sent /\ order # NoOrder
    BY DEF ProcurementInv, CountedIsSent, NoOrder
  <2>. QED
    BY <2>1 DEF ProcurementInv, OrderIsApproved, ReceivedIsApproved
<1>. QED
  BY <1>1, ProcurementInvariant, PTL

--------------------------------------------------------------------------------
(* What is proved of Receiving holds of the workspace. *)

\* The proofs about Receiving, of the order of the workspace.
RP == INSTANCE ReceivingProofs WITH
    Books   <- Candidates,
    ws      <- IF ws \in OrderedStages THEN ws ELSE "REVISING",
    ordered <- [c \in Candidates |-> order.lines[c].qty],
    sent    <- order.sent

\* The constants are as those proofs assume.
LEMMA ReceivingConstants == RP!ReceivingAssumption
BY ApprovalAssumption, ProcurementAssumption DEF RP!ReceivingAssumption

\* They are about the same specification.
LEMMA SameReceiving == R!Spec => RP!Spec
<1>1. R!Init => RP!Init
  BY DEF R!Init, RP!Init, R!NoDifference, RP!NoDifference
<1>2. [R!Next]_R!vars => [RP!Next]_RP!vars
  BY DEF R!Next, RP!Next, R!vars, RP!vars, R!orderVars, RP!orderVars, R!countVars,
     RP!countVars, R!diffVars, RP!diffVars, R!GenerateOrder, RP!GenerateOrder, R!Reapprove,
     RP!Reapprove, R!MarkSent, RP!MarkSent, R!RecordDelivery, RP!RecordDelivery,
     R!StartScanSession, RP!StartScanSession, R!Scan, RP!Scan, R!ScanOther, RP!ScanOther,
     R!SetDisposition, RP!SetDisposition, R!Complete, RP!Complete, R!RefreshShortages,
     RP!RefreshShortages, R!RefreshDelivered, RP!RefreshDelivered, R!InsertDifference,
     RP!InsertDifference, R!Rows, RP!Rows, R!Gaps, RP!Gaps, R!Unresolved, RP!Unresolved,
     R!NoDifference, RP!NoDifference
<1>. QED
  BY <1>1, <1>2, PTL DEF R!Spec, RP!Spec

\* So the workspace implements it.
LEMMA Transfer == ProcurementSpec => RP!Spec
BY ProcurementImplementsReceiving, SameReceiving, PTL DEF ImplementsReceiving

\* And keeps its invariant.
LEMMA ReceivingInvariant == ProcurementSpec => []RP!RInv
BY ReceivingConstants, Transfer, RP!InductiveInvariant, PTL

\* What a completed workspace shows: the order that was sent, the approval it was
\* sent under and what was received for it agree.
CompletedIsApprovedAndReceived ==
    ws = "COMPLETED" =>
        /\ order.sent /\ order.rev = nrev
        /\ Within(order.lines, rev[nrev].lines) /\ Total(order.lines) <= rev[nrev].budget
        /\ \A c \in Candidates :
              scans[c] < order.lines[c].qty => short[c].disposed /\ short[c].count = scans[c]
        /\ \A c, d \in Candidates :
              /\ order.lines[c].qty > 0 /\ delivered[c] > 0
              /\ order.lines[d].qty > 0 /\ delivered[d] # order.lines[d].qty
              => partial[d].disposed /\ partial[d].count = delivered[d]
        /\ loose = 0

\* From the first request to the completion, with any number of reapprovals and
\* replaced orders between: what was approved last is what was ordered, and every
\* copy of it was received or disposed of at the count that stands.
THEOREM CompletedIsApprovedAndReceivedHolds == ProcurementSpec => []CompletedIsApprovedAndReceived
<1>1. IInv /\ RP!RInv => CompletedIsApprovedAndReceived
  <2>. SUFFICES ASSUME IInv, RP!RInv, ws = "COMPLETED" PROVE CompletedIsApprovedAndReceived
    BY DEF CompletedIsApprovedAndReceived
  <2>1. /\ order.sent /\ order.rev = nrev
        /\ Within(order.lines, rev[nrev].lines) /\ Total(order.lines) <= rev[nrev].budget
    BY DEF IInv, OrderWithinApproval
  <2>2. /\ \A c \in RP!Rows : scans[c] < order.lines[c].qty => short[c].disposed /\ short[c].count = scans[c]
        /\ (\E c \in RP!Rows : delivered[c] > 0) =>
              \A d \in RP!Rows : delivered[d] # order.lines[d].qty =>
                 partial[d].disposed /\ partial[d].count = delivered[d]
        /\ loose = 0
    BY DEF RP!RInv, RP!CompletedIsAccountedFor, OrderedStages, RP!Rows
  <2>3. \A c \in Candidates : c \in RP!Rows <=> order.lines[c].qty > 0
    BY DEF RP!Rows
  <2>4. ASSUME NEW c \in Candidates, scans[c] < order.lines[c].qty PROVE c \in RP!Rows
    <3>1. scans[c] \in 0..MaxReceived /\ order.lines[c].qty \in 0..MaxQty
      BY DEF RP!RInv, RP!TypeOK, IInv, TypeOK, Lines, Line
    <3>. QED
      BY <2>3, <2>4, <3>1, ApprovalAssumption, ProcurementAssumption
  <2>. QED
    BY <2>1, <2>2, <2>3, <2>4 DEF CompletedIsApprovedAndReceived
<1>. QED
  BY <1>1, ReceivingInvariant, ApprovalHolds, PTL

\* A completed workspace stays as it is: no request changes its list, its
\* revisions, its quotes, its order or what was counted for it.
THEOREM CompletedStays ==
  ProcurementSpec => [][ws = "COMPLETED" => UNCHANGED <<vars, scans, delivered>>]_procurementVars
<1>1. ASSUME RP!RInv, [ProcurementNext]_procurementVars, ws = "COMPLETED"
      PROVE  UNCHANGED <<vars, scans, delivered>>
  <2>1. session = "NONE"
    BY <1>1 DEF RP!RInv, RP!CompletedHasNoSession, OrderedStages
  <2>2. ~Prepare /\ (\A price : ~PlaceOrder(price)) /\ ~SendOrder /\ ~StartSession /\ ~CompleteWorkspace
        /\ (\A batch, extra : ~Deliver(batch, extra))
    BY <1>1 DEF Prepare, Autosave, BulkDecide, RequestApproval, CancelRequest, Decide, Adjust, IngestQuote,
       PlaceOrder, GenerateOrder, SendOrder, MarkSent, StartSession, CompleteWorkspace, Deliver, Receive, Complete,
       EditStates, AdjustStates, QuoteStates, OrderStates
  <2>3. ~ScanOne
    BY <2>1 DEF ScanOne, R!ScanOther, R!Scan
  <2>4. CASE Dispose
    BY <2>4 DEF Dispose, R!SetDisposition, R!countVars
  <2>5. CASE UNCHANGED procurementVars
    BY <2>5 DEF procurementVars, receivingVars
  <2>. QED
    BY <1>1, <2>2, <2>3, <2>4, <2>5 DEF ProcurementNext
<1>. QED
  BY <1>1, ReceivingInvariant, PTL DEF ProcurementSpec

\* What the operator is shown while books arrive holds of the whole workspace: a
\* shortage on the list exists, and a disposition is for the count it was given at.
THEOREM ShortagesAreTrueOfWorkspace ==
  ProcurementSpec => []R!ShortagesAreTrue /\ R!DispositionIsForItsCount
<1>1. RP!ShortagesAreTrue => R!ShortagesAreTrue
  BY DEF RP!ShortagesAreTrue, R!ShortagesAreTrue, RP!Rows, R!Rows
<1>2. RP!DispositionIsForItsCount => R!DispositionIsForItsCount
  BY DEF RP!DispositionIsForItsCount, R!DispositionIsForItsCount, RP!vars, R!vars, RP!orderVars, R!orderVars,
     RP!countVars, R!countVars, RP!diffVars, R!diffVars
<1>. QED
  BY <1>1, <1>2, Transfer, ReceivingConstants, RP!ShortagesAreTrueHolds, RP!DispositionIsForItsCountHolds, PTL

================================================================================
