---------------------------- MODULE ReceivingProofs ----------------------------
(***************************************************************************)
(* Proofs about Receiving: a completed workspace accounts for every copy   *)
(* and stays as it was completed, and the differences on the operator's    *)
(* list exist with the counts they show, for any set of books and any      *)
(* quantities.                                                             *)
(***************************************************************************)
EXTENDS Receiving, TLAPS

--------------------------------------------------------------------------------
(* The inductive invariant. *)

\* A difference of the totals is one that exists, with the total that stands.
DifferencesAreTrue ==
    \A b \in Books : partial[b].active =>
        b \in Rows /\ partial[b].count = delivered[b] /\ delivered[b] # ordered[b]

\* From the first delivery of an ordered book on no total differs unnoticed.
DifferencesAreFound ==
    (\E b \in Rows : delivered[b] > 0) =>
        \A b \in Rows : delivered[b] # ordered[b] => partial[b].active

\* No scan session outlives the completion.
CompletedHasNoSession == ws = "COMPLETED" => session = "NONE"

RInv ==
    /\ TypeOK
    /\ ShortagesAreTrue
    /\ DifferencesAreTrue /\ DifferencesAreFound
    /\ CompletedHasNoSession
    /\ CompletedIsAccountedFor

--------------------------------------------------------------------------------
(* What an insertion and a refresh of differences do. *)

\* The same finding keeps its disposition, another one has none.
LEMMA InsertFacts ==
  ASSUME NEW old \in Difference, NEW count \in 0..MaxReceived
  PROVE  /\ InsertDifference(old, count) \in Difference
         /\ InsertDifference(old, count).active /\ InsertDifference(old, count).count = count
         /\ InsertDifference(old, count).count # old.count => ~InsertDifference(old, count).disposed
<1>1. CASE old.count = count
  <2>1. InsertDifference(old, count) = [old EXCEPT !.active = TRUE]
    BY <1>1 DEF InsertDifference
  <2>. QED
    BY <1>1, <2>1 DEF Difference
<1>2. CASE old.count # count
  <2>1. InsertDifference(old, count) = [active |-> TRUE, count |-> count, disposed |-> FALSE]
    BY <1>2 DEF InsertDifference
  <2>. QED
    BY <1>2, <2>1 DEF Difference
<1>. QED
  BY <1>1, <1>2

LEMMA DropFacts ==
  ASSUME NEW old \in Difference
  PROVE  /\ [old EXCEPT !.active = FALSE] \in Difference
         /\ ~[old EXCEPT !.active = FALSE].active
         /\ [old EXCEPT !.active = FALSE].count = old.count
BY DEF Difference

\* What is left of the differences of a kind after a refresh: one is active for
\* each row that differs, with its count, and a new count has no disposition.
Refreshed(old, new, differs, counts) ==
    /\ new \in [Books -> Difference]
    /\ \A b \in Books : new[b].active <=> b \in differs
    /\ \A b \in differs : new[b].count = counts[b]
    /\ \A b \in Books : new[b].count # old[b].count => ~new[b].disposed

LEMMA RefreshFacts ==
  ASSUME NEW old \in [Books -> Difference], NEW counts \in [Books -> 0..MaxReceived],
         NEW differs \in SUBSET Books
  PROVE  Refreshed(old, [b \in Books |-> IF b \in differs THEN InsertDifference(old[b], counts[b])
                                         ELSE [old[b] EXCEPT !.active = FALSE]], differs, counts)
<1>. DEFINE new == [b \in Books |-> IF b \in differs THEN InsertDifference(old[b], counts[b])
                                    ELSE [old[b] EXCEPT !.active = FALSE]]
<1>1. ASSUME NEW b \in Books
      PROVE  /\ new[b] \in Difference /\ (new[b].active <=> b \in differs)
             /\ b \in differs => new[b].count = counts[b]
             /\ new[b].count # old[b].count => ~new[b].disposed
  <2>1. CASE b \in differs
    <3>1. new[b] = InsertDifference(old[b], counts[b])
      BY <2>1
    <3>2. old[b] \in Difference /\ counts[b] \in 0..MaxReceived
      OBVIOUS
    <3>. HIDE DEF new
    <3>. QED
      BY <2>1, <3>1, <3>2, InsertFacts
  <2>2. CASE b \notin differs
    <3>1. new[b] = [old[b] EXCEPT !.active = FALSE]
      BY <2>2
    <3>. HIDE DEF new
    <3>. QED
      BY <2>2, <3>1, DropFacts
  <2>. QED
    BY <2>1, <2>2
<1>2. new \in [Books -> Difference]
  BY <1>1
<1>. HIDE DEF new
<1>3. Refreshed(old, new, differs, counts)
  BY <1>1, <1>2 DEF Refreshed
<1>. QED
  BY <1>3 DEF new

Short   == {b \in Rows : scans[b] < ordered[b]}
Differs == {b \in Rows : delivered[b] # ordered[b]}

LEMMA ShortagesRefreshed ==
  ASSUME TypeOK, RefreshShortages, scans' \in [Books -> 0..MaxReceived], UNCHANGED ordered
  PROVE  Refreshed(short, short', Short', scans')
<1>1. /\ short \in [Books -> Difference] /\ Short' \in SUBSET Books
      /\ \A b \in Books : b \in Short' <=> b \in Rows /\ scans'[b] < ordered[b]
  BY DEF TypeOK, Short, Rows
<1>2. short' = [b \in Books |-> IF b \in Short' THEN InsertDifference(short[b], scans'[b])
                               ELSE [short[b] EXCEPT !.active = FALSE]]
  BY <1>1 DEF RefreshShortages
<1>. QED
  BY <1>1, <1>2, RefreshFacts

LEMMA DeliveredRefreshed ==
  ASSUME TypeOK, RefreshDelivered, delivered' \in [Books -> 0..MaxReceived], UNCHANGED ordered
  PROVE  Refreshed(partial, partial', Differs', delivered')
<1>1. /\ partial \in [Books -> Difference] /\ Differs' \in SUBSET Books
      /\ \A b \in Books : b \in Differs' <=> b \in Rows /\ delivered'[b] # ordered[b]
  BY DEF TypeOK, Differs, Rows
<1>2. partial' = [b \in Books |-> IF b \in Differs' THEN InsertDifference(partial[b], delivered'[b])
                                 ELSE [partial[b] EXCEPT !.active = FALSE]]
  BY <1>1 DEF RefreshDelivered
<1>. QED
  BY <1>1, <1>2, RefreshFacts

--------------------------------------------------------------------------------
(* The steps. *)

\* An order as it begins: nothing delivered or scanned, no difference.
LEMMA NewOrder ==
  ASSUME ws # "COMPLETED", ws \in Status, sent \in BOOLEAN, session \in Session,
         ordered \in [Books -> 0..MaxQty],
         scans = [b \in Books |-> 0], delivered = [b \in Books |-> 0],
         short = [b \in Books |-> NoDifference], partial = [b \in Books |-> NoDifference],
         loose = 0
  PROVE  RInv
<1>1. TypeOK
  BY ReceivingAssumption DEF TypeOK, NoDifference, Difference
<1>2. ShortagesAreTrue /\ DifferencesAreTrue /\ DifferencesAreFound
  BY DEF ShortagesAreTrue, DifferencesAreTrue, DifferencesAreFound, NoDifference, Rows
<1>. QED
  BY <1>1, <1>2 DEF RInv, CompletedHasNoSession, CompletedIsAccountedFor

\* Before the first order there is nothing to count.
LEMMA InitRInv == Init => RInv
<1>. SUFFICES ASSUME Init PROVE RInv
  OBVIOUS
<1>1. ordered \in [Books -> 0..MaxQty]
  BY ReceivingAssumption DEF Init
<1>2. /\ ws # "COMPLETED" /\ ws \in Status /\ sent \in BOOLEAN /\ session \in Session
      /\ scans = [b \in Books |-> 0] /\ delivered = [b \in Books |-> 0]
      /\ short = [b \in Books |-> NoDifference] /\ partial = [b \in Books |-> NoDifference]
      /\ loose = 0
  BY DEF Init, Status, Session
<1>. QED
  BY <1>1, <1>2, NewOrder

LEMMA GenerateOrderKeeps ==
  ASSUME RInv, GenerateOrder
  PROVE  RInv'
<1>1. /\ ws' # "COMPLETED" /\ ws' \in Status /\ sent' \in BOOLEAN /\ session' \in Session
      /\ ordered' \in [Books -> 0..MaxQty]
      /\ scans' = [b \in Books |-> 0] /\ delivered' = [b \in Books |-> 0]
      /\ short' = [b \in Books |-> NoDifference] /\ partial' = [b \in Books |-> NoDifference]
      /\ loose' = 0
  BY DEF GenerateOrder, Status, Session
<1>2. TypeOK'
  BY <1>1, ReceivingAssumption DEF TypeOK, NoDifference, Difference
<1>3. ShortagesAreTrue' /\ DifferencesAreTrue' /\ DifferencesAreFound'
  BY <1>1 DEF ShortagesAreTrue, DifferencesAreTrue, DifferencesAreFound, NoDifference, Rows
<1>. QED
  BY <1>1, <1>2, <1>3 DEF RInv, CompletedHasNoSession, CompletedIsAccountedFor

\* Steps that count nothing and find nothing, before the completion.
LEMMA StatusKeeps ==
  ASSUME RInv, Reapprove \/ MarkSent
  PROVE  RInv'
<1>1. /\ UNCHANGED <<ordered, session, scans, delivered, short, partial, loose>>
      /\ ws' # "COMPLETED" /\ ws' \in Status /\ sent' \in BOOLEAN
  BY DEF RInv, TypeOK, Reapprove, MarkSent, orderVars, countVars, diffVars, Status
<1>. QED
  BY <1>1 DEF RInv, TypeOK, ShortagesAreTrue, DifferencesAreTrue, DifferencesAreFound,
     CompletedHasNoSession, CompletedIsAccountedFor, Rows

LEMMA RecordDeliveryKeeps ==
  ASSUME RInv, NEW batch \in [Books -> 0..MaxReceived], NEW extra \in 0..MaxLoose,
         RecordDelivery(batch, extra)
  PROVE  RInv'
<1>1. /\ UNCHANGED <<ordered, sent, session, scans, short>> /\ ws' = "RECEIVING"
      /\ loose' = loose + extra /\ loose + extra <= MaxLoose /\ RefreshDelivered
      /\ delivered' = [b \in Books |-> IF b \in Rows THEN delivered[b] + batch[b] ELSE 0]
      /\ \A b \in Books : delivered'[b] <= MaxReceived
  BY DEF RecordDelivery, orderVars
<1>2. TypeOK /\ ShortagesAreTrue
  BY DEF RInv
<1>3. \A b \in Books : delivered[b] \in Nat /\ batch[b] \in Nat
  BY <1>2 DEF TypeOK
<1>4. delivered' \in [Books -> 0..MaxReceived]
  <2>1. \A b \in Books : delivered'[b] \in Nat
    BY <1>1, <1>3
  <2>. QED
    BY <1>1, <2>1, ReceivingAssumption
<1>5. Refreshed(partial, partial', Differs', delivered')
  BY <1>1, <1>2, <1>4, DeliveredRefreshed
<1>6. TypeOK'
  <2>1. loose' \in 0..MaxLoose
    BY <1>1, <1>2, ReceivingAssumption DEF TypeOK
  <2>. QED
    BY <1>1, <1>2, <1>4, <1>5, <2>1 DEF TypeOK, Refreshed, Status
<1>7. DifferencesAreTrue' /\ DifferencesAreFound'
  BY <1>5 DEF DifferencesAreTrue, DifferencesAreFound, Refreshed, Differs, Rows
<1>8. ShortagesAreTrue'
  BY <1>1, <1>2 DEF ShortagesAreTrue, Rows
<1>. QED
  BY <1>1, <1>6, <1>7, <1>8 DEF RInv, CompletedHasNoSession, CompletedIsAccountedFor

\* Steps of the scan session, which is open: the workspace is not completed.
LEMMA SessionKeeps ==
  ASSUME RInv, StartScanSession \/ (\E b \in Books : Scan(b)) \/ ScanOther
  PROVE  RInv'
<1>1. TypeOK /\ DifferencesAreTrue /\ DifferencesAreFound
  BY DEF RInv
<1>2. /\ UNCHANGED <<ordered, sent, delivered, partial>> /\ RefreshShortages
      /\ session' = "CURRENT" /\ ws' \in {"RECEIVING", ws}
      /\ ws' # "COMPLETED"
  BY DEF RInv, CompletedHasNoSession, StartScanSession, Scan, ScanOther, orderVars
<1>3. scans' \in [Books -> 0..MaxReceived]
  <2>1. ASSUME NEW b \in Books, Scan(b) PROVE scans' \in [Books -> 0..MaxReceived]
    <3>1. scans[b] + 1 \in 0..MaxReceived
      BY <1>1, <2>1, ReceivingAssumption DEF TypeOK, Scan
    <3>. QED
      BY <1>1, <2>1, <3>1 DEF TypeOK, Scan
  <2>. QED
    BY <1>1, <2>1 DEF TypeOK, StartScanSession, ScanOther
<1>4. loose' \in 0..MaxLoose
  BY <1>1, ReceivingAssumption DEF TypeOK, StartScanSession, Scan, ScanOther
<1>5. Refreshed(short, short', Short', scans')
  BY <1>1, <1>2, <1>3, ShortagesRefreshed
<1>6. TypeOK'
  BY <1>1, <1>2, <1>3, <1>4, <1>5 DEF TypeOK, Refreshed, Status, Session
<1>7. ShortagesAreTrue'
  BY <1>5 DEF ShortagesAreTrue, Refreshed, Short, Rows
<1>8. DifferencesAreTrue' /\ DifferencesAreFound'
  BY <1>1, <1>2 DEF DifferencesAreTrue, DifferencesAreFound, Rows
<1>. QED
  BY <1>2, <1>6, <1>7, <1>8 DEF RInv, CompletedHasNoSession, CompletedIsAccountedFor

\* A disposition changes no finding and takes no other disposition back.
LEMMA SetDispositionKeeps ==
  ASSUME RInv, SetDisposition
  PROVE  /\ RInv'
         /\ \A b \in Books : short'[b].count = short[b].count /\ partial'[b].count = partial[b].count
<1>1. /\ UNCHANGED <<ws, ordered, sent, session, scans, delivered>> /\ TypeOK
  BY DEF RInv, SetDisposition, orderVars, countVars
<1>2. loose' \in 0..MaxLoose /\ (loose = 0 => loose' = 0)
  BY <1>1, ReceivingAssumption DEF TypeOK, SetDisposition
<1>3. ASSUME NEW diff \in [Books -> Difference], NEW c \in Books, NEW diff1,
             diff1 = [diff EXCEPT ![c].disposed = TRUE]
      PROVE  /\ diff1 \in [Books -> Difference]
             /\ \A b \in Books : /\ diff1[b].active = diff[b].active
                                 /\ diff1[b].count = diff[b].count
                                 /\ diff[b].disposed => diff1[b].disposed
  <2>1. diff1[c] = [diff[c] EXCEPT !.disposed = TRUE] /\ diff[c] \in Difference
    BY <1>3
  <2>2. /\ diff1[c] \in Difference /\ diff1[c].active = diff[c].active
        /\ diff1[c].count = diff[c].count /\ diff1[c].disposed
    BY <2>1 DEF Difference
  <2>3. \A b \in Books : b # c => diff1[b] = diff[b]
    BY <1>3
  <2>4. diff1 \in [Books -> Difference]
    BY <1>3, <2>2
  <2>. QED
    BY <2>2, <2>3, <2>4
<1>4. /\ short' \in [Books -> Difference]
      /\ \A b \in Books : /\ short'[b].active = short[b].active
                          /\ short'[b].count = short[b].count
                          /\ short[b].disposed => short'[b].disposed
  BY <1>1, <1>3 DEF TypeOK, SetDisposition
<1>5. /\ partial' \in [Books -> Difference]
      /\ \A b \in Books : /\ partial'[b].active = partial[b].active
                          /\ partial'[b].count = partial[b].count
                          /\ partial[b].disposed => partial'[b].disposed
  BY <1>1, <1>3 DEF TypeOK, SetDisposition
<1>6. TypeOK'
  BY <1>1, <1>2, <1>4, <1>5 DEF TypeOK
<1>7. ShortagesAreTrue'
  BY <1>1, <1>4 DEF RInv, ShortagesAreTrue, Rows
<1>8. DifferencesAreTrue' /\ DifferencesAreFound'
  BY <1>1, <1>5 DEF RInv, DifferencesAreTrue, DifferencesAreFound, Rows
<1>9. CompletedIsAccountedFor'
  BY <1>1, <1>2, <1>4, <1>5 DEF RInv, CompletedIsAccountedFor, Rows
<1>10. CompletedHasNoSession'
  BY <1>1 DEF RInv, CompletedHasNoSession
<1>. QED
  BY <1>4, <1>5, <1>6, <1>7, <1>8, <1>9, <1>10 DEF RInv

\* Nothing is unresolved and no ordered copy lacks a scan without a disposition:
\* with differences that are found and true, every copy is accounted for.
LEMMA CompleteKeeps ==
  ASSUME RInv, Complete
  PROVE  RInv'
<1>1. /\ UNCHANGED <<ordered, sent, scans, delivered, short, partial, loose>>
      /\ ws' = "COMPLETED" /\ session' = "NONE" /\ ~Unresolved /\ Gaps = {}
      /\ TypeOK /\ ShortagesAreTrue /\ DifferencesAreTrue /\ DifferencesAreFound
  BY DEF RInv, Complete, orderVars, countVars, diffVars
<1>2. TypeOK'
  BY <1>1 DEF TypeOK, Status, Session
<1>3. ShortagesAreTrue' /\ DifferencesAreTrue' /\ DifferencesAreFound' /\ CompletedHasNoSession'
  BY <1>1 DEF ShortagesAreTrue, DifferencesAreTrue, DifferencesAreFound, CompletedHasNoSession, Rows
<1>4. CompletedIsAccountedFor'
  <2>1. loose = 0
    BY <1>1 DEF TypeOK, Unresolved
  <2>2. \A b \in Rows : scans[b] < ordered[b] => short[b].disposed /\ short[b].count = scans[b]
    BY <1>1 DEF Gaps, ShortagesAreTrue, Rows
  <2>3. (\E b \in Rows : delivered[b] > 0) =>
          \A b \in Rows : delivered[b] # ordered[b] =>
             partial[b].disposed /\ partial[b].count = delivered[b]
    BY <1>1 DEF Unresolved, DifferencesAreTrue, DifferencesAreFound, Rows
  <2>. QED
    BY <1>1, <2>1, <2>2, <2>3 DEF CompletedIsAccountedFor, Rows
<1>. QED
  BY <1>2, <1>3, <1>4 DEF RInv

LEMMA NextKeeps == RInv /\ [Next]_vars => RInv'
<1>. SUFFICES ASSUME RInv, [Next]_vars PROVE RInv'
  OBVIOUS
<1>1. CASE UNCHANGED vars
  <2>1. UNCHANGED <<ws, ordered, sent, session, scans, delivered, short, partial, loose>>
    BY <1>1 DEF vars, orderVars, countVars, diffVars
  <2>. QED
    BY <2>1 DEF RInv, TypeOK, ShortagesAreTrue, DifferencesAreTrue, DifferencesAreFound,
       CompletedHasNoSession, CompletedIsAccountedFor, Rows
<1>. QED
  BY <1>1, GenerateOrderKeeps, StatusKeeps, RecordDeliveryKeeps, SessionKeeps,
     SetDispositionKeeps, CompleteKeeps DEF Next

--------------------------------------------------------------------------------
(* The theorems. *)

LEMMA InductiveInvariant == Spec => []RInv
BY InitRInv, NextKeeps, PTL DEF Spec

\* The counts, differences and statuses of a receiving always are of their types.
THEOREM TypeHolds == Spec => []TypeOK
<1>1. RInv => TypeOK
  BY DEF RInv
<1>. QED
  BY <1>1, InductiveInvariant, PTL

\* ReceivingService.complete lets a workspace through only when every copy is
\* accounted for: scanned as ordered, or disposed of at the count that stands.
THEOREM CompletedIsAccountedForHolds == Spec => []CompletedIsAccountedFor
<1>1. RInv => CompletedIsAccountedFor
  BY DEF RInv
<1>. QED
  BY <1>1, InductiveInvariant, PTL

\* Every shortage that _refresh_scan_shortages left active is one that exists,
\* with the count of scans that stands.
THEOREM ShortagesAreTrueHolds == Spec => []ShortagesAreTrue
<1>1. RInv => ShortagesAreTrue
  BY DEF RInv
<1>. QED
  BY <1>1, InductiveInvariant, PTL

\* The same of deliveries: an active difference of a total is one that exists, with
\* the total that stands, and once an ordered book was delivered none is missing.
THEOREM DifferencesHold == Spec => [](DifferencesAreTrue /\ DifferencesAreFound)
<1>1. RInv => DifferencesAreTrue /\ DifferencesAreFound
  BY DEF RInv
<1>. QED
  BY <1>1, InductiveInvariant, PTL

\* After the completion no scan, delivery or other order changes anything: the
\* last scan session ended with it.
THEOREM CompletedIsFinalHolds == Spec => CompletedIsFinal
<1>1. ASSUME RInv, [Next]_vars, ws = "COMPLETED"
      PROVE  UNCHANGED <<ws, ordered, sent, scans, delivered>>
  <2>1. session = "NONE"
    BY <1>1 DEF RInv, CompletedHasNoSession
  <2>. QED
    BY <1>1, <2>1 DEF Next, GenerateOrder, Reapprove, MarkSent, RecordDelivery, StartScanSession,
       Scan, ScanOther, SetDisposition, Complete, vars, orderVars, countVars
<1>2. RInv /\ [Next]_vars => (ws = "COMPLETED" => UNCHANGED <<ws, orderVars, countVars>>)
  BY <1>1 DEF orderVars, countVars
<1>. QED
  BY <1>2, InductiveInvariant, PTL DEF Spec, CompletedIsFinal

\* A disposition counts for one finding only: a scan or delivery that changes the
\* count of a difference leaves it without one.
THEOREM DispositionIsForItsCountHolds == Spec => DispositionIsForItsCount
<1>. DEFINE ForItsCount ==
              \A b \in Books :
                 /\ short'[b].count # short[b].count => ~short'[b].disposed
                 /\ partial'[b].count # partial[b].count => ~partial'[b].disposed
<1>1. ASSUME RInv, [Next]_vars PROVE ForItsCount
  <2>1. CASE GenerateOrder
    BY <2>1 DEF GenerateOrder, NoDifference
  <2>2. ASSUME NEW batch \in [Books -> 0..MaxReceived], NEW extra \in 0..MaxLoose,
               RecordDelivery(batch, extra)
        PROVE  ForItsCount
    <3>1. TypeOK /\ TypeOK' /\ UNCHANGED <<ordered, short>> /\ RefreshDelivered
      BY <1>1, <2>2, RecordDeliveryKeeps DEF RInv, RecordDelivery, orderVars
    <3>2. Refreshed(partial, partial', Differs', delivered')
      BY <3>1, DeliveredRefreshed DEF TypeOK
    <3>. QED
      BY <3>1, <3>2 DEF Refreshed
  <2>3. CASE StartScanSession \/ (\E b \in Books : Scan(b)) \/ ScanOther
    <3>1. TypeOK /\ TypeOK' /\ UNCHANGED <<ordered, partial>> /\ RefreshShortages
      BY <1>1, <2>3, SessionKeeps DEF RInv, StartScanSession, Scan, ScanOther, orderVars
    <3>2. Refreshed(short, short', Short', scans')
      BY <3>1, ShortagesRefreshed DEF TypeOK
    <3>. QED
      BY <3>1, <3>2 DEF Refreshed
  <2>4. CASE SetDisposition
    BY <1>1, <2>4, SetDispositionKeeps
  <2>5. CASE Reapprove \/ MarkSent \/ Complete \/ UNCHANGED vars
    <3>1. UNCHANGED <<short, partial>>
      BY <2>5 DEF Reapprove, MarkSent, Complete, vars, diffVars
    <3>. QED
      BY <3>1
  <2>. QED
    BY <1>1, <2>1, <2>2, <2>3, <2>4, <2>5 DEF Next
<1>2. Spec => [][ForItsCount]_vars
  BY <1>1, InductiveInvariant, PTL DEF Spec
<1>. QED
  BY <1>2 DEF DispositionIsForItsCount

================================================================================
