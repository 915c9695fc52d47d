------------------------ MODULE UpdateCoordinatorProofs ------------------------
(***************************************************************************)
(* Proofs about UpdateCoordinator, for every set of versions.              *)
(*                                                                         *)
(* The inductive invariant has four parts beside the types: who holds the  *)
(* operation (Exclusion), which event _cancel is (Stopping), what a        *)
(* prepared update is worth (Preparing) and what close takes along         *)
(* (Leaving). They lean on each other: that an installation of the user's  *)
(* never meets a worker that was not told to stop is what keeps info and   *)
(* ready together, and that is what close relies on.                       *)
(***************************************************************************)
EXTENDS UpdateCoordinator, TLAPS

WorkerHolds == worker.pc \in {"check", "decide", "download", "publish", "cancelled", "failed"}

Exclusion ==
    /\ WorkerHolds => operation = "worker"
    /\ ManualBusy => operation = "manual"
    /\ leaving.pc = "verify" <=> operation = "exit"
    /\ pending <=> manual.pc # "idle"
    /\ closing <=> leaving.pc # "open"

Stopping ==
    /\ WorkerBusy => current = "worker" \/ worker.cancel
    /\ ManualBusy => current = "manual"
    /\ closing \/ pending \/ started => (WorkerBusy => worker.cancel) /\ ~requested
    /\ closing => (ManualBusy => manual.cancel)
    /\ worker.pc = "ended" => closing
    /\ requested => worker.pc # "none"

Preparing ==
    /\ worker.pc \in {"download", "publish"} =>
           supported /\ worker.version \in AutoVersions /\ worker.version = info
    /\ ready # None => supported /\ ready \in AutoVersions
    /\ ready # None /\ manual.pc \notin {"download", "launch", "failed"} => ready = info
    /\ started \/ manual.pc = "finally" => ready = None
    /\ phase = "ready" => ready # None /\ enabled /\ ~ManualBusy /\ ready = info
    /\ installer # None => started
    /\ manual.pc \in {"offer", "download", "launch"} => manual.version # None

Leaving ==
    leaving.ready # None =>
        /\ leaving.pc # "open" /\ leaving.how = "requested"
        /\ supported /\ enabled
        /\ leaving.ready = info /\ leaving.ready \in AutoVersions
        /\ ~pending /\ ~started

\* The inductive invariant.
IInv == TypeOK /\ Exclusion /\ Stopping /\ Preparing /\ Leaving

--------------------------------------------------------------------------------
(* Types, by groups of variables: provers take flags and records apart better. *)

BooleansTyped ==
    /\ supported \in BOOLEAN /\ enabled \in BOOLEAN /\ asking \in BOOLEAN
    /\ closing \in BOOLEAN /\ requested \in BOOLEAN /\ pending \in BOOLEAN
    /\ started \in BOOLEAN /\ exitRequested \in BOOLEAN

FieldsTyped ==
    /\ ready \in Offer /\ info \in Offer /\ installer \in Offer
    /\ phase \in Phase
    /\ current \in Thread \cup {"nobody"} /\ operation \in Thread \cup {"free"}

WorkerTyped   == worker \in WorkerState
ManualTyped   == manual \in ManualState
LeavingTyped  == leaving \in LeavingState
LaunchedTyped == launched \in Launches

\* An operation starts with an event of its own that is not set.
LEMMA NewOperation ==
  /\ [pc |-> "acquire", cancel |-> FALSE, version |-> None] \in WorkerState
  /\ [pc |-> "check", cancel |-> FALSE, version |-> None] \in ManualState
BY DEF WorkerState, ManualState, WorkerPC, ManualPC, Offer

\* The flags are Boolean.
LEMMA BooleansTypeStep == TypeOK /\ [Next]_vars => BooleansTyped'
<1> SUFFICES ASSUME TypeOK, [Next]_vars PROVE BooleansTyped'
  OBVIOUS
<1> USE DEF TypeOK, BooleansTyped, flags, shown, locks, desktop
<1>1. ASSUME RequestCheck \/ AskAfterEnabling \/ \E on \in BOOLEAN : SetPreferences(on) PROVE BooleansTyped'
  BY <1>1 DEF RequestCheck, AskAfterEnabling, SetPreferences, AskForCheck, Unprepared,
             CancelCurrent
<1>2. ASSUME WorkerStep PROVE BooleansTyped'
  BY <1>2, ZenonT(40) DEF WorkerStep, WorkerTop, WorkerAcquire, WorkerCheck, WorkerDecide,
             WorkerDownload, WorkerPublish, WorkerCancelled, WorkerFailed, WorkerAt,
             WorkerGoto, WorkerNextRound, Retire, NoNews, Unprepared, unseenByWorker
<1>3. ASSUME ManualRequest \/ ManualStep PROVE BooleansTyped'
  BY <1>3, ZenonT(40) DEF ManualRequest, ManualStep, ManualBegin, ManualCheck, ManualOffer,
             ManualDownload, ManualLaunch, ManualFailed, ManualFinally, ManualAt, ManualGoto,
             ManualFails, unseenByManual
<1>4. ASSUME RequestExit \/ CloseStep \/ \E how \in Exits : CloseBegin(how) PROVE BooleansTyped'
  BY <1>4, ZenonT(40) DEF RequestExit, CloseStep, CloseJoin, CloseAcquire, CloseVerify, Launch,
             CloseBegin, CancelCurrent, unseenByExit, unseenByClose
<1>5. CASE UNCHANGED vars
  BY <1>5 DEF vars
<1> QED BY <1>1, <1>2, <1>3, <1>4, <1>5 DEF Next, Exits

\* The fields of the coordinator, the locks and the installer keep their types.
LEMMA FieldsTypeStep == TypeOK /\ [Next]_vars => FieldsTyped'
<1> SUFFICES ASSUME TypeOK, [Next]_vars PROVE FieldsTyped'
  OBVIOUS
<1> USE DEF TypeOK, FieldsTyped, WorkerState, ManualState, Offer, None, Phase, Thread,
      flags, shown, locks, desktop
<1>1. ASSUME RequestCheck \/ AskAfterEnabling \/ \E on \in BOOLEAN : SetPreferences(on) PROVE FieldsTyped'
  BY <1>1 DEF RequestCheck, AskAfterEnabling, SetPreferences, AskForCheck, Unprepared,
             CancelCurrent
<1>2. ASSUME WorkerStep PROVE FieldsTyped'
  BY <1>2, ZenonT(40) DEF WorkerStep, WorkerTop, WorkerAcquire, WorkerCheck, WorkerDecide,
             WorkerDownload, WorkerPublish, WorkerCancelled, WorkerFailed, WorkerAt,
             WorkerGoto, WorkerNextRound, Retire, NoNews, Unprepared, unseenByWorker
<1>3. ASSUME ManualRequest \/ ManualStep PROVE FieldsTyped'
  BY <1>3, ZenonT(40) DEF ManualRequest, ManualStep, ManualBegin, ManualCheck, ManualOffer,
             ManualDownload, ManualLaunch, ManualFailed, ManualFinally, ManualAt, ManualGoto,
             ManualFails, unseenByManual
<1>4. ASSUME RequestExit \/ CloseStep \/ \E how \in Exits : CloseBegin(how) PROVE FieldsTyped'
  BY <1>4 DEF RequestExit, CloseStep, CloseJoin, CloseAcquire, CloseVerify, Launch,
             CloseBegin, CancelCurrent, unseenByExit, unseenByClose
<1>5. CASE UNCHANGED vars
  BY <1>5 DEF vars
<1> QED BY <1>1, <1>2, <1>3, <1>4, <1>5 DEF Next, Exits

\* So does the record of the worker,
LEMMA WorkerTypeStep == TypeOK /\ [Next]_vars => WorkerTyped'
<1> SUFFICES ASSUME TypeOK, [Next]_vars PROVE WorkerTyped'
  OBVIOUS
<1> USE DEF TypeOK, WorkerTyped, WorkerState, WorkerPC, Offer, None, flags, shown, locks,
      desktop
<1>1. ASSUME RequestCheck \/ AskAfterEnabling \/ \E on \in BOOLEAN : SetPreferences(on) PROVE WorkerTyped'
  BY <1>1 DEF RequestCheck, AskAfterEnabling, SetPreferences, AskForCheck, Unprepared,
             CancelCurrent
<1>2. ASSUME WorkerStep PROVE WorkerTyped'
  <2>1. ASSUME WorkerTop PROVE WorkerTyped'
    <3>1. CASE closing \/ pending \/ ~requested
      BY <2>1, <3>1 DEF WorkerTop, WorkerGoto, Retire
    <3>2. CASE ~(closing \/ pending \/ ~requested)
      BY <2>1, <3>2, NewOperation DEF WorkerTop
    <3> QED BY <3>1, <3>2
  <2>2. ASSUME WorkerStep, ~WorkerTop PROVE WorkerTyped'
    BY <2>2 DEF WorkerStep, WorkerAcquire, WorkerCheck, WorkerDecide, WorkerDownload,
                WorkerPublish, WorkerCancelled, WorkerFailed, WorkerGoto, WorkerNextRound
  <2> QED BY <1>2, <2>1, <2>2
<1>3. ASSUME ManualRequest \/ ManualStep PROVE WorkerTyped'
  BY <1>3 DEF ManualRequest, ManualStep, ManualBegin, ManualCheck, ManualOffer,
             ManualDownload, ManualLaunch, ManualFailed, ManualFinally, ManualAt, ManualGoto,
             ManualFails, unseenByManual
<1>4. ASSUME RequestExit \/ CloseStep \/ \E how \in Exits : CloseBegin(how) PROVE WorkerTyped'
  BY <1>4 DEF RequestExit, CloseStep, CloseJoin, CloseAcquire, CloseVerify, Launch,
             CloseBegin, CancelCurrent, unseenByExit, unseenByClose
<1>5. CASE UNCHANGED vars
  BY <1>5 DEF vars
<1> QED BY <1>1, <1>2, <1>3, <1>4, <1>5 DEF Next, Exits

\* that of the user's installation,
LEMMA ManualTypeStep == TypeOK /\ [Next]_vars => ManualTyped'
<1> SUFFICES ASSUME TypeOK, [Next]_vars PROVE ManualTyped'
  OBVIOUS
<1> USE DEF TypeOK, ManualTyped, ManualState, ManualPC, Offer, None, flags, shown, locks,
      desktop
<1>1. ASSUME RequestCheck \/ AskAfterEnabling \/ \E on \in BOOLEAN : SetPreferences(on) PROVE ManualTyped'
  BY <1>1 DEF RequestCheck, AskAfterEnabling, SetPreferences, AskForCheck, Unprepared,
             CancelCurrent
<1>2. ASSUME WorkerStep PROVE ManualTyped'
  BY <1>2 DEF WorkerStep, WorkerTop, WorkerAcquire, WorkerCheck, WorkerDecide,
             WorkerDownload, WorkerPublish, WorkerCancelled, WorkerFailed, WorkerAt,
             WorkerGoto, WorkerNextRound, Retire, NoNews, Unprepared, unseenByWorker
<1>3. ASSUME ManualRequest \/ ManualStep PROVE ManualTyped'
  <2>1. ASSUME ManualBegin PROVE ManualTyped'
    <3>1. CASE closing
      BY <2>1, <3>1 DEF ManualBegin, ManualGoto, ManualFails
    <3>2. CASE ~closing
      BY <2>1, <3>2, NewOperation DEF ManualBegin
    <3> QED BY <3>1, <3>2
  <2>2. ASSUME ManualRequest \/ ManualStep, ~ManualBegin PROVE ManualTyped'
    BY <2>2 DEF ManualRequest, ManualStep, ManualCheck, ManualOffer, ManualDownload,
                ManualLaunch, ManualFailed, ManualFinally, ManualGoto, ManualFails
  <2> QED BY <1>3, <2>1, <2>2
<1>4. ASSUME RequestExit \/ CloseStep \/ \E how \in Exits : CloseBegin(how) PROVE ManualTyped'
  BY <1>4 DEF RequestExit, CloseStep, CloseJoin, CloseAcquire, CloseVerify, Launch,
             CloseBegin, CancelCurrent, unseenByExit, unseenByClose
<1>5. CASE UNCHANGED vars
  BY <1>5 DEF vars
<1> QED BY <1>1, <1>2, <1>3, <1>4, <1>5 DEF Next, Exits

\* that of the exit,
LEMMA LeavingTypeStep == TypeOK /\ [Next]_vars => LeavingTyped'
<1> SUFFICES ASSUME TypeOK, [Next]_vars PROVE LeavingTyped'
  OBVIOUS
<1> USE DEF TypeOK, LeavingTyped, LeavingState, ExitPC, Offer, None, Exits, flags, shown,
      locks, desktop
<1>1. ASSUME RequestCheck \/ AskAfterEnabling \/ \E on \in BOOLEAN : SetPreferences(on) PROVE LeavingTyped'
  BY <1>1 DEF RequestCheck, AskAfterEnabling, SetPreferences, AskForCheck, Unprepared,
             CancelCurrent
<1>2. ASSUME WorkerStep PROVE LeavingTyped'
  BY <1>2 DEF WorkerStep, WorkerTop, WorkerAcquire, WorkerCheck, WorkerDecide,
             WorkerDownload, WorkerPublish, WorkerCancelled, WorkerFailed, WorkerAt,
             WorkerGoto, WorkerNextRound, Retire, NoNews, Unprepared, unseenByWorker
<1>3. ASSUME ManualRequest \/ ManualStep PROVE LeavingTyped'
  BY <1>3 DEF ManualRequest, ManualStep, ManualBegin, ManualCheck, ManualOffer,
             ManualDownload, ManualLaunch, ManualFailed, ManualFinally, ManualAt, ManualGoto,
             ManualFails, unseenByManual
<1>4. ASSUME RequestExit \/ CloseStep \/ \E how \in Exits : CloseBegin(how) PROVE LeavingTyped'
  <2>1. ASSUME NEW how \in Exits, CloseBegin(how) PROVE LeavingTyped'
    <3>1. ready \in Offer
      OBVIOUS
    <3>2. PICK v \in Offer : leaving' = [pc |-> "join", how |-> how, ready |-> v]
      BY <2>1, <3>1 DEF CloseBegin
    <3> QED BY <3>2
  <2>2. ASSUME RequestExit \/ CloseStep PROVE LeavingTyped'
    BY <2>2 DEF RequestExit, CloseStep, CloseJoin, CloseAcquire, CloseVerify, Launch
  <2> QED BY <1>4, <2>1, <2>2
<1>5. CASE UNCHANGED vars
  BY <1>5 DEF vars
<1> QED BY <1>1, <1>2, <1>3, <1>4, <1>5 DEF Next, Exits

\* and what was launched.
LEMMA LaunchedTypeStep == TypeOK /\ [Next]_vars => LaunchedTyped'
<1> SUFFICES ASSUME TypeOK, [Next]_vars PROVE LaunchedTyped'
  OBVIOUS
<1> USE DEF TypeOK, LaunchedTyped, Launches, LeavingState, Offer, None, flags, shown, locks,
      desktop
<1>1. ASSUME RequestCheck \/ AskAfterEnabling \/ \E on \in BOOLEAN : SetPreferences(on) PROVE LaunchedTyped'
  BY <1>1 DEF RequestCheck, AskAfterEnabling, SetPreferences, AskForCheck, Unprepared,
             CancelCurrent
<1>2. ASSUME WorkerStep PROVE LaunchedTyped'
  BY <1>2 DEF WorkerStep, WorkerTop, WorkerAcquire, WorkerCheck, WorkerDecide,
             WorkerDownload, WorkerPublish, WorkerCancelled, WorkerFailed, WorkerAt,
             WorkerGoto, WorkerNextRound, Retire, NoNews, Unprepared, unseenByWorker
<1>3. ASSUME ManualRequest \/ ManualStep PROVE LaunchedTyped'
  BY <1>3 DEF ManualRequest, ManualStep, ManualBegin, ManualCheck, ManualOffer,
             ManualDownload, ManualLaunch, ManualFailed, ManualFinally, ManualAt, ManualGoto,
             ManualFails, unseenByManual
<1>4. ASSUME RequestExit \/ CloseStep \/ \E how \in Exits : CloseBegin(how) PROVE LaunchedTyped'
  <2>1. ASSUME Launch PROVE LaunchedTyped'
    <3>1. CASE launched' = Nothing
      BY <3>1 DEF Nothing
    <3>2. CASE \E v \in Offer, b \in BOOLEAN : launched' = [version |-> v, silent |-> b]
      BY <3>2
    <3> QED BY <2>1, <3>1, <3>2 DEF Launch
  <2>2. ASSUME RequestExit \/ CloseStep \/ (\E how \in Exits : CloseBegin(how)), ~Launch
        PROVE  LaunchedTyped'
    BY <2>2 DEF RequestExit, CloseStep, CloseJoin, CloseAcquire, CloseVerify, CloseBegin, Launch
  <2> QED BY <1>4, <2>1, <2>2
<1>5. CASE UNCHANGED vars
  BY <1>5 DEF vars
<1> QED BY <1>1, <1>2, <1>3, <1>4, <1>5 DEF Next, Exits

\* Every variable keeps its type in every step.
LEMMA TypeStep == TypeOK /\ [Next]_vars => TypeOK'
BY BooleansTypeStep, FieldsTypeStep, WorkerTypeStep, ManualTypeStep, LeavingTypeStep,
   LaunchedTypeStep
   DEF TypeOK, BooleansTyped, FieldsTyped, WorkerTyped, ManualTyped, LeavingTyped, LaunchedTyped

--------------------------------------------------------------------------------
(* One lemma per part of the invariant: every step keeps it. *)

\* The operation has one holder, and the flags tell which threads are inside.
LEMMA ExclusionStep == TypeOK /\ Exclusion /\ [Next]_vars => Exclusion'
<1> SUFFICES ASSUME TypeOK, Exclusion, [Next]_vars PROVE Exclusion'
  OBVIOUS
<1> USE UpdateAssumption DEF TypeOK, WorkerState, ManualState, LeavingState, Launches,
      Exclusion, WorkerBusy, ManualBusy, WorkerHolds, flags, shown, locks, desktop, None
<1>1. ASSUME RequestCheck PROVE Exclusion'
  BY <1>1 DEF RequestCheck, AskForCheck, desktop, locks
<1>2. ASSUME NEW on \in BOOLEAN, SetPreferences(on) PROVE Exclusion'
  BY <1>2 DEF SetPreferences, Unprepared, CancelCurrent, desktop, locks
<1>3. ASSUME AskAfterEnabling PROVE Exclusion'
  BY <1>3 DEF AskAfterEnabling, AskForCheck, desktop, locks
<1>4. ASSUME WorkerTop PROVE Exclusion'
  BY <1>4 DEF WorkerTop, WorkerAt, WorkerGoto, Retire, unseenByWorker
<1>5. ASSUME WorkerAcquire PROVE Exclusion'
  BY <1>5 DEF WorkerAcquire, WorkerAt, WorkerGoto, unseenByWorker
<1>6. ASSUME WorkerCheck PROVE Exclusion'
  BY <1>6 DEF WorkerCheck, WorkerAt, WorkerGoto, unseenByWorker
<1>7. ASSUME WorkerDecide PROVE Exclusion'
  BY <1>7 DEF WorkerDecide, WorkerAt, WorkerGoto, WorkerNextRound, Automatic, NoNews,
             unseenByWorker
<1>8. ASSUME WorkerDownload PROVE Exclusion'
  BY <1>8 DEF WorkerDownload, WorkerAt, WorkerGoto, unseenByWorker
<1>9. ASSUME WorkerPublish PROVE Exclusion'
  BY <1>9 DEF WorkerPublish, WorkerAt, WorkerGoto, WorkerNextRound, Announceable,
             unseenByWorker
<1>10. ASSUME WorkerCancelled PROVE Exclusion'
  BY <1>10 DEF WorkerCancelled, WorkerAt, WorkerGoto, WorkerNextRound, Unprepared,
             unseenByWorker
<1>11. ASSUME WorkerFailed PROVE Exclusion'
  BY <1>11 DEF WorkerFailed, WorkerAt, WorkerGoto, WorkerNextRound, unseenByWorker
<1>12. ASSUME ManualRequest PROVE Exclusion'
  BY <1>12 DEF ManualRequest, ManualAt, unseenByManual
<1>13. ASSUME ManualBegin PROVE Exclusion'
  BY <1>13 DEF ManualBegin, ManualAt, ManualGoto, ManualFails, unseenByManual
<1>14. ASSUME ManualCheck PROVE Exclusion'
  BY <1>14 DEF ManualCheck, ManualAt, ManualGoto, ManualFails, unseenByManual
<1>15. ASSUME ManualOffer PROVE Exclusion'
  BY <1>15 DEF ManualOffer, ManualAt, ManualGoto, unseenByManual
<1>16. ASSUME ManualDownload PROVE Exclusion'
  BY <1>16 DEF ManualDownload, ManualAt, ManualGoto, ManualFails, unseenByManual
<1>17. ASSUME ManualLaunch PROVE Exclusion'
  BY <1>17 DEF ManualLaunch, ManualAt, ManualGoto, ManualFails, MayLaunch, unseenByManual
<1>18. ASSUME ManualFailed PROVE Exclusion'
  BY <1>18 DEF ManualFailed, ManualAt, ManualGoto, unseenByManual
<1>19. ASSUME ManualFinally PROVE Exclusion'
  BY <1>19 DEF ManualFinally, ManualAt, ManualGoto, unseenByManual
<1>20. ASSUME RequestExit PROVE Exclusion'
  BY <1>20 DEF RequestExit, unseenByExit
<1>21. ASSUME NEW how \in Exits, CloseBegin(how) PROVE Exclusion'
  BY <1>21 DEF CloseBegin, CancelCurrent, unseenByExit
<1>22. ASSUME CloseJoin PROVE Exclusion'
  BY <1>22 DEF CloseJoin, unseenByClose, unseenByExit
<1>23. ASSUME CloseAcquire PROVE Exclusion'
  BY <1>23 DEF CloseAcquire, unseenByClose, unseenByExit
<1>24. ASSUME CloseVerify PROVE Exclusion'
  BY <1>24 DEF CloseVerify, unseenByClose, unseenByExit
<1>25. ASSUME Launch PROVE Exclusion'
  BY <1>25 DEF Launch, Nothing, unseenByClose, unseenByExit
<1>26. CASE UNCHANGED vars
  BY <1>26 DEF vars
<1> QED
  BY <1>1, <1>2, <1>3, <1>4, <1>5, <1>6, <1>7, <1>8, <1>9, <1>10, <1>11, <1>12, <1>13,
     <1>14, <1>15, <1>16, <1>17, <1>18, <1>19, <1>20, <1>21, <1>22, <1>23, <1>24, <1>25,
     <1>26
  DEF Next, WorkerStep, ManualStep, CloseStep

\* No operation escapes the event: whoever replaces _cancel has stopped the other.
LEMMA StoppingStep == TypeOK /\ Exclusion /\ Stopping /\ [Next]_vars => Stopping'
<1> SUFFICES ASSUME TypeOK, Exclusion, Stopping, [Next]_vars PROVE Stopping'
  OBVIOUS
<1> USE UpdateAssumption DEF TypeOK, WorkerState, ManualState, LeavingState, Launches,
      Exclusion, Stopping, WorkerBusy, ManualBusy, WorkerHolds, flags, shown, locks,
      desktop, None
<1>1. ASSUME RequestCheck PROVE Stopping'
  BY <1>1 DEF RequestCheck, AskForCheck, desktop, locks
<1>2. ASSUME NEW on \in BOOLEAN, SetPreferences(on) PROVE Stopping'
  BY <1>2 DEF SetPreferences, Unprepared, CancelCurrent, desktop, locks
<1>3. ASSUME AskAfterEnabling PROVE Stopping'
  BY <1>3 DEF AskAfterEnabling, AskForCheck, desktop, locks
<1>4. ASSUME WorkerTop PROVE Stopping'
  BY <1>4 DEF WorkerTop, WorkerAt, WorkerGoto, Retire, unseenByWorker
<1>5. ASSUME WorkerAcquire PROVE Stopping'
  BY <1>5 DEF WorkerAcquire, WorkerAt, WorkerGoto, unseenByWorker
<1>6. ASSUME WorkerCheck PROVE Stopping'
  BY <1>6 DEF WorkerCheck, WorkerAt, WorkerGoto, unseenByWorker
<1>7. ASSUME WorkerDecide PROVE Stopping'
  BY <1>7 DEF WorkerDecide, WorkerAt, WorkerGoto, WorkerNextRound, Automatic, NoNews,
             unseenByWorker
<1>8. ASSUME WorkerDownload PROVE Stopping'
  BY <1>8 DEF WorkerDownload, WorkerAt, WorkerGoto, unseenByWorker
<1>9. ASSUME WorkerPublish PROVE Stopping'
  BY <1>9 DEF WorkerPublish, WorkerAt, WorkerGoto, WorkerNextRound, Announceable,
             unseenByWorker
<1>10. ASSUME WorkerCancelled PROVE Stopping'
  BY <1>10 DEF WorkerCancelled, WorkerAt, WorkerGoto, WorkerNextRound, Unprepared,
             unseenByWorker
<1>11. ASSUME WorkerFailed PROVE Stopping'
  BY <1>11 DEF WorkerFailed, WorkerAt, WorkerGoto, WorkerNextRound, unseenByWorker
<1>12. ASSUME ManualRequest PROVE Stopping'
  BY <1>12 DEF ManualRequest, ManualAt, unseenByManual
<1>13. ASSUME ManualBegin PROVE Stopping'
  BY <1>13 DEF ManualBegin, ManualAt, ManualGoto, ManualFails, unseenByManual
<1>14. ASSUME ManualCheck PROVE Stopping'
  BY <1>14 DEF ManualCheck, ManualAt, ManualGoto, ManualFails, unseenByManual
<1>15. ASSUME ManualOffer PROVE Stopping'
  BY <1>15 DEF ManualOffer, ManualAt, ManualGoto, unseenByManual
<1>16. ASSUME ManualDownload PROVE Stopping'
  BY <1>16 DEF ManualDownload, ManualAt, ManualGoto, ManualFails, unseenByManual
<1>17. ASSUME ManualLaunch PROVE Stopping'
  BY <1>17 DEF ManualLaunch, ManualAt, ManualGoto, ManualFails, MayLaunch, unseenByManual
<1>18. ASSUME ManualFailed PROVE Stopping'
  BY <1>18 DEF ManualFailed, ManualAt, ManualGoto, unseenByManual
<1>19. ASSUME ManualFinally PROVE Stopping'
  BY <1>19 DEF ManualFinally, ManualAt, ManualGoto, unseenByManual
<1>20. ASSUME RequestExit PROVE Stopping'
  BY <1>20 DEF RequestExit, unseenByExit
<1>21. ASSUME NEW how \in Exits, CloseBegin(how) PROVE Stopping'
  BY <1>21 DEF CloseBegin, CancelCurrent, unseenByExit
<1>22. ASSUME CloseJoin PROVE Stopping'
  BY <1>22 DEF CloseJoin, unseenByClose, unseenByExit
<1>23. ASSUME CloseAcquire PROVE Stopping'
  BY <1>23 DEF CloseAcquire, unseenByClose, unseenByExit
<1>24. ASSUME CloseVerify PROVE Stopping'
  BY <1>24 DEF CloseVerify, unseenByClose, unseenByExit
<1>25. ASSUME Launch PROVE Stopping'
  BY <1>25 DEF Launch, Nothing, unseenByClose, unseenByExit
<1>26. CASE UNCHANGED vars
  BY <1>26 DEF vars
<1> QED
  BY <1>1, <1>2, <1>3, <1>4, <1>5, <1>6, <1>7, <1>8, <1>9, <1>10, <1>11, <1>12, <1>13,
     <1>14, <1>15, <1>16, <1>17, <1>18, <1>19, <1>20, <1>21, <1>22, <1>23, <1>24, <1>25,
     <1>26
  DEF Next, WorkerStep, ManualStep, CloseStep

\* A prepared update is the one last offered, until an installation replaces it.
LEMMA PreparingStep == TypeOK /\ Exclusion /\ Stopping /\ Preparing /\ [Next]_vars => Preparing'
<1> SUFFICES ASSUME TypeOK, Exclusion, Stopping, Preparing, [Next]_vars PROVE Preparing'
  OBVIOUS
<1> USE UpdateAssumption DEF TypeOK, WorkerState, ManualState, LeavingState, Launches,
      Exclusion, Stopping, Preparing, WorkerBusy, ManualBusy, WorkerHolds, flags, shown,
      locks, desktop, None
<1>1. ASSUME RequestCheck PROVE Preparing'
  BY <1>1 DEF RequestCheck, AskForCheck, desktop, locks
<1>2. ASSUME NEW on \in BOOLEAN, SetPreferences(on) PROVE Preparing'
  BY <1>2 DEF SetPreferences, Unprepared, CancelCurrent, desktop, locks
<1>3. ASSUME AskAfterEnabling PROVE Preparing'
  BY <1>3 DEF AskAfterEnabling, AskForCheck, desktop, locks
<1>4. ASSUME WorkerTop PROVE Preparing'
  BY <1>4 DEF WorkerTop, WorkerAt, WorkerGoto, Retire, unseenByWorker
<1>5. ASSUME WorkerAcquire PROVE Preparing'
  BY <1>5 DEF WorkerAcquire, WorkerAt, WorkerGoto, unseenByWorker
<1>6. ASSUME WorkerCheck PROVE Preparing'
  BY <1>6 DEF WorkerCheck, WorkerAt, WorkerGoto, unseenByWorker
<1>7. ASSUME WorkerDecide PROVE Preparing'
  BY <1>7 DEF WorkerDecide, WorkerAt, WorkerGoto, WorkerNextRound, Automatic, NoNews,
             unseenByWorker
<1>8. ASSUME WorkerDownload PROVE Preparing'
  BY <1>8 DEF WorkerDownload, WorkerAt, WorkerGoto, unseenByWorker
<1>9. ASSUME WorkerPublish PROVE Preparing'
  BY <1>9 DEF WorkerPublish, WorkerAt, WorkerGoto, WorkerNextRound, Announceable,
             unseenByWorker
<1>10. ASSUME WorkerCancelled PROVE Preparing'
  BY <1>10 DEF WorkerCancelled, WorkerAt, WorkerGoto, WorkerNextRound, Unprepared,
             unseenByWorker
<1>11. ASSUME WorkerFailed PROVE Preparing'
  BY <1>11 DEF WorkerFailed, WorkerAt, WorkerGoto, WorkerNextRound, unseenByWorker
<1>12. ASSUME ManualRequest PROVE Preparing'
  BY <1>12 DEF ManualRequest, ManualAt, unseenByManual
<1>13. ASSUME ManualBegin PROVE Preparing'
  BY <1>13 DEF ManualBegin, ManualAt, ManualGoto, ManualFails, unseenByManual
<1>14. ASSUME ManualCheck PROVE Preparing'
  BY <1>14 DEF ManualCheck, ManualAt, ManualGoto, ManualFails, unseenByManual
<1>15. ASSUME ManualOffer PROVE Preparing'
  BY <1>15 DEF ManualOffer, ManualAt, ManualGoto, unseenByManual
<1>16. ASSUME ManualDownload PROVE Preparing'
  BY <1>16 DEF ManualDownload, ManualAt, ManualGoto, ManualFails, unseenByManual
<1>17. ASSUME ManualLaunch PROVE Preparing'
  BY <1>17 DEF ManualLaunch, ManualAt, ManualGoto, ManualFails, MayLaunch, unseenByManual
<1>18. ASSUME ManualFailed PROVE Preparing'
  BY <1>18 DEF ManualFailed, ManualAt, ManualGoto, unseenByManual
<1>19. ASSUME ManualFinally PROVE Preparing'
  BY <1>19 DEF ManualFinally, ManualAt, ManualGoto, unseenByManual
<1>20. ASSUME RequestExit PROVE Preparing'
  BY <1>20 DEF RequestExit, unseenByExit
<1>21. ASSUME NEW how \in Exits, CloseBegin(how) PROVE Preparing'
  BY <1>21 DEF CloseBegin, CancelCurrent, unseenByExit
<1>22. ASSUME CloseJoin PROVE Preparing'
  BY <1>22 DEF CloseJoin, unseenByClose, unseenByExit
<1>23. ASSUME CloseAcquire PROVE Preparing'
  BY <1>23 DEF CloseAcquire, unseenByClose, unseenByExit
<1>24. ASSUME CloseVerify PROVE Preparing'
  BY <1>24 DEF CloseVerify, unseenByClose, unseenByExit
<1>25. ASSUME Launch PROVE Preparing'
  BY <1>25 DEF Launch, Nothing, unseenByClose, unseenByExit
<1>26. CASE UNCHANGED vars
  BY <1>26 DEF vars
<1> QED
  BY <1>1, <1>2, <1>3, <1>4, <1>5, <1>6, <1>7, <1>8, <1>9, <1>10, <1>11, <1>12, <1>13,
     <1>14, <1>15, <1>16, <1>17, <1>18, <1>19, <1>20, <1>21, <1>22, <1>23, <1>24, <1>25,
     <1>26
  DEF Next, WorkerStep, ManualStep, CloseStep

\* What close takes along stays wanted until the program ends.
LEMMA LeavingStep == TypeOK /\ Exclusion /\ Stopping /\ Preparing /\ Leaving /\ [Next]_vars => Leaving'
<1> SUFFICES ASSUME TypeOK, Exclusion, Stopping, Preparing, Leaving, [Next]_vars PROVE Leaving'
  OBVIOUS
<1> USE UpdateAssumption DEF TypeOK, WorkerState, ManualState, LeavingState, Launches,
      Exclusion, Stopping, Preparing, Leaving, WorkerBusy, ManualBusy, WorkerHolds, flags,
      shown, locks, desktop, None
<1>1. ASSUME RequestCheck PROVE Leaving'
  BY <1>1 DEF RequestCheck, AskForCheck, desktop, locks
<1>2. ASSUME NEW on \in BOOLEAN, SetPreferences(on) PROVE Leaving'
  BY <1>2 DEF SetPreferences, Unprepared, CancelCurrent, desktop, locks
<1>3. ASSUME AskAfterEnabling PROVE Leaving'
  BY <1>3 DEF AskAfterEnabling, AskForCheck, desktop, locks
<1>4. ASSUME WorkerTop PROVE Leaving'
  BY <1>4 DEF WorkerTop, WorkerAt, WorkerGoto, Retire, unseenByWorker
<1>5. ASSUME WorkerAcquire PROVE Leaving'
  BY <1>5 DEF WorkerAcquire, WorkerAt, WorkerGoto, unseenByWorker
<1>6. ASSUME WorkerCheck PROVE Leaving'
  BY <1>6 DEF WorkerCheck, WorkerAt, WorkerGoto, unseenByWorker
<1>7. ASSUME WorkerDecide PROVE Leaving'
  BY <1>7 DEF WorkerDecide, WorkerAt, WorkerGoto, WorkerNextRound, Automatic, NoNews,
             unseenByWorker
<1>8. ASSUME WorkerDownload PROVE Leaving'
  BY <1>8 DEF WorkerDownload, WorkerAt, WorkerGoto, unseenByWorker
<1>9. ASSUME WorkerPublish PROVE Leaving'
  BY <1>9 DEF WorkerPublish, WorkerAt, WorkerGoto, WorkerNextRound, Announceable,
             unseenByWorker
<1>10. ASSUME WorkerCancelled PROVE Leaving'
  BY <1>10 DEF WorkerCancelled, WorkerAt, WorkerGoto, WorkerNextRound, Unprepared,
             unseenByWorker
<1>11. ASSUME WorkerFailed PROVE Leaving'
  BY <1>11 DEF WorkerFailed, WorkerAt, WorkerGoto, WorkerNextRound, unseenByWorker
<1>12. ASSUME ManualRequest PROVE Leaving'
  BY <1>12 DEF ManualRequest, ManualAt, unseenByManual
<1>13. ASSUME ManualBegin PROVE Leaving'
  BY <1>13 DEF ManualBegin, ManualAt, ManualGoto, ManualFails, unseenByManual
<1>14. ASSUME ManualCheck PROVE Leaving'
  BY <1>14 DEF ManualCheck, ManualAt, ManualGoto, ManualFails, unseenByManual
<1>15. ASSUME ManualOffer PROVE Leaving'
  BY <1>15 DEF ManualOffer, ManualAt, ManualGoto, unseenByManual
<1>16. ASSUME ManualDownload PROVE Leaving'
  BY <1>16 DEF ManualDownload, ManualAt, ManualGoto, ManualFails, unseenByManual
<1>17. ASSUME ManualLaunch PROVE Leaving'
  BY <1>17 DEF ManualLaunch, ManualAt, ManualGoto, ManualFails, MayLaunch, unseenByManual
<1>18. ASSUME ManualFailed PROVE Leaving'
  BY <1>18 DEF ManualFailed, ManualAt, ManualGoto, unseenByManual
<1>19. ASSUME ManualFinally PROVE Leaving'
  BY <1>19 DEF ManualFinally, ManualAt, ManualGoto, unseenByManual
<1>20. ASSUME RequestExit PROVE Leaving'
  BY <1>20 DEF RequestExit, unseenByExit
<1>21. ASSUME NEW how \in Exits, CloseBegin(how) PROVE Leaving'
  BY <1>21 DEF CloseBegin, CancelCurrent, unseenByExit
<1>22. ASSUME CloseJoin PROVE Leaving'
  BY <1>22 DEF CloseJoin, unseenByClose, unseenByExit
<1>23. ASSUME CloseAcquire PROVE Leaving'
  BY <1>23 DEF CloseAcquire, unseenByClose, unseenByExit
<1>24. ASSUME CloseVerify PROVE Leaving'
  BY <1>24 DEF CloseVerify, unseenByClose, unseenByExit
<1>25. ASSUME Launch PROVE Leaving'
  BY <1>25 DEF Launch, Nothing, unseenByClose, unseenByExit
<1>26. CASE UNCHANGED vars
  BY <1>26 DEF vars
<1> QED
  BY <1>1, <1>2, <1>3, <1>4, <1>5, <1>6, <1>7, <1>8, <1>9, <1>10, <1>11, <1>12, <1>13,
     <1>14, <1>15, <1>16, <1>17, <1>18, <1>19, <1>20, <1>21, <1>22, <1>23, <1>24, <1>25,
     <1>26
  DEF Next, WorkerStep, ManualStep, CloseStep
--------------------------------------------------------------------------------
(* The theorems. *)

LEMMA InitIInv == Init => IInv
<1> SUFFICES ASSUME Init PROVE IInv
  OBVIOUS
<1>1. TypeOK
  BY DEF Init, TypeOK, Phase, Thread, Offer, None, NoNews, Nothing, WorkerState, WorkerPC,
         ManualState, ManualPC, LeavingState, ExitPC, Launches
<1>2. Exclusion /\ Stopping /\ Preparing /\ Leaving
  BY DEF Init, NoNews, None, Exclusion, Stopping, Preparing, Leaving, WorkerBusy, ManualBusy,
         WorkerHolds
<1> QED BY <1>1, <1>2 DEF IInv

LEMMA NextIInv == IInv /\ [Next]_vars => IInv'
BY TypeStep, ExclusionStep, StoppingStep, PreparingStep, LeavingStep DEF IInv

\* The inductive invariant holds in every reachable state.
THEOREM Invariant == Spec => []IInv
BY InitIInv, NextIInv, PTL DEF Spec

\* Type correctness of the coordinator, its threads and the exit of the program.
THEOREM TypeCorrect == Spec => []TypeOK
<1>1. IInv => TypeOK
  BY DEF IInv
<1> QED BY <1>1, Invariant, PTL

\* close, a preference switched off and an installation of the user's reach every
\* operation that is under way, though two threads replace the one event field.
THEOREM AllOperationsStop == Spec => []OperationsCanBeStopped
<1>1. IInv => OperationsCanBeStopped
  BY DEF IInv, Stopping, OperationsCanBeStopped
<1> QED BY <1>1, Invariant, PTL

\* A check that was requested is never left without a worker.
THEOREM RequestsAreServed == Spec => []NoRequestIsLost
<1>1. IInv => NoRequestIsLost
  BY DEF IInv, Stopping, NoRequestIsLost
<1> QED BY <1>1, Invariant, PTL

\* An update announced as ready is prepared, current and wanted.
THEOREM ReadyIsTrue == Spec => []AnnouncedIsPrepared
<1>1. IInv => AnnouncedIsPrepared
  BY DEF IInv, Preparing, AnnouncedIsPrepared
<1> QED BY <1>1, Invariant, PTL

\* After close has begun no installer is started and nothing becomes ready: both
\* threads ask whether to stop in the section that would do it.
THEOREM NothingStartsAtExit == Spec => NothingStartsWhileClosing
<1>1. [Next]_vars => (closing => installer' = installer /\ ready' \in {ready, None})
  <2> SUFFICES ASSUME [Next]_vars, closing
               PROVE  installer' = installer /\ ready' \in {ready, None}
    OBVIOUS
  <2> USE DEF flags, shown, desktop
  <2>1. ASSUME RequestCheck \/ AskAfterEnabling \/ \E on \in BOOLEAN : SetPreferences(on)
        PROVE  installer' = installer /\ ready' = ready
    BY <2>1 DEF RequestCheck, AskAfterEnabling, SetPreferences
  <2>2. ASSUME WorkerStep
        PROVE  installer' = installer /\ ready' \in {ready, None}
    BY <2>2 DEF WorkerStep, WorkerTop, WorkerAcquire, WorkerCheck, WorkerDecide,
                WorkerDownload, WorkerPublish, WorkerCancelled, WorkerFailed, Announceable,
                unseenByWorker
  <2>3. ASSUME ManualRequest \/ ManualStep
        PROVE  installer' = installer /\ ready' \in {ready, None}
    BY <2>3 DEF ManualRequest, ManualStep, ManualBegin, ManualCheck, ManualOffer,
                ManualDownload, ManualLaunch, ManualFailed, ManualFinally, MayLaunch
  <2>4. ASSUME RequestExit \/ CloseStep \/ \E how \in Exits : CloseBegin(how)
        PROVE  installer' = installer /\ ready' = ready
    BY <2>4 DEF RequestExit, CloseStep, CloseJoin, CloseAcquire, CloseVerify, Launch,
                CloseBegin, unseenByExit, unseenByClose
  <2>5. CASE UNCHANGED vars
    BY <2>5 DEF vars
  <2> QED BY <2>1, <2>2, <2>3, <2>4, <2>5 DEF Next
<1> QED BY <1>1, PTL DEF Spec, NothingStartsWhileClosing

\* Only the update that is offered, supported and wanted is installed at the exit,
\* and never beside one the user installs.
THEOREM OnlyWantedIsHandedOver == Spec => []HandoverIsWanted
<1>1. IInv => HandoverIsWanted
  BY DEF IInv, Preparing, Leaving, HandoverIsWanted
<1> QED BY <1>1, Invariant, PTL

================================================================================
