--------------------------- MODULE UpdateCoordinator ---------------------------
(***************************************************************************)
(* Updates of the installed desktop program: the background worker that    *)
(* checks and prepares an update, the installation a user starts, the      *)
(* preference, and the exit that hands one installer over                  *)
(* (simple/update_coordinator.py, with main of simple/desktop.py and the   *)
(* outcomes of check_update, download_update and verify_download of        *)
(* simple/updating.py).                                                    *)
(*                                                                         *)
(* An action is one section under _lock or one call between two sections.  *)
(* The end of a `with self._operation` block is part of the last step      *)
(* inside it. Every state space is finite: nothing here is counted.        *)
(***************************************************************************)
EXTENDS Integers

CONSTANTS
    Versions,     \* newer versions the release page may offer
    AutoVersions  \* those supports_automatic_install accepts

ASSUME UpdateAssumption ==
    /\ Versions \subseteq Nat \ {0}
    /\ AutoVersions \subseteq Versions

None    == 0
Offer   == Versions \cup {None}
Phase   == {"idle", "manual", "checking", "downloading", "ready", "error"}
Busy    == {"checking", "downloading"}
Thread  == {"worker", "manual", "exit"}
\* "none": _worker is None; "ended": _run returned and left _worker set.
WorkerPC == {"none", "top", "acquire", "check", "decide", "download", "publish",
             "cancelled", "failed", "ended"}
ManualPC == {"idle", "begin", "check", "offer", "download", "launch", "failed", "finally"}
Exits    == {"requested", "stopped", "failed"}
ExitPC   == {"open", "join", "acquire", "verify", "launch", "ended"}

VARIABLES
    supported,  \* auto_supported, fixed for an installation
    enabled,    \* auto_enabled, read from the preferences file at the start
    asking,     \* set_preferences(True) has yet to call request_check
    closing,    \* _closing
    requested,  \* _check_requested
    pending,    \* _manual_pending
    started,    \* _manual_started
    ready,      \* _ready, by its version
    info,       \* the available version of _info, or None
    phase,      \* _phase
    current,    \* the thread whose cancel event _cancel is
    operation,  \* holder of _operation
    worker,     \* the worker thread: place, cancel event, version it works on
    manual,     \* the thread inside install_manual, likewise
    leaving,    \* main: place in its exit, how it left, the candidate of close
    exitRequested,  \* exit_requested of main
    installer,  \* pending_installer of main
    launched    \* the installer main launched, and whether unattended

flags   == <<closing, requested, pending, started>>
shown   == <<ready, info, phase>>
locks   == <<current, operation>>
desktop == <<leaving, exitRequested, installer, launched>>
vars == <<supported, enabled, asking, flags, shown, locks, worker, manual, desktop>>

--------------------------------------------------------------------------------
Running == leaving.pc # "ended"

\* Mutant: only the background operation is told to stop.
CancelWorkerOnly ==
    /\ worker' = [worker EXCEPT !.cancel = @ \/ current = "worker"]
    /\ manual' = manual

\* self._cancel.set()
CancelCurrent ==
    /\ worker' = [worker EXCEPT !.cancel = @ \/ current = "worker"]
    /\ manual' = [manual EXCEPT !.cancel = @ \/ current = "manual"]

\* Mutant: an operation that was stopped leaves the phase it found.
UnpreparedKeepsPhase == phase

Unprepared == IF info # None THEN "manual" ELSE "idle"
NoNews     == IF supported THEN "idle" ELSE "manual"

Nothing == [version |-> None, silent |-> FALSE]

Init ==
    /\ supported \in BOOLEAN
    /\ enabled \in BOOLEAN
    /\ asking = FALSE
    /\ closing = FALSE /\ requested = FALSE /\ pending = FALSE /\ started = FALSE
    /\ ready = None /\ info = None
    /\ phase = NoNews
    /\ current = "nobody" /\ operation = "free"
    /\ worker = [pc |-> "none", cancel |-> FALSE, version |-> None]
    /\ manual = [pc |-> "idle", cancel |-> FALSE, version |-> None]
    /\ leaving = [pc |-> "open", how |-> "open", ready |-> None]
    /\ exitRequested = FALSE
    /\ installer = None
    /\ launched = Nothing

(***************************************************************************)
(* The interface: endpoints of the local server and the start of main.     *)
(***************************************************************************)
\* request_check under the lock; it starts a worker when there is none.
AskForCheck ==
    \/ /\ closing \/ pending \/ started
       /\ UNCHANGED <<requested, phase, worker>>
    \/ /\ ~(closing \/ pending \/ started)
       /\ requested' = TRUE
       /\ \/ /\ worker.pc = "none"
             /\ worker' = [worker EXCEPT !.pc = "top"]
             /\ phase' = "checking"
          \/ /\ worker.pc # "none"
             /\ UNCHANGED <<worker, phase>>

\* GET /updates, and start() at launch.
RequestCheck ==
    /\ Running
    /\ AskForCheck
    /\ UNCHANGED <<supported, enabled, asking, closing, pending, started, ready, info,
                   locks, manual, desktop>>

\* PATCH /updates/preferences, first section.
SetPreferences(on) ==
    /\ Running /\ ~closing /\ ~asking
    /\ enabled' = on
    /\ \/ /\ on
          /\ asking' = supported
          /\ UNCHANGED <<requested, phase, worker, manual>>
       \/ /\ ~on
          /\ asking' = FALSE
          /\ requested' = FALSE
          /\ phase' = Unprepared
          /\ \/ pending /\ UNCHANGED <<worker, manual>>
             \/ ~pending /\ CancelCurrent
    /\ UNCHANGED <<supported, closing, pending, started, ready, info, locks, desktop>>

\* The request_check that set_preferences(True) ends with.
AskAfterEnabling ==
    /\ Running /\ asking
    /\ asking' = FALSE
    /\ AskForCheck
    /\ UNCHANGED <<supported, enabled, closing, pending, started, ready, info, locks,
                   manual, desktop>>

--------------------------------------------------------------------------------
(***************************************************************************)
(* The background worker, _run.                                            *)
(***************************************************************************)
WorkerAt(pc) == Running /\ worker.pc = pc
WorkerGoto(pc) == worker' = [worker EXCEPT !.pc = pc]
\* The next iteration, after leaving the operation.
WorkerNextRound == WorkerGoto("top") /\ operation' = "free"

\* Mutant: a worker that returns without clearing _worker.
RetireUnnoticed == WorkerGoto("ended")

\* self._worker = None; return
Retire == WorkerGoto("none")

unseenByWorker == <<supported, enabled, asking, manual, desktop>>

WorkerTop ==
    /\ WorkerAt("top")
    /\ \/ /\ closing \/ pending \/ ~requested
          /\ Retire
          /\ UNCHANGED <<requested, phase, current>>
       \/ /\ ~closing /\ ~pending /\ requested
          /\ requested' = FALSE
          /\ worker' = [pc |-> "acquire", cancel |-> FALSE, version |-> None]
          /\ current' = "worker"
          /\ phase' = "checking"
    /\ UNCHANGED <<unseenByWorker, closing, pending, started, ready, info, operation>>

WorkerAcquire ==
    /\ WorkerAt("acquire") /\ operation = "free"
    /\ operation' = "worker"
    /\ WorkerGoto("check")
    /\ UNCHANGED <<unseenByWorker, flags, shown, current>>

\* check_update between two tests of the event. It reports every failure in its
\* result: version None stands for an error as for no news until WorkerDecide.
WorkerCheck ==
    /\ WorkerAt("check")
    /\ \/ worker.cancel /\ WorkerGoto("cancelled")
       \/ /\ ~worker.cancel
          /\ \E v \in Offer : worker' = [worker EXCEPT !.pc = "decide", !.version = v]
    /\ UNCHANGED <<unseenByWorker, flags, shown, locks>>

Automatic(v) == supported /\ enabled /\ v \in AutoVersions

WorkerDecide ==
    /\ WorkerAt("decide")
    /\ \/ /\ closing
          /\ WorkerGoto("ended") /\ operation' = "free"
          /\ UNCHANGED shown
       \/ /\ ~closing
          /\ info' = worker.version
          /\ ready' = None
          /\ \/ /\ worker.version = None
                /\ phase' \in {"error", NoNews}
                /\ WorkerNextRound
             \/ /\ worker.version # None /\ ~Automatic(worker.version)
                /\ phase' = "manual"
                /\ WorkerNextRound
             \/ /\ worker.version # None /\ Automatic(worker.version)
                /\ phase' = "downloading"
                /\ WorkerGoto("download") /\ UNCHANGED operation
    /\ UNCHANGED <<unseenByWorker, flags, current>>

\* download_update tests the event throughout and last before it returns; the
\* release it fetches again must still be the version of the check.
WorkerDownload ==
    /\ WorkerAt("download")
    /\ \/ ~worker.cancel /\ WorkerGoto("publish")
       \/ worker.cancel /\ WorkerGoto("cancelled")
       \/ WorkerGoto("failed")
    /\ UNCHANGED <<unseenByWorker, flags, shown, locks>>

\* Mutant: the finished download is announced without asking again.
AnnounceableUnasked == TRUE

Announceable == ~closing /\ ~worker.cancel /\ enabled

\* verify_download, then the section that announces the prepared update.
WorkerPublish ==
    /\ WorkerAt("publish")
    /\ \/ WorkerGoto("failed") /\ UNCHANGED <<shown, operation>>
       \/ /\ \/ Announceable /\ ready' = worker.version /\ phase' = "ready"
             \/ ~Announceable /\ UNCHANGED <<ready, phase>>
          /\ WorkerNextRound
          /\ UNCHANGED info
    /\ UNCHANGED <<unseenByWorker, flags, current>>

\* except UpdateCancelled
WorkerCancelled ==
    /\ WorkerAt("cancelled")
    /\ phase' = IF closing THEN phase ELSE Unprepared
    /\ WorkerNextRound
    /\ UNCHANGED <<unseenByWorker, flags, ready, info, current>>

\* except Exception
WorkerFailed ==
    /\ WorkerAt("failed")
    /\ ready' = None
    /\ phase' = "error"
    /\ WorkerNextRound
    /\ UNCHANGED <<unseenByWorker, flags, info, current>>

WorkerStep ==
    \/ WorkerTop \/ WorkerAcquire \/ WorkerCheck \/ WorkerDecide
    \/ WorkerDownload \/ WorkerPublish \/ WorkerCancelled \/ WorkerFailed

--------------------------------------------------------------------------------
(***************************************************************************)
(* An installation the user starts, install_manual. Its error handler runs *)
(* after the operation is released.                                        *)
(***************************************************************************)
ManualAt(pc) == Running /\ manual.pc = pc
ManualGoto(pc) == manual' = [manual EXCEPT !.pc = pc]
ManualFails == ManualGoto("failed") /\ operation' = "free"

unseenByManual == <<supported, enabled, asking, leaving, exitRequested, launched>>

\* POST /updates/install, the section before the wait for the operation.
ManualRequest ==
    /\ ManualAt("idle") /\ ~closing /\ ~pending /\ ~started
    /\ pending' = TRUE
    /\ requested' = FALSE
    /\ worker' = [worker EXCEPT !.cancel = @ \/ current = "worker"]
    /\ manual' = [manual EXCEPT !.pc = "begin", !.cancel = @ \/ current = "manual"]
    /\ UNCHANGED <<unseenByManual, closing, started, shown, locks, installer>>

ManualBegin ==
    /\ ManualAt("begin") /\ operation = "free"
    /\ \/ /\ closing
          /\ ManualFails /\ UNCHANGED <<current, phase>>
       \/ /\ ~closing
          /\ operation' = "manual"
          /\ current' = "manual"
          /\ phase' = "checking"
          /\ manual' = [pc |-> "check", cancel |-> FALSE, version |-> None]
    /\ UNCHANGED <<unseenByManual, flags, ready, info, worker, installer>>

\* An error or no newer version fails the installation.
ManualCheck ==
    /\ ManualAt("check")
    /\ \/ ManualFails
       \/ /\ ~manual.cancel
          /\ \E v \in Versions : manual' = [manual EXCEPT !.pc = "offer", !.version = v]
          /\ UNCHANGED operation
    /\ UNCHANGED <<unseenByManual, flags, shown, current, worker, installer>>

ManualOffer ==
    /\ ManualAt("offer")
    /\ info' = manual.version
    /\ phase' = "downloading"
    /\ ManualGoto("download")
    /\ UNCHANGED <<unseenByManual, flags, ready, locks, worker, installer>>

ManualDownload ==
    /\ ManualAt("download")
    /\ \/ ManualFails
       \/ ~manual.cancel /\ ManualGoto("launch") /\ UNCHANGED operation
    /\ UNCHANGED <<unseenByManual, flags, shown, current, worker, installer>>

\* Mutant: the installer is started without asking again whether to stop.
MayLaunchUnasked == TRUE

MayLaunch == ~manual.cancel /\ ~closing

\* verify_download, then the section that calls install_update of main, which
\* verifies again: either may refuse the file.
ManualLaunch ==
    /\ ManualAt("launch")
    /\ \/ ManualFails /\ UNCHANGED <<started, ready, phase, installer>>
       \/ /\ MayLaunch
          /\ installer' = IF installer = None THEN manual.version ELSE installer
          /\ started' = TRUE
          /\ ready' = None
          /\ phase' = "manual"
          /\ ManualGoto("finally") /\ operation' = "free"
    /\ UNCHANGED <<unseenByManual, closing, requested, pending, info, current, worker>>

\* Mutant: the update prepared before a failed installation stays prepared.
ManualFailedKeepsReady ==
    /\ ManualAt("failed")
    /\ phase' = "error"
    /\ ManualGoto("finally")
    /\ UNCHANGED <<unseenByManual, flags, ready, info, locks, worker, installer>>

ManualFailed ==
    /\ ManualAt("failed")
    /\ ready' = None
    /\ phase' = "error"
    /\ ManualGoto("finally")
    /\ UNCHANGED <<unseenByManual, flags, info, locks, worker, installer>>

\* Mutant: pending is cleared at the end of a successful installation only.
ManualFinallyOnSuccess ==
    /\ ManualAt("finally")
    /\ pending' = ~started
    /\ ManualGoto("idle")
    /\ UNCHANGED <<unseenByManual, closing, requested, started, shown, locks, worker, installer>>

ManualFinally ==
    /\ ManualAt("finally")
    /\ pending' = FALSE
    /\ ManualGoto("idle")
    /\ UNCHANGED <<unseenByManual, closing, requested, started, shown, locks, worker, installer>>

ManualStep ==
    \/ ManualBegin \/ ManualCheck \/ ManualOffer \/ ManualDownload
    \/ ManualLaunch \/ ManualFailed \/ ManualFinally

--------------------------------------------------------------------------------
(***************************************************************************)
(* The exit of main and close.                                             *)
(***************************************************************************)
\* Every other variable of the coordinator.
unseenByExit == <<supported, enabled, asking, pending, started, ready, info, current, installer>>

\* The window is closed, or POST /shutdown.
RequestExit ==
    /\ Running /\ ~exitRequested
    /\ exitRequested' = TRUE
    /\ UNCHANGED <<unseenByExit, closing, requested, phase, operation, worker, manual, leaving, launched>>

\* Mutant: install_update notes the installer but asks for no shutdown.
ShutdownTimerMissing == FALSE /\ RequestExit

\* request_shutdown's thread, 0.3 seconds after install_update.
ShutdownTimer ==
    /\ installer # None
    /\ RequestExit

\* How main leaves: exit_requested was set; Ctrl+C or a server that stopped; or
\* an exception, after which main returns 1 and launches nothing.
CloseBegin(how) ==
    /\ leaving.pc = "open"
    /\ how = "requested" => exitRequested
    /\ closing' = TRUE
    /\ requested' = FALSE
    /\ CancelCurrent
    /\ leaving' = [pc |-> "join", how |-> how,
                   ready |-> IF how = "requested" /\ supported /\ enabled /\ ~started /\ ~pending
                             THEN ready ELSE None]
    /\ UNCHANGED <<unseenByExit, phase, operation, exitRequested, launched>>

unseenByClose == <<unseenByExit, closing, requested, worker, manual, exitRequested>>

\* worker.join(timeout=20): it ends, or the wait does.
CloseJoin ==
    /\ leaving.pc = "join"
    /\ leaving' = [leaving EXCEPT !.pc = "acquire"]
    /\ UNCHANGED <<unseenByClose, phase, operation, launched>>

\* _operation.acquire(timeout=20), which may give up: then close returns None.
CloseAcquire ==
    /\ leaving.pc = "acquire"
    /\ \/ /\ operation = "free"
          /\ operation' = "exit"
          /\ leaving' = [leaving EXCEPT !.pc = "verify"]
       \/ /\ operation # "free"
          /\ leaving' = [leaving EXCEPT !.pc = "launch", !.ready = None]
          /\ UNCHANGED operation
    /\ UNCHANGED <<unseenByClose, phase, launched>>

\* The prepared file is verified once more before it is returned.
CloseVerify ==
    /\ leaving.pc = "verify"
    /\ \/ /\ leaving' = [leaving EXCEPT !.pc = "launch"]
          /\ UNCHANGED phase
       \/ /\ leaving.ready # None
          /\ leaving' = [leaving EXCEPT !.pc = "launch", !.ready = None]
          /\ phase' = "error"
    /\ operation' = "free"
    /\ UNCHANGED <<unseenByClose, launched>>

\* The end of main and launch_installer, which may refuse the file.
Launch ==
    /\ leaving.pc = "launch"
    /\ leaving' = [leaving EXCEPT !.pc = "ended"]
    /\ \/ launched' = Nothing
       \/ /\ leaving.how # "failed" /\ installer # None
          /\ launched' = [version |-> installer, silent |-> FALSE]
       \/ /\ leaving.how # "failed" /\ installer = None /\ leaving.ready # None
          /\ launched' = [version |-> leaving.ready, silent |-> TRUE]
    /\ UNCHANGED <<unseenByClose, phase, operation>>

CloseStep == CloseJoin \/ CloseAcquire \/ CloseVerify \/ Launch

--------------------------------------------------------------------------------
Next ==
    \/ RequestCheck
    \/ \E on \in BOOLEAN : SetPreferences(on)
    \/ AskAfterEnabling
    \/ WorkerStep
    \/ ManualRequest
    \/ ManualStep
    \/ RequestExit
    \/ \E how \in Exits : CloseBegin(how)
    \/ CloseStep

Spec == Init /\ [][Next]_vars

\* Threads are scheduled and every wait on the network or a lock is bounded; main
\* notices an exit request. Nothing is assumed of the user.
FairSpec ==
    /\ Spec
    /\ WF_vars(WorkerStep) /\ WF_vars(ManualStep) /\ WF_vars(AskAfterEnabling)
    /\ WF_vars(ShutdownTimer) /\ WF_vars(CloseBegin("requested")) /\ WF_vars(CloseStep)

--------------------------------------------------------------------------------
(***************************************************************************)
(* Properties.                                                             *)
(***************************************************************************)
WorkerState  == [pc : WorkerPC, cancel : BOOLEAN, version : Offer]
ManualState  == [pc : ManualPC, cancel : BOOLEAN, version : Offer]
LeavingState == [pc : ExitPC, how : Exits \cup {"open"}, ready : Offer]
Launches     == [version : Offer, silent : BOOLEAN]

TypeOK ==
    /\ supported \in BOOLEAN /\ enabled \in BOOLEAN /\ asking \in BOOLEAN
    /\ closing \in BOOLEAN /\ requested \in BOOLEAN /\ pending \in BOOLEAN
    /\ started \in BOOLEAN /\ exitRequested \in BOOLEAN
    /\ ready \in Offer /\ info \in Offer /\ installer \in Offer
    /\ phase \in Phase
    /\ current \in Thread \cup {"nobody"} /\ operation \in Thread \cup {"free"}
    /\ worker \in WorkerState /\ manual \in ManualState
    /\ leaving \in LeavingState /\ launched \in Launches

WorkerBusy == worker.pc \in {"acquire", "check", "decide", "download", "publish"}
ManualBusy == manual.pc \in {"check", "offer", "download", "launch"}

\* _cancel is one field for two threads that replace it: whichever operation it no
\* longer reaches was told to stop before, and once close has begun no operation
\* goes on that was not.
OperationsCanBeStopped ==
    /\ WorkerBusy => current = "worker" \/ worker.cancel
    /\ ManualBusy => current = "manual" \/ manual.cancel
    /\ closing => (WorkerBusy => worker.cancel) /\ (ManualBusy => manual.cancel)

\* A requested check always has a worker that will see it: the worker gives up
\* its place in the same section that finds no request.
NoRequestIsLost == requested => worker.pc \notin {"none", "ended"}

\* While the status announces "ready: installed when you exit", there is a prepared
\* installer of the version shown, and the preference is on: an exit would install it.
AnnouncedIsPrepared ==
    phase = "ready" => ready = info /\ ready # None /\ enabled /\ supported /\ ~started

\* close returns an installer only after a requested exit of a supported and enabled
\* installation, of the version the last check offered, one that installs
\* unattended, and never beside an installation of the user's, before or after.
HandoverIsWanted ==
    leaving.ready # None =>
        /\ leaving.how = "requested"
        /\ supported /\ enabled
        /\ leaving.ready = info /\ leaving.ready \in AutoVersions
        /\ ~pending /\ installer = None

\* Once close has begun no installer is started and no update becomes ready.
NothingStartsWhileClosing ==
    [][closing => installer' = installer /\ ready' \in {ready, None}]_vars

\* The status does not stay at "checking" or "downloading" for ever.
BusyEnds == phase \in Busy ~> phase \notin Busy \/ closing

\* An installation the user asked for comes to an end, waiting for the worker
\* included, unless the program ends first.
ManualEnds == pending ~> ~pending \/ leaving.pc = "ended"

\* An installer the user started leads to an exit, after which it is the one
\* launched, unless main ended with an exception or the file was refused.
InstallerLeadsToExit ==
    \A v \in Versions :
        installer = v ~> leaving.pc = "ended" /\ launched \in {Nothing, [version |-> v, silent |-> FALSE]}

================================================================================
