--------------------------- MODULE EventDispatch ---------------------------
(***************************************************************************)
(* How opsiclientd lets one event run at a time.                           *)
(*                                                                         *)
(* An occurrence of an event is carried by three threads that hand over to *)
(* each other and never run at the same time on its behalf: the caller of  *)
(* EventGenerator.fireEvent (a generator's own thread or an RPC worker),   *)
(* the FireEventThread that runs Opsiclientd.processEvent, and the         *)
(* EventProcessingThread (EPT).  pc[e] is where the occurrence e has got   *)
(* to.  Opsiclientd.eventLock is taken by the caller and handed, locked,   *)
(* to the FireEventThread; EPTs take it for the length of one assignment.  *)
(* _eptListLock is never held across a wait here, so that the steps made   *)
(* under it are atomic.  Time is abstract: a timeout may expire at any     *)
(* moment at which the thing waited for has not happened.                  *)
(***************************************************************************)
EXTENDS Naturals, FiniteSets

CONSTANTS
  Events,     \* occurrences of events; each is fired at most once (bound)
  Config,     \* Config[e]: what the code reads of the event and its caller
  Generators, \* threads that run EventGenerator.run
  Nobody,     \* no occurrence holds eventLock
  Outside     \* what may come from outside of the event handling (bound)

Kinds == {"default", "login", "panic"}

(***************************************************************************)
(* kind       PanicEvent, an event with actionType "login", or any other   *)
(* source     the generator thread that fires it, or "rpc"                 *)
(* canCancel  fireEvent's can_cancel: callers of the control server and    *)
(*            the kiosk set it, generators never do                        *)
(* the others are fields of EventConfig                                    *)
(***************************************************************************)
EventConfigs ==
  [kind : Kinds, source : Generators \cup {"rpc"}, canCancel : BOOLEAN,
   processActions : BOOLEAN, blockLogin : BOOLEAN, workingWindow : BOOLEAN]

(***************************************************************************)
(* marker     an opsi script leaves the restart marker                     *)
(* rpc        an administrator calls setBlockLogin                         *)
(* restart    an administrator or a self update calls restart              *)
(* error      the config cache service cannot be created                   *)
(***************************************************************************)
Disturbances == {"marker", "rpc", "restart", "error"}

ASSUME ConfigAssumption == Config \in [Events -> EventConfigs]
ASSUME NobodyAssumption == Nobody \notin Events
ASSUME OutsideAssumption == Outside \subseteq Disturbances

VARIABLES
  pc,           \* where each occurrence has got to
  eventLock,    \* the occurrence that holds Opsiclientd.eventLock, or Nobody
  eptList,      \* Opsiclientd._eventProcessingThreads
  running,      \* EventProcessingThread.running
  cancelable,   \* EventProcessingThread._is_cancelable
  shouldCancel, \* EventProcessingThread._should_cancel
  waitFor,      \* cancelOthersAndWaitUntilReady: threads still waited for
  blockLogin,   \* Opsiclientd._blockLogin
  overruled,    \* history: since an event last set blockLogin, a restart or
                \* the RPC setBlockLogin has
  cacheOpen,    \* the config cache service is there, or its creation cannot fail
  restart,      \* "none", "marker": the restart marker exists, or "called":
                \* a thread is about to write it and to replace the process
  alive,        \* generators whose thread has not exited
  main          \* Opsiclientd._run: "boot", "starting" or "up"

flags == <<running, cancelable, shouldCancel>>
login == <<blockLogin, overruled>>
daemon == <<login, cacheOpen, restart, alive, main>>
vars == <<pc, eventLock, eptList, flags, waitFor, daemon>>

\* Stages in which the occurrence's caller or FireEventThread holds eventLock;
\* in "stuck" the thread has ended and nobody releases the lock any more.
LockStages == {"check", "notify", "cancel", "wait", "create", "stuck"}
\* Stages of EventProcessingThread.run between running = True and False.
RunStages ==
  {"enable", "block", "prepare", "connect", "guard", "disable", "actions",
   "recheck", "seal", "sync", "finally", "reopen", "shutdown", "close",
   "unblock", "ending", "stopping"}
\* The EPT exists and has not finished.
ActiveStages == {"start", "window"} \cup RunStages
Stages ==
  {"idle", "acquire", "marker", "leave", "over", "refused"} \cup LockStages \cup ActiveStages

NonLogin == {e \in Events : Config[e].kind # "login"}

\* Once restart has been called the process may end between any two steps.
Lives == restart # "called"

Goto(e, stage) == pc' = [pc EXCEPT ![e] = stage]

-----------------------------------------------------------------------------

Init ==
  /\ pc = [e \in Events |-> "idle"]
  /\ eventLock = Nobody
  /\ eptList = {}
  /\ running = [e \in Events |-> FALSE]
  /\ cancelable = [e \in Events |-> FALSE]
  /\ shouldCancel = [e \in Events |-> FALSE]
  /\ waitFor = [e \in Events |-> {}]
  /\ blockLogin = FALSE
  /\ overruled = FALSE
  /\ cacheOpen = ("error" \notin Outside)
  /\ restart = "none"
  /\ alive = Generators
  /\ main = "boot"

-----------------------------------------------------------------------------
(* The main thread (Opsiclientd._run, runEventGenerators).                 *)

\* Login is blocked before anything else is started.  A restart marker may have
\* been left in place (remove_marker=false).
MainBlockLogin ==
  /\ main = "boot"
  /\ main' = "starting"
  /\ blockLogin' = TRUE
  /\ restart' \in {"none"} \cup (Outside \cap {"marker"})
  /\ UNCHANGED <<pc, eventLock, eptList, flags, waitFor, overruled, cacheOpen, alive>>

\* A mutant: the list of running events is not looked at.
MainUnblockLoginAlways ==
  /\ main = "starting"
  /\ main' = "up"
  /\ blockLogin' = FALSE
  /\ UNCHANGED <<pc, eventLock, eptList, flags, waitFor, overruled, cacheOpen,
                 restart, alive>>

\* The GUI is there, or the wait for it has timed out: under _eptListLock,
\* login is unblocked unless an event is being processed.
MainUnblockLogin ==
  /\ main = "starting"
  /\ main' = "up"
  /\ blockLogin' = (blockLogin /\ eptList # {})
  /\ UNCHANGED <<pc, eventLock, eptList, flags, waitFor, overruled, cacheOpen,
                 restart, alive>>

-----------------------------------------------------------------------------
(* EventGenerator.fireEvent                                                *)

\* Events are fired once the generators exist, by a live generator or by RPC.
Fire(e) ==
  /\ pc[e] = "idle"
  /\ main # "boot"
  /\ Config[e].source \in alive \cup {"rpc"}
  /\ Goto(e, "acquire")
  /\ UNCHANGED <<eventLock, eptList, flags, waitFor, daemon>>

FireAcquire(e) ==
  /\ pc[e] = "acquire"
  /\ eventLock = Nobody
  /\ eventLock' = e
  /\ Goto(e, "check")
  /\ UNCHANGED <<eptList, flags, waitFor, daemon>>

\* acquire(timeout=5) fails while the holder sleeps, waits or calls the system:
\* ValueError.  An RPC caller gets the error; a generator's run catches
\* CannotCancelEventError only, and exits.
FireTimeout(e) ==
  /\ pc[e] = "acquire"
  /\ eventLock # Nobody
  /\ pc[eventLock] \in {"notify", "wait", "create", "stuck"}
  /\ Goto(e, "refused")
  /\ alive' = alive \ {Config[e].source}
  /\ UNCHANGED <<eventLock, eptList, flags, waitFor, login, cacheOpen, restart,
                 main>>

\* Opsiclientd.canProcessEvent: no CannotCancelEventError.
CanProcessEvent(e) ==
  \/ Config[e].kind = "panic"
  \/ /\ \A t \in eptList : cancelable[t]
     /\ eptList # {} => Config[e].canCancel

\* The lock is kept: the FireEventThread releases it.
FireAccepted(e) ==
  /\ pc[e] = "check"
  /\ CanProcessEvent(e)
  /\ Goto(e, "notify")
  /\ UNCHANGED <<eventLock, eptList, flags, waitFor, daemon>>

FireRejected(e) ==
  /\ pc[e] = "check"
  /\ ~CanProcessEvent(e)
  /\ eventLock' = Nobody
  /\ Goto(e, "refused")
  /\ UNCHANGED <<eptList, flags, waitFor, daemon>>

-----------------------------------------------------------------------------
(* Opsiclientd.processEvent                                                *)

\* After notificationDelay.  A login event cancels no other event.
Notify(e) ==
  /\ pc[e] = "notify"
  /\ Goto(e, IF e \in NonLogin THEN "cancel" ELSE "create")
  /\ UNCHANGED <<eventLock, eptList, flags, waitFor, daemon>>

CancelTargets == eptList \cap NonLogin

\* A mutant: events are told to stop, and not waited for.
CancelOthersNoWait(e) ==
  /\ pc[e] = "cancel"
  /\ \A t \in CancelTargets : cancelable[t]
  /\ shouldCancel' = [t \in Events |-> shouldCancel[t] \/ t \in CancelTargets]
  /\ Goto(e, "wait")
  /\ UNCHANGED <<eventLock, eptList, running, cancelable, waitFor, daemon>>

\* cancel(no_lock=True) of every other non-login event, under _eptListLock.
CancelOthers(e) ==
  /\ pc[e] = "cancel"
  /\ \A t \in CancelTargets : cancelable[t]
  /\ shouldCancel' = [t \in Events |-> shouldCancel[t] \/ t \in CancelTargets]
  /\ waitFor' = [waitFor EXCEPT ![e] = CancelTargets]
  /\ Goto(e, "wait")
  /\ UNCHANGED <<eventLock, eptList, running, cancelable, daemon>>

\* RuntimeError at the first thread that is not cancelable; threads earlier in
\* the list have been told to stop.
CancelOthersFails(e) ==
  /\ pc[e] = "cancel"
  /\ \E told \in SUBSET {t \in CancelTargets : cancelable[t]} :
       shouldCancel' = [t \in Events |-> shouldCancel[t] \/ t \in told]
  /\ \E t \in CancelTargets : ~cancelable[t]
  /\ eventLock' = Nobody
  /\ Goto(e, "refused")
  /\ UNCHANGED <<eptList, running, cancelable, waitFor, daemon>>

\* A mutant: the running flag is not looked at.
WaitEndedUnchecked(e) ==
  /\ pc[e] = "wait"
  /\ \E t \in waitFor[e] : waitFor' = [waitFor EXCEPT ![e] = @ \ {t}]
  /\ UNCHANGED <<pc, eventLock, eptList, flags, daemon>>

\* One thread waited for has ended.  The config cache is marked faulty (module
\* ConfigCache), or it is not: a RuntimeError, as there is no cache service, is
\* caught, and the event takes over all the same.
WaitEnded(e) ==
  /\ pc[e] = "wait"
  /\ \E t \in waitFor[e] :
       /\ ~running[t]
       /\ waitFor' = [waitFor EXCEPT ![e] = @ \ {t}]
  /\ UNCHANGED <<pc, eventLock, eptList, flags, daemon>>

\* The mark is the first use of the config cache, and its service cannot be
\* created: an exception of the file system or of a database is caught only by
\* the FireEventThread, which ends and leaves the lock locked.
WaitEndedFails(e) ==
  /\ pc[e] = "wait"
  /\ ~cacheOpen
  /\ \E t \in waitFor[e] : ~running[t]
  /\ waitFor' = [waitFor EXCEPT ![e] = {}]
  /\ Goto(e, "stuck")
  /\ UNCHANGED <<eventLock, eptList, flags, daemon>>

\* A mutant: the wait has no timeout.
WaitTimeoutNever(e) == FALSE /\ WaitEnded(e)

\* ValueError after WAIT_SECONDS.
WaitTimeout(e) ==
  /\ pc[e] = "wait"
  /\ \E t \in waitFor[e] : running[t]
  /\ waitFor' = [waitFor EXCEPT ![e] = {}]
  /\ eventLock' = Nobody
  /\ Goto(e, "refused")
  /\ UNCHANGED <<eptList, flags, daemon>>

WaitReady(e) ==
  /\ pc[e] = "wait"
  /\ waitFor[e] = {}
  /\ Goto(e, "create")
  /\ UNCHANGED <<eventLock, eptList, flags, waitFor, daemon>>

\* The EPT joins the list and the lock is released.
CreateEPT(e) ==
  /\ pc[e] = "create"
  /\ eptList' = eptList \cup {e}
  /\ eventLock' = Nobody
  /\ Goto(e, "start")
  /\ UNCHANGED <<flags, waitFor, daemon>>

\* createActionProcessorUser raises: the lock is released, nothing is started.
CreateFails(e) ==
  /\ pc[e] = "create"
  /\ eventLock' = Nobody
  /\ Goto(e, "refused")
  /\ UNCHANGED <<eptList, flags, waitFor, daemon>>

StartEPT(e) ==
  /\ pc[e] = "start"
  /\ Goto(e, "window")
  /\ UNCHANGED <<eventLock, eptList, flags, waitFor, daemon>>

\* After join, under _eptListLock.
Leave(e) ==
  /\ pc[e] = "leave"
  /\ eptList' = eptList \ {e}
  /\ Goto(e, "over")
  /\ UNCHANGED <<eventLock, flags, waitFor, daemon>>

-----------------------------------------------------------------------------
(* EventProcessingThread.run                                               *)

\* Outside the working window run returns at once.
OutsideWindow(e) ==
  /\ pc[e] = "window"
  /\ Config[e].workingWindow
  /\ Goto(e, "leave")
  /\ UNCHANGED <<eventLock, eptList, flags, waitFor, daemon>>

BeginRun(e) ==
  /\ pc[e] = "window"
  /\ running' = [running EXCEPT ![e] = TRUE]
  /\ Goto(e, "enable")
  /\ UNCHANGED <<eventLock, eptList, cancelable, shouldCancel, waitFor, daemon>>

\* _set_cancelable(value): takes eventLock for one assignment.
SetCancelable(e, value) ==
  /\ eventLock = Nobody
  /\ cancelable' = [cancelable EXCEPT ![e] = value]
  /\ UNCHANGED <<eventLock, eptList, running, shouldCancel, waitFor, daemon>>

\* _set_cancelable(True) raises EventProcessingCanceled if told to cancel.
EnableCancel(e) ==
  /\ pc[e] = "enable"
  /\ SetCancelable(e, TRUE)
  /\ Goto(e, IF shouldCancel[e] THEN "ending" ELSE "block")

SetBlockLogin(value) ==
  /\ blockLogin' = value
  /\ UNCHANGED <<eventLock, eptList, flags, waitFor, cacheOpen, alive, main>>

BlockLogin(e) ==
  /\ pc[e] = "block"
  /\ SetBlockLogin(Config[e].blockLogin)
  /\ overruled' = FALSE
  /\ UNCHANGED restart
  /\ Goto(e, "prepare")

Moves(e, from, to) ==
  /\ pc[e] = from
  /\ Goto(e, to)
  /\ UNCHANGED <<eventLock, eptList, flags, waitFor, daemon>>

\* The notification server is started and should_cancel is tested.
Prepare(e) ==
  Moves(e, "prepare", IF shouldCancel[e] THEN "finally" ELSE "connect")

\* The service, or the completed config cache, is contacted and the config is
\* fetched.  Then processActions decides on what comes next.
Connect(e) ==
  Moves(e, "connect", IF Config[e].processActions THEN "guard" ELSE "recheck")

\* No notification server, no completed config cache, no service or a failing sync: an
\* exception of the body runs the finally clause.  The actions catch their own.
BodyFails(e) ==
  \E stage \in {"prepare", "connect", "sync"} : Moves(e, stage, "finally")

\* should_cancel() is read here, eventLock is taken in the next step.
GuardActions(e) ==
  Moves(e, "guard", IF shouldCancel[e] THEN "finally" ELSE "disable")

\* A mutant: running actions stay cancelable.
DisableCancelForgotten(e) ==
  /\ pc[e] = "disable"
  /\ SetCancelable(e, TRUE)
  /\ Goto(e, "actions")

DisableCancel(e) ==
  /\ pc[e] = "disable"
  /\ SetCancelable(e, FALSE)
  /\ Goto(e, "actions")

\* An opsi script may have left the restart marker.
ActionsDone(e) ==
  /\ pc[e] = "actions"
  /\ restart' \in {restart} \cup (IF Lives THEN Outside \cap {"marker"} ELSE {})
  /\ Goto(e, "recheck")
  /\ UNCHANGED <<eventLock, eptList, flags, waitFor, login, cacheOpen, alive, main>>

Recheck(e) ==
  Moves(e, "recheck", IF shouldCancel[e] THEN "finally" ELSE "seal")

Seal(e) ==
  /\ pc[e] = "seal"
  /\ SetCancelable(e, FALSE)
  /\ Goto(e, "sync")

\* sync_config and cache_products
SyncDone(e) == Moves(e, "sync", "finally")

\* A cancelled event skips the post event command and the shutdown requests.
Finally(e) ==
  Moves(e, "finally", IF shouldCancel[e] THEN "ending" ELSE "reopen")

\* Passive events may be cancelled again while they wait for a shutdown.
Reopen(e) ==
  /\ pc[e] = "reopen"
  /\ SetCancelable(e, ~Config[e].processActions)
  /\ Goto(e, IF shouldCancel[e] /\ ~Config[e].processActions
             THEN "ending" ELSE "shutdown")

\* processShutdownRequests: returns, having unblocked login if the user put the
\* shutdown off, or notices the cancellation.
ShutdownDone(e) ==
  /\ pc[e] = "shutdown"
  /\ \E value \in {FALSE, blockLogin} : SetBlockLogin(value)
  /\ UNCHANGED <<overruled, restart>>
  /\ Goto(e, "close")

ShutdownCanceled(e) ==
  /\ shouldCancel[e]
  /\ Moves(e, "shutdown", "ending")

Close(e) ==
  /\ pc[e] = "close"
  /\ SetCancelable(e, FALSE)
  /\ Goto(e, "unblock")

\* Login is unblocked, or, if a reboot or shutdown has been triggered, stays as
\* it is, and the restart marker is removed.
Unblock(e) ==
  /\ pc[e] = "unblock"
  /\ \/ SetBlockLogin(FALSE) /\ UNCHANGED restart
     \/ SetBlockLogin(blockLogin) /\ restart' = IF Lives THEN "none" ELSE restart
  /\ UNCHANGED overruled
  /\ Goto(e, "ending")

\* A mutant: login is left as it is when the run ends.
EndingKeepsBlock(e) ==
  /\ pc[e] = "ending"
  /\ SetBlockLogin(blockLogin)
  /\ UNCHANGED <<overruled, restart>>
  /\ Goto(e, "stopping")

\* The notification server is stopped, login is unblocked.
Ending(e) ==
  /\ pc[e] = "ending"
  /\ SetBlockLogin(FALSE)
  /\ UNCHANGED <<overruled, restart>>
  /\ Goto(e, "stopping")

EndRun(e) ==
  /\ pc[e] = "stopping"
  /\ running' = [running EXCEPT ![e] = FALSE]
  /\ Goto(e, "marker")
  /\ UNCHANGED <<eventLock, eptList, cancelable, shouldCancel, waitFor, daemon>>

\* Opsiclientd.restart unblocks login at once; after a while its thread leaves a
\* marker of its own and replaces the process.
CallRestart ==
  /\ SetBlockLogin(FALSE)
  /\ overruled' = TRUE
  /\ restart' = "called"

\* A mutant: the thread of a cancelled event does not look for the marker.
RestartUnlessCanceled(e) ==
  /\ pc[e] = "marker"
  /\ restart # "none"
  /\ ~shouldCancel[e]
  /\ CallRestart
  /\ Goto(e, "leave")

\* The running flag has been reset, and the next event may be on its way, when
\* the thread finds the restart marker, if there is one.
RestartOnMarker(e) ==
  /\ pc[e] = "marker"
  /\ restart # "none"
  /\ CallRestart
  /\ Goto(e, "leave")

NoRestart(e) ==
  /\ restart # "marker"
  /\ Moves(e, "marker", "leave")

-----------------------------------------------------------------------------

\* A mutant: the cancelable flag is not looked at.
CancelEventsUnchecked(e) ==
  /\ e \in eptList
  /\ eventLock = Nobody
  /\ shouldCancel' = [shouldCancel EXCEPT ![e] = TRUE]
  /\ UNCHANGED <<pc, eventLock, eptList, running, cancelable, waitFor, daemon>>

\* RPC cancelEvents, accepted: EPT.cancel takes eventLock for one assignment.
\* A refusal (RuntimeError) changes nothing.
CancelEvents(e) ==
  /\ e \in eptList
  /\ eventLock = Nobody
  /\ cancelable[e]
  /\ shouldCancel' = [shouldCancel EXCEPT ![e] = TRUE]
  /\ UNCHANGED <<pc, eventLock, eptList, running, cancelable, waitFor, daemon>>

\* RPC setBlockLogin
OverruleBlockLogin ==
  /\ "rpc" \in Outside
  /\ main # "boot"
  /\ \E value \in BOOLEAN : SetBlockLogin(value)
  /\ overruled' = TRUE
  /\ UNCHANGED <<pc, restart>>

\* RPC restart, a new host key, the end of a self update or of a startup script
Restart ==
  /\ "restart" \in Outside
  /\ main # "boot"
  /\ CallRestart
  /\ UNCHANGED pc

\* Another user of the config cache has its service created.
OpenConfigCache ==
  /\ ~cacheOpen
  /\ cacheOpen' = TRUE
  /\ UNCHANGED <<pc, eventLock, eptList, flags, waitFor, login, restart, alive, main>>

\* Every occurrence has been dealt with: the daemon idles.
Idle ==
  /\ main = "up"
  /\ \A e \in Events :
       \/ pc[e] \in {"over", "refused"}
       \/ pc[e] = "idle" /\ Config[e].source \notin alive \cup {"rpc"}
  /\ UNCHANGED vars

AnswerFiring(e) ==
  FireAcquire(e) \/ FireTimeout(e) \/ FireAccepted(e) \/ FireRejected(e)

ProcessEvent(e) ==
  \/ Notify(e) \/ CancelOthers(e) \/ CancelOthersFails(e)
  \/ WaitEnded(e) \/ WaitEndedFails(e) \/ WaitTimeout(e) \/ WaitReady(e)
  \/ CreateEPT(e) \/ CreateFails(e) \/ StartEPT(e) \/ Leave(e)

Run(e) ==
  \/ OutsideWindow(e) \/ BeginRun(e) \/ EnableCancel(e) \/ BlockLogin(e)
  \/ Prepare(e) \/ Connect(e) \/ BodyFails(e) \/ GuardActions(e)
  \/ DisableCancel(e) \/ ActionsDone(e) \/ Recheck(e) \/ Seal(e) \/ SyncDone(e)
  \/ Finally(e) \/ Reopen(e) \/ ShutdownDone(e) \/ ShutdownCanceled(e)
  \/ Close(e) \/ Unblock(e) \/ Ending(e) \/ EndRun(e)
  \/ RestartOnMarker(e) \/ NoRestart(e)

Daemon ==
  \/ MainBlockLogin \/ MainUnblockLogin \/ OverruleBlockLogin \/ Restart
  \/ OpenConfigCache \/ Idle

Next ==
  \/ Daemon
  \/ \E e \in Events :
       Fire(e) \/ AnswerFiring(e) \/ ProcessEvent(e) \/ Run(e) \/ CancelEvents(e)

Spec == Init /\ [][Next]_vars

(***************************************************************************)
(* Threads keep running, unless a restart has been called: a caller that   *)
(* waits for eventLock gets it or its timeout, an EPT in _set_cancelable   *)
(* gets the lock once nobody holds it any more.  Nobody has to fire or to  *)
(* cancel, and the cache worker has to do nothing.                         *)
(***************************************************************************)
Fairness ==
  /\ WF_vars(Lives /\ MainBlockLogin)
  /\ WF_vars(Lives /\ MainUnblockLogin)
  /\ \A e \in Events :
       /\ WF_vars(Lives /\ AnswerFiring(e))
       /\ WF_vars(Lives /\ ProcessEvent(e))
       /\ WF_vars(Lives /\ Run(e))

FairSpec == Spec /\ Fairness
=============================================================================
