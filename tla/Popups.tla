------------------------------- MODULE Popups -------------------------------
(***************************************************************************)
(* Popups: showPopup, hidePopup and PopupClosingThread (Opsiclientd.py),   *)
(* with the life of the NotificationServer each popup has of its own.      *)
(*                                                                         *)
(* A popup stands for one call of showPopup, its server and the thread     *)
(* that is to close it. showPopup is called one at a time                  *)
(* (_popupNotificationLock); closing threads and users hide popups beside  *)
(* it. Messages, which a new popup takes over from the old one, ports and  *)
(* notifiers are left out.                                                 *)
(***************************************************************************)
EXTENDS Naturals, FiniteSets

CONSTANTS Popups,
          Timed,      \* those that are shown for a time (displaySeconds)
          NoPopup

ASSUME PopupsAssumption == Timed \subseteq Popups /\ NoPopup \notin Popups

VARIABLES
  showing,     \* what the caller of showPopup is at
  lock,        \* the popup whose caller holds _popupNotificationLock
  current,     \* _popupNotificationServer
  closer,      \* _popupClosingThread
  run,         \* what the thread of a server is at
  shouldStop,  \* servers with _should_stop
  serverLock,  \* _server_lock of each server: who holds it
  thread,      \* what a closing thread is at
  halted,      \* closing threads with _should_stop
  hider,       \* what each agent in hidePopup is at, and with which server
  tooLate,     \* history: servers their caller did not wait for any longer
  woken,       \* history: closing threads that had woken and not ended yet
               \* when a later popup got its server
  endedBy      \* history: closing threads that have told a server to stop

popupVars == <<showing, lock, current, closer, run, shouldStop, serverLock, thread,
               halted, hider, tooLate, woken, endedBy>>
popupHistory == <<tooLate, woken, endedBy>>

\* Those who hide popups: callers of showPopup, closing threads, users.
Agents == {"show", "close", "user"} \X Popups

Away == [at |-> "away", server |-> NoPopup]

PopupsInit ==
  /\ showing = [p \in Popups |-> "no"]
  /\ lock = NoPopup
  /\ current = NoPopup
  /\ closer = NoPopup
  /\ run = [p \in Popups |-> "no"]
  /\ shouldStop = {}
  /\ serverLock = [p \in Popups |-> NoPopup]
  /\ thread = [p \in Popups |-> "no"]
  /\ halted = {}
  /\ hider = [a \in Agents |-> Away]
  /\ tooLate = {} /\ woken = {} /\ endedBy = [p \in Popups |-> {}]

-----------------------------------------------------------------------------
(* hidePopup and NotificationServer.stop, for an agent a.                  *)

Hiding(a, from, to) ==
  /\ hider[a].at = from
  /\ hider' = [hider EXCEPT ![a].at = to]

Alive(p) == p # NoPopup /\ thread[p] \in {"waiting", "hiding"}

\* A mutant: the closing thread goes on.
StopCloserNot(a) ==
  /\ Hiding(a, "begin", "stop")
  /\ UNCHANGED <<showing, lock, current, closer, run, shouldStop, serverLock, thread,
                 halted, popupHistory>>

\* Stops the closing thread there is...
StopCloser(a) ==
  /\ Hiding(a, "begin", "stop")
  /\ halted' = IF Alive(closer) THEN halted \cup {closer} ELSE halted
  /\ UNCHANGED <<showing, lock, current, closer, run, shouldStop, serverLock, thread,
                 popupHistory>>

\* ... and then tells the server there is then to stop,
TellServer(a) ==
  /\ hider[a].at = "stop"
  /\ hider' = [hider EXCEPT ![a] =
                 IF current = NoPopup THEN [Away EXCEPT !.at = "hidden"]
                 ELSE [at |-> "lock", server |-> current]]
  /\ IF current = NoPopup THEN UNCHANGED <<shouldStop, endedBy>>
     ELSE /\ shouldStop' = shouldStop \cup {current}
          /\ endedBy' = IF a[1] = "close"
                        THEN [endedBy EXCEPT ![current] = @ \cup {a[2]}]
                        ELSE endedBy
  /\ UNCHANGED <<showing, lock, current, closer, run, serverLock, thread, halted,
                 tooLate, woken>>

LockServer(a) ==
  /\ Hiding(a, "lock", "wait")
  /\ serverLock[hider[a].server] = NoPopup
  /\ serverLock' = [serverLock EXCEPT ![hider[a].server] = a]
  /\ UNCHANGED <<showing, lock, current, closer, run, shouldStop, thread, halted,
                 popupHistory>>

\* and waits for its end, five seconds at most.
Waited(a) ==
  /\ Hiding(a, "wait", "hidden")
  /\ serverLock' = [serverLock EXCEPT ![hider[a].server] = NoPopup]
  /\ UNCHANGED <<showing, lock, current, closer, run, shouldStop, thread, halted,
                 popupHistory>>

-----------------------------------------------------------------------------
(* showPopup                                                               *)

Show(p, from, to) ==
  /\ showing[p] = from
  /\ showing' = [showing EXCEPT ![p] = to]

CallShow(p) ==
  /\ Show(p, "no", "lock")
  /\ UNCHANGED <<lock, current, closer, run, shouldStop, serverLock, thread, halted,
                 hider, popupHistory>>

\* A mutant: without hiding the popup before.
BeginShowUnhidden(p) ==
  /\ Show(p, "lock", "hide")
  /\ lock = NoPopup
  /\ lock' = p
  /\ hider' = [hider EXCEPT ![<<"show", p>>] = [Away EXCEPT !.at = "hidden"]]
  /\ UNCHANGED <<current, closer, run, shouldStop, serverLock, thread, halted,
                 popupHistory>>

\* The popup before is hidden first.
BeginShow(p) ==
  /\ Show(p, "lock", "hide")
  /\ lock = NoPopup
  /\ lock' = p
  /\ hider' = [hider EXCEPT ![<<"show", p>>] = [Away EXCEPT !.at = "begin"]]
  /\ UNCHANGED <<current, closer, run, shouldStop, serverLock, thread, halted,
                 popupHistory>>

CreateServer(p) ==
  /\ Show(p, "hide", "start")
  /\ hider[<<"show", p>>].at = "hidden"
  /\ hider' = [hider EXCEPT ![<<"show", p>>] = Away]
  /\ current' = p
  /\ woken' = woken \cup {q \in Popups: thread[q] = "hiding"}
  /\ UNCHANGED <<lock, closer, run, shouldStop, serverLock, thread, halted, tooLate,
                 endedBy>>

\* start_and_wait
StartServer(p) ==
  /\ Show(p, "start", "wait")
  /\ serverLock[p] = NoPopup
  /\ serverLock' = [serverLock EXCEPT ![p] = <<"show", p>>]
  /\ run' = [run EXCEPT ![p] = "starting"]
  /\ UNCHANGED <<lock, current, closer, shouldStop, thread, halted, hider, popupHistory>>

\* The server is ready, or could not be opened and has ended.
ServerReady(p) ==
  /\ showing[p] = "wait"
  /\ run[p] \in {"serving", "closing", "stopped", "failed"}
  /\ serverLock' = [serverLock EXCEPT ![p] = NoPopup]
  /\ IF run[p] = "failed"
     THEN showing' = [showing EXCEPT ![p] = "failed"] /\ lock' = NoPopup
     ELSE showing' = [showing EXCEPT ![p] = "notify"] /\ UNCHANGED lock
  /\ UNCHANGED <<current, closer, run, shouldStop, thread, halted, hider, popupHistory>>

\* It was not ready within ten seconds.
ServerNotReady(p) ==
  /\ Show(p, "wait", "failed")
  /\ run[p] \in {"starting", "opening"}
  /\ serverLock' = [serverLock EXCEPT ![p] = NoPopup]
  /\ lock' = NoPopup
  /\ tooLate' = tooLate \cup {p}
  /\ UNCHANGED <<current, closer, run, shouldStop, thread, halted, hider, woken, endedBy>>

\* A mutant: the new thread is there when the old one is to be stopped.
EndShowSwapped(p) ==
  /\ Show(p, "notify", "shown")
  /\ lock' = NoPopup
  /\ halted' = halted \cup (IF p \in Timed THEN {p} ELSE {})
  /\ IF p \in Timed
     THEN closer' = p /\ thread' = [thread EXCEPT ![p] = "waiting"]
     ELSE UNCHANGED <<closer, thread>>
  /\ UNCHANGED <<current, run, shouldStop, serverLock, hider, popupHistory>>

\* The notifiers have been started: "last popup decides end time".
EndShow(p) ==
  /\ Show(p, "notify", "shown")
  /\ lock' = NoPopup
  /\ halted' = IF Alive(closer) THEN halted \cup {closer} ELSE halted
  /\ IF p \in Timed
     THEN closer' = p /\ thread' = [thread EXCEPT ![p] = "waiting"]
     ELSE UNCHANGED <<closer, thread>>
  /\ UNCHANGED <<current, run, shouldStop, serverLock, hider, popupHistory>>

-----------------------------------------------------------------------------
(* The thread of a NotificationServer.                                     *)

Run(p, from, to) ==
  /\ run[p] = from
  /\ run' = [run EXCEPT ![p] = to]
  /\ UNCHANGED <<showing, lock, current, closer, serverLock, thread, halted, hider,
                 popupHistory>>

\* A request to stop that has come before is forgotten.
ResetStop(p) == Run(p, "starting", "opening") /\ shouldStop' = shouldStop \ {p}

OpenServer(p) == Run(p, "opening", "serving") /\ UNCHANGED shouldStop

OpenFails(p) == Run(p, "opening", "failed") /\ UNCHANGED shouldStop

CloseServer(p) ==
  p \in shouldStop /\ Run(p, "serving", "closing") /\ UNCHANGED shouldStop

EndServer(p) == Run(p, "closing", "stopped") /\ UNCHANGED shouldStop

-----------------------------------------------------------------------------
(* The closing thread, and the user.                                       *)

TimeOver(p) ==
  /\ thread[p] = "waiting" /\ p \notin halted
  /\ thread' = [thread EXCEPT ![p] = "hiding"]
  /\ hider' = [hider EXCEPT ![<<"close", p>>] = [Away EXCEPT !.at = "begin"]]
  /\ UNCHANGED <<showing, lock, current, closer, run, shouldStop, serverLock, halted,
                 popupHistory>>

Halt(p) ==
  /\ thread[p] = "waiting" /\ p \in halted
  /\ thread' = [thread EXCEPT ![p] = "ended"]
  /\ UNCHANGED <<showing, lock, current, closer, run, shouldStop, serverLock, halted,
                 hider, popupHistory>>

EndCloser(p) ==
  /\ hider[<<"close", p>>].at = "hidden"
  /\ hider' = [hider EXCEPT ![<<"close", p>>] = Away]
  /\ thread' = [thread EXCEPT ![p] = "ended"]
  /\ UNCHANGED <<showing, lock, current, closer, run, shouldStop, serverLock, halted,
                 popupHistory>>

\* popupCloseCallback, in a thread of the server.
UserCloses(p) ==
  /\ showing[p] = "shown" /\ run[p] = "serving"
  /\ hider[<<"user", p>>] = Away
  /\ hider' = [hider EXCEPT ![<<"user", p>>] = [Away EXCEPT !.at = "begin"]]
  /\ UNCHANGED <<showing, lock, current, closer, run, shouldStop, serverLock, thread,
                 halted, popupHistory>>

-----------------------------------------------------------------------------

HideStep(a) == StopCloser(a) \/ TellServer(a) \/ LockServer(a) \/ Waited(a)
ShowStep(p) ==
  \/ BeginShow(p) \/ CreateServer(p) \/ StartServer(p) \/ ServerReady(p)
  \/ ServerNotReady(p) \/ EndShow(p)
ServerStep(p) ==
  ResetStop(p) \/ OpenServer(p) \/ OpenFails(p) \/ CloseServer(p) \/ EndServer(p)
CloserStep(p) == TimeOver(p) \/ Halt(p) \/ EndCloser(p)

PopupStep ==
  \/ \E p \in Popups: ShowStep(p) \/ ServerStep(p) \/ CloserStep(p)
  \/ \E a \in Agents: HideStep(a)

PopupsNext == PopupStep \/ \E p \in Popups: CallShow(p) \/ UserCloses(p)

PopupsSpec == PopupsInit /\ [][PopupsNext]_popupVars

-----------------------------------------------------------------------------

PopupsTypeOK ==
  /\ showing \in [Popups -> {"no", "lock", "hide", "start", "wait", "notify", "shown",
                           "failed"}]
  /\ {lock, current, closer} \subseteq Popups \cup {NoPopup}
  /\ run \in [Popups -> {"no", "starting", "opening", "serving", "closing", "stopped",
                         "failed"}]
  /\ shouldStop \cup halted \cup tooLate \cup woken \subseteq Popups
  /\ serverLock \in [Popups -> Agents \cup {NoPopup}]
  /\ thread \in [Popups -> {"no", "waiting", "hiding", "ended"}]
  /\ hider \in [Agents -> [at: {"away", "begin", "stop", "lock", "wait", "hidden"},
                           server: Popups \cup {NoPopup}]]
  /\ endedBy \in [Popups -> SUBSET Popups]

\* Servers of popups that were replaced do not serve on: each has been told to
\* stop, and not before it began to serve, when it would have forgotten it. That
\* can happen to one whose caller did not wait for it any longer.
ReplacedIsStopped ==
  \A p \in Popups:
    run[p] \in {"starting", "opening", "serving"} /\ current # p =>
      (p \in shouldStop /\ run[p] = "serving") \/ p \in tooLate

\* "last popup decides end time (even if unlimited)" (Opsiclientd.py:1194): no
\* popup is hidden by the closing thread of one it has replaced, unless that
\* thread had woken when the server of the popup was made.
LastDecidesEnd ==
  \A p \in Popups: \A q \in endedBy[p] \ {p}: q \in woken

\* A popup that was shown for a time is closed, whoever shows and hides others
\* meanwhile: its closing thread, and the request to its server, are not lost.
TimedPopupEnds ==
  \A p \in Popups:
    p \in Timed /\ showing[p] = "shown" ~> run[p] \in {"stopped", "failed"}
=============================================================================
