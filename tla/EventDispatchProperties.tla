---------------------- MODULE EventDispatchProperties ----------------------
(***************************************************************************)
(* What the event handling must guarantee, the invariant that makes it so, *)
(* and the refinement of ExclusiveEvents.                                  *)
(***************************************************************************)
EXTENDS EventDispatch

\* Every variable keeps its type; in particular only generators are alive and
\* only occurrences are waited for.
TypeOK ==
  /\ pc \in [Events -> Stages]
  /\ eventLock \in Events \cup {Nobody}
  /\ eptList \subseteq Events
  /\ running \in [Events -> BOOLEAN]
  /\ cancelable \in [Events -> BOOLEAN]
  /\ shouldCancel \in [Events -> BOOLEAN]
  /\ waitFor \in [Events -> SUBSET Events]
  /\ login \in BOOLEAN \X BOOLEAN
  /\ cacheOpen \in BOOLEAN
  /\ restart \in {"none", "marker", "called"}
  /\ alive \subseteq Generators
  /\ main \in {"boot", "starting", "up"}

Active(e) == pc[e] \in ActiveStages

-----------------------------------------------------------------------------
(* Safety                                                                  *)

\* At most one event other than a user login is processed at a time, although
\* the checks of fireEvent, of cancelOthersAndWaitUntilReady and the flags of
\* the EPTs are set by different threads (Opsiclientd.py:722-811).
ExclusiveProcessing ==
  \A e, f \in NonLogin : Active(e) /\ Active(f) => e = f

\* A cancellation is accepted only while the event has not gone over to what
\* must not be interrupted: actions, sync, and the shutdown that an opsi script
\* asked for (EventProcessing.py:1894, 1903, 1955).
Uninterruptible(e) ==
  \/ pc[e] \in {"start", "window", "enable", "actions", "sync", "unblock",
                "ending", "stopping", "marker", "leave"}
  \/ pc[e] \in {"shutdown", "close"} /\ Config[e].processActions

CancelAcceptedInTime ==
  [][\A e \in Events :
       ~shouldCancel[e] /\ shouldCancel'[e] => ~Uninterruptible(e)]_vars

\* Login is blocked from the moment an event with block_login has blocked it
\* until its actions and its sync are over ("Block login while event is been
\* executed", windows/opsiclientd.conf:228), whatever the main thread and other
\* events do to blockLogin.  There are two exceptions.  A user login event has
\* run beside it: that one sets its own value and unblocks at its end (of user
\* login events this is not said: the event beside which they run unblocks for
\* them, too).  Or it has been overruled: by the RPC setBlockLogin, or by a
\* restart, which the thread of the event before may call, on a marker, after
\* this one has begun (EventProcessing.py:2009-2011, Opsiclientd.py:299).
Executing(e) ==
  pc[e] \in {"prepare", "connect", "guard", "disable", "actions", "recheck",
             "seal", "sync", "finally", "reopen"}

HasRun(e) == pc[e] \in RunStages \cup {"marker", "leave", "over"}

LoginBlockedWhileExecuting ==
  \A e \in NonLogin : Config[e].blockLogin /\ Executing(e) =>
    \/ blockLogin
    \/ overruled
    \/ \E l \in Events \ NonLogin : HasRun(l)

\* cancel() raises "RuntimeError if impossible" (Opsiclientd.py:748): an event
\* whose cancellation was accepted does not start its actions.
AcceptedCancelStopsActions ==
  [][\A e \in Events : shouldCancel[e] /\ pc[e] # "actions" => pc'[e] # "actions"]_vars

-----------------------------------------------------------------------------
(* Liveness                                                                *)

\* The daemon is about to be replaced, or eventLock is lost for good: the config
\* cache service could not be created when an event took over, which ends the
\* FireEventThread (Opsiclientd.py:770).
GivenUp == ~Lives \/ \E e \in Events : pc[e] = "stuck"

\* Whoever fires an event is answered, unless the daemon restarts or the lock is
\* lost: the event is refused or processed to its end.  The circular wait of a
\* canceller that holds eventLock for an EPT that needs it in
\* _set_cancelable(False) is broken by WAIT_SECONDS.
FiringIsAnswered ==
  \A e \in Events : pc[e] = "acquire" ~> pc[e] \in {"refused", "over"} \/ GivenUp

\* A login blocked at daemon startup or by an event is unblocked in the end
\* (windows/opsiclientd.conf:45-47), unless the RPC has set it.
LoginEventuallyUnblocked == blockLogin ~> ~blockLogin \/ overruled \/ GivenUp

\* A restart marker that a script has left is not forgotten, whether the event
\* goes on, fails or is cancelled: a restart is called, or a reboot of the
\* machine takes its place (EventProcessing.py:1965, 2009).
MarkerIsHonoured ==
  \A e \in Events :
    restart = "marker" /\ pc[e] \in RunStages ~> restart = "none" \/ GivenUp

-----------------------------------------------------------------------------
(* The inductive invariant behind ExclusiveProcessing                      *)

\* eventLock has exactly the holder whose stage says so.
LockInv == \A e \in Events : eventLock = e <=> pc[e] \in LockStages

\* running tells the stages of run, and the list the EPTs not yet removed.
RunInv ==
  \A e \in Events : /\ running[e] <=> pc[e] \in RunStages
                    /\ e \in eptList <=> pc[e] \in ActiveStages \cup {"marker", "leave"}

\* An EPT is cancelable only once it runs; at its end only if it was cancelled.
CancelInv ==
  \A e \in Events : cancelable[e] =>
    /\ pc[e] \notin {"idle", "acquire", "refused", "actions", "sync", "unblock"}
    /\ pc[e] \notin LockStages \cup {"start", "window", "enable"}
    /\ pc[e] \in {"ending", "stopping", "marker", "leave", "over"} => shouldCancel[e]
    /\ pc[e] \in {"shutdown", "close"} => ~Config[e].processActions

\* Whoever is about to start has waited for every event that is processed.
HandoverInv ==
  \A e \in Events :
    /\ pc[e] \in {"cancel", "wait"} => e \in NonLogin
    /\ pc[e] = "wait" =>
         /\ \A t \in waitFor[e] : pc[t] \notin {"start", "window"}
         /\ \A t \in NonLogin : Active(t) => t \in waitFor[e]
    /\ pc[e] = "create" /\ e \in NonLogin => \A t \in NonLogin : ~Active(t)

\* The conjunction that every step preserves.
DispatchInv ==
  /\ TypeOK
  /\ LockInv
  /\ RunInv
  /\ CancelInv
  /\ HandoverInv
  /\ ExclusiveProcessing

-----------------------------------------------------------------------------
(* Refinement of the abstract promise                                      *)

Fate(e) ==
  IF pc[e] \in {"stuck", "refused"} THEN "refused"
  ELSE IF Active(e) THEN "processing"
  ELSE IF pc[e] \in {"marker", "leave", "over"} THEN "done"
  ELSE "pending"

Fates == [e \in Events |-> Fate(e)]

Exclusion == INSTANCE ExclusiveEvents WITH Exclusive <- NonLogin, fate <- Fates

\* EventDispatch implements ExclusiveEvents.
Refinement == Exclusion!Spec
=============================================================================
