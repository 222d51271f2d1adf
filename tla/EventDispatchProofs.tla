------------------------ MODULE EventDispatchProofs ------------------------
(***************************************************************************)
(* Proofs about EventDispatch for any number of occurrences, of generators *)
(* and any configuration of the events.                                    *)
(***************************************************************************)
EXTENDS EventDispatchProperties, TLAPS

\* No occurrence has been fired and nobody holds the lock.
LEMMA InitInv == Init => DispatchInv
  <1> SUFFICES ASSUME Init PROVE DispatchInv
    OBVIOUS
  <1> USE DEF Init, Stages, LockStages, ActiveStages, RunStages
  <1>1. TypeOK
    BY DEF TypeOK, login
  <1>2. LockInv /\ RunInv
    BY NobodyAssumption DEF LockInv, RunInv
  <1>3. CancelInv /\ HandoverInv /\ ExclusiveProcessing
    BY DEF CancelInv, HandoverInv, ExclusiveProcessing, Active, NonLogin
  <1> QED
    BY <1>1, <1>2, <1>3 DEF DispatchInv

\* Every step of every thread preserves the invariant, one case per action.
LEMMA StepInv == DispatchInv /\ [Next]_vars => DispatchInv'
  <1> SUFFICES ASSUME DispatchInv, [Next]_vars PROVE DispatchInv'
    OBVIOUS
  <1> USE NobodyAssumption
      DEF DispatchInv, TypeOK, LockInv, RunInv, CancelInv, HandoverInv,
          ExclusiveProcessing, Active, NonLogin, Stages, LockStages,
          ActiveStages, RunStages, flags, login, daemon, Goto
  <1>1. CASE MainBlockLogin
    BY <1>1 DEF MainBlockLogin, vars
  <1>2. CASE MainUnblockLogin
    BY <1>2 DEF MainUnblockLogin, vars
  <1>3. CASE OverruleBlockLogin
    <2>1. PICK value \in BOOLEAN : SetBlockLogin(value)
      BY <1>3 DEF OverruleBlockLogin
    <2>2. overruled' = TRUE /\ UNCHANGED <<pc, restart>>
      BY <1>3 DEF OverruleBlockLogin
    <2> QED
      BY <2>1, <2>2 DEF SetBlockLogin
  <1>43. CASE Restart
    BY <1>43 DEF Restart, CallRestart, SetBlockLogin
  <1>44. CASE OpenConfigCache
    BY <1>44 DEF OpenConfigCache
  <1>4. CASE Idle
    BY <1>4 DEF Idle, vars
  <1>5. ASSUME NEW e \in Events, Fire(e) PROVE DispatchInv'
    BY <1>5 DEF Fire
  <1>6. ASSUME NEW e \in Events, FireAcquire(e) PROVE DispatchInv'
    BY <1>6 DEF FireAcquire
  <1>7. ASSUME NEW e \in Events, FireTimeout(e) PROVE DispatchInv'
    BY <1>7 DEF FireTimeout
  <1>8. ASSUME NEW e \in Events, FireAccepted(e) PROVE DispatchInv'
    BY <1>8 DEF FireAccepted, CanProcessEvent
  <1>9. ASSUME NEW e \in Events, FireRejected(e) PROVE DispatchInv'
    BY <1>9 DEF FireRejected, CanProcessEvent
  <1>10. ASSUME NEW e \in Events, Notify(e) PROVE DispatchInv'
    BY <1>10 DEF Notify
  <1>11. ASSUME NEW e \in Events, CancelOthers(e) PROVE DispatchInv'
    BY <1>11 DEF CancelOthers, CancelTargets
  <1>12. ASSUME NEW e \in Events, CancelOthersFails(e) PROVE DispatchInv'
    BY <1>12 DEF CancelOthersFails, CancelTargets
  <1>13. ASSUME NEW e \in Events, WaitEnded(e) PROVE DispatchInv'
    BY <1>13 DEF WaitEnded
  <1>45. ASSUME NEW e \in Events, WaitEndedFails(e) PROVE DispatchInv'
    BY <1>45 DEF WaitEndedFails
  <1>14. ASSUME NEW e \in Events, WaitTimeout(e) PROVE DispatchInv'
    BY <1>14 DEF WaitTimeout
  <1>15. ASSUME NEW e \in Events, WaitReady(e) PROVE DispatchInv'
    BY <1>15 DEF WaitReady
  <1>16. ASSUME NEW e \in Events, CreateEPT(e) PROVE DispatchInv'
    BY <1>16 DEF CreateEPT
  <1>17. ASSUME NEW e \in Events, CreateFails(e) PROVE DispatchInv'
    BY <1>17 DEF CreateFails
  <1>18. ASSUME NEW e \in Events, StartEPT(e) PROVE DispatchInv'
    BY <1>18 DEF StartEPT
  <1>19. ASSUME NEW e \in Events, Leave(e) PROVE DispatchInv'
    BY <1>19 DEF Leave
  <1>20. ASSUME NEW e \in Events, OutsideWindow(e) PROVE DispatchInv'
    BY <1>20 DEF OutsideWindow
  <1>21. ASSUME NEW e \in Events, BeginRun(e) PROVE DispatchInv'
    BY <1>21 DEF BeginRun
  <1>22. ASSUME NEW e \in Events, EnableCancel(e) PROVE DispatchInv'
    BY <1>22 DEF EnableCancel, SetCancelable
  <1>23. ASSUME NEW e \in Events, BlockLogin(e) PROVE DispatchInv'
    <2>1. blockLogin' = Config[e].blockLogin
      BY <1>23 DEF BlockLogin, SetBlockLogin
    <2>2. Config[e].blockLogin \in BOOLEAN
      BY ConfigAssumption DEF EventConfigs
    <2>3. pc[e] = "block" /\ pc' = [pc EXCEPT ![e] = "prepare"]
      BY <1>23 DEF BlockLogin
    <2>4. overruled' = FALSE /\ UNCHANGED restart
      BY <1>23 DEF BlockLogin
    <2>5. UNCHANGED <<eventLock, eptList, flags, waitFor, cacheOpen, alive, main>>
      BY <1>23 DEF BlockLogin, SetBlockLogin
    <2>6. TypeOK'
      BY <2>1, <2>2, <2>3, <2>4, <2>5
    <2>7. LockInv' /\ RunInv'
      BY <2>3, <2>5
    <2>8. CancelInv' /\ HandoverInv' /\ ExclusiveProcessing'
      BY <2>3, <2>5
    <2> QED
      BY <2>6, <2>7, <2>8
  <1>24. ASSUME NEW e \in Events, Prepare(e) PROVE DispatchInv'
    BY <1>24 DEF Prepare, Moves
  <1>25. ASSUME NEW e \in Events, Connect(e) PROVE DispatchInv'
    BY <1>25 DEF Connect, Moves
  <1>26. ASSUME NEW e \in Events, BodyFails(e) PROVE DispatchInv'
    BY <1>26 DEF BodyFails, Moves
  <1>27. ASSUME NEW e \in Events, GuardActions(e) PROVE DispatchInv'
    BY <1>27 DEF GuardActions, Moves
  <1>28. ASSUME NEW e \in Events, DisableCancel(e) PROVE DispatchInv'
    BY <1>28 DEF DisableCancel, SetCancelable
  <1>29. ASSUME NEW e \in Events, ActionsDone(e) PROVE DispatchInv'
    BY <1>29 DEF ActionsDone
  <1>30. ASSUME NEW e \in Events, Recheck(e) PROVE DispatchInv'
    BY <1>30 DEF Recheck, Moves
  <1>31. ASSUME NEW e \in Events, Seal(e) PROVE DispatchInv'
    BY <1>31 DEF Seal, SetCancelable
  <1>32. ASSUME NEW e \in Events, SyncDone(e) PROVE DispatchInv'
    BY <1>32 DEF SyncDone, Moves
  <1>33. ASSUME NEW e \in Events, Finally(e) PROVE DispatchInv'
    BY <1>33 DEF Finally, Moves
  <1>34. ASSUME NEW e \in Events, Reopen(e) PROVE DispatchInv'
    <2>1. CASE Config[e].processActions
      <3>1. cancelable' = [cancelable EXCEPT ![e] = FALSE] /\ pc' = [pc EXCEPT ![e] = "shutdown"]
        BY <1>34, <2>1 DEF Reopen, SetCancelable
      <3> QED
        BY <1>34, <2>1, <3>1 DEF Reopen, SetCancelable
    <2>2. CASE ~Config[e].processActions
      BY <1>34, <2>2 DEF Reopen, SetCancelable
    <2> QED
      BY <2>1, <2>2
  <1>35. ASSUME NEW e \in Events, ShutdownDone(e) PROVE DispatchInv'
    <2>1. PICK value \in {FALSE, blockLogin} : SetBlockLogin(value)
      BY <1>35 DEF ShutdownDone
    <2>2. blockLogin' \in BOOLEAN
      BY <2>1 DEF SetBlockLogin
    <2> QED
      BY <1>35, <2>1, <2>2 DEF ShutdownDone, SetBlockLogin
  <1>36. ASSUME NEW e \in Events, ShutdownCanceled(e) PROVE DispatchInv'
    BY <1>36 DEF ShutdownCanceled, Moves
  <1>37. ASSUME NEW e \in Events, Close(e) PROVE DispatchInv'
    BY <1>37 DEF Close, SetCancelable
  <1>38. ASSUME NEW e \in Events, Unblock(e) PROVE DispatchInv'
    <2>1. PICK value \in {FALSE, blockLogin} : SetBlockLogin(value)
      BY <1>38 DEF Unblock
    <2>2. blockLogin' \in BOOLEAN
      BY <2>1 DEF SetBlockLogin
    <2>3. restart' \in {"none", restart}
      BY <1>38 DEF Unblock
    <2>4. pc[e] = "unblock" /\ Goto(e, "ending") /\ UNCHANGED overruled
      BY <1>38 DEF Unblock
    <2> QED
      BY <2>1, <2>2, <2>3, <2>4 DEF SetBlockLogin
  <1>39. ASSUME NEW e \in Events, Ending(e) PROVE DispatchInv'
    <2>1. TypeOK'
      BY <1>39 DEF Ending, SetBlockLogin
    <2>2. LockInv'
      BY <1>39 DEF Ending, SetBlockLogin
    <2>3. RunInv'
      BY <1>39 DEF Ending, SetBlockLogin
    <2>4. CancelInv'
      BY <1>39 DEF Ending, SetBlockLogin
    <2>5. HandoverInv' /\ ExclusiveProcessing'
      BY <1>39 DEF Ending, SetBlockLogin
    <2> QED
      BY <2>1, <2>2, <2>3, <2>4, <2>5
  <1>40. ASSUME NEW e \in Events, EndRun(e) PROVE DispatchInv'
    BY <1>40 DEF EndRun
  <1>46. ASSUME NEW e \in Events, RestartOnMarker(e) PROVE DispatchInv'
    <2>1. /\ pc[e] = "marker" /\ pc' = [pc EXCEPT ![e] = "leave"]
          /\ blockLogin' = FALSE /\ overruled' = TRUE /\ restart' = "called"
          /\ UNCHANGED <<eventLock, eptList, flags, waitFor, cacheOpen, alive, main>>
      BY <1>46 DEF RestartOnMarker, CallRestart, SetBlockLogin
    <2>2. TypeOK'
      BY <2>1
    <2>3. LockInv' /\ RunInv'
      BY <2>1
    <2>4. CancelInv' /\ HandoverInv' /\ ExclusiveProcessing'
      BY <2>1
    <2> QED
      BY <2>2, <2>3, <2>4
  <1>47. ASSUME NEW e \in Events, NoRestart(e) PROVE DispatchInv'
    BY <1>47 DEF NoRestart, Moves
  <1>41. ASSUME NEW e \in Events, CancelEvents(e) PROVE DispatchInv'
    BY <1>41 DEF CancelEvents
  <1>42. CASE UNCHANGED vars
    BY <1>42 DEF vars
  <1> QED
    BY <1>1, <1>2, <1>3, <1>4, <1>5, <1>6, <1>7, <1>8, <1>9, <1>10,
       <1>11, <1>12, <1>13, <1>14, <1>15, <1>16, <1>17, <1>18, <1>19, <1>20,
       <1>21, <1>22, <1>23, <1>24, <1>25, <1>26, <1>27, <1>28, <1>29, <1>30,
       <1>31, <1>32, <1>33, <1>34, <1>35, <1>36, <1>37, <1>38, <1>39, <1>40,
       <1>41, <1>42, <1>43, <1>44, <1>45, <1>46, <1>47
    DEF Next, Daemon, AnswerFiring, ProcessEvent, Run

-----------------------------------------------------------------------------

\* The invariant holds in every reachable state.
THEOREM DispatchInvariant == Spec => []DispatchInv
  <1>1. Init => DispatchInv
    BY InitInv
  <1>2. DispatchInv /\ [Next]_vars => DispatchInv'
    BY StepInv
  <1> QED
    BY <1>1, <1>2, PTL DEF Spec

\* Every variable keeps its type.
THEOREM TypeCorrect == Spec => []TypeOK
  <1>1. DispatchInv => TypeOK
    BY DEF DispatchInv
  <1> QED
    BY <1>1, DispatchInvariant, PTL

\* At most one event that is not a user login is processed at a time.
THEOREM Exclusive == Spec => []ExclusiveProcessing
  <1>1. DispatchInv => ExclusiveProcessing
    BY DEF DispatchInv
  <1> QED
    BY <1>1, DispatchInvariant, PTL

-----------------------------------------------------------------------------

\* What is done beside the events touches neither them nor their lock.
LEMMA DaemonKeeps ==
  ASSUME Daemon \/ UNCHANGED vars
  PROVE  UNCHANGED <<pc, eventLock, eptList, flags, waitFor>>
  BY DEF Daemon, MainBlockLogin, MainUnblockLogin, OverruleBlockLogin, Restart,
         CallRestart, SetBlockLogin, OpenConfigCache, Idle, vars, daemon

\* Who fires an event moves that event and may take or give back the lock.
LEMMA FiringKeeps ==
  ASSUME NEW e \in Events, Fire(e) \/ AnswerFiring(e)
  PROVE  /\ UNCHANGED <<eptList, flags, login>>
         /\ pc[e] \in {"idle", "acquire", "check"}
         /\ \E stage \in {"acquire", "check", "notify", "refused"} : Goto(e, stage)
  BY DEF AnswerFiring, Fire, FireAcquire, FireTimeout, FireAccepted, FireRejected, daemon

\* Only cancelOthersAndWaitUntilReady and cancelEvents set _should_cancel, and
\* both look at _is_cancelable of the event they cancel.
LEMMA OnlyCancelablesCanceled ==
  ASSUME TypeOK, [Next]_vars, NEW t \in Events, ~shouldCancel[t], shouldCancel'[t]
  PROVE  cancelable[t]
  <1> USE DEF TypeOK, flags, daemon
  <1>1. CASE UNCHANGED shouldCancel
    BY <1>1
  <1>2. ASSUME NEW e \in Events, CancelOthers(e) PROVE cancelable[t]
    BY <1>2 DEF CancelOthers, CancelTargets
  <1>3. ASSUME NEW e \in Events, CancelOthersFails(e) PROVE cancelable[t]
    BY <1>3 DEF CancelOthersFails, CancelTargets
  <1>4. ASSUME NEW e \in Events, CancelEvents(e) PROVE cancelable[t]
    BY <1>4 DEF CancelEvents
  <1>5. ASSUME NEW e \in Events, Fire(e) \/ AnswerFiring(e) PROVE UNCHANGED shouldCancel
    BY <1>5, FiringKeeps
  <1>6. ASSUME NEW e \in Events, ProcessEvent(e), ~CancelOthers(e), ~CancelOthersFails(e)
        PROVE  UNCHANGED shouldCancel
    BY <1>6 DEF ProcessEvent, Notify, WaitEnded, WaitEndedFails, WaitTimeout,
                WaitReady, CreateEPT, CreateFails, StartEPT, Leave
  <1>7. ASSUME NEW e \in Events, Run(e) PROVE UNCHANGED shouldCancel
    BY <1>7 DEF Run, OutsideWindow, BeginRun, EnableCancel, BlockLogin, Prepare,
                Connect, BodyFails, GuardActions, DisableCancel, ActionsDone,
                Recheck, Seal, SyncDone, Finally, Reopen, ShutdownDone,
                ShutdownCanceled, Close, Unblock, Ending, EndRun,
                RestartOnMarker, NoRestart, CallRestart, SetCancelable,
                SetBlockLogin, Moves
  <1>8. CASE Daemon
    BY <1>8, DaemonKeeps
  <1> QED
    BY <1>1, <1>2, <1>3, <1>4, <1>5, <1>6, <1>7, <1>8 DEF Next, vars

\* A cancellation is accepted only while the event may be interrupted.
THEOREM CancelInTime == Spec => CancelAcceptedInTime
  <1>1. ASSUME DispatchInv, [Next]_vars, NEW t \in Events,
               ~shouldCancel[t], shouldCancel'[t]
        PROVE  ~Uninterruptible(t)
    <2>1. cancelable[t]
      BY <1>1, OnlyCancelablesCanceled DEF DispatchInv
    <2> QED
      BY <1>1, <2>1 DEF DispatchInv, CancelInv, Uninterruptible
  <1>2. DispatchInv /\ [Next]_vars =>
          [\A e \in Events :
             ~shouldCancel[e] /\ shouldCancel'[e] => ~Uninterruptible(e)]_vars
    BY <1>1
  <1> QED
    BY <1>2, DispatchInvariant, PTL DEF Spec, CancelAcceptedInTime

-----------------------------------------------------------------------------
(* Login stays blocked while an event that blocks it executes.             *)

\* A run goes on or ends; it does not begin again.
LEMMA RunGoesOn ==
  ASSUME TypeOK, [Next]_vars, NEW l \in Events, HasRun(l)
  PROVE  HasRun(l)'
  <1> USE DEF TypeOK, Goto, RunStages, HasRun
  <1>1. CASE Daemon \/ UNCHANGED vars
    BY <1>1, DaemonKeeps
  <1>2. ASSUME NEW e \in Events, Fire(e) \/ AnswerFiring(e) PROVE HasRun(l)'
    BY <1>2, FiringKeeps
  <1>3. ASSUME NEW e \in Events, ProcessEvent(e) PROVE HasRun(l)'
    BY <1>3 DEF ProcessEvent, Notify, CancelOthers, CancelOthersFails, WaitEnded,
                WaitEndedFails, WaitTimeout, WaitReady, CreateEPT, CreateFails,
                StartEPT, Leave
  <1>4. ASSUME NEW e \in Events, Run(e) PROVE HasRun(l)'
    BY <1>4 DEF Run, OutsideWindow, BeginRun, EnableCancel, BlockLogin, Prepare,
                Connect, BodyFails, GuardActions, DisableCancel, ActionsDone,
                Recheck, Seal, SyncDone, Finally, Reopen, ShutdownDone,
                ShutdownCanceled, Close, Unblock, Ending, EndRun,
                RestartOnMarker, NoRestart, Moves
  <1>5. ASSUME NEW e \in Events, CancelEvents(e) PROVE HasRun(l)'
    BY <1>5 DEF CancelEvents
  <1> QED
    BY <1>1, <1>2, <1>3, <1>4, <1>5 DEF Next

\* An event begins to execute when it sets block login.
LEMMA ExecutingBegins ==
  ASSUME TypeOK, [Next]_vars, NEW e \in Events, ~Executing(e), Executing(e)'
  PROVE  BlockLogin(e)
  <1> USE DEF TypeOK, Goto, Executing
  <1>1. CASE Daemon \/ UNCHANGED vars
    BY <1>1, DaemonKeeps
  <1>2. ASSUME NEW f \in Events, Fire(f) \/ AnswerFiring(f) PROVE FALSE
    BY <1>2, FiringKeeps
  <1>3. ASSUME NEW f \in Events, ProcessEvent(f) PROVE FALSE
    BY <1>3 DEF ProcessEvent, Notify, CancelOthers, CancelOthersFails, WaitEnded,
                WaitEndedFails, WaitTimeout, WaitReady, CreateEPT, CreateFails,
                StartEPT, Leave
  <1>4. ASSUME NEW f \in Events, Run(f) PROVE BlockLogin(e)
    <2>1. ASSUME ~BlockLogin(f) PROVE FALSE
      BY <1>4, <2>1
      DEF Run, OutsideWindow, BeginRun, EnableCancel, Prepare, Connect, BodyFails,
          GuardActions, DisableCancel, ActionsDone, Recheck, Seal, SyncDone,
          Finally, Reopen, ShutdownDone, ShutdownCanceled, Close, Unblock,
          Ending, EndRun, RestartOnMarker, NoRestart, Moves
    <2>2. ASSUME BlockLogin(f) PROVE f = e
      BY <2>2 DEF BlockLogin
    <2> QED
      BY <2>1, <2>2
  <1>5. ASSUME NEW f \in Events, CancelEvents(f) PROVE FALSE
    BY <1>5 DEF CancelEvents
  <1> QED
    BY <1>1, <1>2, <1>3, <1>4, <1>5 DEF Next

Held == blockLogin \/ overruled

\* Whoever unblocks login while an event is executed overrules it, or is another
\* event that is processed: the main thread sees the event in the list.
LEMMA UnblockedByRun ==
  ASSUME DispatchInv, [Next]_vars, NEW e \in Events, Executing(e), Executing(e)',
         Held, ~Held'
  PROVE  \E f \in Events \ {e} : pc[f] \in RunStages
  <1>0. TypeOK /\ e \in eptList
    BY DEF DispatchInv, RunInv, Executing, ActiveStages, RunStages
  <1> USE DEF TypeOK, Goto, Held
  <1>1. ~Daemon /\ ~UNCHANGED vars
    BY <1>0 DEF Daemon, MainBlockLogin, MainUnblockLogin, OverruleBlockLogin,
                Restart, CallRestart, SetBlockLogin, OpenConfigCache, Idle, vars,
                daemon, login
  <1>2. ASSUME NEW f \in Events, Fire(f) \/ AnswerFiring(f) PROVE FALSE
    BY <1>2, FiringKeeps DEF login
  <1>3. ASSUME NEW f \in Events, ProcessEvent(f) PROVE FALSE
    BY <1>3 DEF ProcessEvent, Notify, CancelOthers, CancelOthersFails, WaitEnded,
                WaitEndedFails, WaitTimeout, WaitReady, CreateEPT, CreateFails,
                StartEPT, Leave, daemon, login
  <1>4. ASSUME NEW f \in Events, CancelEvents(f) PROVE FALSE
    BY <1>4 DEF CancelEvents, daemon, login
  <1>5. ASSUME NEW f \in Events, Run(f)
        PROVE  BlockLogin(f) \/ ShutdownDone(f) \/ Unblock(f) \/ Ending(f)
    BY <1>5
    DEF Run, OutsideWindow, BeginRun, EnableCancel, Prepare, Connect, BodyFails,
        GuardActions, DisableCancel, ActionsDone, Recheck, Seal, SyncDone,
        Finally, Reopen, ShutdownCanceled, Close, EndRun, RestartOnMarker,
        NoRestart, CallRestart, Moves, SetCancelable, daemon, login
  <1>6. ASSUME NEW f \in Events,
               BlockLogin(f) \/ ShutdownDone(f) \/ Unblock(f) \/ Ending(f)
        PROVE  pc[f] \in RunStages /\ f # e
    BY <1>6 DEF BlockLogin, ShutdownDone, Unblock, Ending, RunStages, Executing
  <1> QED
    BY <1>1, <1>2, <1>3, <1>4, <1>5, <1>6 DEF Next

LEMMA LoginBlockedStep ==
  DispatchInv /\ LoginBlockedWhileExecuting /\ [Next]_vars => LoginBlockedWhileExecuting'
  <1> DEFINE Beside == \E l \in Events \ NonLogin : HasRun(l)
  <1> SUFFICES ASSUME DispatchInv, LoginBlockedWhileExecuting, [Next]_vars,
                      NEW e \in NonLogin, Config[e].blockLogin, Executing(e)'
               PROVE  Held' \/ Beside'
    BY DEF LoginBlockedWhileExecuting, Executing, NonLogin, Held
  <1>0. TypeOK /\ e \in Events
    BY DEF DispatchInv, NonLogin
  <1>1. ASSUME Beside PROVE Beside'
    <2>1. PICK l \in Events \ NonLogin : HasRun(l)
      BY <1>1
    <2>2. HasRun(l)'
      BY <1>0, <2>1, RunGoesOn
    <2> QED
      BY <2>1, <2>2 DEF NonLogin
  <1>2. CASE ~Executing(e)
    BY <1>0, <1>2, ExecutingBegins DEF BlockLogin, SetBlockLogin, Held
  <1>3. CASE Executing(e) /\ Held /\ ~Held'
    <2>1. PICK f \in Events \ {e} : pc[f] \in RunStages
      BY <1>0, <1>3, UnblockedByRun
    <2>2. f \notin NonLogin
      BY <1>3, <2>1
      DEF DispatchInv, ExclusiveProcessing, Active, ActiveStages, Executing, RunStages
    <2> QED
      BY <1>1, <2>1, <2>2 DEF HasRun
  <1> QED
    BY <1>1, <1>2, <1>3 DEF LoginBlockedWhileExecuting, Held

\* Login stays blocked while an event that blocks it is executed, unless a user
\* login event runs or has run beside it, or the RPC setBlockLogin or a restart
\* has overruled it since.
THEOREM LoginStaysBlocked == Spec => []LoginBlockedWhileExecuting
  <1>1. Init => LoginBlockedWhileExecuting
    BY DEF Init, LoginBlockedWhileExecuting, Executing, NonLogin
  <1>2. DispatchInv /\ LoginBlockedWhileExecuting /\ [Next]_vars
          => LoginBlockedWhileExecuting'
    BY LoginBlockedStep
  <1> QED
    BY <1>1, <1>2, DispatchInvariant, PTL DEF Spec

-----------------------------------------------------------------------------
(* EventDispatch implements ExclusiveEvents.                               *)

\* A step that moves one occurrence changes the fate of no other.
LEMMA FateMoves ==
  ASSUME TypeOK, NEW e \in Events, NEW stage \in Stages, Goto(e, stage)
  PROVE  /\ pc'[e] = stage
         /\ \A t \in Events \ {e} : Fate(t)' = Fate(t)
  BY DEF TypeOK, Goto, Fate, Active

\* An occurrence whose stage changes without a change of fate stutters.
LEMMA FateStutters ==
  ASSUME TypeOK, NEW e \in Events, NEW stage \in Stages, Goto(e, stage),
         Fate(e)' = Fate(e)
  PROVE  Fates' = Fates
  BY FateMoves DEF Fates

LEMMA RefusalRefines ==
  ASSUME TypeOK, NEW e \in Events, NEW stage \in {"refused", "stuck"}, Goto(e, stage),
         Fate(e) = "pending"
  PROVE  Exclusion!Refuse(e)
  <1>0. stage \in Stages
    BY DEF Stages, LockStages
  <1>1. Fate(e)' = "refused"
    BY <1>0, FateMoves DEF Fate
  <1>2. \A t \in Events \ {e} : Fate(t)' = Fate(t)
    BY <1>0, FateMoves
  <1> QED
    BY <1>1, <1>2 DEF Exclusion!Refuse, Fates

LEMMA FinishRefines ==
  ASSUME TypeOK, NEW e \in Events, NEW stage \in {"marker", "leave"}, Goto(e, stage),
         Active(e)
  PROVE  Exclusion!Finish(e)
  <1>0. stage \in Stages
    BY DEF Stages
  <1>1. Fate(e)' = "done"
    BY <1>0, FateMoves DEF Fate, Active, ActiveStages, RunStages
  <1>2. Fate(e) = "processing"
    BY DEF Fate, Active, ActiveStages, RunStages
  <1>3. \A t \in Events \ {e} : Fate(t)' = Fate(t)
    BY <1>0, FateMoves
  <1> QED
    BY <1>1, <1>2, <1>3 DEF Exclusion!Finish, Fates

\* An EPT is created only when whatever else was processed has ended.
LEMMA CreateRefines ==
  ASSUME DispatchInv, NEW e \in Events, CreateEPT(e)
  PROVE  Exclusion!Start(e)
  <1> USE DEF Active, ActiveStages, RunStages, LockStages
  <1>1. TypeOK /\ Goto(e, "start") /\ pc[e] = "create"
    BY DEF DispatchInv, CreateEPT
  <1>2. Fate(e) = "pending"
    BY <1>1 DEF Fate
  <1>3. Fate(e)' = "processing"
    BY <1>1, FateMoves DEF Fate, Stages
  <1>4. \A t \in Events \ {e} : Fate(t)' = Fate(t)
    BY <1>1, FateMoves DEF Stages
  <1>5. ASSUME e \in NonLogin, NEW t \in NonLogin PROVE Fate(t) # "processing"
    BY <1>1, <1>5 DEF DispatchInv, HandoverInv, Fate
  <1> QED
    BY <1>2, <1>3, <1>4, <1>5 DEF Exclusion!Start, Exclusion!Processing, Fates, NonLogin

\* Every step is a step of ExclusiveEvents or leaves every fate as it is.
LEMMA StepRefines ==
  DispatchInv /\ [Next]_vars => [Exclusion!Next]_Fates
  <1> SUFFICES ASSUME DispatchInv, [Next]_vars
               PROVE  Exclusion!Next \/ Fates' = Fates
    OBVIOUS
  <1>0. TypeOK
    BY DEF DispatchInv
  <1>1. ASSUME UNCHANGED pc PROVE Fates' = Fates
    BY <1>1 DEF Fates, Fate, Active
  <1>2. CASE Daemon \/ UNCHANGED vars
    BY <1>1, <1>2, DaemonKeeps
  <1>3. ASSUME NEW e \in Events, CancelEvents(e) \/ WaitEnded(e) PROVE Fates' = Fates
    BY <1>1, <1>3 DEF CancelEvents, WaitEnded
  <1>4. ASSUME NEW e \in Events,
               \/ FireTimeout(e) \/ FireRejected(e) \/ CancelOthersFails(e)
               \/ WaitEndedFails(e) \/ WaitTimeout(e) \/ CreateFails(e)
        PROVE  Exclusion!Refuse(e)
    <2>1. PICK stage \in {"refused", "stuck"} : Goto(e, stage)
      BY <1>4 DEF FireTimeout, FireRejected, CancelOthersFails, WaitEndedFails,
                  WaitTimeout, CreateFails
    <2>2. pc[e] \in {"acquire", "check", "cancel", "wait", "create"}
      BY <1>4 DEF FireTimeout, FireRejected, CancelOthersFails, WaitEndedFails,
                  WaitTimeout, CreateFails
    <2>3. Fate(e) = "pending"
      BY <2>2 DEF Fate, Active, ActiveStages, RunStages
    <2> QED
      BY <1>0, <2>1, <2>3, RefusalRefines
  <1>5. ASSUME NEW e \in Events, CreateEPT(e) PROVE Exclusion!Start(e)
    BY <1>5, CreateRefines
  <1>6. ASSUME NEW e \in Events, OutsideWindow(e) \/ EndRun(e)
        PROVE  Exclusion!Finish(e)
    <2>1. PICK stage \in {"marker", "leave"} : Goto(e, stage)
      BY <1>6 DEF OutsideWindow, EndRun
    <2>2. Active(e)
      BY <1>6 DEF OutsideWindow, EndRun, Active, ActiveStages, RunStages
    <2> QED
      BY <1>0, <2>1, <2>2, FinishRefines
  <1>7. ASSUME NEW e \in Events,
               \/ Fire(e) \/ FireAcquire(e) \/ FireAccepted(e) \/ Notify(e)
               \/ CancelOthers(e) \/ WaitReady(e)
        PROVE  Fates' = Fates
    <2> DEFINE Pending == {"idle", "acquire", "check", "notify", "cancel", "wait", "create"}
    <2>1. PICK stage \in Pending : Goto(e, stage)
      BY <1>7 DEF Fire, FireAcquire, FireAccepted, Notify, CancelOthers, WaitReady
    <2>2. pc[e] \in Pending
      BY <1>7 DEF Fire, FireAcquire, FireAccepted, Notify, CancelOthers, WaitReady
    <2>3. Fate(e)' = Fate(e)
      BY <1>0, <2>1, <2>2, FateMoves
      DEF Fate, Active, Stages, LockStages, ActiveStages, RunStages
    <2> QED
      BY <1>0, <2>1, <2>3, FateStutters DEF Stages, LockStages
  <1>8. ASSUME NEW e \in Events, RestartOnMarker(e) \/ NoRestart(e) \/ Leave(e)
        PROVE  Fates' = Fates
    <2>1. PICK stage \in {"leave", "over"} : Goto(e, stage)
      BY <1>8 DEF RestartOnMarker, NoRestart, Moves, Leave
    <2>2. pc[e] \in {"marker", "leave"}
      BY <1>8 DEF RestartOnMarker, NoRestart, Moves, Leave
    <2>3. Fate(e)' = Fate(e)
      BY <1>0, <2>1, <2>2, FateMoves
      DEF Fate, Active, Stages, ActiveStages, RunStages
    <2> QED
      BY <1>0, <2>1, <2>3, FateStutters DEF Stages
  <1>9. ASSUME NEW e \in Events,
               \/ StartEPT(e)
               \/ /\ Run(e) /\ ~OutsideWindow(e) /\ ~EndRun(e)
                  /\ ~RestartOnMarker(e) /\ ~NoRestart(e)
        PROVE  Fates' = Fates
    <2>1. \E stage \in ActiveStages : Goto(e, stage)
      BY <1>9 DEF StartEPT, Run, BeginRun, EnableCancel, BlockLogin, Prepare,
                  Connect, BodyFails, GuardActions, DisableCancel, ActionsDone,
                  Recheck, Seal, SyncDone, Finally, Reopen, ShutdownDone,
                  ShutdownCanceled, Close, Unblock, Ending, Moves,
                  ActiveStages, RunStages
    <2>2. pc[e] \in ActiveStages
      BY <1>9 DEF StartEPT, Run, BeginRun, EnableCancel, BlockLogin, Prepare,
                  Connect, BodyFails, GuardActions, DisableCancel, ActionsDone,
                  Recheck, Seal, SyncDone, Finally, Reopen, ShutdownDone,
                  ShutdownCanceled, Close, Unblock, Ending, Moves,
                  ActiveStages, RunStages
    <2>3. PICK stage \in ActiveStages : Goto(e, stage)
      BY <2>1
    <2>4. Fate(e)' = Fate(e)
      BY <1>0, <2>2, <2>3, FateMoves
      DEF Fate, Active, Stages, ActiveStages, RunStages
    <2> QED
      BY <1>0, <2>3, <2>4, FateStutters DEF Stages
  <1> QED
    BY <1>2, <1>3, <1>4, <1>5, <1>6, <1>7, <1>8, <1>9
    DEF Next, AnswerFiring, ProcessEvent, Run, Exclusion!Next

\* The event handling refuses an occurrence or processes it alone.
THEOREM DispatchRefinesExclusiveEvents == Spec => Refinement
  <1>1. Init => Exclusion!Init
    BY DEF Init, Exclusion!Init, Fates, Fate, Active, ActiveStages, RunStages
  <1>2. DispatchInv /\ [Next]_vars => [Exclusion!Next]_Fates
    BY StepRefines
  <1> QED
    BY <1>1, <1>2, DispatchInvariant, PTL DEF Spec, Refinement, Exclusion!Spec
=============================================================================
