---------------------------- MODULE UserPrompts ----------------------------
(***************************************************************************)
(* The two questions an EventProcessingThread (EPT) puts to the user: may  *)
(* the actions start (processActionWarningTime), and may the machine be    *)
(* shut down or rebooted now (processShutdownRequests).                    *)
(*                                                                         *)
(* Both work alike.  A ChoiceSubject with the offered choices is added to  *)
(* the EPT's notification server, a notifier shows it, and the EPT polls   *)
(* two flags until its timer expires.  A click reaches the server as two   *)
(* RPCs, setSelectedIndexes and selectChoice, and the server runs every    *)
(* RPC in a new thread: they may take effect in either order.  The choices *)
(* of the shutdown question change while it is shown, at each full hour.   *)
(* How often the user has put an action or the shutdown off is kept in the *)
(* state file.                                                             *)
(*                                                                         *)
(* Abstracted: seconds (the timer of a question may expire at any moment), *)
(* reboot or shutdown (one "shutdown" here), the texts.  Both warning      *)
(* times are taken to be set; without them nothing is asked.               *)
(***************************************************************************)
EXTENDS Naturals, Integers, Sequences, FiniteSets, FiniteSetsExt

CONSTANTS
  EPTs,               \* EventProcessingThreads, each for one occurrence after the other
  Names,              \* names of event configurations
  EventName,          \* EventName[p]: what p is an occurrence of
  Passive,            \* EPTs without processActions: these can be cancelled
  ActionCancelable,   \* actionUserCancelable
  ShutdownCancelable, \* shutdownUserCancelable
  Repeats,            \* shutdownWarningRepetitionTime >= 0
  SelectableTime,     \* shutdownUserSelectableTime
  Hours,              \* hours of a day (24)
  LatestHour,         \* shutdownLatestSelectableHour, -1 for none
  NotifierFails       \* may the start of a shutdown notifier fail?

ASSUME PromptAssumption ==
  /\ EventName \in [EPTs -> Names]
  /\ Passive \subseteq EPTs
  /\ ActionCancelable \in Nat /\ ShutdownCancelable \in Nat
  /\ {Repeats, SelectableTime, NotifierFails} \subseteq BOOLEAN
  /\ Hours \in Nat \ {0} /\ LatestHour \in -1 .. Hours - 1

\* Labels of the choices: hours, and three others.
Start == Hours        \* "Start now", "Shutdown now"
Later == Hours + 1    \* "Shutdown later"
Abort == Hours + 2    \* "Abort" (the actions)
Labels == 0 .. Abort

VARIABLES
  stage,     \* where the EPT has got to
  seen,      \* the counter as the EPT has read it
  choices,   \* choices of the EPT's ChoiceSubject
  selected,  \* its selected index, 0 for none
  shown,     \* the subject is on the notification server
  rpcs,      \* RPCs of a click whose thread has not run yet
  clicked,   \* the index the click is about
  putOff,    \* actionCancelled, shutdownCancelled
  goOn,      \* waitCancelled, shutdownWaitCancelled
  failed,    \* failed_to_start_notifier
  repeats,   \* _shutdownWarningRepetitionTime >= 0
  wait,      \* full hours until the selected time
  shouldCancel,    \* EventProcessingThread._should_cancel
  hour,      \* the clock
  actionCounter,   \* state action_processing_cancel_counter_<name>
  shutdownCounter, \* state shutdown_cancel_counter
  requested, \* a shutdown or reboot is requested
  triggered, \* EPTs that have shut the machine down
  answered,  \* bound of the clicks: the user has clicked in this question
  aborts,    \* history: how often in a row the user has aborted the actions
  delays     \* history: how often the user has put the shutdown off
             \* (both count no further than one beyond what is allowed)

dialog == <<seen, choices, selected, shown, rpcs, clicked, putOff, goOn, answered>>
timing == <<failed, repeats, wait, hour>>
counters == <<actionCounter, shutdownCounter, aborts, delays>>
machine == <<requested, triggered>>
vars == <<stage, dialog, timing, shouldCancel, counters, machine>>

Over == {"done", "canceled"}
Stages == {"idle", "ask", "asked", "actions", "request", "offer", "notify",
           "poll", "close", "decide", "sleep", "execute"} \cup Over

Goto(p, s) == stage' = [stage EXCEPT ![p] = s]

Init ==
  /\ stage = [p \in EPTs |-> "idle"]
  /\ seen = [p \in EPTs |-> 0]
  /\ choices = [p \in EPTs |-> <<>>]
  /\ selected = [p \in EPTs |-> 0]
  /\ shown = [p \in EPTs |-> FALSE]
  /\ rpcs = [p \in EPTs |-> {}]
  /\ clicked = [p \in EPTs |-> 0]
  /\ putOff = [p \in EPTs |-> FALSE]
  /\ goOn = [p \in EPTs |-> FALSE]
  /\ failed = [p \in EPTs |-> FALSE]
  /\ repeats = [p \in EPTs |-> Repeats]
  /\ wait = [p \in EPTs |-> 0]
  /\ shouldCancel = [p \in EPTs |-> FALSE]
  /\ hour \in IF SelectableTime THEN 0 .. Hours - 1 ELSE {0}
  /\ actionCounter = [n \in Names |-> 0]
  /\ shutdownCounter = 0
  /\ requested \in BOOLEAN
  /\ triggered = {}
  /\ answered = [p \in EPTs |-> FALSE]
  /\ aborts = [n \in Names |-> 0]
  /\ delays = 0

-----------------------------------------------------------------------------
(* The choices on offer                                                    *)

ActionChoices(n) ==
  IF n < ActionCancelable THEN <<Abort, Start>> ELSE <<Start>>

\* The hours after h, up to the latest selectable one or a day's end.
HourChoices(h) ==
  LET most == IF LatestHour = -1 THEN Hours - 1
              ELSE Min({Hours - 1, ((LatestHour - h - 1) % Hours) + 1})
  IN  [i \in 1 .. most |-> (h + i) % Hours]

ShutdownChoices(n, h) ==
  <<Start>> \o (IF n >= ShutdownCancelable THEN <<>>
                ELSE IF SelectableTime THEN HourChoices(h) ELSE <<Later>>)

\* A new ChoiceSubject with its choices is put on the notification server; its
\* first choice is selected.
Show(p, n, offered) ==
  /\ seen' = [seen EXCEPT ![p] = n]
  /\ choices' = [choices EXCEPT ![p] = offered]
  /\ selected' = [selected EXCEPT ![p] = 1]
  /\ shown' = [shown EXCEPT ![p] = TRUE]
  /\ putOff' = [putOff EXCEPT ![p] = FALSE]
  /\ goOn' = [goOn EXCEPT ![p] = FALSE]
  /\ answered' = [answered EXCEPT ![p] = FALSE]
  /\ UNCHANGED <<rpcs, clicked>>

\* The subject is taken off the server and dropped.
Hide(p) ==
  /\ shown' = [shown EXCEPT ![p] = FALSE]
  /\ choices' = [choices EXCEPT ![p] = <<>>]
  /\ selected' = [selected EXCEPT ![p] = 0]
  /\ UNCHANGED <<seen, rpcs, clicked, putOff, goOn, answered>>

-----------------------------------------------------------------------------
(* processActionWarningTime                                                *)

\* One event is processed at a time (EventDispatch; user login events, which
\* run beside the others, are left out), and the EPT before it is gone: Again.
MayBegin(p) ==
  /\ stage[p] = "idle"
  /\ \A q \in EPTs : stage[q] = "idle"

BeginPassive(p) ==
  /\ MayBegin(p)
  /\ p \in Passive
  /\ Goto(p, "request")
  /\ UNCHANGED <<dialog, timing, shouldCancel, counters, machine>>

AskAction(p) ==
  /\ MayBegin(p)
  /\ p \notin Passive
  /\ LET n == actionCounter[EventName[p]] IN Show(p, n, ActionChoices(n))
  /\ Goto(p, "ask")
  /\ UNCHANGED <<timing, shouldCancel, counters, machine>>

\* A flag is set, or the timer has expired.
ActionAsked(p) ==
  /\ stage[p] = "ask"
  /\ Goto(p, "asked")
  /\ UNCHANGED <<dialog, timing, shouldCancel, counters, machine>>

\* A mutant: the abort is not written to the state.
ActionAbortedUncounted(p) ==
  /\ stage[p] = "asked"
  /\ putOff[p]
  /\ aborts' = [aborts EXCEPT ![EventName[p]] = Min({@, ActionCancelable}) + 1]
  /\ Hide(p)
  /\ Goto(p, "request")
  /\ UNCHANGED <<timing, shouldCancel, actionCounter, shutdownCounter, delays, machine>>

\* CanceledByUserError: no actions in this run.
ActionAborted(p) ==
  /\ stage[p] = "asked"
  /\ putOff[p]
  /\ actionCounter' = [actionCounter EXCEPT ![EventName[p]] = seen[p] + 1]
  /\ aborts' = [aborts EXCEPT ![EventName[p]] = Min({@, ActionCancelable}) + 1]
  /\ Hide(p)
  /\ Goto(p, "request")
  /\ UNCHANGED <<timing, shouldCancel, shutdownCounter, delays, machine>>

ActionAccepted(p) ==
  /\ stage[p] = "asked"
  /\ ~putOff[p]
  /\ actionCounter' = [actionCounter EXCEPT ![EventName[p]] = 0]
  /\ aborts' = [aborts EXCEPT ![EventName[p]] = 0]
  /\ Hide(p)
  /\ Goto(p, "actions")
  /\ UNCHANGED <<timing, shouldCancel, shutdownCounter, delays, machine>>

\* The action processor runs; its scripts may request a shutdown.
RunActions(p) ==
  /\ stage[p] = "actions"
  /\ requested' \in {requested, TRUE}
  /\ Goto(p, "request")
  /\ UNCHANGED <<dialog, timing, shouldCancel, counters, triggered>>

-----------------------------------------------------------------------------
(* processShutdownRequests                                                 *)

Request(p) ==
  /\ stage[p] = "request"
  /\ Goto(p, IF requested THEN "offer" ELSE "done")
  /\ UNCHANGED <<dialog, timing, shouldCancel, counters, machine>>

Offer(p) ==
  /\ stage[p] = "offer"
  /\ Show(p, shutdownCounter, ShutdownChoices(shutdownCounter, hour))
  /\ Goto(p, "notify")
  /\ UNCHANGED <<timing, shouldCancel, counters, machine>>

\* One notifier per desktop.  One that fails to start is remembered; another
\* desktop's may run all the same.
StartNotifier(p) ==
  /\ stage[p] = "notify"
  /\ failed' \in {[failed EXCEPT ![p] = f] : f \in {FALSE, NotifierFails}}
  /\ Goto(p, "poll")
  /\ UNCHANGED <<dialog, repeats, wait, hour, shouldCancel, counters, machine>>

\* A full hour has passed: choices that lie in the past are removed, the
\* selected index stays.
RemovePastChoices(p) ==
  /\ stage[p] = "poll"
  /\ ~putOff[p] /\ ~goOn[p] /\ ~shouldCancel[p]
  /\ choices[p] # ShutdownChoices(seen[p], hour)
  /\ choices' = [choices EXCEPT ![p] = ShutdownChoices(seen[p], hour)]
  /\ selected' = [selected EXCEPT ![p] = IF @ = 0 THEN 1 ELSE @]
  /\ UNCHANGED <<stage, seen, shown, rpcs, clicked, putOff, goOn, answered, timing,
                 shouldCancel, counters, machine>>

\* A flag is set, the event is cancelled, or the timer has expired.
PollEnded(p) ==
  /\ stage[p] = "poll"
  /\ Goto(p, "close")
  /\ UNCHANGED <<dialog, timing, shouldCancel, counters, machine>>

\* _cancelable_sleep raises EventProcessingCanceled, in the poll loop or while
\* the shutdown is put off; run stops the notification server.
Canceled(p) ==
  /\ stage[p] \in {"poll", "sleep"}
  /\ p \in Passive
  /\ shouldCancel[p]
  /\ Hide(p)
  /\ Goto(p, "canceled")
  /\ UNCHANGED <<timing, shouldCancel, counters, machine>>

CloseNotifiers(p) ==
  /\ stage[p] = "close"
  /\ Hide(p)
  /\ Goto(p, "decide")
  /\ UNCHANGED <<timing, shouldCancel, counters, machine>>

DecideCanceled(p) ==
  /\ stage[p] = "decide"
  /\ shouldCancel[p]
  /\ Goto(p, "canceled")
  /\ UNCHANGED <<dialog, timing, shouldCancel, counters, machine>>

\* Without a negative repetition time the question is put again later; with
\* one the loop is left, and the shutdown goes on.
AfterPutOff(p) == IF repeats[p] THEN "sleep" ELSE "execute"

\* A notifier has not come up: not counted as a cancellation by the user.
DecideNotNotified(p) ==
  /\ stage[p] = "decide"
  /\ ~shouldCancel[p]
  /\ failed[p]
  /\ Goto(p, AfterPutOff(p))
  /\ UNCHANGED <<dialog, timing, shouldCancel, counters, machine>>

\* Mutants: the counter is not written; a put off shutdown is executed.
DecidePutOffUncounted(p) ==
  /\ stage[p] = "decide"
  /\ ~shouldCancel[p] /\ ~failed[p] /\ putOff[p]
  /\ delays' = Min({delays, ShutdownCancelable}) + 1
  /\ Goto(p, AfterPutOff(p))
  /\ UNCHANGED <<dialog, timing, shouldCancel, actionCounter, shutdownCounter, aborts, machine>>

DecidePutOffFallsThrough(p) ==
  /\ stage[p] = "decide"
  /\ ~shouldCancel[p] /\ ~failed[p] /\ putOff[p]
  /\ delays' = Min({delays, ShutdownCancelable}) + 1
  /\ shutdownCounter' = seen[p] + 1
  /\ Goto(p, "execute")
  /\ UNCHANGED <<dialog, timing, shouldCancel, actionCounter, aborts, machine>>

DecidePutOff(p) ==
  /\ stage[p] = "decide"
  /\ ~shouldCancel[p] /\ ~failed[p] /\ putOff[p]
  /\ shutdownCounter' = seen[p] + 1
  /\ delays' = Min({delays, ShutdownCancelable}) + 1
  /\ Goto(p, AfterPutOff(p))
  /\ UNCHANGED <<dialog, timing, shouldCancel, actionCounter, aborts, machine>>

DecideGoOn(p) ==
  /\ stage[p] = "decide"
  /\ ~shouldCancel[p] /\ ~failed[p] /\ ~putOff[p]
  /\ Goto(p, "execute")
  /\ UNCHANGED <<dialog, timing, shouldCancel, counters, machine>>

\* The question is put again.  The sleep outlasts the threads of the last click.
Wake(p) ==
  /\ stage[p] = "sleep"
  /\ wait[p] = 0
  /\ rpcs[p] = {}
  /\ Goto(p, "offer")
  /\ UNCHANGED <<dialog, timing, shouldCancel, counters, machine>>

\* rebootMachine, shutdownMachine: the request is cleared.
Execute(p) ==
  /\ stage[p] = "execute"
  /\ triggered' = triggered \cup {p}
  /\ requested' = FALSE
  /\ Goto(p, "done")
  /\ UNCHANGED <<dialog, timing, shouldCancel, counters>>

\* The next occurrence: a new EPT with a notification server of its own.
Again(p) ==
  /\ stage[p] \in Over
  /\ Goto(p, "idle")
  /\ seen' = [seen EXCEPT ![p] = 0]
  /\ rpcs' = [rpcs EXCEPT ![p] = {}]
  /\ clicked' = [clicked EXCEPT ![p] = 0]
  /\ putOff' = [putOff EXCEPT ![p] = FALSE]
  /\ goOn' = [goOn EXCEPT ![p] = FALSE]
  /\ answered' = [answered EXCEPT ![p] = FALSE]
  /\ failed' = [failed EXCEPT ![p] = FALSE]
  /\ repeats' = [repeats EXCEPT ![p] = Repeats]
  /\ wait' = [wait EXCEPT ![p] = 0]
  /\ shouldCancel' = [shouldCancel EXCEPT ![p] = FALSE]
  /\ triggered' = triggered \ {p}
  /\ UNCHANGED <<choices, selected, shown, hour, counters, requested>>

-----------------------------------------------------------------------------
(* The user and the threads of NotificationServer                          *)

\* A click on the choice shown at place i; one click to a question.
Click(p, i) ==
  /\ shown[p]
  /\ stage[p] \in {"ask", "asked", "poll", "close"}
  /\ rpcs[p] = {}
  /\ ~answered[p]
  /\ clicked' = [clicked EXCEPT ![p] = i]
  /\ answered' = [answered EXCEPT ![p] = TRUE]
  /\ rpcs' = [rpcs EXCEPT ![p] = {"setSelectedIndexes", "selectChoice"}]
  /\ UNCHANGED <<stage, seen, choices, selected, shown, putOff, goOn, timing,
                 shouldCancel, counters, machine>>

\* setSelectedIndexes: an index that is not on offer selects nothing; without a
\* subject it is dropped.
SetSelectedIndexes(p) ==
  /\ "setSelectedIndexes" \in rpcs[p]
  /\ rpcs' = [rpcs EXCEPT ![p] = @ \ {"setSelectedIndexes"}]
  /\ selected' = [selected EXCEPT ![p] =
       IF ~shown[p] THEN @
       ELSE IF clicked[p] \in DOMAIN choices[p] THEN clicked[p] ELSE 0]
  /\ clicked' = [clicked EXCEPT ![p] = 0]
  /\ UNCHANGED <<stage, seen, choices, shown, putOff, goOn, answered, timing,
                 shouldCancel, counters, machine>>

\* A mutant: an hour that is over is not moved to tomorrow.
SelectTimeToday(p, label) ==
  IF label \in 0 .. Hours - 1
  THEN /\ wait' = [wait EXCEPT ![p] = label - hour]
       /\ repeats' \in {[repeats EXCEPT ![p] = r] :
                          r \in IF label = hour THEN BOOLEAN ELSE {TRUE}}
  ELSE /\ wait' = [wait EXCEPT ![p] = 0]
       /\ repeats' = [repeats EXCEPT ![p] = Repeats]

\* abortShutdownCallback: the time until the selected hour, today or tomorrow.
\* If that hour is the present one the time lies in the past: it is zero or
\* negative, by how many seconds the hour is old.
SelectTime(p, label) ==
  IF label \in 0 .. Hours - 1
  THEN /\ wait' = [wait EXCEPT ![p] = (label - hour) % Hours]
       /\ repeats' \in {[repeats EXCEPT ![p] = r] :
                          r \in IF label = hour THEN BOOLEAN ELSE {TRUE}}
  ELSE /\ wait' = [wait EXCEPT ![p] = 0]
       /\ repeats' = [repeats EXCEPT ![p] = Repeats]

\* selectChoice calls the callback of what is selected now.
SelectChoice(p) ==
  /\ "selectChoice" \in rpcs[p]
  /\ rpcs' = [rpcs EXCEPT ![p] = @ \ {"selectChoice"}]
  /\ IF ~shown[p] \/ selected[p] \notin DOMAIN choices[p]
     THEN UNCHANGED <<putOff, goOn, wait, repeats>>
     ELSE LET label == choices[p][selected[p]] IN
          CASE label = Start -> /\ goOn' = [goOn EXCEPT ![p] = TRUE]
                                /\ UNCHANGED <<putOff, wait, repeats>>
            [] label = Abort -> /\ putOff' = [putOff EXCEPT ![p] = TRUE]
                                /\ UNCHANGED <<goOn, wait, repeats>>
            [] OTHER -> /\ putOff' = [putOff EXCEPT ![p] = TRUE]
                        /\ SelectTime(p, label)
                        /\ UNCHANGED goOn
  /\ UNCHANGED <<stage, seen, choices, selected, shown, clicked, answered, failed, hour,
                 shouldCancel, counters, machine>>

-----------------------------------------------------------------------------

\* The clock strikes.
Tick ==
  /\ SelectableTime
  /\ hour' = (hour + 1) % Hours
  /\ wait' = [p \in EPTs |-> IF wait[p] = 0 THEN 0 ELSE wait[p] - 1]
  /\ UNCHANGED <<stage, dialog, failed, repeats, shouldCancel, counters, machine>>

\* Another event cancels a passive one that is about to shut down.
Cancel(p) ==
  /\ p \in Passive
  /\ stage[p] \in Stages \ ({"idle"} \cup Over)
  /\ shouldCancel' = [shouldCancel EXCEPT ![p] = TRUE]
  /\ UNCHANGED <<stage, dialog, timing, counters, machine>>

\* The daemon is restarted: State.start resets the shutdown counter, the other
\* counters are read from the state file.
Restart ==
  /\ shutdownCounter' = 0
  /\ delays' = 0
  /\ stage' = [p \in EPTs |-> IF stage[p] \in {"idle"} \cup Over THEN stage[p] ELSE "canceled"]
  /\ seen' = [p \in EPTs |-> 0]
  /\ choices' = [p \in EPTs |-> <<>>]
  /\ selected' = [p \in EPTs |-> 0]
  /\ shown' = [p \in EPTs |-> FALSE]
  /\ rpcs' = [p \in EPTs |-> {}]
  /\ clicked' = [p \in EPTs |-> 0]
  /\ putOff' = [p \in EPTs |-> FALSE]
  /\ goOn' = [p \in EPTs |-> FALSE]
  /\ answered' = [p \in EPTs |-> FALSE]
  /\ failed' = [p \in EPTs |-> FALSE]
  /\ repeats' = [p \in EPTs |-> Repeats]
  /\ wait' = [p \in EPTs |-> 0]
  /\ shouldCancel' = [p \in EPTs |-> FALSE]
  /\ triggered' = {}
  /\ UNCHANGED <<hour, actionCounter, aborts, requested>>

Asking(p) ==
  \/ BeginPassive(p) \/ AskAction(p) \/ ActionAsked(p)
  \/ ActionAborted(p) \/ ActionAccepted(p) \/ RunActions(p)

ShuttingDown(p) ==
  \/ Request(p) \/ Offer(p) \/ StartNotifier(p) \/ PollEnded(p) \/ Canceled(p)
  \/ CloseNotifiers(p) \/ DecideCanceled(p) \/ DecideNotNotified(p)
  \/ DecidePutOff(p) \/ DecideGoOn(p) \/ Wake(p) \/ Execute(p)

Next ==
  \/ Tick \/ Restart
  \/ \E p \in EPTs :
       \/ Asking(p) \/ ShuttingDown(p) \/ RemovePastChoices(p) \/ Again(p)
       \/ \E i \in DOMAIN choices[p] : Click(p, i)
       \/ SetSelectedIndexes(p) \/ SelectChoice(p) \/ Cancel(p)

Spec == Init /\ [][Next]_vars

\* Threads keep running and the clock goes on; nobody has to click or cancel.
Fairness ==
  /\ WF_vars(Tick)
  /\ \A p \in EPTs :
       /\ WF_vars(Asking(p))
       /\ WF_vars(ShuttingDown(p))
       /\ WF_vars(SetSelectedIndexes(p))
       /\ WF_vars(SelectChoice(p))

FairSpec == Spec /\ Fairness

-----------------------------------------------------------------------------

TypeOK ==
  /\ stage \in [EPTs -> Stages]
  /\ seen \in [EPTs -> Nat]
  /\ choices \in [EPTs -> Seq(Labels)]
  /\ selected \in [EPTs -> Nat]
  /\ shown \in [EPTs -> BOOLEAN]
  /\ putOff \in [EPTs -> BOOLEAN]
  /\ goOn \in [EPTs -> BOOLEAN]
  /\ failed \in [EPTs -> BOOLEAN]
  /\ rpcs \in [EPTs -> SUBSET {"setSelectedIndexes", "selectChoice"}]
  /\ clicked \in [EPTs -> Nat]
  /\ repeats \in [EPTs -> BOOLEAN]
  /\ wait \in [EPTs -> 0 .. Hours - 1]
  /\ shouldCancel \in [EPTs -> BOOLEAN]
  /\ hour \in 0 .. Hours - 1
  /\ actionCounter \in [Names -> Nat]
  /\ shutdownCounter \in Nat
  /\ requested \in BOOLEAN
  /\ triggered \subseteq EPTs
  /\ answered \in [EPTs -> BOOLEAN]
  /\ aborts \in [Names -> Nat]
  /\ delays \in Nat

\* Since the daemon's start the user has put the shutdown off at most
\* shutdown_user_cancelable times, over all events that have asked.
ShutdownDelayLimit == delays <= ShutdownCancelable

\* The user aborts the actions of an event at most action_user_cancelable times
\* in a row, over all its occurrences and restarts of the daemon.
ActionAbortLimit == \A n \in Names : aborts[n] <= ActionCancelable

\* A shutdown the user has put off, or that he could not be told of, does not
\* take place in that round, unless the repetition time is negative: then no
\* round follows.  An hour chosen while it is the present one makes it negative.
PutOffIsKept ==
  [][\A p \in triggered' \ triggered :
       (putOff[p] \/ failed[p]) => ~repeats[p]]_vars

\* A shutdown that is asked about comes, or the event is cancelled, unless the
\* notifiers keep failing to start: the user cannot put it off for ever.
ShutdownComes ==
  \A p \in EPTs : stage[p] = "offer" ~> stage[p] \in Over \/ failed[p]

-----------------------------------------------------------------------------
(* The inductive invariant behind the limits and PutOffIsKept              *)

\* One EPT at a time asks, counts and shuts down.
OneAsks == \A p, q \in EPTs : stage[p] # "idle" /\ stage[q] # "idle" => p = q

AskingStages == {"ask", "asked"}
OfferStages == {"notify", "poll", "close"}

\* A subject is on the notification server while its question is open only, and
\* it offers anything but to go on only as long as that is allowed.
Shows(p) ==
  /\ shown[p] => stage[p] \in AskingStages \cup OfferStages
  /\ stage[p] \in AskingStages => \A i \in DOMAIN choices[p] :
       choices[p][i] # Start => seen[p] < ActionCancelable
  /\ stage[p] \in OfferStages => \A i \in DOMAIN choices[p] :
       choices[p][i] # Start => seen[p] < ShutdownCancelable

\* What the EPT has read is still what the state file says, and nobody has put
\* off anything that could not be put off any more.
Counts(p) ==
  /\ stage[p] \in AskingStages =>
       /\ seen[p] = actionCounter[EventName[p]]
       /\ putOff[p] => seen[p] < ActionCancelable
  /\ stage[p] \in OfferStages \cup {"decide"} =>
       /\ seen[p] = shutdownCounter
       /\ putOff[p] => seen[p] < ShutdownCancelable

\* A put off shutdown goes on at once only without a repetition.
Keeps(p) == stage[p] = "execute" /\ (putOff[p] \/ failed[p]) => ~repeats[p]

\* The counters tell how often the user has put off.
HistoryInv ==
  /\ shutdownCounter = delays /\ delays <= ShutdownCancelable
  /\ \A n \in Names : actionCounter[n] = aborts[n] /\ aborts[n] <= ActionCancelable

PromptInv ==
  /\ TypeOK
  /\ OneAsks
  /\ HistoryInv
  /\ \A p \in EPTs : Shows(p) /\ Counts(p) /\ Keeps(p)
=============================================================================
