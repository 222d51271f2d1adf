------------------------- MODULE ServiceConnection -------------------------
(***************************************************************************)
(* Connecting to the config service: ServiceConnection.connectConfigService *)
(* and the ServiceConnectionThread it starts for each url (OpsiService.py). *)
(*                                                                         *)
(* The caller polls flags of the thread once a second until it has ended,  *)
(* was cancelled by the user or has had its time; the thread may hang in a *)
(* connection attempt and try again for ever. The daemon calls stop() of   *)
(* every event processing thread, which is a ServiceConnection, when it    *)
(* goes down (Opsiclientd.py:690): a caller that waits then returns, and   *)
(* tells its thread nothing.  What is done with the connection is left out.*)
(***************************************************************************)
EXTENDS Naturals

CONSTANTS Urls,       \* how many urls there are; they are tried in order
          Timeout,    \* seconds a thread is waited for (connection_timeout)
          StartPolls  \* times the caller looks for the start of a thread

ASSUME ConnectionAssumption ==
  {Urls, Timeout, StartPolls} \subseteq Nat \ {0}

Url == 1..Urls

VARIABLES
  caller,     \* what connectConfigService is at
  url,        \* the url it tries; 0 before
  left,       \* polls or seconds left
  service,    \* _configService: the url it is connected to, 0 if to none
  attempt,    \* what each thread is at
  running, connected, cancelled,  \* urls whose threads have these flags
  offered,    \* threads whose stopConnectionCallback the user has been given
  stopCalled, \* _should_stop
  open,       \* connections that were made and not closed
  slow        \* history: threads that had not begun when they were given up

flags == <<running, connected, cancelled>>
connectionVars ==
  <<caller, url, left, service, attempt, flags, offered, stopCalled, open, slow>>

Results == {"established", "canceled", "timedOut", "failed", "stopped"}

ConnectionInit ==
  /\ caller = "away"
  /\ url = 0 /\ left = 0 /\ service = 0
  /\ attempt = [u \in Url |-> "no"]
  /\ running = {} /\ connected = {} /\ cancelled = {}
  /\ offered = {} /\ open = {} /\ slow = {}
  /\ stopCalled = FALSE

-----------------------------------------------------------------------------
(* connectConfigService                                                    *)

\* Starts the thread of the next url.
StartThread ==
  /\ caller \in {"away", "next"}
  /\ caller' = "starting"
  /\ url' = url + 1
  /\ left' = StartPolls
  /\ attempt' = [attempt EXCEPT ![url + 1] = "started"]
  /\ UNCHANGED <<service, flags, offered, stopCalled, open, slow>>

\* Polls until the thread runs; if it does not begin in time it is as good as
\* one that has ended.
PollStart ==
  /\ caller = "starting"
  /\ IF url \in running \/ left = 0
     THEN caller' = "waiting" /\ left' = Timeout
     ELSE left' = left - 1 /\ UNCHANGED caller
  /\ slow' = IF left = 0 /\ attempt[url] = "started" THEN slow \cup {url} ELSE slow
  /\ UNCHANGED <<url, service, attempt, flags, offered, stopCalled, open>>

MayWait == caller = "waiting" /\ url \in running /\ left > 0

\* A second passes. After some of them the user may cancel.
Wait ==
  /\ MayWait /\ ~stopCalled
  /\ left' = left - 1
  /\ offered' \in {offered, offered \cup {url}}
  /\ UNCHANGED <<caller, url, service, attempt, flags, stopCalled, open, slow>>

\* The thread is neither told to stop nor waited for any more.
WaitStopped ==
  /\ MayWait /\ stopCalled
  /\ caller' = "stopped"
  /\ UNCHANGED <<url, left, service, attempt, flags, offered, stopCalled, open, slow>>

StopWaiting ==
  /\ caller = "waiting" /\ (url \notin running \/ left = 0)
  /\ caller' = IF url \in cancelled THEN "canceled" ELSE "ifRunning"
  /\ UNCHANGED <<url, left, service, attempt, flags, offered, stopCalled, open, slow>>

LookIfRunning ==
  /\ caller = "ifRunning"
  /\ caller' = IF url \in running THEN "giveUp" ELSE "ifConnected"
  /\ UNCHANGED <<url, left, service, attempt, flags, offered, stopCalled, open, slow>>

\* A mutant: the thread is not told to stop when there is another url.
GiveUpUntold ==
  /\ caller = "giveUp"
  /\ IF url < Urls THEN UNCHANGED <<running, cancelled>>
     ELSE running' = running \ {url} /\ cancelled' = cancelled \cup {url}
  /\ caller' = IF url < Urls THEN "next" ELSE "timedOut"
  /\ UNCHANGED <<url, left, service, attempt, connected, offered, stopCalled, open, slow>>

\* The thread has had its time: it is told to stop, the next url is tried.
GiveUp ==
  /\ caller = "giveUp"
  /\ running' = running \ {url}
  /\ cancelled' = cancelled \cup {url}
  /\ caller' = IF url < Urls THEN "next" ELSE "timedOut"
  /\ UNCHANGED <<url, left, service, attempt, connected, offered, stopCalled, open, slow>>

LookIfConnected ==
  /\ caller = "ifConnected"
  /\ IF url \in connected
     THEN caller' = "established" /\ service' = url
     ELSE caller' = "failed" /\ UNCHANGED service
  /\ UNCHANGED <<url, left, attempt, flags, offered, stopCalled, open, slow>>

\* A mutant: the flag is set, the connection stays open.
StopKeepsOpen ==
  /\ ~stopCalled
  /\ stopCalled' = TRUE
  /\ service' = 0
  /\ UNCHANGED <<caller, url, left, attempt, flags, offered, open, slow>>

\* stop(), called by the main thread: the connection is closed if there is one;
\* one that is made later is not.
StopConnection ==
  /\ ~stopCalled
  /\ stopCalled' = TRUE
  /\ service' = 0
  /\ open' = open \ {service}
  /\ UNCHANGED <<caller, url, left, attempt, flags, offered, slow>>

-----------------------------------------------------------------------------
(* ServiceConnectionThread                                                 *)

Attempt(u, from, to) ==
  /\ attempt[u] = from
  /\ attempt' = [attempt EXCEPT ![u] = to]
  /\ UNCHANGED <<caller, url, left, service, offered, stopCalled, slow>>

BeginThread(u) ==
  /\ Attempt(u, "started", "loop")
  /\ running' = running \cup {u}
  /\ connected' = connected \ {u}
  /\ cancelled' = cancelled \ {u}
  /\ UNCHANGED open

\* while not cancelled and not connected
Try(u) ==
  /\ Attempt(u, "loop", IF u \in cancelled \cup connected THEN "end" ELSE "trying")
  /\ UNCHANGED <<flags, open>>

Connects(u) ==
  /\ Attempt(u, "trying", "loop")
  /\ open' = open \cup {u}
  /\ connected' = connected \cup {u}
  /\ UNCHANGED <<running, cancelled>>

\* The server's certificate or the client's key is refused.
Refused(u) == Attempt(u, "trying", "end") /\ UNCHANGED <<flags, open>>

\* Any other error: another attempt after three seconds.
TryFails(u) == Attempt(u, "trying", "loop") /\ UNCHANGED <<flags, open>>

EndThread(u) ==
  /\ Attempt(u, "end", "ended")
  /\ running' = running \ {u}
  /\ UNCHANGED <<connected, cancelled, open>>

\* stopConnectionCallback
UserCancels(u) ==
  /\ u \in offered \ cancelled
  /\ running' = running \ {u}
  /\ cancelled' = cancelled \cup {u}
  /\ UNCHANGED <<caller, url, left, service, attempt, connected, offered, stopCalled, open, slow>>

-----------------------------------------------------------------------------

CallerStep ==
  \/ StartThread \/ PollStart \/ Wait \/ WaitStopped \/ StopWaiting
  \/ LookIfRunning \/ GiveUp \/ LookIfConnected

ThreadStep(u) ==
  \/ BeginThread(u) \/ Try(u) \/ Connects(u) \/ Refused(u) \/ TryFails(u)
  \/ EndThread(u)

ConnectionNext ==
  \/ CallerStep \/ StopConnection
  \/ \E u \in Url: ThreadStep(u) \/ UserCancels(u)

ConnectionSpec == ConnectionInit /\ [][ConnectionNext]_connectionVars

-----------------------------------------------------------------------------

ConnectionTypeOK ==
  /\ caller \in {"away", "next", "starting", "waiting", "ifRunning", "giveUp",
                 "ifConnected"} \cup Results
  /\ url \in 0..Urls /\ service \in 0..Urls
  /\ left \in 0..(Timeout + StartPolls)
  /\ attempt \in [Url -> {"no", "started", "loop", "trying", "end", "ended"}]
  /\ running \subseteq Url /\ connected \subseteq Url /\ cancelled \subseteq Url
  /\ stopCalled \in BOOLEAN
  /\ offered \subseteq Url /\ open \subseteq Url /\ slow \subseteq Url

\* A thread that goes on though connectConfigService has returned: it had not
\* begun in time, resets the flags and is out of reach of anyone who could stop
\* it; or stop() has made the caller return while it waited for it
\* (OpsiService.py:458), which leaves it to the end of the process.
Abandoned(u) == u \in slow \/ (caller = "stopped" /\ u = url)

\* When it has returned, nobody else goes on trying: threads that were given up
\* end.
NobodyGoesOn ==
  \A u \in Url:
    caller \in Results ~> attempt[u] \in {"no", "ended"} \/ Abandoned(u)

\* When it has returned, it has the connection it says it has, which is open,
\* unless stop() has closed it; others are open only if their threads were given
\* up by the caller or by the user, or were abandoned, and have connected
\* nevertheless.
OneConnection ==
  caller \in Results =>
    /\ service # 0 => caller = "established" /\ service = url /\ service \in open
    /\ caller = "established" => service # 0 \/ stopCalled
    /\ \A u \in open \ {service}: u \in cancelled \/ Abandoned(u)
=============================================================================
