# Verification of opsiclientd

TLA+ models of opsiclientd, the client agent of opsi (`src/opsiclientd`), their
model-checking runs and machine-checked proofs. Line numbers refer to the files
under `src/opsiclientd` unless another path is given.

1. The system
2. The modules and the code
3. The runs
4. The proofs
5. Where the code departs from what it says
6. What is left out
7. Plan

## 1. The system

opsiclientd is a multi-threaded daemon. *Event generators* (timers, login
notifications, RPC calls, ...) fire *events*; an event is processed by an *event
processing thread* (EPT), which blocks the login, fetches action requests from
the opsi server or from a local replica, runs the action processor
(opsi-script), synchronizes the caches and finally shuts the machine down or
reboots it if an opsi-script asked for it. Users are asked before actions and
before a shutdown.

| Component | State | Operations | Talks to |
|---|---|---|---|
| Event dispatch: `Events/Basic.py`, `Opsiclientd.py` 722-840, `EventProcessing.py` `run` | `eventLock`, `_eventProcessingThreads`, per EPT `running`, `_is_cancelable`, `_should_cancel`; `_blockLogin` | `fireEvent`, `canProcessEvent`, `processEvent`, `cancelOthersAndWaitUntilReady`, `cancel`, `run`, `setBlockLogin` | generators and RPC callers (calls), EPTs (flags, polled), config cache (marks) |
| User prompts: `EventProcessing.py` 1300-1720 | counters in the state file, choices and flags of a question | `processActionWarningTime`, `processShutdownRequests`, `abortShutdownCallback` | notifiers, through the notification server |
| Notification server: `notification_server.py` | subjects, clients | RPCs, one thread each | notifiers (TCP), EPT (callbacks) |
| Config cache: `nonfree/CacheService.py` 360-870 | `config_cached` (persistent), request flags, `_forceSync`, tracker, replica | `syncConfig*`, `setObsolete`, `setFaulty`, worker `run` | EPTs, control server, opsi server |
| Client cache backend: `nonfree/CacheBackend.py` | replica, its snapshot, tracker of modifications | push modifications to the server, make a new replica | config cache, opsi server |
| Product cache: `nonfree/CacheService.py` 878-1490 | copies on disk, `product_cache_service` (persistent), request flag | `cacheProducts`, `clear_cache`, worker `run` | EPTs, control server, depot |
| Product dependencies: `nonfree/RPCProductDependencyMixin.py` | none | grouping and sorting of actions | config cache |
| Action processing: `EventProcessing.py` 560-1270 | `installation_pending` | update and run the action processor | depot, desktops |
| Service connection: `OpsiService.py` | connection thread, permanent connection | connect, cancel, time out, message bus | opsi server |
| Control pipe, login: `ControlPipe.py`, `windows/opsiclientd.py` | clients of the pipe, `_blockLogin` | `loginUser`, registration, broadcasts | credential providers |
| Popups: `Opsiclientd.py` 1093-1270 | popup server, closing thread | `showPopup`, `hidePopup` | RPC callers, users |
| Daemon lifecycle: `Opsiclientd.py` 97-720 | stop flags, generators | start, self update, restart, stop | all |
| State file: `State.py` | a dict and a JSON file | `get`, `set` | all |
| Timeline: `Timeline.py` | an SQLite database, a lock | add and end events, recreate | all |
| Event configs: `Events/Utilities`, `EventConfiguration.py`, `Config.py` | configuration | inheritance, preconditions | generators |
| Control interface, web server: `webserver` | sessions | RPC methods, pages | administrators |
| Log viewer: `webserver/application/log_viewer.py`, `static_html/javascript/log_viewer.js` | reader of a connection; lines of a page | read, send, show, filter, reconnect | administrators |
| Desktop and platform support, other static pages | | system calls, third-party scripts | |

What makes it hard:

- *Many threads, few locks.* One event at a time is the work of three kinds of
  threads that hand one lock over to each other, and of flags that are read
  without it.
- *Cancelling.* An event may be cancelled until it does something that must not
  be interrupted, and the canceller waits for it while it holds the lock that
  the cancelled thread needs.
- *Users.* A click arrives as two calls in two threads, while the question
  changes; what it means is counted in a file that outlives the daemon.
- *Replicas.* Client and administrators change the same objects apart from each
  other; a push may fail between two of them and is repeated.
- *Caches.* Their workers poll flags that others set, may fail at any step, and
  must leave a state in which nobody works on half a replica or half a copy,
  after a crash too.

What would make each component correct, and at which lines it could fail, is
listed in `PROJECT.json` under `hazards`, each with the properties that would
catch it.

## 2. The modules and the code

`PROJECT.json`, `map`, names for each definition the lines it stands for.

| Module | Models | Used by |
|---|---|---|
| `ExclusiveEvents` | what event dispatch promises: refuse, or process from start to end, one non-login event at a time | `EventDispatchProperties` (refinement) |
| `EventDispatch` | firing, dispatch, cancelling and the stages of an EPT | |
| `EventDispatchProperties` | its properties, the inductive invariant `DispatchInv`, the refinement mapping | `MCEventDispatch`, `EventDispatchProofs` |
| `UserPrompts` | the questions before actions and before a shutdown | `MCUserPrompts`, `UserPromptsProofs` |
| `ConfigCache` | when the replica is pushed, replaced and used: the worker of the config cache | `MCConfigCache`, `ConfigCacheProofs` |
| `CacheBackend` | what is pushed and replicated, object by object | `MCCacheBackend`, `MCParts`, `CacheBackendProofs` |
| `ProductCache` | copies of product files, their worker and `clear_cache` | `MCProductCache`, `ProductCacheProofs` |
| `ActionGroups` | the order of actions | `MCActionGroups`, `MCParts`, `CacheBackendProofs` |
| `ControlPipe` | connections of credential providers, blocking of logins and `loginUser` | `MCControlPipe`, `ControlPipeProofs` |
| `Popups` | `showPopup`, `hidePopup`, closing threads | `MCParts`, `PartsProofs` |
| `ServiceConnection` | connecting to the opsi server | `MCParts`, `PartsProofs` |
| `StateFile` | `State.set`, the file, the start | `MCParts`, `PartsProofs` |
| `Timeline` | events in the database, their lock, start and stop | `MCParts`, `PartsProofs` |
| `LogViewer` | the log reader and the page that shows its records | `MCParts`, `PartsProofs` |
| `SelfUpdate` | the replacement of the installation, restarts and crashes | `MCParts`, `PartsProofs` |
| `MCParts` | `ActionGroups`, `CacheBackend`, `Popups` and the five after it, side by side | `PartsProofs` |
| `MC*` | instances for TLC | |
| `*Proofs` | theorems | |
| `Induction` | lemmas: least elements, repeated application of a function, sums, sequences | `CacheBackendProofs`, `PartsProofs`, `ProductCacheProofs` |

**EventDispatch.** `pc[e]` follows one occurrence of an event through the three
threads that act for it in turn: the caller of `fireEvent` (`acquire`, `check`),
the FireEventThread in `processEvent` (`notify`, `cancel`, `wait`, `create`,
`leave`) and the EPT in `run` (`start` to `stopping`). They never run at the same
time for one occurrence, which is why one program counter is enough; different
occurrences interleave freely. A step is what happens between two points at
which another thread can be seen: an acquisition of `eventLock`, a read of a flag
others write, a write others read. Sections under `_eptListLock` are one step,
since the lock is never held across a wait there. Timeouts (5 s for the lock, 30 s
for a cancelled thread) may expire at any moment at which what is waited for has
not happened. The actions of an event, its connection and its sync are one step
each that may fail where an exception would reach `run`.

An event that takes over marks the config cache (`WaitEnded`, `Opsiclientd.py`
764-771). That is not always so: without a cache service it takes over unmarked, and if
the service cannot be created, the exception ends the thread (`WaitEndedFails`, section
5). The mark itself is an action of `ConfigCache`. A run ends with `running = False`
(`EndRun`), which lets the follower go on, and only then looks for the restart marker
(`RestartOnMarker`): `restart` unblocks login at once and replaces the process later.

The constant `Outside` tells what may come from outside of the event handling: a restart
`"marker"` that an opsi script leaves, the `"rpc"` `setBlockLogin`, a `"restart"` by an
administrator or a self update, and an `"error"` in creating the config cache service.
`overruled` is history: one of the first three has set `blockLogin` since an event did.
After a restart has been called the process may be replaced at any moment, so
fairness ends there (`Lives`).

**UserPrompts.** `stage[p]` follows an EPT through the two questions. `Show` puts
a ChoiceSubject on the notification server, `Click` sends two RPCs, which
`SetSelectedIndexes` and `SelectChoice` carry out in either order, and the EPT
polls the flags set by the callbacks. The clock has `Hours` hours instead of 24;
at each of them `RemovePastChoices` rebuilds the choices. `aborts` and `delays`
are history: what the user has done, to compare with what the code has counted.
`answered` bounds the clicks, to one in a question. `Again` begins the next occurrence
of an event.

**ConfigCache.** `job` follows the worker through `_syncConfigToServer` and
`_syncConfigFromServer`; events are the three ways in which EPTs use the replica
(`online` bypasses it, `cached` works on it, `sync` has it synchronized).
`complete` says whether the replica has everything a replica has, `local` which
action requests. `marked` and `forgotten` are history: the replica was marked
faulty since the last one was begun, and that need was lost.

**ProductCache.** `job` follows the worker; `content[p]` counts the units of `p`
on disk, `age` orders the package content files by time. `Plan`, `DropTurn` and
`Dropped` are the loop over the products the depot lacks: the loop shortens by index
the list it takes its indexes from, and a turn beyond its end raises. `victims` holds the sizes that
were read before evicting. `torn`, `cleared` and `offered` are history.

**ControlPipe.** `thread[c]` is what the thread of a connection is at, `stage[k]` what
a caller of `setBlockLogin` or `loginUser` is at. A Python list is an object: `lists`
holds those made so far, the last is `_clients`, and a caller walks (`on`, `pos`) the
one it took, which may shrink under it or be replaced. `setBlockLogin` is three
steps, since it compares, assigns and reads `_blockLogin` without a lock;
`executeRpc` is one for the choice of the next connection, one for taking `comLock`
and writing, one for the answer. `told` and `loggedIn` are history.

**CacheBackend.** `master` are the objects of the server, `work` those of the replica,
`snapshot` what the replica was made with. A push is a record of the classes still
to do and of what was read for the present one: for each class it reads the server's
objects, deletes some and updates others, in steps between which the server may
change and each of which may fail; a failed push leaves the tracker as it is and is
repeated from the beginning. `Merge` differs by class: a setting that was changed on
the server is left alone, the request of a product with a new version is, too, and a
license is freed or held. A new replica repairs requests that dependencies ask for.
`held`, `changed`, `taken`, `again`, `late`, `used`, `mine` and `overwritten` are history.
`mine[i]` is what the client itself has made of an object, until that has arrived on the
server and a new replica takes its place; `Synced` compares the server with it and not
with `work`, which every replica overwrites. `overwritten` are the objects whose change
had not arrived when that happened.

**ActionGroups.** The sorter as its loops run: a step is one turn of one of them, and
`stage` tells the loop. `found` and `met` are `unsorted_actions`, its lists and the order of its
keys. The recursion of `process_dependencies` is `stack`, whose calls are at their `next`
dependency, with the one `path` that all of them share and extend; `hard` and `linked` are the
requirements it records and the sets of products they link. In `sort`, `item` and `next` are
where a run stands in `copy`, the order before the run, while it rearranges `actions`; `moved`
is history. A position of -1 in the source is 0 here, and what the source then
takes out, the last action, is `Popped`.

**Popups.** Each popup stands for a call of `showPopup`, for its notification server
(`run`, `shouldStop`, `serverLock`) and for its closing thread (`thread`). `hider` is what
an agent in `hidePopup` is at and the server it has read: the global
`_popupNotificationServer` may be another one at its next step.

**ServiceConnection.** `caller` polls the thread of one url after the other, `left` are
the polls it still waits; `attempt` is what each thread is at. The caller gives up a
thread by a flag, at which the thread looks between two attempts. `StopConnection` is
`stop()`, which the main thread calls of each EPT when the daemon goes down
(`Opsiclientd.py` 690): it closes the connection there is, and a caller that waits
returns without a word to its thread (`WaitStopped`, `OpsiService.py` 458).

**StateFile.** `set` changes the dict in one step, takes the lock, makes the text
(`dumped`), opens the file, which empties it, and writes. `RestartState` may come between any
two of these.

**Timeline.** `writer` is what a thread in `addEvent` or `setEventEnd` is at, `row` its
event in the database. `daemon` starts and stops it; `broken` is a database that cannot
be written to, which `addEvent` recreates while it holds the lock (section 5).

**LogViewer.** Both sides of one WebSocket: `reader` holds the position and the two
buffers of the server's thread, `wire` the messages under way, `buffers` those whose
`arrayBuffer` promise is not resolved yet, `shown` the lines of the page. The log
grows by lines, the connection may be lost and is opened again, whereupon the reader
begins anew and the page is emptied.

**SelfUpdate.** `windows` is the platform; `dir` says what is at each of its two places,
`updater` which of its renames, deletions or links a thread is at. A failure, a crash or a restart
may come between any two; `up` says whether the daemon runs.

**MCParts.** `Popups`, `ServiceConnection`, `StateFile`, `Timeline`, `LogViewer`,
`SelfUpdate`, `ActionGroups` and `CacheBackend` have no state in common in what is
modelled of them. `part` chooses one of them, or one of the instances of a module,
at the beginning; the others stay as they are at the beginning, in a single state. This
is the sum of the parts' state spaces and not their product. The module extends those
it puts together, so that what it checks is what `PartsProofs` and `CacheBackendProofs`
prove.

## 3. The runs

| Run | Instance | Shows |
|---|---|---|
| `dispatch` | on-demand event (RPC, may cancel), timer event on the cached config, passive sync event; restart markers, restarts, a cache service that cannot be created; fair | `CancelAcceptedInTime`, `FiringIsAnswered`, `LoginEventuallyUnblocked`, `MarkerIsHonoured` |
| `dispatch_kinds` | event with a working window, user login, panic event; restart markers, the RPC `setBlockLogin` | types and the inductive invariant, `ExclusiveProcessing`, `LoginBlockedWhileExecuting`, `Refinement` (of `ExclusiveEvents`) |
| `dispatch_late_cancel` | as `dispatch` | violation of `AcceptedCancelStopsActions`: section 5 |
| `prompts` | one event with actions, one passive; one abort and two delays allowed; three hours; notifiers may fail; restarts; fair | types, `ShutdownDelayLimit`, `ActionAbortLimit`, `PutOffIsKept`, `ShutdownComes` |
| `cache` | two products | `CachedIsComplete`, `FailedPushIsKept`, `DirtyIsReplaced` |
| `products` | two products of two units, the action processor of one; room for four | types, `CompletedIsWhole`, `ReadyMeansCompleted`, `SizeLimitKept` |
| `pipe` | two connections, a thread that sets block login, one that logs in twice at most | types, `OneTalks`, `AgreesWhenQuiet`, `OneLoginPerProvider` |
| `pipe_second_login` | two threads that log in | violation of `OneLoginPerProvider`: section 5 |
| `parts` | see below; fair | `PartsTypeOK` and the properties of eight modules |
| `actions_misordered` | requests of `MCActionGroups` with mixed kinds of requirements | violation of `RequirementsAreMet`: section 5 |
| `second_change` | one setting with two values | violation of `SecondChangeArrives`: section 5 |
| `timeline_deadlock` | two writers; fair | violation of `AddEventReturns`: section 5 |

Of the run `parts`:

| Part | Instance | Shows |
|---|---|---|
| `groups` | three products, each of which may depend on the others; all requests of `MCActionGroups` | `RequirementsHaveActions`, `OneKindIsMet` |
| `orders`, `settings`, `licenses` | two products of which one needs the other; one setting with two values; a third product with a license | `LocalChangeArrives`, `ServerChangeStays` |
| `popups` | two popups, one shown for a time | `ReplacedIsStopped`, `LastDecidesEnd`, `TimedPopupEnds` |
| `connection` | two urls, two seconds; `stop()` at any time | `OneConnection`, `NobodyGoesOn` |
| `state` | two threads, two names, two values | `SetIsWritten` |
| `timeline` | two writers | `StopEndsEvents` |
| `viewer` | three records, one of two lines, one that the filter hides; two are kept; one loss of the connection | `ShownIsTheLog`, `HiddenIfFiltered`, `EveryRecordIsShown` |
| `update` | two threads, on either platform | `InstallationKept` |

**Bounds, and why they are enough.**

- *Occurrences* (`Events`): three, each fired once. One runs, one cancels it, and
  a third meets both; a later firing finds what these leave behind, since nothing
  but the variables is remembered of an occurrence that is over. The proofs cover
  any number.
- *Prompts*: two EPTs that follow each other any number of times (`Again`), so
  that the counters are met with every value; limits of one and two let them be
  reached and exceeded; three hours have a present, a past and a next day's one.
  The histories count no further than one beyond the limits. One click is sent per
  question. The proofs cover any limits, names and number of hours.
- *Config cache*: requests differ by product only, two let the sets of server and
  replica be equal, nested and crossing. The proofs cover any set.
- *Product cache*: two products of two units let copies be partial and force
  evictions; requests for a plan are every sequence over every subset. Two missing
  products of three requested, the fewest with which the loop of `DropTurn` runs
  past the end, do not occur in this instance; the proofs cover them, and any
  products, sizes and limit.
- *Control pipe*: two connections are enough for one to be lost, greeted or busy
  while another is served, and for the latest and an earlier provider. Three lists
  (`MaxLists`) are two logins, the fewest that could use a provider twice; block
  login is set any number of times. Connections may be permuted (symmetry). The
  system may stop once every connection is over, so deadlock is not checked. The
  proofs cover any number of each.
- *Action groups*: with three products there are chains, cycles, and a product in the
  middle of two requirements; with one product that is asked for and up to two hard
  requirements of each there are calls three deep, and runs that move twice. `OrderRequests` vary
  the kinds of requirements (up to two of one kind for each product, or one of either) and
  the priorities, `NeedRequests` what is wanted, installed, available and asked for, with one
  dependency per product. Two of mixed kinds for each product are those of `actions_misordered`.
  The proofs cover any number of products and requirements, and any requests.
- *Cache backend*: classes are pushed one after the other and merged each for itself, so
  each has an instance of its own, with the objects its merge relates to each other:
  two products with a dependency, a license with its product. Any number of pushes,
  failures and replicas.
- *Popups*: two; a third meets the second as the second the first, since a caller of
  `showPopup` looks at the latest server and thread only. *Service connection*: two
  urls, of which the second is tried after any end of the first; a poll for the
  start and two seconds. *State file*: of two threads one may write between the change
  and the write of the other. *Timeline*: two writers, one of which is at its insert
  while the other waits.
- *Log viewer*: with room for two, the third record removes the first; one lost
  connection (`Losses`) leaves messages and promises of the first behind.
- *Self update*: each thread updates any number of times.

Parts of `parts` come to an end (an answer, a stopped daemon, a log of three
records), so deadlock is not checked there, nor for `timeline_deadlock`, where a stopped
daemon ends the behaviour.

**Fairness.** `EventDispatch`: the main thread, the thread that has fired, the
FireEventThread and the EPT keep running (weak fairness): each waits for a lock
held for one assignment, or with a timeout, or for a thread that is fair itself.
Fairness ends when a restart has been called, since the process is then replaced.
The exception is an EPT in `_set_cancelable`, which waits without timeout for a
lock others hold for longer; weak fairness does not help it while the lock is
taken, and `FiringIsAnswered` shows that the waits of the holders end. Nobody has
to fire or to cancel, the cache need not be synchronized. `UserPrompts`: the EPT
and the threads of the RPCs keep running, the clock ticks; users need not click.
`MCParts`: some thread of the popups runs as long as one can, users need not hide
any; the caller and the threads of a service connection go on, since an attempt to
connect has a timeout; the reader, the network and the page of the log viewer go
on, nobody has to write to the log. `TimelineFairSpec` (`timeline_deadlock`): a holder
of `_db_lock` goes on, and a writer that can take the lock again and again does
take it (strong fairness). The caches and the control pipe are checked for safety only:
a client that never answers holds its lock for ever.

## 4. The proofs

All for every value of the constants, checked by TLAPS.

**EventDispatchProofs.** `DispatchInvariant` proves `Spec => []DispatchInv`;
`TypeCorrect`, `Exclusive` (one non-login event at a time), `CancelInTime` and
`DispatchRefinesExclusiveEvents` follow from it. Mutual exclusion alone is not
inductive, for three reasons, each a part of `DispatchInv`:

- `LockInv`: who holds `eventLock` is told by the stages; two occurrences are
  never between `check` and `create`.
- `RunInv`: `running` and the EPT list agree with the stages, so that a canceller
  that sees neither sees an event that is over.
- `CancelInv` and `HandoverInv`: a cancelable EPT has at least begun its run, so
  that whoever cancels it and finds it not running knows that it has ended and
  not that it has yet to begin; and a canceller has told every EPT that is still
  active, since none can be created while it holds the lock.

`LoginStaysBlocked` combines exclusive processing with what the main thread knows when
it unblocks logins: it has seen an empty list, or leaves the unblocking to an EPT. What
remains is named by the property: a user login event, and what has `overruled` the
events, the restart included which the thread of an event that has ended calls while
the next one is already executing.

**UserPromptsProofs.** `PromptInv`: types; one EPT at a time asks (`OneAsks`); the counters
are what users have done, and within their limits (`HistoryInv`); a question offers
to put off only while the counter read for it is below the limit (`Shows`); that is
still the counter when the answer comes, since nobody else asks in between (`Counts`);
and a put-off EPT that goes on does not repeat (`Keeps`). From it follow `TypeCorrect`,
`DelaysAreLimited`, `AbortsAreLimited` and `PutOffsAreKept`.

**ConfigCacheProofs.** `TypeCorrect`. `FailedPushKept`: what a failed push has
read stays in the tracker (`PushInv`: a replica is begun only without an error of
the last push, and nothing sets the error while it is made). `CachedReplicaIsComplete`
(`ReplicaInv`: from the deletion of the old replica to the end of the new one,
`config_cached` is off, and a worker that leaves earlier forces the next replica
or is recorded as having lost that need) and `DirtyReplaced` (`MarkInv`: a mark
that is not forgotten is still in `_forceSync` when the worker compares).

**ProductCacheProofs.** `TypeCorrect`: whatever is taken out of the list of the plan
under its own loop, lists hold products and no copy grows beyond its product.
`CompletedWhole`: copies the state calls completed are whole or torn by `clear_cache`.
`CopyInv` adds that the product being copied is not called completed, so that the
worker harms no completed copy, and that it is whole once it is about to be
recorded. `ReadyIsComplete` needs `ReadyInv`: only copies that are not planned are evicted
(`VictimInv`), the loop drops nothing the depot has (`DropInv`), until an error a
wanted product is still to be cached or there (`ProgressInv`), and
`products_cached` is off while the worker is at it. `SizeIsLimited` speaks of a sum over all
products: sizes are read before copies are evicted, and what is counted of a copy
to be evicted may exceed what is there, but never falls below it (`Counted`). That and
the next copy exceed the limit by no more than the space that is still to be freed
(`SizeInv`), so that once it is freed there is room for all the copy lacks.

**ControlPipeProofs.** `OneTalksAtATime` (`LockInv`: who talks to a client holds its
`comLock`, the thread that greets it since the registration). `SerialLogins`: with one
thread at a time that calls `loginUser`, a provider is used once (`LoginInv`: a
provider that has reported a login is not login_capable, cannot register again, and
no call under way is executed on it). `TypeCorrect` needs what `SelectSeq` keeps of a
list (`ListInv`). `ClientsAgree`, for one thread that sets block login and one that logs
in: a greeted client knows the present value, or somebody is about to tell it
(`AgreeInv`; `Pending`, `Tells`: it is ahead in the list that the caller walks).

**CacheBackendProofs.** `BackendInv` says, object by object, what the tracker, a push and
the histories know of each other: objects have the types of their classes
(`ObjectsInv`), what a modification says of an object (`TrackedInv`), what the tracker
has forgotten is on the server (`ForgottenInv`), and what the client has made of an
object is still in the replica, unless a new one has overwritten it (`MineInv`). The middle of a push needs the rest: it has all
that was tracked when it began (`PushInv`), the classes it is through with are on
the server, and those of the present one are there or decided to be written
(`DoneInv`), so that the tracker may be cleared at its end; and nothing is decided that
overwrites what an administrator has changed on both sides (`HeldInv`).
`LocalChangesArrive` follows from it, and `ServerChangesStay`, which is about steps.
`BackendTypeCorrect` uses `LeftsAreStages`: what is left of a push is the end of the list of stages.

Of `ActionGroups`, `SorterInvariant` proves `SorterSpec => []SorterInv`, which says of
each loop what is known there. Four theorems follow.

- `SorterTypeCorrect`: the types; that a run puts actions at places that exist needs that the
  product whose requirement is looked at has an action in the group.
- `RequiredAreActed`, for dependencies in circles, too: each call of the search has obeyed
  the dependencies before its next one (`GoesOn`, `CallsInv`), each action found is searched, under
  way or to come (`FoundInv`), and each product found gets into a group (`GroupInv`).
  The search keeps off what any branch has passed; that is enough since whatever
  is on the path has an action, and never only "none".
- `OneKindIsOrdered`. Sets of linked products do not overlap, and a requirement lies
  within one of them (`LinkInv`), so that it is met in a group or not at all. In a group (`SortInv`)
  each run settles one more product. There is a set of `runs - 1` products at least to which
  all that require one of it belong (`Closed`), and whose own requirements are met (`RunInv`). None
  of these moves any more, since only an unmet requirement moves what it requires,
  and moves of one kind only ever take what is required further past the product that
  requires it (`Passes`). As there is no circle, some product outside is required by settled
  ones only: it does not move either, and once the run has been through its
  requirements (`Through`) it belongs to the set. A run that ends without a change
  (`copy = actions`) has moved nothing, although moves might have undone each other:
  of what was moved some product has passed one that was not and stays past it (`MovedInv`).

**PartsProofs** has an invariant for each of six modules, and a `...TypeCorrect` for each.

- `ServiceConnection`: `ConnectionsLeft`. When `connectConfigService` has returned, it has an
  open connection if and only if it says so, unless `stop()` has closed it, and others are open only if their
  threads were given up by the caller or the user, had not begun in time, or were left
  alone by `stop()`, and have connected nevertheless
  (`ConnectionInv`: what the flags say of a thread, `FlagsInv`; what the caller
  knows of the last one, `CallerInv`).
- `StateFile`: `SetsAreWritten` (`StateInv`: writers hold the lock, `OneWriter`; what the holder
  has is the dict, or somebody has changed it since and will write again, `Pending`).
- `Timeline`: `EventsEnd`. An event without an end has a writer that had passed the test
  of `_stopped` before `stop` set it (`TimelineInv`).
- `SelfUpdate`: `UpdatesKeepInstallation`. As long as updates have not raced, one thread at
  most is at an update (`OneUpdater`), and at each of its stages it is known which place
  holds a whole installation (`AtStage`); a crash ends the stage and leaves the places.
- `Popups`: `ServersOfReplacedStop` and `EndIsDecidedByLast`. The holder of
  `_popupNotificationLock` is the only one to replace the server, which is waited for until
  it can hear that it is to stop (`CallersInv`); how far it is with hiding the popup before
  (`HidingInv`); and a closing thread that still waits is that of the popup shown, or
  has been told to stop (`ClosersInv`).
- `LogViewer`: `RecordsAreShown` and `FilterHides`. The lines shown, the messages not yet
  unpacked, those under way and the buffer of the reader form one chain of
  consecutive records, which ends with what the reader has read (`Chain`), and each of them
  has all its text or the log ended within it (`Told`); together `FlowInv`, which holds
  while no promise of an earlier connection is ahead (`Fresh`). It needs to know the shape
  of the log (`LogInv`), that the lines the reader holds back are the last it has
  read (`ReaderInv`), that nothing is under way without a connection (`SocketInv`), and
  that ids on the page are consecutive, hence distinct, so that a line found by its id
  is the right one (`PageInv`).
- `MCParts`: `PartsTypeCorrect`. The parts side by side do not disturb each other: each behaves as
  its own specification says (`PartsSeparate`), so that the theorems about the
  parts are about `MCParts` as well.

**Induction.** Theorems that take an operator as a parameter cannot be used, so induction
over data is done with least elements: the set of counterexamples, if it is not empty,
has a least one. From it come facts about a function that is applied n times and
about sums (a sum of a function changed at one place; a sum is no greater than one
of greater values). What appending, removing and inserting make of a sequence is stated
here once for all modules.

Assumptions: `ConfigAssumption`, `NobodyAssumption` and `OutsideAssumption`
(`EventDispatch`), that is, configs are records of the fields read, no occurrence is called
`Nobody`, and `Outside` has what the module knows;
`ProductAssumption`, finitely many products, the action processor among them, and sizes
are numbers; `PromptAssumption`, limits and hours are numbers; `BackendAssumption`,
that products, settings and licenses are different things, `none` is a request, and no value
stands for an object that is absent; `PipeAssumption`, `StateAssumption`,
`TimelineAssumption`, `PopupsAssumption` and `UpdateAssumption`, that threads, connections,
popups and places differ from the names for "none of them"; `ConnectionAssumption`, at
least one url, a second and a poll; `ViewerAssumption`, at least one record and room
for one; `SorterAssumption`, finitely many product ids, which are numbers for their order,
and requests are records of what the sorter reads; `PartsAssumption`, that the three products
of `MCParts` are products. `ConfigCache` needs none. `ClientsAgree` and `SerialLogins` say in their
statements (`OneSetCaller`, `OneLoginCaller`) how many threads they speak of. TLC evaluates
the assumptions in the runs.

**Model-checked only.** Liveness (`FiringIsAnswered`, `LoginEventuallyUnblocked`, `MarkerIsHonoured`,
`ShutdownComes`, `TimedPopupEnds`, `NobodyGoesOn`, `EveryRecordIsShown`), which the prover does
not reach. Every invariant and every action property that a run checks is proved. That the loops
of the sorter end is not stated.

## 5. Where the code departs from what it says

*Shown by a run* (`PROJECT.json`, `findings`):

- `dispatch_late_cancel`: a cancellation accepted between `should_cancel()` and
  `_set_cancelable(False)` neither fails nor keeps the actions from running.
- `pipe_second_login`: of two threads that call `loginUser`, the second has tested
  `login_capable` before it waits for `comLock`, and logs in through a provider that
  has just done a login.
- `actions_misordered`: with one requirement "before" and one "after", the sorted group
  does not meet them, though another order does.
- `second_change`: a setting changed by the client twice since the replica was made
  arrives on the server once; the second push takes the first for an
  administrator's change.
- `timeline_deadlock`: `addEvent` recreates a damaged database while it holds the lock
  that this takes. Only `sqlite3.DatabaseError` leads there; errors that the library
  wraps do not.

*Named as exceptions in properties that hold:*

- A user login event beside another event sets block login to its own value and
  unblocks at its end; the RPC `setBlockLogin` sets it to any value; and a restart
  unblocks at once, also the one that the thread of an ended event calls on a marker
  while the next event executes (`LoginBlockedWhileExecuting`, `overruled`).
- `getCacheService` may raise more than the `RuntimeError` that is caught when an event
  takes over: if the mark is the first use of the config cache and its service cannot be
  created (`CacheService.py` 528-543), the FireEventThread ends with `eventLock` locked.
  No event starts any more, and an EPT that is running waits for the lock for ever,
  without a timeout (`FiringIsAnswered`, `LoginEventuallyUnblocked`, `GivenUp`).
- A negative repetition time, configured or from selecting the present hour, makes
  a shutdown that the user has put off, or that could not be announced, take place
  at once (`PutOffIsKept`).
- Notifiers that fail in every round keep the question from ever being settled
  (`ShutdownComes`).
- The need of a new replica is lost by a restart of the daemon and by
  `cacheService_syncConfig` without `force` (`CachedIsComplete`, `DirtyIsReplaced`).
- `clear_cache` beside the worker, or failing half way, leaves a state that calls
  deleted copies completed (`CompletedIsWhole`, `ReadyMeansCompleted`).
- Products the depot lacks do not keep `products_cached` from being set
  (`ReadyMeansCompleted`).
- A connection that is lost while the list is walked is removed from that list: the
  next client is passed over and not told (`AgreesWhenQuiet` speaks of the time while
  no connection has been lost). Of several threads that set block login, the last to
  send need not be the last to assign.
- A modification made while a push is under way is cleared from the tracker with it,
  and of settings a second one is dropped (`LocalChangeArrives`, histories `late`,
  `changed`, `taken`, `again`).
- A new replica clears the tracker and overwrites what the client has changed, whether it
  had arrived on the server or not (`LocalChangeArrives`, `overwritten`).
- A closing thread that has woken hides the popup that has replaced its own
  (`LastDecidesEnd`, `woken`), and a server whose start took too long is not told to stop
  when it is replaced (`ReplacedIsStopped`, `tooLate`).
- A thread of a service connection that begins later than it was waited for goes on
  by itself, and so does one whose caller has returned because of `stop()`, until the
  process ends (`NobodyGoesOn`, `OneConnection`, `Abandoned`).
- A value whose write fails is in memory only until the next `set`
  (`SetIsWritten`, `failed`).
- A writer that has passed the test before `stop` adds its event after it
  (`StopEndsEvents`, `lateWriters`).
- Promises of the page may be resolved out of order, or after the connection they
  belong to (`ShownIsTheLog`, `EveryRecordIsShown`, `mixed`); a record is sent when the log
  pauses, and a continuation that comes later is dropped (`parted`).
- Of two self updates at once one may delete what the other has installed, the last
  installation (`InstallationKept`, `raced`).

*Modelled as they are, without a property:*

- An event that takes over where there is no cache service leaves the cache unmarked.
- A panic event is let through "always" and then dropped when the running event
  cannot be cancelled.
- An EPT outside its working window returns without unblocking a login whose
  unblocking the main thread has left to it.
- A generator that waits more than 5 s for `eventLock` ends its thread for good.
- A cancellation is accepted after the last look at `should_cancel` and before the
  machine is shut down (`EventProcessing.py` 1711).
- `selectChoice` may overtake `setSelectedIndexes`, and the choice selected before the
  click is taken; after a full hour a click under way selects the hour of the new
  numbering.
- A mark of the replica set during a sync is overwritten at its end.
- In the sorter, a requirement "after" a product without an action of its own takes the
  last action of the group to the place of another (`RPCProductDependencyMixin.py` 109).
- Without action requests on the server, withdrawn ones stay in the replica
  (`CacheService.py` 791).
- A new replica sets the request of a required product to the action of the product
  that requires it instead of the required one (`CacheBackend.py` 478).
- The product cache worker ends with the first connection that fails, and drops a
  request that arrives between its last two steps (`CacheService.py` 966, 968).
- Two products missing on the depot may keep all others from being cached: the list
  of the plan is walked by index while it is shortened.
- What has to be freed for a product counts the part of it that is there twice, so
  that a product that would fit may be refused (`CacheService.py` 1432).
- `loginUser` is meant for the latest provider only (`ControlPipe.py` 274), but the loop
  walks the list it has just replaced; and the other connections, dropped from
  `_clients`, are not told any more when logins are unblocked.
- Requests of the old pipe protocol are answered by an error, since
  `process_rpcs` has become a generator (`ControlPipe.py` 135).
- A popup that was closed leaves its server behind as the latest one. To stop a server
  takes any time, or is waited for in vain.
- A connection that is made after the caller has given up its thread stays open.
- The state file is emptied before it is written: a crash in between loses all of
  it, counters included.
- The page asks for the last records by a parameter the server does not see, and is sent
  all of them; line ids begin anew with each connection.
- A crash between two renames of a self update, or between the removal of the link and
  the new one, leaves a daemon that does not start; and the next update is refused,
  since it looks for the installation first.

## 6. What is left out

Texts, logging and progress; bandwidth; impersonation and processes of the operating
system. Of modelled components: notification delays and preconditions of events,
the daemon's shutdown and what a restart does after it was called (`EventDispatch`); login events that ask beside another event, so that two of them
write one counter, and message subjects (`UserPrompts`); a change of depot or host key
(`ConfigCache`); audit data, the system UUID and the filter on products
(`CacheBackend`); versions of products and the heartbeat of the transfer slot
(`ProductCache`); versions (`ActionGroups`); messages and ports (`Popups`); disconnecting
and the permanent connection (`ServiceConnection`); reading and ageing of events
(`Timeline`); scrolling, collapsing and rotation of the log (`LogViewer`); archives,
signatures and the cancelling of events before an update (`SelfUpdate`).

Event dispatch and the cache workers are not composed. A worker's `SyncCompleted` event is
refused, by an exception, whenever an EPT is in the list, and the worker then
discards the replica it has completed (`CacheService.py` 847-869); a request that
is still pending is not seen as work (209, 642-660). `ConfigCache` leaves the outcome of
both open, `EventDispatch` that of a sync.

Configuration and event configs are constants of the models. Desktop and platform
support are system calls. Web routing, sessions and the terminal are I/O around
library code. Of the scripts of the web pages, `log_viewer.js` is this project's own
and modelled; the others (`xterm`, `timeline`, `msgpack.js`) are libraries from elsewhere.
`PROJECT.json` lists every component with what is missing.

## 7. Plan

Done: the dispatch of events with its refinement and proofs, the prompts, both caches
with the backend and the sorter, the control pipe, popups, connecting, the state file,
the timeline, the log viewer and self updates; and proofs of all safety properties.
What could follow:

1. A composition of dispatch and caches, in which an event that takes over marks the
   replica faulty and a worker fires `SyncCompleted` as any other generator does.
2. Event configs: inheritance and the choice of the most specific precondition as pure
   operators; notification delays.
3. The daemon's shutdown with its order of stops, and the permanent connection.
4. A requirement of mixed kinds: what the sorter does meet of them, and when its runs
   are not enough (section 5).
