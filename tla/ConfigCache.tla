---------------------------- MODULE ConfigCache ----------------------------
(***************************************************************************)
(* The local replica of the configuration (ConfigCacheService).            *)
(*                                                                         *)
(* An event with useCachedConfig works on the replica: it takes the action *)
(* requests from it and tracks what it changes.  A worker thread polls two *)
(* request flags.  It pushes the tracked modifications to the server, and  *)
(* it compares the action requests of server and replica and makes a new   *)
(* replica if they differ.  What the replica may be used for is kept in    *)
(* one persistent flag, config_cached; the flag that forces a new replica, *)
(* and the error of a failed push, live in memory only.                    *)
(*                                                                         *)
(* Abstracted: one kind of action request per product, other config data   *)
(* as one flag that says whether the replica has all of it.  Events are    *)
(* processed one at a time (EventDispatch); the control server's calls may *)
(* come at any moment.  Licenses and a change of the depot are left out.   *)
(***************************************************************************)
CONSTANT Products

VARIABLES
  server,    \* products with an action request on the server
  changed,   \* products with other versions on the server's depot than in the replica
  local,     \* products with an action request in the replica (work backend)
  complete,  \* the replica holds everything that belongs to a replica
  mods,      \* modifications in the tracker: requests done locally
  configCached, \* state config_cached
  forceSync,    \* _forceSync
  toRequested,  \* _syncConfigToServerRequested
  fromRequested, \* _syncConfigFromServerRequested
  toError,   \* _syncConfigToServerError
  job,       \* what the worker is at; "idle" if it is not working
  read,      \* modifications _syncConfigToServer has read
  event,     \* the event that is processed
  marked,    \* history: the replica was marked faulty, and no new one begun since
  forgotten  \* history: the need of a new replica was lost, and none begun since

requests == <<toRequested, fromRequested, toError>>
replica == <<local, complete, changed>>
history == <<marked, forgotten>>
vars == <<server, replica, mods, configCached, forceSync, requests, job, read, event, history>>

Jobs == {"idle", "to", "push", "clear", "from", "compare", "keep", "replicate",
         "delete", "copy", "rest", "completed", "fire"}
EventKinds == {"none", "online", "cached", "sync", "syncing"}

Init ==
  /\ server \in SUBSET Products
  /\ changed = {}
  /\ local = {}
  /\ complete = FALSE
  /\ mods = {}
  /\ configCached = FALSE
  /\ forceSync = FALSE
  /\ toRequested = FALSE
  /\ fromRequested = FALSE
  /\ toError = FALSE
  /\ job = "idle"
  /\ read = {}
  /\ event = "none"
  /\ marked = FALSE
  /\ forgotten = FALSE

-----------------------------------------------------------------------------
(* Calls of other threads                                                  *)

setObsolete == configCached' = FALSE /\ UNCHANGED <<forceSync, marked>>

setFaulty == configCached' = FALSE /\ forceSync' = TRUE /\ marked' = TRUE

\* cancelOthersAndWaitUntilReady has ended an event, the host key has changed...
MarkFaulty ==
  /\ setFaulty
  /\ UNCHANGED <<server, replica, mods, requests, job, read, event, forgotten>>

\* The control server's cacheService_syncConfig, while the worker is idle.
SyncConfig(force) ==
  /\ job = "idle"
  /\ forceSync' = force
  /\ forgotten' = (forgotten \/ (forceSync /\ ~force))
  /\ toRequested' = TRUE
  /\ fromRequested' = TRUE
  /\ UNCHANGED <<server, replica, mods, configCached, toError, job, read, event,
                 marked>>

\* cacheService_deleteCache
DeleteCache ==
  /\ setObsolete
  /\ UNCHANGED <<server, replica, mods, requests, job, read, event, forgotten>>

\* Administrators request actions, withdraw them and replace packages.
RequestAction(p) ==
  /\ p \notin server
  /\ server' = server \cup {p}
  /\ UNCHANGED <<replica, mods, configCached, forceSync, requests, job, read, event, history>>

WithdrawAction(p) ==
  /\ p \in server
  /\ server' = server \ {p}
  /\ UNCHANGED <<replica, mods, configCached, forceSync, requests, job, read, event, history>>

ReplacePackage(p) ==
  /\ p \notin changed
  /\ changed' = changed \cup {p}
  /\ UNCHANGED <<server, local, complete, mods, configCached, forceSync, requests,
                 job, read, event, history>>

-----------------------------------------------------------------------------
(* Events                                                                  *)

\* The sync event: not if the worker is busy.
BeginSync ==
  /\ event = "none"
  /\ job = "idle"
  /\ toRequested' = TRUE
  /\ event' = "sync"
  /\ UNCHANGED <<server, replica, mods, configCached, forceSync, fromRequested,
                 toError, job, read, history>>

\* It waits for the push (the worker has picked it up within 3 seconds).
SyncedTo ==
  /\ event = "sync"
  /\ ~toRequested
  /\ job = "idle"
  /\ fromRequested' = TRUE
  /\ event' = "syncing"
  /\ UNCHANGED <<server, replica, mods, configCached, forceSync, toRequested,
                 toError, job, read, history>>

\* It waits for the new replica only if a shutdown is requested.
EndSync ==
  /\ event = "syncing"
  /\ event' = "none"
  /\ UNCHANGED <<server, replica, mods, configCached, forceSync, requests, job, read, history>>

\* An event that bypasses the replica marks it obsolete before it runs actions.
BeginOnline ==
  /\ event = "none"
  /\ event' = "online"
  /\ setObsolete
  /\ UNCHANGED <<server, replica, mods, requests, job, read, forgotten>>

OnlineAction(p) ==
  /\ event = "online"
  /\ p \in server
  /\ server' = server \ {p}
  /\ UNCHANGED <<replica, mods, configCached, forceSync, requests, job, read, event, history>>

EndOnline ==
  /\ event = "online"
  /\ event' = "none"
  /\ UNCHANGED <<server, replica, mods, configCached, forceSync, requests, job, read, history>>

configCacheCompleted == job = "idle" /\ configCached

BeginCached ==
  /\ event = "none"
  /\ configCacheCompleted
  /\ event' = "cached"
  /\ UNCHANGED <<server, replica, mods, configCached, forceSync, requests, job, read, history>>

\* productCacheCompleted misses a depot or a product in the replica.
CachedFaulty ==
  /\ event = "cached"
  /\ ~complete
  /\ setFaulty
  /\ event' = "none"
  /\ UNCHANGED <<server, replica, mods, requests, job, read, forgotten>>

CachedAction(p) ==
  /\ event = "cached"
  /\ p \in local
  /\ local' = local \ {p}
  /\ mods' = mods \cup {p}
  /\ UNCHANGED <<server, complete, changed, configCached, forceSync, requests, job,
                 read, event, marked, forgotten>>

\* Without actions left the replica is marked obsolete.
EndCached ==
  /\ event = "cached"
  /\ event' = "none"
  /\ IF local = {} THEN setObsolete ELSE UNCHANGED <<configCached, forceSync, marked>>
  /\ UNCHANGED <<server, replica, mods, requests, job, read, forgotten>>

-----------------------------------------------------------------------------
(* The worker: ConfigCacheService.run, _syncConfigToServer                 *)

Step(from, to) == job = from /\ job' = to

PickTo ==
  /\ Step("idle", "to")
  /\ toRequested
  /\ toRequested' = FALSE
  /\ UNCHANGED <<server, replica, mods, configCached, forceSync, fromRequested,
                 toError, read, event, history>>

ReadModifications ==
  /\ Step("to", IF mods = {} THEN "idle" ELSE "push")
  /\ read' = mods
  /\ toError' = (toError /\ mods # {})
  /\ UNCHANGED <<server, replica, mods, configCached, forceSync, toRequested,
                 fromRequested, event, history>>

\* A request is not updated if the product has changed on the server.
Push ==
  /\ Step("push", "clear")
  /\ server' = server \ (read \ changed)
  /\ UNCHANGED <<replica, mods, configCached, forceSync, requests, read, event, marked,
                 forgotten>>

\* No connection, or an error of the server.
PushFails ==
  /\ Step("push", "idle")
  /\ toError' = TRUE
  /\ UNCHANGED <<server, replica, mods, configCached, forceSync, toRequested,
                 fromRequested, read, event, history>>

ClearModifications ==
  /\ Step("clear", "idle")
  /\ mods' = {}
  /\ toError' = FALSE
  /\ UNCHANGED <<server, replica, configCached, forceSync, toRequested,
                 fromRequested, read, event, history>>

-----------------------------------------------------------------------------
(* The worker: _syncConfigFromServer                                       *)

\* A mutant: the error of the push is not looked at.
PickFromUnchecked ==
  /\ Step("idle", "from")
  /\ ~toRequested /\ fromRequested
  /\ fromRequested' = FALSE
  /\ setObsolete
  /\ UNCHANGED <<server, replica, mods, toRequested, toError, read, event, forgotten>>

PickFrom ==
  /\ Step("idle", IF toError THEN "idle" ELSE "from")
  /\ ~toRequested /\ fromRequested
  /\ fromRequested' = FALSE
  /\ IF toError THEN UNCHANGED <<configCached, forceSync, marked>> ELSE setObsolete
  /\ UNCHANGED <<server, replica, mods, toRequested, toError, read, event, forgotten>>

Connect ==
  /\ Step("from", "compare")
  /\ UNCHANGED <<server, replica, mods, configCached, forceSync, requests, read, event, history>>

\* An exception before the replica is touched.
FromFails ==
  /\ job \in {"from", "compare"}
  /\ job' = "idle"
  /\ UNCHANGED <<server, replica, mods, configCached, forceSync, requests, read, event, history>>

\* A mutant: a forced sync is not looked at.
needSyncUnforced == server # {} /\ server # local

needSync == forceSync \/ (server # {} /\ server # local)

Compare ==
  /\ Step("compare", IF needSync THEN "replicate" ELSE "keep")
  /\ UNCHANGED <<server, replica, mods, configCached, forceSync, requests, read, event, history>>

Keep ==
  /\ Step("keep", "idle")
  /\ configCached' = TRUE
  /\ UNCHANGED <<server, replica, mods, forceSync, requests, read, event, history>>

\* The mark is taken back and the tracker is cleared.
Replicate ==
  /\ Step("replicate", "delete")
  /\ forceSync' = FALSE
  /\ marked' = FALSE
  /\ forgotten' = FALSE
  /\ mods' = {}
  /\ UNCHANGED <<server, replica, configCached, requests, read, event>>

\* The work backend is deleted and created anew.
DeleteBase ==
  /\ Step("delete", "copy")
  /\ local' = {}
  /\ complete' = FALSE
  /\ UNCHANGED <<server, changed, mods, configCached, forceSync, requests, read,
                 event, history>>

\* BackendReplicator; then the snapshot, the password and the audit files.
Copy ==
  /\ Step("copy", "rest")
  /\ local' = server
  /\ changed' = {}
  /\ UNCHANGED <<server, complete, mods, configCached, forceSync, requests, read, event, history>>

CopyRest ==
  /\ Step("rest", "completed")
  /\ complete' = TRUE
  /\ UNCHANGED <<server, local, changed, mods, configCached, forceSync, requests,
                 read, event, history>>

Completed ==
  /\ Step("completed", "fire")
  /\ configCached' = TRUE
  /\ UNCHANGED <<server, replica, mods, forceSync, requests, read, event, history>>

\* The sync completed events are fired.
Fire ==
  /\ Step("fire", "idle")
  /\ UNCHANGED <<server, replica, mods, configCached, forceSync, requests, read, event, history>>

\* A mutant: an error while replicating does not force the next replica.
ReplicateFailsUnforced ==
  /\ job \in {"delete", "copy", "rest", "completed", "fire"}
  /\ job' = "idle"
  /\ setObsolete
  /\ UNCHANGED <<server, replica, mods, requests, read, event, forgotten>>

\* An error of the server, or of an event that cannot be fired.
ReplicateFails ==
  /\ job \in {"delete", "copy", "rest", "completed", "fire"}
  /\ job' = "idle"
  /\ setFaulty
  /\ UNCHANGED <<server, replica, mods, requests, read, event, forgotten>>

-----------------------------------------------------------------------------

\* Only the state file and the backends survive.
Restart ==
  /\ forceSync' = FALSE
  /\ forgotten' = (forgotten \/ forceSync \/ job \in {"delete", "copy", "rest"})
  /\ toRequested' = FALSE
  /\ fromRequested' = FALSE
  /\ toError' = FALSE
  /\ job' = "idle"
  /\ read' = {}
  /\ event' = "none"
  /\ UNCHANGED <<server, replica, mods, configCached, marked>>

Worker ==
  \/ PickTo \/ ReadModifications \/ Push \/ PushFails \/ ClearModifications
  \/ PickFrom \/ Connect \/ FromFails \/ Compare \/ Keep \/ Replicate
  \/ DeleteBase \/ Copy \/ CopyRest \/ Completed \/ Fire \/ ReplicateFails

EventProcessing ==
  \/ BeginSync \/ SyncedTo \/ EndSync \/ BeginOnline \/ EndOnline
  \/ BeginCached \/ CachedFaulty \/ EndCached
  \/ \E p \in Products : OnlineAction(p) \/ CachedAction(p)

Next ==
  \/ Worker \/ EventProcessing \/ MarkFaulty \/ DeleteCache \/ Restart
  \/ \E force \in BOOLEAN : SyncConfig(force)
  \/ \E p \in Products : RequestAction(p) \/ WithdrawAction(p) \/ ReplacePackage(p)

Spec == Init /\ [][Next]_vars

-----------------------------------------------------------------------------

TypeOK ==
  /\ {server, changed, local, mods, read} \subseteq SUBSET Products
  /\ {complete, configCached, forceSync, toRequested, fromRequested, toError, marked,
      forgotten} \subseteq BOOLEAN
  /\ job \in Jobs
  /\ event \in EventKinds

\* A replica that offers actions to events was made to its end: an error while
\* it is made, at any point, leaves a mark that only a new replica removes.  It
\* is lost by a restart and by cacheService_syncConfig without force.  (A replica
\* without actions may never have been made: nothing is done with it.)
CachedIsComplete == configCached /\ local # {} => complete \/ forgotten

\* Modifications that could not be pushed stay in the tracker, whatever syncs,
\* marks and events follow, until a push succeeds.
FailedPushIsKept == toError => read \subseteq mods

\* A replica that was marked faulty is not found to need no sync: the mark
\* lasts until a new replica is begun, or is lost as above.
DirtyIsReplaced == [][job = "compare" /\ job' = "keep" => ~marked \/ forgotten]_vars
=============================================================================
