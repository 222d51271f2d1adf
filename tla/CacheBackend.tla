---------------------------- MODULE CacheBackend ----------------------------
(***************************************************************************)
(* What the client and administrators change while both work on their own: *)
(* ClientCacheBackend pushes tracked modifications to the server, class    *)
(* by class, and makes new replicas (nonfree/CacheBackend.py).  When it    *)
(* does so is the matter of ConfigCache.                                   *)
(*                                                                         *)
(* Three classes of objects stand for all: a ProductOnClient per product,  *)
(* settings (ProductPropertyState, ConfigState) and licenses               *)
(* (LicenseOnClient).  Audit data and the system UUID, which the client    *)
(* always overwrites, are left out, and so is a filter on products.        *)
(***************************************************************************)
EXTENDS Naturals, Sequences

CONSTANTS
  Products, Settings, Licenses,
  LicenseOf,     \* the product a license is needed for
  Dependencies,  \* sequence of [product, action, required, requiredAction]
  Requests,      \* of actions, "none" among them
  Values,        \* of settings
  Absent         \* no object

Idents == Products \cup Settings \cup Licenses

ASSUME BackendAssumption ==
  /\ "none" \in Requests
  /\ Absent \notin Values \cup {"held"} \cup [request: Requests, done: BOOLEAN]
  /\ Dependencies \in Seq([product: Products, action: Requests, required: Products,
                            requiredAction: Requests])
  /\ Products \cap Settings = {} /\ Products \cap Licenses = {}
  /\ Settings \cap Licenses = {}
  /\ LicenseOf \in [Licenses -> Products]

VARIABLES
  master,     \* objects on the server
  work,       \* objects of the replica
  snapshot,   \* objects of the replica as they were when it was made
  replaced,   \* products whose versions on the depot have changed since then
  tracked,    \* the last modification of each object, in the tracker
  push,       \* the push under way, see NoPush
  held,       \* history: settings and products for which an administrator's
              \* change since the replica was made must stand
  changed,    \* history: settings an administrator has changed since then
  taken,      \* history: objects a push has taken up since then
  again,      \* history: those that were modified once more after that
  late,       \* history: objects modified while a push was under way
  used,       \* history: licenses used since the replica was made
  mine,       \* history: each object as the client has left it, or as it has
              \* last had it from the server with nothing of its own left
  overwritten \* history: objects whose last change by the client was not on
              \* the server when a replica was made, which has overwritten it

serverData == <<master, replaced>>
clientHistory == <<mine, overwritten>>
backendHistory == <<held, changed, taken, again, late, used, clientHistory>>
backendVars == <<serverData, work, snapshot, tracked, push, backendHistory>>

\* left: classes still to be pushed, in this order, and what is done then;
\* modified: modifications with their objects; deletes, updates: of a class.
NoPush == [left |-> <<>>, modified |-> <<>>, deletes |-> {}, updates |-> <<>>]
Stages == <<"products", "licenses", "settings", "clear">>
Class(stage) ==
  CASE stage = "products" -> Products [] stage = "licenses" -> Licenses
    [] stage = "settings" -> Settings [] OTHER -> {}

Idle == push.left = <<>>

BackendInit ==
  /\ \E orders \in [Products -> Requests], values \in [Settings -> Values \cup {Absent}]:
       master = [i \in Idents |->
                   IF i \in Products THEN [request |-> orders[i], done |-> FALSE]
                   ELSE IF i \in Settings THEN values[i] ELSE Absent]
  /\ work = master
  /\ snapshot = master
  /\ replaced = {}
  /\ tracked = [i \in Idents |-> "none"]
  /\ push = NoPush
  /\ held = {} /\ changed = {} /\ taken = {} /\ again = {} /\ late = {}
  /\ used = {}
  /\ mine = master /\ overwritten = {}

-----------------------------------------------------------------------------
(* The server.                                                             *)

\* Whether the push has read the object from the server, to write it now.
Decided(i) == i \in push.deletes \cup DOMAIN push.updates

\* An administrator sets, changes or deletes a setting.
ChangeSetting(s, v) ==
  /\ v # master[s]
  /\ master' = [master EXCEPT ![s] = v]
  /\ changed' = changed \cup {s}
  /\ held' = IF snapshot[s] # Absent /\ v \notin {Absent, snapshot[s]} /\ ~Decided(s)
             THEN held \cup {s} ELSE held \ {s}
  /\ UNCHANGED <<replaced, work, snapshot, tracked, push, taken, again, late, used,
                 clientHistory>>

\* Requests an action.
Order(p, r) ==
  /\ r # master[p].request
  /\ master' = [master EXCEPT ![p].request = r]
  /\ held' = IF p \in replaced /\ ~Decided(p) THEN held \cup {p} ELSE held \ {p}
  /\ UNCHANGED <<replaced, work, snapshot, tracked, push, changed, taken, again, late,
                 used, clientHistory>>

\* Installs another version of a package on the depot.
ReplaceVersion(p) ==
  /\ p \notin replaced
  /\ replaced' = replaced \cup {p}
  /\ UNCHANGED <<master, work, snapshot, tracked, push, backendHistory>>

-----------------------------------------------------------------------------
(* The client, through ModificationTrackingBackend.                        *)

\* An object as the client has it; a license it was lent is wanted if it is used.
Wanted(i) ==
  IF i \in Licenses THEN IF i \in used THEN "held" ELSE Absent ELSE work[i]

Track(i, command) ==
  /\ tracked' = [tracked EXCEPT ![i] = command]
  /\ again' = again \cup ({i} \cap taken)
  /\ late' = IF Idle THEN late ELSE late \cup {i}
  /\ mine' = [mine EXCEPT ![i] = Wanted(i)']
  /\ overwritten' = overwritten \ {i}
  /\ UNCHANGED <<serverData, snapshot, push, held, changed, taken>>

\* The action processor carries out a request.
CarryOut(p) ==
  /\ work[p].request # "none"
  /\ work' = [work EXCEPT ![p] = [request |-> "none", done |-> TRUE]]
  /\ UNCHANGED used
  /\ Track(p, "update")

SetLocally(s, v) ==
  /\ v # work[s]
  /\ work' = [work EXCEPT ![s] = v]
  /\ UNCHANGED used
  /\ Track(s, IF v = Absent THEN "delete"
              ELSE IF work[s] = Absent THEN "insert" ELSE "update")

\* licenseOnClient_getObjects recreates what it returns.
UseLicense(l) ==
  /\ work[l] # Absent
  /\ tracked[l] # "insert"
  /\ used' = used \cup {l}
  /\ UNCHANGED work
  /\ Track(l, "insert")

-----------------------------------------------------------------------------
(* _updateMasterFromWorkBackend                                            *)

\* The object of a modification.
Object(i) == IF tracked[i] = "delete" THEN snapshot[i] ELSE work[i]

BeginPush ==
  /\ Idle
  /\ \E i \in Idents: tracked[i] # "none"
  /\ LET modified == {i \in Idents: tracked[i] # "none" /\ Object(i) # Absent}
     IN  push' = [NoPush EXCEPT !.left = Stages,
                    !.modified = [i \in modified |->
                       [command |-> tracked[i], object |-> Object(i)]]]
  /\ taken' = taken \cup {i \in Idents: tracked[i] # "none"}
  /\ UNCHANGED <<serverData, work, snapshot, tracked, held, changed, again, late, used,
                 clientHistory>>

\* A mutant: without a look at the server's values.
MergeBlind(i, object) ==
  IF master[i] # Absent /\ i \in replaced
  THEN {[object EXCEPT !.request = "unchanged"]}
  ELSE {object}

\* A mutant: values are compared with those of the replica as it is now.
MergeWithWork(i, object) ==
  IF master[i] = Absent THEN {object}
  ELSE IF i \in Settings THEN IF master[i] = work[i] THEN {object} ELSE {}
  ELSE IF i \in replaced THEN {[object EXCEPT !.request = "unchanged"]}
  ELSE {object}

\* What is written for an object: none if a setting was changed on the server;
\* no request if the product has other versions there than in the snapshot.
Merge(i, object) ==
  IF master[i] = Absent \/ snapshot[i] = Absent THEN {object}
  ELSE IF i \in Settings THEN IF master[i] = snapshot[i] THEN {object} ELSE {}
  ELSE IF i \in replaced THEN {[object EXCEPT !.request = "unchanged"]}
  ELSE {object}

\* _syncModifiedObjectsWithMaster: reads the server's objects of a class.
ReadMaster ==
  /\ ~Idle /\ Head(push.left) # "clear"
  /\ push.deletes = {} /\ push.updates = <<>>
  /\ LET modified == DOMAIN push.modified \cap Class(Head(push.left))
         deletes == {i \in modified: /\ push.modified[i].command = "delete"
                                     /\ snapshot[i] # Absent
                                     /\ master[i] = snapshot[i]}
         updates == {i \in modified: /\ push.modified[i].command # "delete"
                                     /\ Merge(i, push.modified[i].object) # {}}
         next == IF deletes = {} /\ updates = {} THEN Tail(push.left) ELSE push.left
     IN  push' = [push EXCEPT !.left = next, !.deletes = deletes,
                    !.updates = [i \in updates |-> CHOOSE o \in
                                   Merge(i, push.modified[i].object): TRUE]]
  /\ UNCHANGED <<serverData, work, snapshot, tracked, backendHistory>>

DeleteObjects ==
  /\ push.deletes # {}
  /\ master' = [i \in Idents |-> IF i \in push.deletes THEN Absent ELSE master[i]]
  /\ push' = [push EXCEPT !.deletes = {},
                !.left = IF push.updates = <<>> THEN Tail(@) ELSE @]
  /\ UNCHANGED <<replaced, work, snapshot, tracked, backendHistory>>

\* An attribute that is None is not updated.
Updated(i) ==
  IF i \in Products /\ push.updates[i].request = "unchanged"
  THEN [push.updates[i] EXCEPT !.request = master[i].request]
  ELSE push.updates[i]

UpdateObjects ==
  /\ push.deletes = {} /\ push.updates # <<>>
  /\ master' = [i \in Idents |->
                  IF i \in DOMAIN push.updates THEN Updated(i) ELSE master[i]]
  /\ push' = [push EXCEPT !.updates = <<>>, !.left = Tail(@)]
  /\ UNCHANGED <<replaced, work, snapshot, tracked, backendHistory>>

\* _syncConfigToServer clears the tracker when all classes are done...
ClearTracker ==
  /\ ~Idle /\ Head(push.left) = "clear"
  /\ push' = NoPush
  /\ tracked' = [i \in Idents |-> "none"]
  /\ UNCHANGED <<serverData, work, snapshot, backendHistory>>

\* ... and not when one has failed: all are tried again by the next push.
PushFails ==
  /\ ~Idle
  /\ push' = NoPush
  /\ UNCHANGED <<serverData, work, snapshot, tracked, backendHistory>>

-----------------------------------------------------------------------------
(* _replicateMasterToWorkBackend                                           *)

\* A dependency asks for an action of a product: what is set is the action of the
\* dependent product (line 478), if that had a request before.
Require(requests, d) ==
  IF /\ master[d.product].request # "none"
     /\ requests[d.product] = d.action
     /\ requests[d.required] # d.requiredAction
  THEN [requests EXCEPT ![d.required] = d.action]
  ELSE requests

\* The requests when the first k dependencies have been looked at.
RequestsAfter[k \in 0..Len(Dependencies)] ==
  IF k = 0 THEN [p \in Products |-> master[p].request]
  ELSE Require(RequestsAfter[k - 1], Dependencies[k])

Repaired ==
  [i \in Idents |-> IF i \in Products
                    THEN [master[i] EXCEPT !.request =
                            RequestsAfter[Len(Dependencies)][i]]
                    ELSE master[i]]

\* The server has what the client has left of an object.
Synced(i) ==
  CASE i \in Settings -> master[i] = mine[i]
    [] i \in Products -> master[i].done = mine[i].done
    [] OTHER -> snapshot[i] = Absent \/ master[i] = mine[i]

\* Nobody looks at the tracker or at the old objects before a new replica is
\* written over them.  Licenses of the products to install are acquired, or
\* reused, and marked as deleted: they are freed by the next push unless they
\* are used.
Replicate ==
  /\ Idle
  /\ LET needed == {l \in Licenses: Repaired[LicenseOf[l]].request # "none"}
     IN  /\ master' = [i \in Idents |-> IF i \in needed THEN "held" ELSE Repaired[i]]
         /\ work' = [i \in Idents |-> IF i \in Licenses \ needed THEN Absent
                                      ELSE master'[i]]
         /\ tracked' = [i \in Idents |-> IF i \in needed THEN "delete" ELSE "none"]
  /\ snapshot' = work'
  /\ replaced' = {}
  /\ held' = {} /\ changed' = {} /\ taken' = {} /\ again' = {} /\ late' = {}
  /\ used' = {}
  /\ overwritten' = {i \in Idents : ~Synced(i) \/ (i \in used /\ tracked[i] # "none")}
  /\ mine' = [i \in Idents |-> IF i \in overwritten' THEN mine[i] ELSE Wanted(i)']
  /\ UNCHANGED push

-----------------------------------------------------------------------------

Sync ==
  \/ BeginPush \/ ReadMaster \/ DeleteObjects \/ UpdateObjects
  \/ ClearTracker \/ PushFails \/ Replicate

BackendNext ==
  \/ \E s \in Settings, v \in Values \cup {Absent}: ChangeSetting(s, v) \/ SetLocally(s, v)
  \/ \E p \in Products, r \in Requests: Order(p, r)
  \/ \E p \in Products: ReplaceVersion(p) \/ CarryOut(p)
  \/ \E l \in Licenses: UseLicense(l)
  \/ Sync

BackendSpec == BackendInit /\ [][BackendNext]_backendVars

-----------------------------------------------------------------------------

Objects(i) ==
  CASE i \in Products -> [request: Requests, done: BOOLEAN]
    [] i \in Settings -> Values \cup {Absent}
    [] OTHER -> {"held", Absent}

BackendTypeOK ==
  /\ \A data \in {master, work, snapshot}:
       DOMAIN data = Idents /\ \A i \in Idents: data[i] \in Objects(i)
  /\ tracked \in [Idents -> {"none", "insert", "update", "delete"}]
  /\ replaced \subseteq Products
  /\ push.left \in {SubSeq(Stages, k, Len(Stages)): k \in 1..Len(Stages) + 1}
  /\ DOMAIN push.modified \subseteq Idents
  /\ held \cup changed \cup taken \cup again \cup late \subseteq Idents
  /\ DOMAIN mine = Idents /\ overwritten \subseteq Idents

\* What an administrator has changed since the replica was made is not changed
\* by a push: values of settings that exist on both sides, and the request of
\* a product with a new version; unless the push has read them already.
ServerChangeIsKept ==
  DeleteObjects \/ UpdateObjects =>
    \A i \in held:
      /\ i \in Settings => master'[i] = master[i]
      /\ i \in Products => master'[i].request = master[i].request
ServerChangeStays == [][ServerChangeIsKept]_backendVars

\* What the client has changed is on the server as soon as the tracker forgets
\* it, whatever pushes have failed half way and whatever replicas have been made
\* since: results of actions always, values of settings unless an administrator
\* has changed them, too; and a license it was lent is held if it was used, and
\* free if it was not. Excepted are modifications made during a push, which
\* ClearTracker forgets, second ones (SecondChangeArrives), and those that had
\* not arrived when a new replica was made: it clears the tracker without a look
\* at it and overwrites what the client has set (CacheService.py:837).
LocalChangeArrives ==
  Idle => \A i \in Idents:
            \/ tracked[i] # "none" \/ Synced(i)
            \/ i \in late \cup changed \cup overwritten \cup (again \cap Settings)

\* "Values of %s changed on server since last sync, not updating values": only
\* then they are not updated (CacheBackend.py:416). It does not hold: a push is
\* a sync, too, but makes no snapshot, and takes the values of the push before
\* for a change of the server.
SecondChangeArrives ==
  Idle => \A s \in Settings:
            \/ tracked[s] # "none" \/ Synced(s)
            \/ s \in late \cup changed \cup overwritten
=============================================================================
