------------------------------ MODULE MCParts ------------------------------
(***************************************************************************)
(* Eight parts of the daemon that do not interact with each other, checked *)
(* side by side: each behavior is one of the part that `part` names, the   *)
(* others stay as they are at the beginning.                               *)
(*   "groups"      ActionGroups: three products, all requests of           *)
(*                 MCActionGroups                                          *)
(*   "orders", "settings", "licenses"  CacheBackend: requests of actions   *)
(*                 for two products, of which one needs the other; values  *)
(*                 of a setting; the license of a third product            *)
(*   "popups"      Popups: two, of which one is shown for a time           *)
(*   "connection"  ServiceConnection: two urls, a timeout of two seconds   *)
(*   "state"       StateFile: two threads, two names, two values           *)
(*   "timeline"    Timeline: two writers                                   *)
(*   "viewer"      LogViewer: three records, of which two are kept         *)
(*   "update"      SelfUpdate: two threads, on either platform             *)
(***************************************************************************)
EXTENDS MCActionGroups, CacheBackend, Popups, ServiceConnection, StateFile, Timeline, LogViewer,
        SelfUpdate

\* Products: app needs lib, and tool needs the license key.
CONSTANTS app, lib, tool, key

ASSUME PartsAssumption == {app, lib, tool} \subseteq Products

VARIABLE part

AnyRequest == CHOOSE x \in SortRequests: TRUE

LicenseOfOne == [x \in {key} |-> tool]
SetupNeedsSetup ==
  <<[product |-> app, action |-> "setup", required |-> lib, requiredAction |-> "setup"]>>

backendParts == {"orders", "settings", "licenses"}
Parts == backendParts \cup {"groups", "popups", "connection", "state", "timeline",
                            "viewer", "update"}

vars == <<part, sorterVars, backendVars, popupVars, connectionVars, stateVars,
          timelineVars, viewerVars, updateVars>>

-----------------------------------------------------------------------------

\* Parts that do not move begin in one state.
Init ==
  /\ part \in Parts
  /\ IF part = "groups" THEN request \in SortRequests ELSE request = AnyRequest
  /\ SorterInit
  /\ BackendInit
  /\ part # "orders" => \A x \in {app, lib} : master[x].request = "none"
  /\ part # "licenses" => master[tool].request = "none"
  /\ part # "settings" => \A x \in Settings : master[x] = Absent
  /\ PopupsInit
  /\ ConnectionInit
  /\ StateInit
  /\ TimelineInit
  /\ part # "timeline" => ~broken /\ \A w \in Writers : row[w] = "none"
  /\ ViewerInit
  /\ UpdateInit
  /\ part # "update" => ~windows

\* What users and administrators do in each part of the backend.
Change ==
  \/ /\ part = "settings"
     /\ \E s \in Settings, v \in Values \cup {Absent} :
          ChangeSetting(s, v) \/ SetLocally(s, v)
  \/ /\ part \in {"orders", "licenses"}
     /\ \E x \in IF part = "orders" THEN {app, lib} ELSE {tool} :
          CarryOut(x) \/ ReplaceVersion(x) \/ \E order \in Requests : Order(x, order)
  \/ /\ part = "licenses"
     /\ \E x \in Licenses : UseLicense(x)

Next ==
  /\ UNCHANGED part
  /\ \/ part = "groups" /\ SorterNext
     \/ part # "groups" /\ UNCHANGED sorterVars
  /\ \/ part \in backendParts /\ (Change \/ Sync)
     \/ part \notin backendParts /\ UNCHANGED backendVars
  /\ \/ part = "popups" /\ PopupsNext
     \/ part # "popups" /\ UNCHANGED popupVars
  /\ \/ part = "connection" /\ ConnectionNext
     \/ part # "connection" /\ UNCHANGED connectionVars
  /\ \/ part = "state" /\ StateNext
     \/ part # "state" /\ UNCHANGED stateVars
  /\ \/ part = "timeline" /\ TimelineNext
     \/ part # "timeline" /\ UNCHANGED timelineVars
  /\ \/ part = "viewer" /\ ViewerNext
     \/ part # "viewer" /\ UNCHANGED viewerVars
  /\ \/ part = "update" /\ UpdateNext
     \/ part # "update" /\ UNCHANGED updateVars

\* Popups: some thread runs as long as one can; each comes to its end after a
\* few steps, so that this suffices for all.
\* Service connection: the caller goes on, whatever the threads do; attempts of
\* a thread end, at the latest after SERVICE_CONNECT_TIMEOUT.
\* Log viewer: the daemon, the page and the network go on; the log and the
\* number of losses are bounded, so that each of these steps comes about.
Fairness ==
  /\ WF_popupVars(part = "popups" /\ PopupStep)
  /\ WF_connectionVars(part = "connection" /\ CallerStep)
  /\ \A u \in Url : WF_connectionVars(part = "connection" /\ ThreadStep(u))
  /\ WF_viewerVars(part = "viewer" /\ ViewerStep)

Spec == Init /\ [][Next]_vars /\ Fairness

-----------------------------------------------------------------------------
(* Properties of the parts; those not defined here are in their modules.   *)

\* The type invariants of all parts.
PartsTypeOK ==
  /\ SorterTypeOK
  /\ BackendTypeOK
  /\ PopupsTypeOK
  /\ ConnectionTypeOK
  /\ StateTypeOK
  /\ TimelineTypeOK
  /\ ViewerTypeOK
  /\ UpdateTypeOK
=============================================================================
