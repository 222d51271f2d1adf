------------------------- MODULE ConfigCacheProofs -------------------------
(***************************************************************************)
(* Proofs about ConfigCache, for any set of products.                      *)
(***************************************************************************)
EXTENDS ConfigCache, TLAPS

\* Stages of _syncConfigFromServer in which the replica is marked obsolete.
Making == {"from", "compare", "keep", "replicate", "delete", "copy", "rest", "completed"}

-----------------------------------------------------------------------------
(* Types                                                                   *)

LEMMA TypeStep == TypeOK /\ [Next]_vars => TypeOK'
<1> SUFFICES ASSUME TypeOK, [Next]_vars PROVE TypeOK'
  OBVIOUS
<1> USE DEF TypeOK, Jobs, EventKinds, Step, setObsolete, setFaulty, requests, replica, history
<1>1. CASE Worker
  <2>1. CASE PickTo \/ ReadModifications \/ Push \/ PushFails \/ ClearModifications
    BY <2>1 DEF PickTo, ReadModifications, Push, PushFails, ClearModifications
  <2>2. CASE PickFrom \/ Connect \/ FromFails \/ Compare \/ Keep
    BY <2>2 DEF PickFrom, Connect, FromFails, Compare, Keep
  <2>3. CASE Replicate \/ DeleteBase \/ Copy \/ CopyRest \/ Completed \/ Fire \/ ReplicateFails
    BY <2>3 DEF Replicate, DeleteBase, Copy, CopyRest, Completed, Fire, ReplicateFails
  <2> QED BY <1>1, <2>1, <2>2, <2>3 DEF Worker
<1>2. CASE EventProcessing
  <2>1. CASE BeginSync \/ SyncedTo \/ EndSync \/ BeginOnline \/ EndOnline
    BY <2>1 DEF BeginSync, SyncedTo, EndSync, BeginOnline, EndOnline
  <2>2. CASE BeginCached \/ CachedFaulty \/ EndCached
    BY <2>2 DEF BeginCached, CachedFaulty, EndCached
  <2>3. ASSUME NEW p \in Products, OnlineAction(p) \/ CachedAction(p) PROVE TypeOK'
    BY <2>3 DEF OnlineAction, CachedAction
  <2> QED BY <1>2, <2>1, <2>2, <2>3 DEF EventProcessing
<1>3. CASE MarkFaulty \/ DeleteCache \/ Restart
  BY <1>3 DEF MarkFaulty, DeleteCache, Restart
<1>4. ASSUME NEW force \in BOOLEAN, SyncConfig(force) PROVE TypeOK'
  BY <1>4 DEF SyncConfig
<1>5. ASSUME NEW p \in Products, RequestAction(p) \/ WithdrawAction(p) \/ ReplacePackage(p)
      PROVE TypeOK'
  BY <1>5 DEF RequestAction, WithdrawAction, ReplacePackage
<1>6. CASE UNCHANGED vars
  BY <1>6 DEF vars
<1> QED BY <1>1, <1>2, <1>3, <1>4, <1>5, <1>6 DEF Next

\* Type correctness: every variable of the cache service stays within its type,
\* and the worker within the stages of the two sync procedures.
THEOREM TypeCorrect == Spec => []TypeOK
<1>1. Init => TypeOK
  BY DEF Init, TypeOK, Jobs, EventKinds
<1> QED BY <1>1, TypeStep, PTL DEF Spec

-----------------------------------------------------------------------------
(* Modifications that could not be pushed                                  *)

\* The worker reads, pushes and clears in this order, and a new replica is
\* begun only without an error of the last push.
PushInv ==
  /\ job \in Jobs
  /\ job = "push" => read \subseteq mods
  /\ job \in Making \cup {"fire"} => ~toError
  /\ FailedPushIsKept

LEMMA PushInit == Init => PushInv
BY DEF Init, PushInv, FailedPushIsKept, Jobs, Making

LEMMA PushStep == PushInv /\ [Next]_vars => PushInv'
<1> SUFFICES ASSUME PushInv, [Next]_vars PROVE PushInv'
  OBVIOUS
<1> USE DEF PushInv, FailedPushIsKept, Jobs, Making, Step, setObsolete, setFaulty,
            requests, replica, history
<1>1. CASE Worker
  <2> USE <1>1 DEF Worker
  <2>1. CASE PickTo BY <2>1 DEF PickTo
  <2>2. CASE ReadModifications BY <2>2 DEF ReadModifications
  <2>3. CASE Push BY <2>3 DEF Push
  <2>4. CASE PushFails BY <2>4 DEF PushFails
  <2>5. CASE ClearModifications BY <2>5 DEF ClearModifications
  <2>6. CASE PickFrom BY <2>6 DEF PickFrom
  <2>7. CASE Connect BY <2>7 DEF Connect
  <2>8. CASE FromFails BY <2>8 DEF FromFails
  <2>9. CASE Compare BY <2>9 DEF Compare
  <2>10. CASE Keep BY <2>10 DEF Keep
  <2>11. CASE Replicate BY <2>11 DEF Replicate
  <2>12. CASE Copy BY <2>12 DEF Copy
  <2>13. CASE CopyRest BY <2>13 DEF CopyRest
  <2>14. CASE Completed BY <2>14 DEF Completed
  <2>15. CASE Fire BY <2>15 DEF Fire
  <2>16. CASE ReplicateFails BY <2>16 DEF ReplicateFails
  <2>17. CASE DeleteBase BY <2>17 DEF DeleteBase
  <2> QED BY <2>1, <2>2, <2>3, <2>4, <2>5, <2>6, <2>7, <2>8, <2>9, <2>10, <2>11,
             <2>12, <2>13, <2>14, <2>15, <2>16, <2>17
<1>2. CASE EventProcessing
  BY <1>2 DEF EventProcessing, BeginSync, SyncedTo, EndSync, BeginOnline, EndOnline,
              BeginCached, CachedFaulty, EndCached, OnlineAction, CachedAction
<1>3. CASE MarkFaulty \/ DeleteCache \/ Restart
  BY <1>3 DEF MarkFaulty, DeleteCache, Restart
<1>4. CASE \E force \in BOOLEAN : SyncConfig(force)
  BY <1>4 DEF SyncConfig
<1>5. CASE \E p \in Products : RequestAction(p) \/ WithdrawAction(p) \/ ReplacePackage(p)
  BY <1>5 DEF RequestAction, WithdrawAction, ReplacePackage
<1>6. CASE UNCHANGED vars
  BY <1>6 DEF vars
<1> QED BY <1>1, <1>2, <1>3, <1>4, <1>5, <1>6 DEF Next

\* A failed sync to the server keeps its modifications in the tracker, through
\* syncs from the server, marks, calls of the control server and restarts.
THEOREM FailedPushKept == Spec => []FailedPushIsKept
<1>1. PushInv => FailedPushIsKept
  BY DEF PushInv
<1> QED BY PushInit, PushStep, <1>1, PTL DEF Spec

-----------------------------------------------------------------------------
(* What events may work on                                                 *)

\* An incomplete replica with actions is forced to be replaced, unless it is
\* just being made, and is not marked cached meanwhile.
ReplicaInv ==
  /\ job \in Jobs
  /\ \/ complete \/ local = {} \/ forgotten
     \/ forceSync \/ job \in {"delete", "copy", "rest"}
  /\ job = "keep" => complete \/ local = {} \/ forgotten
  /\ job \in {"completed", "fire"} => complete
  /\ job \in Making => ~configCached
  /\ CachedIsComplete

LEMMA ReplicaInit == Init => ReplicaInv
BY DEF Init, ReplicaInv, CachedIsComplete, Jobs, Making

LEMMA ReplicaStep == ReplicaInv /\ [Next]_vars => ReplicaInv'
<1> SUFFICES ASSUME ReplicaInv, [Next]_vars PROVE ReplicaInv'
  OBVIOUS
<1> USE DEF ReplicaInv, CachedIsComplete, Jobs, Making, Step, setObsolete, setFaulty,
            requests, replica, history
<1>1. CASE Worker
  <2> USE <1>1 DEF Worker
  <2>1. CASE PickTo BY <2>1 DEF PickTo
  <2>2. CASE ReadModifications BY <2>2 DEF ReadModifications
  <2>3. CASE Push BY <2>3 DEF Push
  <2>4. CASE PushFails BY <2>4 DEF PushFails
  <2>5. CASE ClearModifications BY <2>5 DEF ClearModifications
  <2>6. CASE PickFrom BY <2>6 DEF PickFrom
  <2>7. CASE Connect BY <2>7 DEF Connect
  <2>8. CASE FromFails BY <2>8 DEF FromFails
  <2>9. CASE Compare BY <2>9 DEF Compare, needSync
  <2>10. CASE Keep BY <2>10 DEF Keep
  <2>11. CASE Replicate BY <2>11 DEF Replicate
  <2>12. CASE Copy BY <2>12 DEF Copy
  <2>13. CASE CopyRest BY <2>13 DEF CopyRest
  <2>14. CASE Completed BY <2>14 DEF Completed
  <2>15. CASE Fire BY <2>15 DEF Fire
  <2>16. CASE ReplicateFails BY <2>16 DEF ReplicateFails
  <2>17. CASE DeleteBase BY <2>17 DEF DeleteBase
  <2> QED BY <2>1, <2>2, <2>3, <2>4, <2>5, <2>6, <2>7, <2>8, <2>9, <2>10, <2>11,
             <2>12, <2>13, <2>14, <2>15, <2>16, <2>17
<1>2. CASE EventProcessing
  BY <1>2 DEF EventProcessing, BeginSync, SyncedTo, EndSync, BeginOnline, EndOnline,
              BeginCached, CachedFaulty, EndCached, OnlineAction, CachedAction
<1>3. CASE MarkFaulty \/ DeleteCache \/ Restart
  BY <1>3 DEF MarkFaulty, DeleteCache, Restart
<1>4. ASSUME NEW force \in BOOLEAN, SyncConfig(force) PROVE ReplicaInv'
  BY <1>4 DEF SyncConfig
<1>5. ASSUME NEW p \in Products, RequestAction(p) \/ WithdrawAction(p) \/ ReplacePackage(p)
      PROVE  ReplicaInv'
  BY <1>5 DEF RequestAction, WithdrawAction, ReplacePackage
<1>6. CASE UNCHANGED vars
  BY <1>6 DEF vars
<1> QED BY <1>1, <1>2, <1>3, <1>4, <1>5, <1>6 DEF Next

\* Events find only complete replicas, whatever fails while one is made, unless
\* a restart or an unforced sync has taken back the need of a new one.
THEOREM CachedReplicaIsComplete == Spec => []CachedIsComplete
<1>1. ReplicaInv => CachedIsComplete
  BY DEF ReplicaInv
<1>2. ReplicaInv /\ [Next]_vars => ReplicaInv'
  BY ReplicaStep
<1> QED BY ReplicaInit, <1>1, <1>2, PTL DEF Spec

-----------------------------------------------------------------------------
(* What a mark is worth                                                    *)

\* Whoever marks the replica faulty forces the next sync, and only the sync
\* that replaces the replica takes both back.
MarkInv == marked => forceSync \/ forgotten

LEMMA MarkStep == MarkInv /\ [Next]_vars => MarkInv'
<1> SUFFICES ASSUME MarkInv, [Next]_vars PROVE MarkInv'
  OBVIOUS
<1> USE DEF MarkInv, setObsolete, setFaulty, requests, replica, history
<1>1. CASE Worker
  BY <1>1 DEF Worker, PickTo, ReadModifications, Push, PushFails, ClearModifications,
              PickFrom, Connect, FromFails, Compare, Keep, Replicate, DeleteBase, Copy, CopyRest,
              Completed, Fire, ReplicateFails
<1>2. CASE EventProcessing
  BY <1>2 DEF EventProcessing, BeginSync, SyncedTo, EndSync, BeginOnline, EndOnline,
              BeginCached, CachedFaulty, EndCached, OnlineAction, CachedAction
<1>3. CASE MarkFaulty \/ DeleteCache \/ Restart
  BY <1>3 DEF MarkFaulty, DeleteCache, Restart
<1>4. ASSUME NEW force \in BOOLEAN, SyncConfig(force) PROVE MarkInv'
  BY <1>4 DEF SyncConfig
<1>5. ASSUME NEW p \in Products, RequestAction(p) \/ WithdrawAction(p) \/ ReplacePackage(p)
      PROVE  MarkInv'
  BY <1>5 DEF RequestAction, WithdrawAction, ReplacePackage
<1>6. CASE UNCHANGED vars
  BY <1>6 DEF vars
<1> QED BY <1>1, <1>2, <1>3, <1>4, <1>5, <1>6 DEF Next

\* From keeping a replica follows that nothing forced the sync.
LEMMA KeepStep ==
  MarkInv /\ [Next]_vars => [job = "compare" /\ job' = "keep" => ~marked \/ forgotten]_vars
<1> SUFFICES ASSUME MarkInv, Next, job = "compare", job' = "keep"
               PROVE  ~marked \/ forgotten
  BY DEF vars
<1>1. Compare
  BY DEF Next, Worker, EventProcessing, BeginSync, SyncedTo, EndSync, BeginOnline,
         EndOnline, BeginCached, CachedFaulty, EndCached, OnlineAction, CachedAction,
         MarkFaulty, DeleteCache, Restart, SyncConfig, RequestAction, WithdrawAction,
         ReplacePackage,
         Step, PickTo, ReadModifications, Push, PushFails, ClearModifications,
         PickFrom, Connect, FromFails, Keep, Replicate, DeleteBase, Copy, CopyRest,
         Completed, Fire, ReplicateFails
<1> QED BY <1>1 DEF Compare, Step, needSync, MarkInv

\* A replica that was marked faulty is replaced by the next sync that compares
\* it with the server, unless the mark was lost.
THEOREM DirtyReplaced == Spec => DirtyIsReplaced
<1>1. Init => MarkInv
  BY DEF Init, MarkInv
<1>2. MarkInv /\ [Next]_vars => MarkInv'
  BY MarkStep
<1> QED BY <1>1, <1>2, KeepStep, PTL DEF Spec, DirtyIsReplaced
=============================================================================
