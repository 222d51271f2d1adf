------------------------------ MODULE Timeline ------------------------------
(***************************************************************************)
(* The timeline (Timeline.py): events in a database that many threads add  *)
(* to and end, under one lock that is not reentrant.                       *)
(*                                                                         *)
(* Each writer adds one event that lasts until the writer ends it. Reading *)
(* events, which takes the same lock, and their age are left out.          *)
(***************************************************************************)
EXTENDS FiniteSets

CONSTANTS Writers, NoWriter

ASSUME TimelineAssumption == NoWriter \notin Writers

VARIABLES
  daemon,     \* "down", "starting", "up", "stopping" or "stopped"
  stopped,    \* _stopped
  dbLock,     \* who holds _db_lock; "daemon" is start or stop
  writer,     \* what a writer is at
  row,        \* the event of each writer in the database
  broken,     \* the database cannot be written to
  lateWriters \* history: writers that had passed the test of _stopped before stop

timelineVars == <<daemon, stopped, dbLock, writer, row, broken, lateWriters>>

TimelineInit ==
  /\ daemon = "down"
  /\ stopped = FALSE
  /\ dbLock = NoWriter
  /\ writer = [w \in Writers |-> "away"]
  /\ row \in [Writers -> {"none", "open"}]
  /\ broken \in BOOLEAN
  /\ lateWriters = {}

-----------------------------------------------------------------------------
(* The daemon's start and stop.                                            *)

\* _createDatabase; a database that cannot be read is deleted.
StartTimeline ==
  /\ daemon = "down"
  /\ daemon' = "starting"
  /\ row' = IF broken THEN [w \in Writers |-> "none"] ELSE row
  /\ broken' = FALSE
  /\ UNCHANGED <<stopped, dbLock, writer, lateWriters>>

\* _cleanupDatabase: what did not end in the last run lasts no longer.
Cleanup ==
  /\ daemon = "starting" /\ dbLock = NoWriter
  /\ daemon' = "up"
  /\ row' = [w \in Writers |-> IF row[w] = "open" THEN "point" ELSE row[w]]
  /\ UNCHANGED <<stopped, dbLock, writer, broken, lateWriters>>

\* A mutant: events are ended before others are kept from adding some.
StopLate ==
  /\ daemon = "up"
  /\ daemon' = "stopping"
  /\ lateWriters' = {w \in Writers: writer[w] \in {"add", "end"}}
  /\ UNCHANGED <<stopped, dbLock, writer, row, broken>>

\* stop()
StopTimeline ==
  /\ daemon = "up"
  /\ daemon' = "stopping"
  /\ stopped' = TRUE
  /\ lateWriters' = {w \in Writers: writer[w] \in {"add", "end"}}
  /\ UNCHANGED <<dbLock, writer, row, broken>>

EndEvents ==
  /\ daemon = "stopping" /\ dbLock = NoWriter
  /\ daemon' = "stopped"
  /\ row' = IF broken THEN row
            ELSE [w \in Writers |-> IF row[w] = "open" THEN "closed" ELSE row[w]]
  /\ UNCHANGED <<stopped, dbLock, writer, broken, lateWriters>>

\* A crash, or the end of the process.
EndProcess ==
  /\ daemon # "down"
  /\ daemon' = "down"
  /\ stopped' = FALSE
  /\ dbLock' = NoWriter
  /\ writer' = [w \in Writers |-> "away"]
  /\ lateWriters' = {}
  /\ UNCHANGED <<row, broken>>

\* The file is damaged, or the disk is full.
Break ==
  /\ daemon = "up" /\ ~broken
  /\ broken' = TRUE
  /\ UNCHANGED <<daemon, stopped, dbLock, writer, row, lateWriters>>

-----------------------------------------------------------------------------
(* addEvent and setEventEnd.                                               *)

Write(w, from, to) ==
  /\ writer[w] = from
  /\ writer' = [writer EXCEPT ![w] = to]
  /\ UNCHANGED <<daemon, stopped, lateWriters>>

\* Adds an event of its own, if there is none; or ends it.
Call(w) ==
  /\ daemon \in {"up", "stopping", "stopped"} /\ ~stopped
  /\ Write(w, "away", IF row[w] = "open" THEN "end" ELSE "add")
  /\ UNCHANGED <<dbLock, row, broken>>

Lock(w) ==
  /\ dbLock = NoWriter
  /\ dbLock' = w
  /\ \/ Write(w, "add", "insert")
     \/ Write(w, "end", "update")
  /\ UNCHANGED <<row, broken>>

Insert(w) ==
  /\ ~broken
  /\ Write(w, "insert", "away")
  /\ row' = [row EXCEPT ![w] = "open"]
  /\ dbLock' = NoWriter
  /\ UNCHANGED broken

\* After an error of sqlite3 the database is deleted and is to be created again
\* by _createDatabase, which waits for the lock its caller holds: there is no
\* step from "recreate".
InsertFails(w) ==
  /\ broken
  /\ Write(w, "insert", "recreate")
  /\ row' = [v \in Writers |-> "none"]
  /\ UNCHANGED <<dbLock, broken>>

\* Any other error is logged only.
InsertFailsOtherwise(w) ==
  /\ broken
  /\ Write(w, "insert", "away")
  /\ dbLock' = NoWriter
  /\ UNCHANGED <<row, broken>>

\* An error is logged only.
Update(w) ==
  /\ Write(w, "update", "away")
  /\ row' = IF broken THEN row ELSE [row EXCEPT ![w] = "closed"]
  /\ dbLock' = NoWriter
  /\ UNCHANGED broken

-----------------------------------------------------------------------------

HolderStep(w) == Insert(w) \/ InsertFails(w) \/ InsertFailsOtherwise(w) \/ Update(w)

WriterStep(w) == Lock(w) \/ HolderStep(w)

TimelineNext ==
  \/ StartTimeline \/ Cleanup \/ StopTimeline \/ EndEvents \/ EndProcess \/ Break
  \/ \E w \in Writers: Call(w) \/ WriterStep(w)

TimelineSpec == TimelineInit /\ [][TimelineNext]_timelineVars

\* Writers go on, and get the lock if it is free again and again.
TimelineFairSpec ==
  /\ TimelineSpec
  /\ \A w \in Writers:
       SF_timelineVars(Lock(w)) /\ WF_timelineVars(HolderStep(w))

-----------------------------------------------------------------------------

TimelineTypeOK ==
  /\ daemon \in {"down", "starting", "up", "stopping", "stopped"}
  /\ {stopped, broken} \subseteq BOOLEAN
  /\ dbLock \in Writers \cup {NoWriter}
  /\ writer \in [Writers -> {"away", "add", "end", "insert", "update", "recreate"}]
  /\ row \in [Writers -> {"none", "open", "closed", "point"}]
  /\ lateWriters \subseteq Writers

\* When the daemon has stopped, no event of the timeline goes on: stop() ends the
\* events there are, and no others are added, but by writers that had passed the
\* test of _stopped before and come to the lock after it.
StopEndsEvents ==
  daemon = "stopped" /\ ~broken =>
    \A w \in Writers: row[w] = "open" => w \in lateWriters

\* "Failed to add event '%s': %s, recreating database" (Timeline.py:287): the
\* event is added to a new database then. It does not hold: the caller never
\* returns, and nor does anyone who adds an event after it.
AddEventReturns == \A w \in Writers: writer[w] = "add" ~> writer[w] = "away"
=============================================================================
