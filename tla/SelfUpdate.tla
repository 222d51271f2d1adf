----------------------------- MODULE SelfUpdate -----------------------------
(***************************************************************************)
(* Self update of the daemon: self_update_from_file and restart            *)
(* (Opsiclientd.py).                                                       *)
(*                                                                         *)
(* A thread of the control server or of an upload replaces the directory   *)
(* the daemon is installed in. On Linux and macOS it is moved aside, and   *)
(* the new one is moved to its place; on Windows there are two directories *)
(* and a link to the one in use. Nothing is put back if a step fails or    *)
(* the daemon is stopped in between, which restart() of an earlier update  *)
(* may do, too. What is installed has passed the check of its signature    *)
(* and a test run; archives and their contents are left out.               *)
(***************************************************************************)
EXTENDS FiniteSets

CONSTANTS Updaters,   \* threads that may call self_update_from_file
          Nowhere

ASSUME UpdateAssumption == Nowhere \notin {"bin1", "bin2", "inst", "old"}

VARIABLES
  windows,      \* RUNNING_ON_WINDOWS, which never changes
  up,           \* the daemon runs
  selfUpdating, \* _selfUpdating
  updater,      \* what each thread is at
  spare,        \* the place each thread clears: new_dir, old_dir
  dir,          \* what is at each place
  link,         \* where opsiclientd_bin points to
  raced         \* history: a thread has begun while another was at it

updateVars == <<windows, up, selfUpdating, updater, spare, dir, link, raced>>

Places == IF windows THEN {"bin1", "bin2"} ELSE {"inst", "old"}
Contents == {"none", "part", "whole"}
UpdateStages == {"away", "asked", "prepare", "clear", "clearing", "move", "install",
                 "unlink", "link", "done"}

\* The place a start of the daemon looks at.
Used == IF windows THEN link ELSE "inst"
Installed == Used # Nowhere /\ dir[Used] # "none"

UpdateInit ==
  /\ windows \in BOOLEAN
  /\ up = TRUE
  /\ selfUpdating = FALSE
  /\ updater = [u \in Updaters |-> "away"]
  /\ spare = [u \in Updaters |-> Nowhere]
  /\ link = IF windows THEN "bin1" ELSE Nowhere
  /\ dir = [p \in Places |-> IF p \in {"bin1", "inst"} THEN "whole" ELSE "none"]
  /\ raced = FALSE

GoOn(u, from, to) == updater[u] = from /\ updater' = [updater EXCEPT ![u] = to]

-----------------------------------------------------------------------------

\* A mutant: without a look at the installation.
AskUnseen(u) ==
  /\ up /\ ~selfUpdating
  /\ GoOn(u, "away", "asked")
  /\ raced' = (raced \/ \E v \in Updaters \ {u} : updater[v] # "away")
  /\ UNCHANGED <<up, selfUpdating, spare, dir, link>>

\* The program is where the installation is expected, and no update is running:
\* tested here,
Ask(u) ==
  /\ up /\ Installed /\ ~selfUpdating
  /\ GoOn(u, "away", "asked")
  /\ raced' = (raced \/ \E v \in Updaters \ {u} : updater[v] # "away")
  /\ UNCHANGED <<up, selfUpdating, spare, dir, link>>

\* and set here, without a lock.
Flag(u) ==
  /\ GoOn(u, "asked", "prepare")
  /\ selfUpdating' = TRUE
  /\ UNCHANGED <<up, spare, dir, link, raced>>

\* The archive is extracted, verified and tested; the place to clear is chosen.
Prepare(u) ==
  /\ GoOn(u, "prepare", "clear")
  /\ spare' = [spare EXCEPT ![u] =
       IF ~windows THEN "old" ELSE IF link = "bin1" THEN "bin2" ELSE "bin1"]
  /\ UNCHANGED <<up, selfUpdating, dir, link, raced>>

\* shutil.rmtree, which may fail half way (see Leave).
BeginClearing(u) ==
  /\ GoOn(u, "clear", "clearing")
  /\ dir[spare[u]] # "none"
  /\ dir' = [dir EXCEPT ![spare[u]] = "part"]
  /\ UNCHANGED <<up, selfUpdating, spare, link, raced>>

NothingToClear(u) ==
  /\ GoOn(u, "clear", "move")
  /\ dir[spare[u]] = "none"
  /\ UNCHANGED <<up, selfUpdating, spare, dir, link, raced>>

Cleared(u) ==
  /\ GoOn(u, "clearing", "move")
  /\ dir' = [dir EXCEPT ![spare[u]] = "none"]
  /\ UNCHANGED <<up, selfUpdating, spare, link, raced>>

\* inst_dir.rename(old_dir)
MoveAside(u) ==
  /\ ~windows
  /\ GoOn(u, "move", "install")
  /\ dir["inst"] # "none" /\ dir["old"] = "none"
  /\ dir' = [dir EXCEPT !["old"] = dir["inst"], !["inst"] = "none"]
  /\ UNCHANGED <<up, selfUpdating, spare, link, raced>>

\* bin_dir.rename: within one file system it is done at once or fails.
Install(u) ==
  /\ IF windows THEN GoOn(u, "move", "unlink") ELSE GoOn(u, "install", "done")
  /\ LET place == IF windows THEN spare[u] ELSE "inst" IN
       dir[place] = "none" /\ dir' = [dir EXCEPT ![place] = "whole"]
  /\ UNCHANGED <<up, selfUpdating, spare, link, raced>>

\* rmdir and mklink in one command, whose errors nobody looks at.
Unlink(u) ==
  /\ GoOn(u, "unlink", "link")
  /\ link' \in {Nowhere, link}
  /\ UNCHANGED <<up, selfUpdating, spare, dir, raced>>

Link(u) ==
  /\ GoOn(u, "link", "done")
  /\ link' \in {link, IF link = Nowhere THEN spare[u] ELSE link}
  /\ UNCHANGED <<up, selfUpdating, spare, dir, raced>>

\* The end, or an exception at any step.
Leave(u) ==
  /\ updater[u] \notin {"away", "asked"}
  /\ updater' = [updater EXCEPT ![u] = "away"]
  /\ spare' = [spare EXCEPT ![u] = Nowhere]
  /\ selfUpdating' = FALSE
  /\ UNCHANGED <<up, dir, link, raced>>

\* The daemon is stopped: by restart(), three seconds after an update, by the
\* system, or by a crash.
StopDaemon ==
  /\ up
  /\ up' = FALSE
  /\ selfUpdating' = FALSE
  /\ updater' = [u \in Updaters |-> "away"]
  /\ spare' = [u \in Updaters |-> Nowhere]
  /\ UNCHANGED <<dir, link, raced>>

StartDaemon ==
  /\ ~up /\ Installed
  /\ up' = TRUE
  /\ UNCHANGED <<selfUpdating, updater, spare, dir, link, raced>>

UpdateStep(u) ==
  \/ Ask(u) \/ Flag(u) \/ Prepare(u) \/ BeginClearing(u) \/ NothingToClear(u)
  \/ Cleared(u) \/ MoveAside(u) \/ Install(u) \/ Unlink(u) \/ Link(u) \/ Leave(u)

UpdateNext ==
  /\ UNCHANGED windows
  /\ StopDaemon \/ StartDaemon \/ \E u \in Updaters : UpdateStep(u)

UpdateSpec == UpdateInit /\ [][UpdateNext]_updateVars

-----------------------------------------------------------------------------

UpdateTypeOK ==
  /\ {windows, up, selfUpdating, raced} \subseteq BOOLEAN
  /\ updater \in [Updaters -> UpdateStages]
  /\ spare \in [Updaters -> Places \cup {Nowhere}]
  /\ dir \in [Places -> Contents]
  /\ link \in Places \cup {Nowhere}

\* Whatever fails, and whenever the daemon is stopped, in any number of updates: a
\* start finds a whole installation or none, and a whole one is left next to that
\* place.  Two updates at once, which _selfUpdating does not quite rule out, may
\* delete the last one.
InstallationKept ==
  ~raced => /\ Installed => dir[Used] = "whole"
            /\ \E p \in Places : dir[p] = "whole"
=============================================================================
