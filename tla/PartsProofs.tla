---------------------------- MODULE PartsProofs -----------------------------
(***************************************************************************)
(* Proofs about small parts: which connections are left when               *)
(* connectConfigService has returned; what the state file has when nobody  *)
(* sets values; what goes on in the timeline's database after stop(); what *)
(* failing self updates leave of the installation; which popup servers are *)
(* left, and whose end is that of the popup; and that the page of the log  *)
(* viewer shows the log.                                                   *)
(***************************************************************************)
EXTENDS MCParts, CacheBackendProofs, Integers, Induction, SequenceTheorems, TLAPS

-----------------------------------------------------------------------------
(* ServiceConnection                                                       *)

NotBegun == {"no", "started"}
Trying == {"loop", "trying", "end"}

\* What the flags of a thread say of it: those of a thread that has not begun
\* are unset, and one that goes on is running or cancelled; connections are
\* closed only when they have been established.
FlagsInv ==
  /\ open \subseteq connected
  /\ \A u \in Url:
       /\ u \in connected \ open => caller = "established" /\ u = url
       /\ attempt[u] \in NotBegun =>
            u \notin running \cup connected \cup cancelled \cup offered
       /\ attempt[u] \in Trying => u \in running \cup cancelled
       /\ attempt[u] = "trying" => u \notin connected
       /\ u > url => attempt[u] = "no"
       /\ u < url => u \in cancelled

\* What the caller knows of the thread it has started last.
CallerInv ==
  /\ caller = "away" <=> url = 0
  /\ caller = "starting" => attempt[url] # "no"
  /\ caller = "next" => url < Urls /\ url \in cancelled
  /\ caller \in {"waiting", "ifRunning", "giveUp", "ifConnected"} =>
       (attempt[url] = "started" => url \in slow) /\ attempt[url] # "no"
  /\ caller = "giveUp" => attempt[url] \notin NotBegun
  /\ caller = "ifConnected" => url \in cancelled \cup slow \/ attempt[url] = "ended"
  /\ caller \in {"canceled", "timedOut"} => url \in cancelled
  /\ caller = "failed" =>
       url \in cancelled \cup slow \/ (attempt[url] = "ended" /\ url \notin open)
  /\ caller = "established" =>
       /\ service # 0 \/ stopCalled
       /\ url \in connected
       /\ url \in open => service = url
  /\ service # 0 => caller = "established" /\ service = url /\ url \in open

ConnectionInv == ConnectionTypeOK /\ FlagsInv /\ CallerInv

\* What the assumption says of each constant.
LEMMA ConnectionConstants ==
  Urls \in Nat /\ Timeout \in Nat /\ StartPolls \in Nat /\ Urls # 0
BY ConnectionAssumption

\* The invariant holds at first.
LEMMA ConnectionInitial ==
  ASSUME ConnectionInit PROVE ConnectionInv
<1> USE ConnectionConstants DEF ConnectionInit, Url
<1>1. ConnectionTypeOK
  <2>1. url \in 0..Urls /\ service \in 0..Urls /\ left \in 0..(Timeout + StartPolls)
    OBVIOUS
  <2>2. attempt \in [Url -> {"no", "started", "loop", "trying", "end", "ended"}]
    BY Zenon
  <2>3. /\ caller = "away" /\ stopCalled \in BOOLEAN
        /\ running \subseteq Url /\ connected \subseteq Url /\ cancelled \subseteq Url
        /\ offered \subseteq Url /\ open \subseteq Url /\ slow \subseteq Url
    OBVIOUS
  <2> HIDE DEF ConnectionInit, Url
  <2> QED
    BY <2>1, <2>2, <2>3, Zenon DEF ConnectionTypeOK
<1>2. FlagsInv
  BY DEF FlagsInv, NotBegun, Trying
<1>3. CallerInv
  BY DEF CallerInv
<1> QED
  BY <1>1, <1>2, <1>3 DEF ConnectionInv

\* Steps of connectConfigService.
LEMMA CallerKeeps ==
  ASSUME ConnectionInv, CallerStep PROVE ConnectionInv'
<1>c. Urls \in Nat /\ Timeout \in Nat /\ StartPolls \in Nat /\ Urls # 0
  BY ConnectionConstants
<1> USE DEF ConnectionInv, ConnectionTypeOK, FlagsInv, CallerInv,
            Url, NotBegun, Trying, Results, flags
<1>1. CASE StartThread
  <2>1. url + 1 \in Url /\ attempt[url + 1] = "no"
    BY <1>1, <1>c DEF StartThread
  <2>2. ConnectionTypeOK'
    BY <1>1, <2>1, <1>c DEF StartThread
  <2>3. FlagsInv'
    BY <1>1, <2>1, <1>c DEF StartThread
  <2>4. CallerInv'
    BY <1>1, <2>1, <1>c DEF StartThread
  <2> QED
    BY <2>2, <2>3, <2>4
<1>2. CASE PollStart
  <2>1. ConnectionTypeOK'
    BY <1>2, <1>c DEF PollStart
  <2>2. FlagsInv'
    BY <1>2, <1>c DEF PollStart
  <2>3. CallerInv'
    BY <1>2, <1>c DEF PollStart
  <2> QED
    BY <2>1, <2>2, <2>3
<1>3. CASE Wait
  <2>1. ConnectionTypeOK'
    BY <1>3, <1>c DEF Wait, MayWait
  <2>2. FlagsInv'
    BY <1>3, <1>c DEF Wait, MayWait
  <2>3. CallerInv'
    BY <1>3, <1>c DEF Wait, MayWait
  <2> QED
    BY <2>1, <2>2, <2>3
<1>9. CASE WaitStopped
  <2>1. ConnectionTypeOK'
    BY <1>9, <1>c DEF WaitStopped, MayWait
  <2>2. FlagsInv'
    BY <1>9, <1>c DEF WaitStopped, MayWait
  <2>3. CallerInv'
    BY <1>9, <1>c DEF WaitStopped, MayWait
  <2> QED
    BY <2>1, <2>2, <2>3
<1>4. CASE StopWaiting
  <2>1. ConnectionTypeOK'
    BY <1>4, <1>c DEF StopWaiting
  <2>2. FlagsInv'
    BY <1>4, <1>c DEF StopWaiting
  <2>3. CallerInv'
    BY <1>4, <1>c DEF StopWaiting
  <2> QED
    BY <2>1, <2>2, <2>3
<1>5. CASE LookIfRunning
  <2>1. ConnectionTypeOK'
    BY <1>5, <1>c DEF LookIfRunning
  <2>2. FlagsInv'
    BY <1>5, <1>c DEF LookIfRunning
  <2>3. CallerInv'
    BY <1>5, <1>c DEF LookIfRunning
  <2> QED
    BY <2>1, <2>2, <2>3
<1>6. CASE GiveUp
  <2>1. ConnectionTypeOK'
    BY <1>6, <1>c DEF GiveUp
  <2>2. FlagsInv'
    BY <1>6, <1>c DEF GiveUp
  <2>3. CallerInv'
    BY <1>6, <1>c DEF GiveUp
  <2> QED
    BY <2>1, <2>2, <2>3
<1>7. CASE LookIfConnected
  <2>1. ConnectionTypeOK'
    BY <1>7, <1>c DEF LookIfConnected
  <2>2. FlagsInv'
    BY <1>7, <1>c DEF LookIfConnected
  <2>3. CallerInv'
    BY <1>7, <1>c DEF LookIfConnected
  <2> QED
    BY <2>1, <2>2, <2>3
<1> QED
  BY <1>1, <1>2, <1>3, <1>4, <1>5, <1>6, <1>7, <1>9 DEF CallerStep

\* A call of stop().
LEMMA StopKeeps ==
  ASSUME ConnectionInv, StopConnection PROVE ConnectionInv'
<1> USE DEF ConnectionInv, flags, StopConnection
<1>1. ConnectionTypeOK'
  BY ConnectionConstants DEF ConnectionTypeOK, Results
<1>2. FlagsInv'
  <2>1. open' \subseteq connected'
    BY DEF FlagsInv
  <2>2. ASSUME NEW u \in Url, u \in connected \ open' PROVE caller = "established" /\ u = url
    <3>1. CASE u \notin open
      BY <2>2, <3>1 DEF FlagsInv
    <3>2. CASE u = service
      BY <2>2, <3>2, ConnectionConstants DEF CallerInv, Url
    <3> QED
      BY <2>2, <3>1, <3>2
  <2> QED
    BY <2>1, <2>2 DEF FlagsInv
<1>3. CallerInv'
  <2>1. service' = 0 /\ stopCalled'
    OBVIOUS
  <2>2. caller' = "established" => url' \in connected' /\ url' \notin open'
    BY DEF CallerInv
  <2>3. caller' = "failed" =>
          url' \in cancelled' \cup slow' \/ (attempt'[url'] = "ended" /\ url' \notin open')
    BY DEF CallerInv
  <2> QED
    BY <2>1, <2>2, <2>3 DEF CallerInv
<1> QED
  BY <1>1, <1>2, <1>3

\* Steps of a connection thread, and of the user.
LEMMA ThreadKeeps ==
  ASSUME ConnectionInv, NEW u \in Url,
         ThreadStep(u) \/ UserCancels(u)
  PROVE  ConnectionInv'
<1>c. Urls \in Nat /\ Timeout \in Nat /\ StartPolls \in Nat /\ Urls # 0
  BY ConnectionConstants
<1> USE DEF ConnectionInv, ConnectionTypeOK, FlagsInv, CallerInv,
            Url, NotBegun, Trying, Results, flags, Attempt
<1>1. CASE BeginThread(u)
  <2>1. ConnectionTypeOK'
    BY <1>1, <1>c DEF BeginThread
  <2>2. FlagsInv'
    BY <1>1, <1>c DEF BeginThread
  <2>3. CallerInv'
    BY <1>1, <1>c DEF BeginThread
  <2> QED
    BY <2>1, <2>2, <2>3
<1>2. CASE Try(u)
  <2>1. ConnectionTypeOK'
    BY <1>2, <1>c DEF Try
  <2>2. FlagsInv'
    BY <1>2, <1>c DEF Try
  <2>3. CallerInv'
    BY <1>2, <1>c DEF Try
  <2> QED
    BY <2>1, <2>2, <2>3
<1>3. CASE Connects(u)
  <2>1. ConnectionTypeOK'
    BY <1>3, <1>c DEF Connects
  <2>2. FlagsInv'
    BY <1>3, <1>c DEF Connects
  <2>3. CallerInv'
    BY <1>3, <1>c DEF Connects
  <2> QED
    BY <2>1, <2>2, <2>3
<1>4. CASE Refused(u)
  <2>1. ConnectionTypeOK'
    BY <1>4, <1>c DEF Refused
  <2>2. FlagsInv'
    BY <1>4, <1>c DEF Refused
  <2>3. CallerInv'
    BY <1>4, <1>c DEF Refused
  <2> QED
    BY <2>1, <2>2, <2>3
<1>5. CASE TryFails(u)
  <2>1. ConnectionTypeOK'
    BY <1>5, <1>c DEF TryFails
  <2>2. FlagsInv'
    BY <1>5, <1>c DEF TryFails
  <2>3. CallerInv'
    BY <1>5, <1>c DEF TryFails
  <2> QED
    BY <2>1, <2>2, <2>3
<1>6. CASE EndThread(u)
  <2>1. ConnectionTypeOK'
    BY <1>6, <1>c DEF EndThread
  <2>2. FlagsInv'
    BY <1>6, <1>c DEF EndThread
  <2>3. CallerInv'
    BY <1>6, <1>c DEF EndThread
  <2> QED
    BY <2>1, <2>2, <2>3
<1>7. CASE UserCancels(u)
  <2>1. /\ attempt[u] \notin NotBegun
        /\ running' = running \ {u} /\ cancelled' = cancelled \cup {u}
        /\ UNCHANGED <<caller, url, left, service, attempt, connected, offered,
                       stopCalled, open, slow>>
    BY <1>7 DEF UserCancels
  <2>2. ConnectionTypeOK'
    BY <2>1, <1>c
  <2>3. FlagsInv'
    BY <2>1
  <2>4. CallerInv'
    BY <2>1
  <2> QED
    BY <2>2, <2>3, <2>4
<1> QED
  BY <1>1, <1>2, <1>3, <1>4, <1>5, <1>6, <1>7 DEF ThreadStep

\* The invariant holds in every reachable state.
THEOREM ConnectionInvariant == ConnectionSpec => []ConnectionInv
<1>1. ConnectionInit => ConnectionInv
  BY ConnectionInitial
<1>2. ConnectionInv /\ [ConnectionNext]_connectionVars => ConnectionInv'
  <2> SUFFICES ASSUME ConnectionInv, [ConnectionNext]_connectionVars
               PROVE  ConnectionInv'
    OBVIOUS
  <2>1. CASE CallerStep
    BY <2>1, CallerKeeps
  <2>4. CASE StopConnection
    BY <2>4, StopKeeps
  <2>2. CASE \E u \in Url: ThreadStep(u) \/ UserCancels(u)
    BY <2>2, ThreadKeeps
  <2>3. CASE UNCHANGED connectionVars
    BY <2>3 DEF connectionVars, flags, ConnectionInv, ConnectionTypeOK, FlagsInv,
                CallerInv
  <2> QED
    BY <2>1, <2>2, <2>3, <2>4 DEF ConnectionNext
<1> QED
  BY <1>1, <1>2, PTL DEF ConnectionSpec

\* The variables of a service connection have their types.
THEOREM ConnectionTypeCorrect == ConnectionSpec => []ConnectionTypeOK
<1>1. ConnectionInv => ConnectionTypeOK
  BY DEF ConnectionInv
<1> QED
  BY <1>1, ConnectionInvariant, PTL

\* For any urls and timeout: when connectConfigService has returned and says it
\* is connected, it has an open connection, unless stop() has closed it; of the
\* other urls' threads only those that were given up, or left alone, because they
\* had not begun in time or stop() was called, may have connections (OpsiService.py).
THEOREM ConnectionsLeft == ConnectionSpec => []OneConnection
<1>c. Urls \in Nat
  BY ConnectionConstants
<1>1. ASSUME ConnectionInv PROVE OneConnection
  <2> USE <1>1 DEF ConnectionInv, ConnectionTypeOK
  <2> SUFFICES ASSUME caller \in Results PROVE
      /\ service # 0 => caller = "established" /\ service = url /\ service \in open
      /\ caller = "established" => service # 0 \/ stopCalled
      /\ \A u \in open \ {service}: u \in cancelled \/ Abandoned(u)
    BY DEF OneConnection
  <2>1. /\ service # 0 => caller = "established" /\ service = url /\ service \in open
        /\ caller = "established" => service # 0 \/ stopCalled
    BY DEF CallerInv
  <2>2. ASSUME NEW u \in open \ {service} PROVE u \in cancelled \/ Abandoned(u)
    <3>1. u \in Url /\ u \in Nat /\ url \in Nat
      BY <1>c DEF Url
    <3>2. CASE u < url
      BY <3>1, <3>2 DEF FlagsInv
    <3>3. CASE u = url
      BY <3>1, <3>3 DEF CallerInv, Results, Abandoned
    <3>4. ~(u > url)
      BY <3>1 DEF FlagsInv, NotBegun
    <3>5. u < url \/ u = url
      BY <3>1, <3>4
    <3> QED
      BY <3>2, <3>3, <3>5
  <2> QED
    BY <2>1, <2>2
<1> QED
  BY <1>1, ConnectionInvariant, PTL

-----------------------------------------------------------------------------
(* StateFile                                                               *)

\* The dict before anything is set.
LEMMA NothingType == Nothing \in States
BY DEF Nothing, States

\* The inductive invariant holds at first.
LEMMA StateInitial ==
  ASSUME StateInit PROVE StateInv
BY NothingType, StateAssumption
DEF StateInit, StateInv, StateTypeOK, OneWriter, Pending

\* A value is set in the dict.
LEMMA SetKeeps ==
  ASSUME StateInv, NEW t \in Setters, NEW n \in Names,
         NEW v \in StateValues, Set(t, n, v)
  PROVE  StateInv'
<1>1. StateTypeOK'
  BY DEF StateInv, StateTypeOK, Set, States
<1>2. setter[t] = "away" /\ setter' = [setter EXCEPT ![t] = "set"]
      /\ stateLock' = stateLock
  BY DEF Set
<1>3. Pending'
  BY <1>2 DEF StateInv, StateTypeOK, Pending
<1>4. OneWriter'
  BY <1>2 DEF StateInv, StateTypeOK, OneWriter
<1> QED
  BY <1>1, <1>3, <1>4 DEF StateInv

\* The lock is taken and the text made: it is that of the dict as it is now.
LEMMA DumpKeeps ==
  ASSUME StateInv, NEW t \in Setters, Dump(t)
  PROVE  StateInv'
<1>1. StateTypeOK'
  BY DEF StateInv, StateTypeOK, Dump
<1>2. OneWriter'
  BY StateAssumption DEF StateInv, StateTypeOK, OneWriter, Dump
<1>3. stateLock' = t /\ dumped'[t] = state'
  BY DEF StateInv, StateTypeOK, Dump
<1> QED
  BY <1>1, <1>2, <1>3, StateAssumption DEF StateInv

\* The file is emptied.
LEMMA OpenFileKeeps ==
  ASSUME StateInv, NEW t \in Setters, OpenFile(t)
  PROVE  StateInv'
<1>1. StateTypeOK'
  BY DEF StateInv, StateTypeOK, OpenFile
<1>2. OneWriter'
  BY DEF StateInv, StateTypeOK, OneWriter, OpenFile
<1>3. stateLock = t /\ t # None
  BY StateAssumption DEF StateInv, OneWriter, OpenFile
<1>4. Pending => Pending'
  BY DEF StateInv, StateTypeOK, Pending, OpenFile
<1> QED
  BY <1>1, <1>2, <1>3, <1>4 DEF StateInv, OpenFile

\* The file is written: with the dict, or somebody will write again.
LEMMA WriteFileKeeps ==
  ASSUME StateInv, NEW t \in Setters, WriteFile(t)
  PROVE  StateInv'
<1>1. StateTypeOK'
  BY DEF StateInv, StateTypeOK, WriteFile
<1>2. stateLock = t /\ stateLock' = None
  BY DEF StateInv, OneWriter, WriteFile
<1>3. OneWriter'
  BY <1>2, StateAssumption DEF StateInv, StateTypeOK, OneWriter, WriteFile
<1>4. Pending => Pending'
  BY DEF StateInv, StateTypeOK, Pending, WriteFile
<1>5. file' = state' \/ Pending'
  BY <1>2, <1>4 DEF StateInv, WriteFile
<1> QED
  BY <1>1, <1>2, <1>3, <1>5, StateAssumption DEF StateInv

\* The write has failed.
LEMMA WriteFailsKeeps ==
  ASSUME StateInv, NEW t \in Setters, WriteFails(t)
  PROVE  StateInv'
<1>1. StateTypeOK'
  BY DEF StateInv, StateTypeOK, WriteFails
<1>2. stateLock = t /\ stateLock' = None
  BY DEF StateInv, OneWriter, WriteFails
<1>3. OneWriter'
  BY <1>2, StateAssumption DEF StateInv, StateTypeOK, OneWriter, WriteFails
<1> QED
  BY <1>1, <1>2, <1>3, StateAssumption DEF StateInv, WriteFails

\* The main thread has yet to write what the start has reset.
LEMMA RestartKeeps ==
  ASSUME StateInv, RestartState
  PROVE  StateInv'
<1>1. (IF file = None THEN Nothing ELSE file) \in States
  BY NothingType DEF StateInv, StateTypeOK
<1>2. state' \in States
  BY <1>1, StateAssumption DEF RestartState, States
<1>3. StateTypeOK'
  BY <1>2 DEF StateInv, StateTypeOK, RestartState
<1>4. OneWriter' /\ Pending'
  BY StateAssumption DEF OneWriter, Pending, RestartState
<1> QED
  BY <1>3, <1>4, StateAssumption DEF StateInv, RestartState

\* Nothing changes.
LEMMA StateStutters ==
  ASSUME StateInv, UNCHANGED stateVars PROVE StateInv'
BY DEF StateInv, StateTypeOK, OneWriter, Pending, stateVars

\* The inductive invariant holds in every reachable state.
THEOREM StateInvariant == StateSpec => []StateInv
<1>1. StateInit => StateInv
  BY StateInitial
<1>2. StateInv /\ [StateNext]_stateVars => StateInv'
  <2> SUFFICES ASSUME StateInv, [StateNext]_stateVars PROVE StateInv'
    OBVIOUS
  <2>1. CASE \E t \in Setters, n \in Names, v \in StateValues: Set(t, n, v)
    BY <2>1, SetKeeps
  <2>2. CASE \E t \in Setters: Dump(t)
    BY <2>2, DumpKeeps
  <2>3. CASE \E t \in Setters: OpenFile(t)
    BY <2>3, OpenFileKeeps
  <2>4. CASE \E t \in Setters: WriteFile(t)
    BY <2>4, WriteFileKeeps
  <2>5. CASE \E t \in Setters: WriteFails(t)
    BY <2>5, WriteFailsKeeps
  <2>6. CASE RestartState
    BY <2>6, RestartKeeps
  <2>7. CASE UNCHANGED stateVars
    BY <2>7, StateStutters
  <2> QED
    BY <2>1, <2>2, <2>3, <2>4, <2>5, <2>6, <2>7 DEF StateNext
<1> QED
  BY <1>1, <1>2, PTL DEF StateSpec

\* The state file's variables keep their types (State.py).
THEOREM StateTypeCorrect == StateSpec => []StateTypeOK
<1>1. StateInv => StateTypeOK
  BY DEF StateInv
<1> QED
  BY <1>1, StateInvariant, PTL

\* When no thread is in set(), the file has all that was set, unless the last
\* attempt to write it has failed (State.set, _writeStateFile).
THEOREM SetsAreWritten == StateSpec => []SetIsWritten
<1>1. ASSUME StateInv PROVE SetIsWritten
  <2> SUFFICES ASSUME \A t \in Setters: setter[t] = "away"
               PROVE  file = state \/ failed
    BY DEF SetIsWritten
  <2>1. ~Pending
    BY DEF Pending
  <2>2. stateLock = None
    BY <1>1 DEF StateInv, StateTypeOK, OneWriter
  <2> QED
    BY <1>1, <2>1, <2>2 DEF StateInv
<1> QED
  BY <1>1, StateInvariant, PTL

-----------------------------------------------------------------------------
(* Timeline                                                                *)

\* Where a writer holds _db_lock.
Holding == {"insert", "update", "recreate"}

\* A writer holds the lock while it is in the database; whoever comes to it
\* after stop() had passed the test of _stopped before.
TimelineInv ==
  /\ TimelineTypeOK
  /\ \A w \in Writers: writer[w] \in Holding <=> dbLock = w
  /\ stopped <=> daemon \in {"stopping", "stopped"}
  /\ stopped => \A w \in Writers: writer[w] \in {"add", "end"} => w \in lateWriters
  /\ daemon = "stopped" => \A w \in Writers: writer[w] \in Holding => w \in lateWriters
  /\ StopEndsEvents

\* The invariant holds at first.
LEMMA TimelineInitial ==
  ASSUME TimelineInit PROVE TimelineInv
BY TimelineAssumption DEF TimelineInit, TimelineInv, TimelineTypeOK,
       StopEndsEvents, Holding

\* Steps of the daemon, and damages of the database.
LEMMA TimelineDaemonKeeps ==
  ASSUME TimelineInv,
         StartTimeline \/ Cleanup \/ StopTimeline \/ EndEvents \/ EndProcess \/ Break
  PROVE  TimelineInv'
<1> USE TimelineAssumption DEF TimelineInv, TimelineTypeOK, StopEndsEvents, Holding
<1>1. CASE StartTimeline
  BY <1>1 DEF StartTimeline
<1>2. CASE Cleanup
  BY <1>2 DEF Cleanup
<1>3. CASE StopTimeline
  BY <1>3 DEF StopTimeline
<1>4. CASE EndEvents
  BY <1>4 DEF EndEvents
<1>5. CASE EndProcess
  BY <1>5 DEF EndProcess
<1>6. CASE Break
  BY <1>6 DEF Break
<1> QED
  BY <1>1, <1>2, <1>3, <1>4, <1>5, <1>6

\* Steps of a writer.
LEMMA WriterKeeps ==
  ASSUME TimelineInv, NEW w \in Writers, Call(w) \/ WriterStep(w)
  PROVE  TimelineInv'
<1> USE TimelineAssumption DEF TimelineInv, TimelineTypeOK, StopEndsEvents, Holding,
            Write
<1>1. CASE Call(w)
  BY <1>1 DEF Call
<1>2. CASE Lock(w)
  BY <1>2 DEF Lock
<1>3. CASE Insert(w)
  BY <1>3 DEF Insert
<1>4. CASE InsertFails(w)
  BY <1>4 DEF InsertFails
<1>5. CASE InsertFailsOtherwise(w)
  BY <1>5 DEF InsertFailsOtherwise
<1>6. CASE Update(w)
  BY <1>6 DEF Update
<1> QED
  BY <1>1, <1>2, <1>3, <1>4, <1>5, <1>6 DEF WriterStep, HolderStep

\* The invariant holds in every reachable state.
THEOREM TimelineInvariant == TimelineSpec => []TimelineInv
<1>1. TimelineInit => TimelineInv
  BY TimelineInitial
<1>2. TimelineInv /\ [TimelineNext]_timelineVars => TimelineInv'
  <2> SUFFICES ASSUME TimelineInv, [TimelineNext]_timelineVars PROVE TimelineInv'
    OBVIOUS
  <2>1. CASE StartTimeline \/ Cleanup \/ StopTimeline \/ EndEvents \/ EndProcess \/ Break
    BY <2>1, TimelineDaemonKeeps
  <2>2. CASE \E w \in Writers: Call(w) \/ WriterStep(w)
    BY <2>2, WriterKeeps
  <2>3. CASE UNCHANGED timelineVars
    BY <2>3 DEF timelineVars, TimelineInv, TimelineTypeOK, StopEndsEvents
  <2> QED
    BY <2>1, <2>2, <2>3 DEF TimelineNext
<1> QED
  BY <1>1, <1>2, PTL DEF TimelineSpec

\* The variables of the timeline have their types.
THEOREM TimelineTypeCorrect == TimelineSpec => []TimelineTypeOK
<1>1. TimelineInv => TimelineTypeOK
  BY DEF TimelineInv
<1> QED
  BY <1>1, TimelineInvariant, PTL

\* For any writers: when the daemon has stopped, events of the timeline have
\* ended, but for those of writers that were about to take the lock when it
\* stopped (Timeline.stop, addEvent).
THEOREM EventsEnd == TimelineSpec => []StopEndsEvents
<1>1. TimelineInv => StopEndsEvents
  BY DEF TimelineInv
<1> QED
  BY <1>1, TimelineInvariant, PTL

-----------------------------------------------------------------------------
(* SelfUpdate                                                              *)

\* A place a start finds, with a whole installation.
Whole(p) == p # Nowhere /\ dir[p] = "whole"

\* _selfUpdating lets one thread in at a time, unless two have tested it before
\* either set it.
OneUpdater ==
  \A u, v \in Updaters : updater[u] # "away" /\ updater[v] # "away" => u = v

\* What a thread relies on at each of its stages: the installation in use is
\* whole until the new one is next to it, and the place it clears is another.
AtStage(u) ==
  /\ updater[u] \in {"asked", "prepare", "clear", "clearing", "move", "unlink"} =>
       Whole(Used)
  /\ updater[u] \in {"clear", "clearing", "move"} => spare[u] \in Places \ {Used}
  /\ updater[u] = "move" => dir[spare[u]] = "none"
  /\ updater[u] = "install" =>
       ~windows /\ dir["inst"] = "none" /\ dir["old"] = "whole"
  /\ updater[u] \in {"unlink", "link"} =>
       windows /\ spare[u] \in Places /\ dir[spare[u]] = "whole"
  /\ updater[u] = "link" => link = Nowhere \/ dir[link] = "whole"

UpdateInv ==
  /\ UpdateTypeOK
  /\ ~raced => /\ InstallationKept
               /\ OneUpdater
               /\ \A u \in Updaters : AtStage(u)

\* The invariant holds at first.
LEMMA UpdateInitial == ASSUME UpdateInit PROVE UpdateInv
<1>1. UpdateTypeOK
  BY DEF UpdateInit, UpdateTypeOK, Places, Contents, UpdateStages
<1>2. InstallationKept
  BY DEF UpdateInit, InstallationKept, Used, Installed, Places
<1>3. OneUpdater /\ \A u \in Updaters : AtStage(u)
  BY DEF UpdateInit, OneUpdater, AtStage
<1> QED
  BY <1>1, <1>2, <1>3 DEF UpdateInv

\* A step of a thread keeps the types, whatever others do.
LEMMA UpdateStepType ==
  ASSUME UpdateTypeOK, UNCHANGED windows, NEW u \in Updaters, UpdateStep(u)
  PROVE  UpdateTypeOK'
<1> USE DEF UpdateTypeOK, GoOn, UpdateStages, Contents, Places
<1>1. CASE Ask(u)
  BY <1>1 DEF Ask
<1>2. CASE Flag(u)
  BY <1>2 DEF Flag
<1>3. CASE Prepare(u)
  BY <1>3 DEF Prepare
<1>4. CASE BeginClearing(u)
  BY <1>4 DEF BeginClearing
<1>5. CASE NothingToClear(u)
  BY <1>5 DEF NothingToClear
<1>6. CASE Cleared(u)
  BY <1>6 DEF Cleared
<1>7. CASE MoveAside(u)
  BY <1>7 DEF MoveAside
<1>8. CASE Install(u)
  BY <1>8 DEF Install
<1>9. CASE Unlink(u)
  BY <1>9 DEF Unlink
<1>10. CASE Link(u)
  BY <1>10 DEF Link
<1>11. CASE Leave(u)
  BY <1>11 DEF Leave
<1> QED
  BY <1>1, <1>2, <1>3, <1>4, <1>5, <1>6, <1>7, <1>8, <1>9, <1>10, <1>11
  DEF UpdateStep


\* What a step of a thread leaves as it is when no other thread is at an update:
\* the others are away.
LEMMA UpdateStepAlone ==
  ASSUME UpdateInv, UNCHANGED windows, NEW u \in Updaters, UpdateStep(u), ~raced'
  PROVE  /\ ~raced /\ OneUpdater'
         /\ \A v \in Updaters \ {u} : updater[v] = "away" /\ updater'[v] = "away"
<1> USE DEF UpdateInv, UpdateTypeOK, OneUpdater, GoOn
<1>1. CASE Ask(u)
  BY <1>1 DEF Ask
<1>2. CASE ~Ask(u)
  <2>1. raced' = raced /\ updater[u] # "away"
    BY <1>2 DEF UpdateStep, Flag, Prepare, BeginClearing, NothingToClear, Cleared,
                MoveAside, Install, Unlink, Link, Leave
  <2>2. \A v \in Updaters \ {u} : updater'[v] = updater[v]
    BY <1>2 DEF UpdateStep, Flag, Prepare, BeginClearing, NothingToClear, Cleared,
                MoveAside, Install, Unlink, Link, Leave
  <2> QED
    BY <2>1, <2>2
<1> QED
  BY <1>1, <1>2

\* A thread at an update leaves a whole installation in use, or next to the place
\* of a missing one.
LEMMA UpdateStepKeeps ==
  ASSUME UpdateInv, UNCHANGED windows, NEW u \in Updaters, UpdateStep(u), ~raced'
  PROVE  InstallationKept' /\ AtStage(u)'
<1>1. ~raced /\ InstallationKept /\ AtStage(u) /\ UpdateTypeOK
  BY UpdateStepAlone DEF UpdateInv
<1>2. updater'[u] \in UpdateStages /\ Nowhere \notin Places
  BY UpdateAssumption, UpdateStepType DEF UpdateInv, UpdateTypeOK, Places
<1> USE <1>1, <1>2
    DEF UpdateTypeOK, InstallationKept, AtStage, Installed, Used, Whole, GoOn, Places,
        Contents
<1>3. CASE Ask(u)
  BY <1>3 DEF Ask
<1>4. CASE Flag(u)
  BY <1>4 DEF Flag
<1>5. CASE Prepare(u)
  BY <1>5 DEF Prepare
<1>6. CASE BeginClearing(u)
  BY <1>6 DEF BeginClearing
<1>7. CASE NothingToClear(u)
  BY <1>7 DEF NothingToClear
<1>8. CASE Cleared(u)
  BY <1>8 DEF Cleared
<1>9. CASE MoveAside(u)
  BY <1>9 DEF MoveAside
<1>10. CASE Install(u)
  BY <1>10 DEF Install
<1>11. CASE Unlink(u)
  BY <1>11 DEF Unlink
<1>12. CASE Link(u)
  BY <1>12 DEF Link
<1>13. CASE Leave(u)
  BY <1>13 DEF Leave
<1> QED
  BY <1>3, <1>4, <1>5, <1>6, <1>7, <1>8, <1>9, <1>10, <1>11, <1>12, <1>13
  DEF UpdateStep

\* The invariant is kept by the daemon's stop and start.
LEMMA UpdateDaemonKeeps ==
  ASSUME UpdateInv, UNCHANGED windows, StopDaemon \/ StartDaemon
  PROVE  UpdateInv'
<1>1. UpdateTypeOK'
  BY DEF UpdateInv, UpdateTypeOK, StopDaemon, StartDaemon, UpdateStages, Places
<1>2. UNCHANGED <<dir, link, raced>>
  BY DEF StopDaemon, StartDaemon
<1>3. InstallationKept' = InstallationKept
  BY <1>2 DEF InstallationKept, Installed, Used, Places
<1>4. CASE StopDaemon
  <2>1. \A u \in Updaters : updater'[u] = "away"
    BY <1>4 DEF StopDaemon
  <2>2. OneUpdater' /\ \A u \in Updaters : AtStage(u)'
    BY <2>1 DEF OneUpdater, AtStage
  <2> QED
    BY <1>1, <1>2, <1>3, <2>2 DEF UpdateInv
<1>5. CASE StartDaemon
  <2>1. UNCHANGED <<updater, spare>>
    BY <1>5 DEF StartDaemon
  <2>2. /\ OneUpdater' = OneUpdater
        /\ \A u \in Updaters : AtStage(u)' = AtStage(u)
    BY <1>2, <2>1 DEF OneUpdater, AtStage, Whole, Used, Places
  <2> QED
    BY <1>1, <1>2, <1>3, <2>2 DEF UpdateInv
<1> QED
  BY <1>4, <1>5

\* The invariant holds in every reachable state.
THEOREM UpdateInvariant == UpdateSpec => []UpdateInv
<1>1. UpdateInit => UpdateInv
  BY UpdateInitial
<1>2. UpdateInv /\ [UpdateNext]_updateVars => UpdateInv'
  <2> SUFFICES ASSUME UpdateInv, [UpdateNext]_updateVars PROVE UpdateInv'
    OBVIOUS
  <2>1. ASSUME UNCHANGED windows, NEW u \in Updaters, UpdateStep(u)
        PROVE  UpdateInv'
    <3>1. UpdateTypeOK'
      BY <2>1, UpdateStepType DEF UpdateInv
    <3>2. ASSUME ~raced' PROVE InstallationKept' /\ OneUpdater' /\ AtStage(u)'
      BY <2>1, <3>2, UpdateStepAlone, UpdateStepKeeps
    <3>3. ASSUME ~raced', NEW v \in Updaters \ {u} PROVE AtStage(v)'
      BY <2>1, <3>3, UpdateStepAlone DEF AtStage
    <3> QED
      BY <3>1, <3>2, <3>3 DEF UpdateInv
  <2>2. CASE UNCHANGED updateVars
    BY <2>2 DEF updateVars, UpdateInv, UpdateTypeOK, InstallationKept, OneUpdater,
                AtStage, Whole, Installed, Used, Places
  <2> QED
    BY <2>1, <2>2, UpdateDaemonKeeps DEF UpdateNext
<1> QED
  BY <1>1, <1>2, PTL DEF UpdateSpec

\* The variables of self updates have their types.
THEOREM UpdateTypeCorrect == UpdateSpec => []UpdateTypeOK
<1>1. UpdateInv => UpdateTypeOK
  BY DEF UpdateInv
<1> QED
  BY <1>1, UpdateInvariant, PTL

\* On either platform, for any number of threads that update the daemon one after
\* the other, whatever fails and whenever the daemon is stopped: a start finds a
\* whole installation, or none and a whole one next to its place
\* (self_update_from_file, restart).
THEOREM UpdatesKeepInstallation == UpdateSpec => []InstallationKept
<1>1. UpdateInv => InstallationKept
  BY DEF UpdateInv, InstallationKept
<1> QED
  BY <1>1, UpdateInvariant, PTL
-----------------------------------------------------------------------------
(* Popups                                                                  *)

ShowAgent(p) == <<"show", p>>
CloseAgent(p) == <<"close", p>>

\* The caller of showPopup that holds _popupNotificationLock is the only one to
\* change _popupNotificationServer; a server that has not got to the point where
\* it forgets requests to stop is still waited for, unless its caller gave up.
CallersInv ==
  \A p \in Popups :
    /\ showing[p] \in {"hide", "start", "wait", "notify"} <=> lock = p
    /\ showing[p] \in {"start", "wait", "notify"} => current = p
    /\ current = p => showing[p] \notin {"no", "lock", "hide"}
    /\ run[p] \in {"starting", "opening"} => showing[p] = "wait" \/ p \in tooLate
    /\ hider[ShowAgent(p)].at # "away" => showing[p] = "hide"

\* How far a caller of showPopup has got with hiding the popup before.
HidingInv ==
  \A p \in Popups :
    /\ hider[ShowAgent(p)].at \in {"stop", "lock", "wait", "hidden"} =>
         (closer \in Popups /\ thread[closer] = "waiting" => closer \in halted)
    /\ hider[ShowAgent(p)].at \in {"lock", "wait", "hidden"} =>
         current = NoPopup \/ current \in shouldStop \cup tooLate

\* A closing thread that still waits is that of the popup that is shown, or has
\* been told to stop; one that hides popups began while its own was shown.
ClosersInv ==
  \A p \in Popups :
    /\ thread[p] # "no" => showing[p] = "shown"
    /\ thread[p] = "waiting" => p \in halted \/ (closer = p /\ current = p)
    /\ thread[p] = "hiding" => p \in woken \/ current = p
    /\ hider[CloseAgent(p)].at # "away" => thread[p] = "hiding"

PopupsInv ==
  /\ PopupsTypeOK
  /\ CallersInv
  /\ HidingInv
  /\ ClosersInv
  /\ ReplacedIsStopped
  /\ LastDecidesEnd

\* The invariant holds at first.
LEMMA PopupsInitial == ASSUME PopupsInit PROVE PopupsInv
BY PopupsAssumption
DEF PopupsInit, PopupsInv, PopupsTypeOK, CallersInv, HidingInv, ClosersInv,
    ReplacedIsStopped, LastDecidesEnd, ShowAgent, CloseAgent, Agents, Away

\* One step of hidePopup leaves an agent at a stage of it.
LEMMA HidingType ==
  ASSUME PopupsTypeOK, NEW a \in Agents, NEW from, NEW to, Hiding(a, from, to),
         to \in {"stop", "wait", "hidden"}
  PROVE  hider' \in [Agents -> [at: {"away", "begin", "stop", "lock", "wait", "hidden"},
                                server: Popups \cup {NoPopup}]]
BY DEF PopupsTypeOK, Hiding

\* Hiding a popup keeps the types.
LEMMA HideStepType ==
  ASSUME PopupsTypeOK, NEW a \in Agents,
         HideStep(a)
  PROVE  PopupsTypeOK'
<1> USE DEF PopupsTypeOK, popupHistory, Show, Run, Away, Agents
<1>1. CASE StopCloser(a)
  BY <1>1, HidingType DEF StopCloser, Alive
<1>2. CASE TellServer(a)
  BY <1>2 DEF TellServer
<1>3. CASE LockServer(a)
  BY <1>3, HidingType DEF LockServer
<1>4. CASE Waited(a)
  BY <1>4, HidingType DEF Waited
<1> QED
  BY <1>1, <1>2, <1>3, <1>4 DEF HideStep, ShowStep, ServerStep, CloserStep

\* So does showing one,
LEMMA ShowStepType ==
  ASSUME PopupsTypeOK, NEW p \in Popups,
         ShowStep(p) \/ CallShow(p)
  PROVE  PopupsTypeOK'
<1> USE DEF PopupsTypeOK, popupHistory, Show, Run, Away, Agents
<1>1. CASE CallShow(p)
  BY <1>1 DEF CallShow
<1>2. CASE BeginShow(p)
  BY <1>2 DEF BeginShow
<1>3. CASE CreateServer(p)
  BY <1>3 DEF CreateServer
<1>4. CASE StartServer(p)
  BY <1>4 DEF StartServer
<1>5. CASE ServerReady(p)
  BY <1>5 DEF ServerReady
<1>6. CASE ServerNotReady(p)
  BY <1>6 DEF ServerNotReady
<1>7. CASE EndShow(p)
  BY <1>7 DEF EndShow, Alive
<1> QED
  BY <1>1, <1>2, <1>3, <1>4, <1>5, <1>6, <1>7 DEF HideStep, ShowStep, ServerStep, CloserStep

\* so do the threads of the servers,
LEMMA ServerStepType ==
  ASSUME PopupsTypeOK, NEW p \in Popups,
         ServerStep(p)
  PROVE  PopupsTypeOK'
<1> USE DEF PopupsTypeOK, popupHistory, Show, Run, Away, Agents
<1>1. CASE ResetStop(p)
  BY <1>1 DEF ResetStop
<1>2. CASE OpenServer(p)
  BY <1>2 DEF OpenServer
<1>3. CASE OpenFails(p)
  BY <1>3 DEF OpenFails
<1>4. CASE CloseServer(p)
  BY <1>4 DEF CloseServer
<1>5. CASE EndServer(p)
  BY <1>5 DEF EndServer
<1> QED
  BY <1>1, <1>2, <1>3, <1>4, <1>5 DEF HideStep, ShowStep, ServerStep, CloserStep

\* and closing threads and users.
LEMMA CloserStepType ==
  ASSUME PopupsTypeOK, NEW p \in Popups,
         CloserStep(p) \/ UserCloses(p)
  PROVE  PopupsTypeOK'
<1> USE DEF PopupsTypeOK, popupHistory, Show, Run, Away, Agents
<1>1. CASE TimeOver(p)
  BY <1>1 DEF TimeOver
<1>2. CASE Halt(p)
  BY <1>2 DEF Halt
<1>3. CASE EndCloser(p)
  BY <1>3 DEF EndCloser
<1>4. CASE UserCloses(p)
  BY <1>4 DEF UserCloses
<1> QED
  BY <1>1, <1>2, <1>3, <1>4 DEF HideStep, ShowStep, ServerStep, CloserStep


\* Who the agents are: callers of showPopup, closing threads, users.
LEMMA AgentFacts ==
  /\ \A p \in Popups : /\ ShowAgent(p) \in Agents /\ CloseAgent(p) \in Agents
                       /\ <<"user", p>> \in Agents
  /\ \A p, q \in Popups : /\ ShowAgent(p) # CloseAgent(q)
                          /\ ShowAgent(p) = ShowAgent(q) => p = q
                          /\ CloseAgent(p) = CloseAgent(q) => p = q
                          /\ <<"user", p>> # ShowAgent(q) /\ <<"user", p>> # CloseAgent(q)
  /\ \A a \in Agents : a[1] = "close" => a[2] \in Popups /\ a = CloseAgent(a[2])
BY DEF Agents, ShowAgent, CloseAgent

\* Hiding a popup.
LEMMA HideStepKeeps ==
  ASSUME PopupsInv, NEW a \in Agents, HideStep(a)
  PROVE  PopupsInv'
<1>0. PopupsTypeOK'
  BY HideStepType DEF PopupsInv
<1> USE PopupsAssumption, AgentFacts DEF PopupsInv, PopupsTypeOK, popupHistory, Away
<1>1. CASE StopCloser(a)
  <2>1. /\ hider[a].at = "begin"
        /\ hider' = [hider EXCEPT ![a].at = "stop"]
        /\ halted' = IF Alive(closer) THEN halted \cup {closer} ELSE halted
        /\ UNCHANGED <<showing, lock, current, closer, run, shouldStop, thread, tooLate,
                       woken, endedBy>>
    BY <1>1 DEF StopCloser, Hiding
  <2>2. CallersInv'
    <3>1. \A b \in Agents : hider'[b].at # "away" => hider[b].at # "away"
      BY <2>1
    <3>2. UNCHANGED <<showing, lock, current, run, tooLate>>
      BY <2>1
    <3> HIDE <2>1
    <3> QED
      BY <3>1, <3>2 DEF CallersInv
  <2>3. HidingInv'
    BY <2>1 DEF HidingInv, Alive
  <2>4. ClosersInv'
    BY <2>1 DEF ClosersInv
  <2>5. ReplacedIsStopped' /\ LastDecidesEnd'
    BY <2>1 DEF ReplacedIsStopped, LastDecidesEnd
  <2> QED
    BY <1>0, <2>2, <2>3, <2>4, <2>5
<1>2. CASE TellServer(a)
  <2>1. /\ hider[a].at = "stop"
        /\ \A b \in Agents \ {a} : hider'[b] = hider[b]
        /\ hider'[a].at = IF current = NoPopup THEN "hidden" ELSE "lock"
        /\ shouldStop' = IF current = NoPopup THEN shouldStop
                         ELSE shouldStop \cup {current}
        /\ UNCHANGED <<showing, lock, current, closer, run, thread, halted, tooLate,
                       woken>>
    BY <1>2 DEF TellServer
  <2>2. CallersInv'
    <3>1. \A b \in Agents : hider'[b].at # "away" => hider[b].at # "away"
      BY <2>1
    <3>2. UNCHANGED <<showing, lock, current, run, tooLate>>
      BY <2>1
    <3> HIDE <2>1
    <3> QED
      BY <3>1, <3>2 DEF CallersInv
  <2>3. HidingInv'
    BY <2>1 DEF HidingInv
  <2>4. ClosersInv'
    BY <2>1 DEF ClosersInv
  <2>5. ReplacedIsStopped'
    BY <2>1 DEF ReplacedIsStopped
  <2>6. LastDecidesEnd'
    <3>1. CASE endedBy' = endedBy
      BY <2>1, <3>1 DEF LastDecidesEnd
    <3>2. CASE /\ current \in Popups /\ a[1] = "close"
               /\ endedBy' = [endedBy EXCEPT ![current] = @ \cup {a[2]}]
      <4>1. a[2] \in Popups /\ thread[a[2]] = "hiding"
        BY <2>1, <3>2 DEF ClosersInv
      <4>2. a[2] = current \/ a[2] \in woken
        BY <4>1 DEF ClosersInv
      <4> QED
        BY <2>1, <3>2, <4>2 DEF LastDecidesEnd
    <3> QED
      BY <1>2, <3>1, <3>2 DEF TellServer
  <2> QED
    BY <1>0, <2>2, <2>3, <2>4, <2>5, <2>6
<1>3. CASE LockServer(a) \/ Waited(a)
  <2>1. /\ \/ hider[a].at = "lock" /\ hider'[a].at = "wait"
           \/ hider[a].at = "wait" /\ hider'[a].at = "hidden"
        /\ \A b \in Agents \ {a} : hider'[b] = hider[b]
        /\ UNCHANGED <<showing, lock, current, closer, run, shouldStop, thread, halted,
                       tooLate, woken, endedBy>>
    BY <1>3 DEF LockServer, Waited, Hiding
  <2>2. CallersInv'
    <3>1. \A b \in Agents : hider'[b].at # "away" => hider[b].at # "away"
      BY <2>1
    <3>2. UNCHANGED <<showing, lock, current, run, tooLate>>
      BY <2>1
    <3> HIDE <2>1
    <3> QED
      BY <3>1, <3>2 DEF CallersInv
  <2>3. HidingInv'
    BY <2>1 DEF HidingInv
  <2>4. ClosersInv'
    BY <2>1 DEF ClosersInv
  <2>5. ReplacedIsStopped' /\ LastDecidesEnd'
    BY <2>1 DEF ReplacedIsStopped, LastDecidesEnd
  <2> QED
    BY <1>0, <2>2, <2>3, <2>4, <2>5
<1> QED
  BY <1>1, <1>2, <1>3 DEF HideStep


\* What a step of a popup's own leaves to the other popups.
LEMMA ShowStepKeeps ==
  ASSUME PopupsInv, NEW p \in Popups, ShowStep(p) \/ CallShow(p)
  PROVE  PopupsInv'
<1>0. PopupsTypeOK'
  BY ShowStepType DEF PopupsInv
<1> USE PopupsAssumption, AgentFacts DEF PopupsInv, PopupsTypeOK, popupHistory, Away
<1>1. CASE CallShow(p)
  <2>1. /\ showing[p] = "no" /\ showing' = [showing EXCEPT ![p] = "lock"]
        /\ UNCHANGED <<lock, current, closer, run, shouldStop, thread, halted, hider,
                       tooLate, woken, endedBy>>
    BY <1>1 DEF CallShow, Show
  <2>2. CallersInv'
    BY <2>1 DEF CallersInv
  <2>3. HidingInv'
    BY <2>1 DEF HidingInv
  <2>4. ClosersInv'
    BY <2>1 DEF ClosersInv
  <2>5. ReplacedIsStopped' /\ LastDecidesEnd'
    BY <2>1 DEF ReplacedIsStopped, LastDecidesEnd
  <2> QED
    BY <1>0, <2>2, <2>3, <2>4, <2>5
<1>2. CASE BeginShow(p)
  <2>1. /\ showing[p] = "lock" /\ showing' = [showing EXCEPT ![p] = "hide"]
        /\ lock = NoPopup /\ lock' = p
        /\ hider'[ShowAgent(p)].at = "begin"
        /\ \A q \in Popups \ {p} : hider'[ShowAgent(q)] = hider[ShowAgent(q)]
        /\ \A q \in Popups : hider'[CloseAgent(q)] = hider[CloseAgent(q)]
        /\ UNCHANGED <<current, closer, run, shouldStop, thread, halted, tooLate, woken,
                       endedBy>>
    BY <1>2 DEF BeginShow, Show, ShowAgent
  <2>2. CallersInv'
    BY <2>1 DEF CallersInv
  <2>3. HidingInv'
    BY <2>1 DEF HidingInv
  <2>4. ClosersInv'
    BY <2>1 DEF ClosersInv
  <2>5. ReplacedIsStopped' /\ LastDecidesEnd'
    BY <2>1 DEF ReplacedIsStopped, LastDecidesEnd
  <2> QED
    BY <1>0, <2>2, <2>3, <2>4, <2>5
<1>3. CASE CreateServer(p)
  <2>1. /\ showing[p] = "hide" /\ showing' = [showing EXCEPT ![p] = "start"]
        /\ hider[ShowAgent(p)].at = "hidden"
        /\ hider'[ShowAgent(p)].at = "away"
        /\ \A q \in Popups \ {p} : hider'[ShowAgent(q)] = hider[ShowAgent(q)]
        /\ \A q \in Popups : hider'[CloseAgent(q)] = hider[CloseAgent(q)]
        /\ current' = p
        /\ woken' = woken \cup {q \in Popups : thread[q] = "hiding"}
        /\ UNCHANGED <<lock, closer, run, shouldStop, thread, halted, tooLate, endedBy>>
    BY <1>3 DEF CreateServer, Show, ShowAgent
  <2>2. \A q \in Popups : showing[q] = "hide" => q = p
    BY <2>1 DEF CallersInv
  <2>3. CallersInv'
    BY <2>1, <2>2 DEF CallersInv
  <2>4. HidingInv'
    BY <2>1, <2>2 DEF HidingInv, CallersInv
  <2>5. ClosersInv'
    BY <2>1 DEF ClosersInv, HidingInv
  <2>6. ReplacedIsStopped'
    BY <2>1, <2>2 DEF ReplacedIsStopped, HidingInv, CallersInv
  <2>7. LastDecidesEnd'
    BY <2>1 DEF LastDecidesEnd
  <2> QED
    BY <1>0, <2>3, <2>4, <2>5, <2>6, <2>7
<1>4. CASE StartServer(p)
  <2>1. /\ showing[p] = "start" /\ showing' = [showing EXCEPT ![p] = "wait"]
        /\ run' = [run EXCEPT ![p] = "starting"]
        /\ UNCHANGED <<lock, current, closer, shouldStop, thread, halted, hider, tooLate,
                       woken, endedBy>>
    BY <1>4 DEF StartServer, Show
  <2>2. CallersInv'
    BY <2>1 DEF CallersInv
  <2>3. HidingInv'
    BY <2>1 DEF HidingInv
  <2>4. ClosersInv'
    BY <2>1 DEF ClosersInv
  <2>5. ReplacedIsStopped' /\ LastDecidesEnd'
    BY <2>1 DEF ReplacedIsStopped, LastDecidesEnd, CallersInv
  <2> QED
    BY <1>0, <2>2, <2>3, <2>4, <2>5
<1>5. CASE ServerReady(p) \/ ServerNotReady(p)
  <2>1. /\ showing[p] = "wait" /\ showing'[p] \in {"notify", "failed"}
        /\ \A q \in Popups \ {p} : showing'[q] = showing[q]
        /\ lock' = IF showing'[p] = "notify" THEN lock ELSE NoPopup
        /\ tooLate \subseteq tooLate'
        /\ run[p] \in {"starting", "opening"} => p \in tooLate'
        /\ UNCHANGED <<current, closer, run, shouldStop, thread, halted, hider, woken,
                       endedBy>>
    BY <1>5 DEF ServerReady, ServerNotReady, Show
  <2>2. lock = p /\ current = p
    BY <2>1 DEF CallersInv
  <2>3. CallersInv'
    BY <2>1, <2>2 DEF CallersInv
  <2>4. HidingInv'
    BY <2>1 DEF HidingInv
  <2>5. ClosersInv'
    BY <2>1 DEF ClosersInv
  <2>6. ReplacedIsStopped' /\ LastDecidesEnd'
    BY <2>1 DEF ReplacedIsStopped, LastDecidesEnd
  <2> QED
    BY <1>0, <2>3, <2>4, <2>5, <2>6
<1>6. CASE EndShow(p)
  <2>1. /\ showing[p] = "notify" /\ showing' = [showing EXCEPT ![p] = "shown"]
        /\ lock' = NoPopup
        /\ halted' = IF Alive(closer) THEN halted \cup {closer} ELSE halted
        /\ \/ closer' = p /\ thread' = [thread EXCEPT ![p] = "waiting"]
           \/ UNCHANGED <<closer, thread>>
        /\ UNCHANGED <<current, run, shouldStop, hider, tooLate, woken, endedBy>>
    BY <1>6 DEF EndShow, Show
  <2>2. lock = p /\ current = p /\ thread[p] = "no"
    BY <2>1 DEF CallersInv, ClosersInv
  <2>3. \A q \in Popups : hider[ShowAgent(q)].at = "away"
    BY <2>1, <2>2 DEF CallersInv
  <2>4. CallersInv'
    BY <2>1, <2>2 DEF CallersInv
  <2>5. HidingInv'
    BY <2>1, <2>3 DEF HidingInv
  <2>6. ClosersInv'
    BY <2>1, <2>2 DEF ClosersInv, Alive
  <2>7. ReplacedIsStopped' /\ LastDecidesEnd'
    BY <2>1 DEF ReplacedIsStopped, LastDecidesEnd
  <2> QED
    BY <1>0, <2>4, <2>5, <2>6, <2>7
<1> QED
  BY <1>1, <1>2, <1>3, <1>4, <1>5, <1>6 DEF ShowStep


\* Steps of the thread of a server: a request to stop is forgotten only while the
\* caller of showPopup waits, or has given the server up.
LEMMA ServerStepKeeps ==
  ASSUME PopupsInv, NEW p \in Popups, ServerStep(p)
  PROVE  PopupsInv'
<1>0. PopupsTypeOK'
  BY ServerStepType DEF PopupsInv
<1> USE PopupsAssumption DEF PopupsInv, PopupsTypeOK, popupHistory
<1>1. /\ \A q \in Popups \ {p} : run'[q] = run[q]
      /\ run'[p] \in {"starting", "opening"} => run[p] = "starting"
      /\ run'[p] = "serving" => run[p] = "opening"
      /\ shouldStop' = shouldStop \/ (run[p] = "starting" /\ shouldStop' = shouldStop \ {p})
      /\ UNCHANGED <<showing, lock, current, closer, thread, halted, hider, tooLate, woken,
                     endedBy>>
  BY DEF ServerStep, ResetStop, OpenServer, OpenFails, CloseServer, EndServer, Run
<1>2. run[p] \in {"starting", "opening"} =>
        p \in tooLate \/ (lock = p /\ showing[p] = "wait" /\ current = p)
  BY DEF CallersInv
<1>3. CallersInv'
  BY <1>1 DEF CallersInv
<1>4. HidingInv'
  <2> SUFFICES ASSUME NEW q \in Popups,
                      hider[ShowAgent(q)].at \in {"lock", "wait", "hidden"}
               PROVE  current = NoPopup \/ current \in shouldStop' \cup tooLate
    BY <1>1 DEF HidingInv
  <2>1. current = NoPopup \/ current \in shouldStop \cup tooLate
    BY DEF HidingInv
  <2>2. lock = q /\ showing[q] = "hide"
    BY DEF CallersInv
  <2> QED
    BY <1>1, <1>2, <2>1, <2>2
<1>5. ClosersInv'
  BY <1>1 DEF ClosersInv
<1>6. ReplacedIsStopped'
  BY <1>1, <1>2 DEF ReplacedIsStopped
<1>7. LastDecidesEnd'
  BY <1>1 DEF LastDecidesEnd
<1> QED
  BY <1>0, <1>3, <1>4, <1>5, <1>6, <1>7

\* Steps of a closing thread and of the user, who begin to hide or end.
LEMMA CloserStepKeeps ==
  ASSUME PopupsInv, NEW p \in Popups, CloserStep(p) \/ UserCloses(p)
  PROVE  PopupsInv'
<1>0. PopupsTypeOK'
  BY CloserStepType DEF PopupsInv
<1> USE PopupsAssumption, AgentFacts DEF PopupsInv, PopupsTypeOK, popupHistory, Away
<1>1. /\ \A q \in Popups : hider'[ShowAgent(q)] = hider[ShowAgent(q)]
      /\ \A q \in Popups \ {p} : /\ hider'[CloseAgent(q)] = hider[CloseAgent(q)]
                                 /\ thread'[q] = thread[q]
      /\ UNCHANGED <<showing, lock, current, closer, run, shouldStop, halted, tooLate,
                     woken, endedBy>>
  <2>1. CASE CloserStep(p)
    <3>1. \A b \in Agents \ {CloseAgent(p)} : hider'[b] = hider[b]
      BY <2>1 DEF CloserStep, TimeOver, Halt, EndCloser, CloseAgent
    <3>2. \A q \in Popups \ {p} : thread'[q] = thread[q]
      BY <2>1 DEF CloserStep, TimeOver, Halt, EndCloser
    <3>3. UNCHANGED <<showing, lock, current, closer, run, shouldStop, halted, tooLate,
                      woken, endedBy>>
      BY <2>1 DEF CloserStep, TimeOver, Halt, EndCloser
    <3> HIDE <2>1
    <3> QED
      BY <3>1, <3>2, <3>3
  <2>2. CASE UserCloses(p)
    <3>1. \A b \in Agents \ {<<"user", p>>} : hider'[b] = hider[b]
      BY <2>2 DEF UserCloses
    <3> QED
      BY <2>2, <3>1 DEF UserCloses
  <2> QED
    BY <2>1, <2>2
<1>2. \/ /\ thread[p] = "waiting" /\ p \notin halted
         /\ thread'[p] = "hiding"
      \/ /\ thread[p] # "no" /\ thread'[p] = "ended"
         /\ hider'[CloseAgent(p)].at = "away"
      \/ /\ thread'[p] = thread[p]
         /\ hider'[CloseAgent(p)] = hider[CloseAgent(p)]
  <2>1. CASE TimeOver(p)
    BY <2>1 DEF TimeOver
  <2>2. CASE Halt(p)
    BY <2>2 DEF Halt, ClosersInv
  <2>3. CASE EndCloser(p)
    BY <2>3 DEF EndCloser, ClosersInv, CloseAgent
  <2>4. CASE UserCloses(p)
    BY <2>4 DEF UserCloses
  <2> QED
    BY <2>1, <2>2, <2>3, <2>4 DEF CloserStep
<1>3. CallersInv'
  BY <1>1 DEF CallersInv
<1>4. HidingInv'
  BY <1>1, <1>2 DEF HidingInv
<1>5. ClosersInv'
  BY <1>1, <1>2 DEF ClosersInv
<1>6. ReplacedIsStopped' /\ LastDecidesEnd'
  BY <1>1 DEF ReplacedIsStopped, LastDecidesEnd
<1> QED
  BY <1>0, <1>3, <1>4, <1>5, <1>6

\* The invariant holds in every reachable state.
THEOREM PopupsInvariant == PopupsSpec => []PopupsInv
<1>1. PopupsInit => PopupsInv
  BY PopupsInitial
<1>2. PopupsInv /\ [PopupsNext]_popupVars => PopupsInv'
  <2> SUFFICES ASSUME PopupsInv, [PopupsNext]_popupVars PROVE PopupsInv'
    OBVIOUS
  <2>1. CASE \E a \in Agents : HideStep(a)
    BY <2>1, HideStepKeeps
  <2>2. CASE \E p \in Popups : ShowStep(p) \/ CallShow(p)
    BY <2>2, ShowStepKeeps
  <2>3. CASE \E p \in Popups : ServerStep(p)
    BY <2>3, ServerStepKeeps
  <2>4. CASE \E p \in Popups : CloserStep(p) \/ UserCloses(p)
    BY <2>4, CloserStepKeeps
  <2>5. CASE UNCHANGED popupVars
    BY <2>5 DEF popupVars, PopupsInv, PopupsTypeOK, CallersInv, HidingInv, ClosersInv,
                ReplacedIsStopped, LastDecidesEnd
  <2> QED
    BY <2>1, <2>2, <2>3, <2>4, <2>5 DEF PopupsNext, PopupStep
<1> QED
  BY <1>1, <1>2, PTL DEF PopupsSpec

\* The variables of the popups have their types.
THEOREM PopupsTypeCorrect == PopupsSpec => []PopupsTypeOK
<1>1. PopupsInv => PopupsTypeOK
  BY DEF PopupsInv
<1> QED
  BY <1>1, PopupsInvariant, PTL

\* For any number of popups: a server that serves a popup nobody sees any longer
\* has been told to stop, and not too early to hear it, unless its caller has
\* given it up (showPopup, hidePopup, NotificationServer.run).
THEOREM ServersOfReplacedStop == PopupsSpec => []ReplacedIsStopped
<1>1. PopupsInv => ReplacedIsStopped
  BY DEF PopupsInv
<1> QED
  BY <1>1, PopupsInvariant, PTL

\* For any number of popups: only a closing thread that had woken before a popup
\* got its server hides the popup of another (PopupClosingThread).
THEOREM EndIsDecidedByLast == PopupsSpec => []LastDecidesEnd
<1>1. PopupsInv => LastDecidesEnd
  BY DEF PopupsInv
<1> QED
  BY <1>1, PopupsInvariant, PTL

-----------------------------------------------------------------------------
(* LogViewer                                                               *)

Line == [record: 1..Records, first: BOOLEAN]
ShownLine == [record: 1..Records, more: BOOLEAN, id: Int, hidden: BOOLEAN]

\* Each line of the log begins the next record or continues the one before.
LogInv ==
  /\ log \in Seq(Line)
  /\ log # <<>> => log[1] = FirstLine(1)
  /\ \A i \in 1..(Len(log) - 1) :
       \/ log[i + 1] = FirstLine(log[i].record + 1)
       \/ log[i].first /\ log[i + 1] = NextLine(log[i].record)
  /\ \A i, j \in 1..Len(log) :
       i < j => \/ log[i].record < log[j].record
                \/ j = i + 1 /\ log[i].first /\ ~log[j].first

\* The lines the reader holds back are the last it has read.
ReaderInv ==
  /\ reader = [at |-> reader.at, lines |-> reader.lines, records |-> reader.records,
               missed |-> reader.missed]
  /\ reader.at \in 0..Len(log) /\ reader.missed \in 0..2
  /\ reader.records \in Seq(SentRecord)
  /\ \/ reader.lines = <<>>
     \/ reader.at > 0 /\ reader.lines = <<log[reader.at]>>
     \/ /\ reader.at > 1 /\ log[reader.at - 1].first /\ ~log[reader.at].first
        /\ reader.lines = <<log[reader.at - 1], log[reader.at]>>

\* Nothing is under way without a connection.
SocketInv ==
  /\ socket \in {"connecting", "open", "lost"} /\ losses \in 0..Losses
  /\ wire \in Seq(Seq(SentRecord))
  /\ buffers \in Seq([old: BOOLEAN, records: Seq(SentRecord)])
  /\ socket # "open" => wire = <<>>
  /\ socket = "connecting" => \A i \in DOMAIN buffers : buffers[i].old

\* Lines of the page have the ids that were counted last.
PageInv ==
  /\ shown \in Seq(ShownLine) /\ Len(shown) <= Capacity
  /\ lineId \in Nat
  /\ {filtering, mixed} \subseteq BOOLEAN
  /\ parted \subseteq 1..Records
  /\ socket = "open" => \A i \in DOMAIN shown :
       /\ shown[i].id = lineId - Len(shown) + i
       /\ shown[i].hidden <=> Hides(filtering, shown[i].record)

\* The records are those up to n.
Ending(records, n) ==
  \A i \in 1..Len(records) : records[i].record = n - Len(records) + i

\* The record before the (k + 1)st message, of those that end with n.
EndBefore(messages, n, k) ==
  IF k = Len(messages) THEN n ELSE messages[k + 1][1].record - 1

\* Lines, messages and the buffer follow each other, up to the record n.
Chain(lines, messages, records, n) ==
  /\ Ending(records, n)
  /\ \A k \in 1..Len(messages) :
       messages[k] # <<>> /\ Ending(messages[k], EndBefore(messages, n - Len(records), k))
  /\ Ending(lines, EndBefore(messages, n - Len(records), 0))

\* Messages on their way to the page.
MessagesOf(received, sent) ==
  [k \in 1..(Len(received) + Len(sent)) |->
     IF k <= Len(received) THEN received[k].records ELSE sent[k - Len(received)]]

\* The record up to which all have been added to the reader's buffer.
CollectedBy(r, text) ==
  IF r.at = 0 THEN 0
  ELSE IF r.lines # <<>> /\ r.lines[1].first THEN text[r.at].record - 1
  ELSE text[r.at].record
Collected == CollectedBy(reader, log)

\* Records have all their text, unless the log ended within one.
Told(record, text, ends) ==
  \/ record.more \/ record.record \in ends
  \/ /\ text # <<>> /\ record.record < Last(text).record
     /\ ~Contains(text, NextLine(record.record))
AllTold(records, text, ends) == \A i \in 1..Len(records) : Told(records[i], text, ends)

\* No promise of an earlier connection is left.
Fresh == socket = "open" /\ ~mixed /\ (buffers # <<>> => ~buffers[1].old)

\* What is shown, on its way and in the reader's buffer are consecutive records
\* with their text.
Flows(messages, n) ==
  /\ Chain(shown, messages, reader.records, n)
  /\ AllTold(shown, log, parted) /\ AllTold(reader.records, log, parted)
  /\ \A k \in 1..Len(messages) : AllTold(messages[k], log, parted)

FlowInv ==
  /\ Fresh => /\ \A i \in 1..Len(buffers) : ~buffers[i].old
              /\ Flows(MessagesOf(buffers, wire), Collected)
  /\ socket = "open" /\ ~mixed /\ ~Fresh => shown = <<>>

ViewerInv == LogInv /\ ReaderInv /\ SocketInv /\ PageInv /\ FlowInv

-----------------------------------------------------------------------------

\* Lines held back are at most two.
AddsLines(records, f, lines) ==
  f = [k \in 0..Len(lines) |-> IF k = 0 THEN records ELSE AddLine(f[k - 1], lines[k])]

LEMMA AddLinesExist ==
  ASSUME NEW records, NEW lines, \E f : AddsLines(records, f, lines)
  PROVE  \E f : AddsLines(records, f, lines) /\ AddLines(records, lines) = f[Len(lines)]
<1> DEFINE f == CHOOSE f : AddsLines(records, f, lines)
<1>1. AddsLines(records, f, lines)
  OBVIOUS
<1>2. AddLines(records, lines) = f[Len(lines)]
  BY DEF AddLines, AddsLines
<1> QED
  BY <1>1, <1>2

LEMMA AddNoLine == ASSUME NEW records PROVE AddLines(records, <<>>) = records
<1>1. AddsLines(records, [k \in 0..0 |-> records], <<>>)
  BY DEF AddsLines
<1>2. PICK f : AddsLines(records, f, <<>>) /\ AddLines(records, <<>>) = f[Len(<<>>)]
  BY <1>1, AddLinesExist
<1> QED
  BY <1>2 DEF AddsLines

LEMMA AddOneLine ==
  ASSUME NEW records, NEW a PROVE AddLines(records, <<a>>) = AddLine(records, a)
<1> DEFINE g == [k \in 0..1 |-> IF k = 0 THEN records ELSE AddLine(records, a)]
<1>1. AddsLines(records, g, <<a>>)
  BY DEF AddsLines
<1>2. PICK f : AddsLines(records, f, <<a>>) /\ AddLines(records, <<a>>) = f[Len(<<a>>)]
  BY <1>1, AddLinesExist
<1>3. f[0] = records /\ f[1] = AddLine(f[0], a)
  BY <1>2 DEF AddsLines
<1> QED
  BY <1>2, <1>3

LEMMA AddTwoLines ==
  ASSUME NEW records, NEW a, NEW b
  PROVE  AddLines(records, <<a, b>>) = AddLine(AddLine(records, a), b)
<1> DEFINE g == [k \in 0..2 |-> IF k = 0 THEN records
                                ELSE IF k = 1 THEN AddLine(records, a)
                                ELSE AddLine(AddLine(records, a), b)]
<1>1. AddsLines(records, g, <<a, b>>)
  BY DEF AddsLines
<1>2. PICK f : AddsLines(records, f, <<a, b>>) /\ AddLines(records, <<a, b>>) = f[Len(<<a, b>>)]
  BY <1>1, AddLinesExist
<1>3. f[0] = records /\ f[1] = AddLine(f[0], a) /\ f[2] = AddLine(f[1], b)
  BY <1>2 DEF AddsLines
<1> QED
  BY <1>2, <1>3

\* The log at a place and after it.
LEMMA LogAt ==
  ASSUME LogInv, NEW i \in 1..Len(log)
  PROVE  /\ log[i] \in Line /\ log[i].record <= LastRecord
         /\ LastRecord = Last(log).record /\ log # <<>>
         /\ i < Len(log) => \/ log[i + 1] = FirstLine(log[i].record + 1)
                            \/ log[i].first /\ log[i + 1] = NextLine(log[i].record)
         /\ i < Len(log) /\ log[i].first /\ log[i + 1].first =>
              ~HasNextLine(log[i].record) /\ log[i].record < LastRecord
<1>1. log \in Seq(Line) /\ Len(log) \in Nat /\ \A j \in 1..Len(log) : log[j] \in Line
  BY DEF LogInv
<1>2. LastRecord = log[Len(log)].record /\ LastRecord = Last(log).record /\ log # <<>>
  BY <1>1 DEF LastRecord, Last
<1>3. \A j \in 1..Len(log) : log[j].record \in Int
  BY <1>1, ViewerAssumption DEF Line
<1>4. \A j \in 1..Len(log) : i < j => \/ log[i].record < log[j].record
                                      \/ j = i + 1 /\ log[i].first /\ ~log[j].first
  BY DEF LogInv
<1>5. \A j \in 1..Len(log) : j < i => \/ log[j].record < log[i].record
                                      \/ i = j + 1 /\ log[j].first /\ ~log[i].first
  BY DEF LogInv
<1>6. i < Len(log) => \/ log[i + 1] = FirstLine(log[i].record + 1)
                      \/ log[i].first /\ log[i + 1] = NextLine(log[i].record)
  BY <1>1 DEF LogInv
<1>7. log[i].record <= log[Len(log)].record
  <2>1. CASE i = Len(log)
    BY <1>3, <2>1
  <2>2. CASE i < Len(log) /\ ~(log[i].record < log[Len(log)].record)
    <3>1. Len(log) = i + 1 /\ log[i].first /\ ~log[Len(log)].first
      BY <1>1, <1>4, <2>2
    <3>2. log[i + 1] = NextLine(log[i].record)
      BY <1>6, <3>1, <2>2 DEF FirstLine
    <3> QED
      BY <1>3, <3>1, <3>2 DEF NextLine
  <2> QED
    BY <1>1, <1>3, <2>1, <2>2
<1>8. ASSUME i < Len(log), log[i].first, log[i + 1].first
      PROVE  ~HasNextLine(log[i].record) /\ log[i].record < LastRecord
  <2>1. ASSUME NEW j \in 1..Len(log), log[j] = NextLine(log[i].record) PROVE FALSE
    <3>1. log[j].record = log[i].record /\ ~log[j].first
      BY <2>1 DEF NextLine
    <3> QED
      BY <1>1, <1>3, <1>4, <1>5, <1>8, <3>1
  <2>2. ~HasNextLine(log[i].record)
    BY <1>1, <2>1 DEF HasNextLine, Contains
  <2>3. i + 1 \in 1..Len(log)
    BY <1>1, <1>8
  <2>4. log[i].record < log[Len(log)].record
    <3>1. CASE Len(log) = i + 1
      BY <1>3, <1>4, <1>8, <2>3, <3>1
    <3>2. CASE Len(log) # i + 1
      BY <1>1, <1>3, <1>4, <1>8, <3>2
    <3> QED
      BY <3>1, <3>2
  <2> QED
    BY <1>2, <2>2, <2>4
<1> QED
  BY <1>1, <1>2, <1>6, <1>7, <1>8

\* A record more.
LEMMA AppendEnds ==
  ASSUME NEW records \in Seq(SentRecord), NEW record \in SentRecord,
         NEW new, new = Append(records, record)
  PROVE  /\ new \in Seq(SentRecord) /\ Len(new) = Len(records) + 1
         /\ \A i \in 1..Len(new) : i # Len(new) => i \in 1..Len(records) /\ new[i] = records[i]
         /\ new[Len(new)] = record
         /\ Ending(records, record.record - 1) => Ending(new, record.record)
<1>1. /\ Len(records) \in Nat /\ new \in Seq(SentRecord) /\ Len(new) = Len(records) + 1
      /\ \A i \in 1..Len(new) : new[i] = IF i = Len(records) + 1 THEN record ELSE records[i]
  OBVIOUS
<1>2. record.record \in Int
  BY ViewerAssumption DEF SentRecord
<1>3. ASSUME Ending(records, record.record - 1), NEW i \in 1..Len(new)
      PROVE  new[i].record = record.record - Len(new) + i
  <2>1. CASE i = Len(records) + 1
    BY <1>1, <1>2, <2>1
  <2>2. CASE i # Len(records) + 1
    <3>1. i \in 1..Len(records) /\ new[i] = records[i]
      BY <1>1, <2>2
    <3>2. records[i].record = (record.record - 1) - Len(records) + i
      BY <1>3, <3>1 DEF Ending
    <3> QED
      BY <1>1, <1>2, <3>1, <3>2
  <2> QED
    BY <2>1, <2>2
<1> QED
  BY <1>1, <1>3 DEF Ending

\* The last one with more text.
Continued(records) ==
  [records EXCEPT ![Len(records)] = [record |-> Last(records).record, more |-> TRUE]]

LEMMA ContinuedBy ==
  ASSUME NEW records, NEW line, ~line.first, records # <<>>
  PROVE  AddLine(records, line) = Continued(records)
BY Zenon DEF AddLine, Continued

LEMMA MoreText ==
  ASSUME NEW records \in Seq(SentRecord), records # <<>>
  PROVE  LET new == Continued(records)
         IN  /\ new \in Seq(SentRecord) /\ Len(new) = Len(records)
             /\ \A i \in 1..Len(records) : /\ new[i].record = records[i].record
                                           /\ records[i].more => new[i].more
             /\ new[Len(records)].more
<1> DEFINE last == [record |-> Last(records).record, more |-> TRUE]
           new == Continued(records)
<1>1. /\ Len(records) \in 1..Len(records) /\ \A i \in 1..Len(records) : records[i] \in SentRecord
      /\ last.record = records[Len(records)].record /\ last.more
  BY DEF Last
<1>2. last \in SentRecord
  BY <1>1 DEF SentRecord
<1>3. new = [records EXCEPT ![Len(records)] = last]
  BY DEF Continued
<1> HIDE DEF last, new
<1>4. /\ new \in Seq(SentRecord) /\ Len(new) = Len(records)
      /\ \A i \in 1..Len(records) : new[i] = IF i = Len(records) THEN last ELSE records[i]
  BY <1>1, <1>2, <1>3, ExceptSeq
<1>5. /\ new \in Seq(SentRecord) /\ Len(new) = Len(records)
      /\ \A i \in 1..Len(records) : /\ new[i].record = records[i].record
                                    /\ records[i].more => new[i].more
      /\ new[Len(records)].more
  BY <1>1, <1>4
<1> QED
  BY <1>5 DEF new

\* The buffer with the lines held back, which end with the record n.
Flushed == AddLines(reader.records, reader.lines)

\* Each record of the buffer was there before, with no more text, or is the last
\* one read, with its text unless it has only begun.
Flushes(records, flushed, line) ==
  \A i \in 1..Len(flushed) :
    \/ \E j \in 1..Len(records) : /\ flushed[i].record = records[j].record
                                  /\ records[j].more => flushed[i].more
    \/ flushed[i].record = line.record /\ (flushed[i].more \/ line.first)

LEMMA FlushedLines ==
  ASSUME LogInv, ReaderInv, reader.at > 0
  PROVE  LET n == log[reader.at].record
         IN  /\ Flushed \in Seq(SentRecord)
             /\ n - Len(Flushed) = Collected - Len(reader.records)
             /\ Ending(reader.records, Collected) => Ending(Flushed, n)
             /\ Flushes(reader.records, Flushed, log[reader.at])
<1> DEFINE n == log[reader.at].record
           rs == reader.records
<1>1. reader.at \in 1..Len(log) /\ log[reader.at] \in Line /\ n \in 1..Records
  BY LogAt DEF ReaderInv, Line
<1>2. rs \in Seq(SentRecord) /\ Len(rs) \in Nat /\ Records \in Nat
      /\ \A i \in 1..Len(rs) : rs[i] \in SentRecord
  BY ViewerAssumption DEF ReaderInv
<1>3. CASE reader.lines = <<>>
  <2>1. Flushed = rs
    BY <1>3, AddNoLine DEF Flushed
  <2>2. Collected = n
    BY <1>1, <1>3 DEF Collected, CollectedBy
  <2> QED
    BY <1>1, <1>2, <2>1, <2>2 DEF Flushes
<1>4. /\ \A a : AddLines(rs, <<a>>) = AddLine(rs, a)
      /\ \A a, b : AddLines(rs, <<a, b>>) = AddLine(AddLine(rs, a), b)
      /\ Flushed = AddLines(rs, reader.lines)
  <2>1. ASSUME NEW a PROVE AddLines(rs, <<a>>) = AddLine(rs, a)
    BY AddOneLine
  <2>2. ASSUME NEW a, NEW b PROVE AddLines(rs, <<a, b>>) = AddLine(AddLine(rs, a), b)
    BY AddTwoLines
  <2> QED
    BY <2>1, <2>2 DEF Flushed
\* A record that begins.
<1> DEFINE begun == Append(rs, [record |-> n, more |-> FALSE])
<1>5. /\ begun \in Seq(SentRecord) /\ Len(begun) = Len(rs) + 1 /\ begun # <<>>
      /\ \A i \in 1..Len(begun) : i # Len(begun) => i \in 1..Len(rs) /\ begun[i] = rs[i]
      /\ begun[Len(begun)].record = n
      /\ Ending(rs, n - 1) => Ending(begun, n)
      /\ n - Len(begun) = (n - 1) - Len(rs)
  <2> DEFINE r == [record |-> n, more |-> FALSE]
  <2>1. r \in SentRecord /\ r.record = n
    BY <1>1 DEF SentRecord
  <2> HIDE DEF r
  <2>2. begun = Append(rs, r)
    BY DEF r
  <2> HIDE DEF begun
  <2>3. /\ begun \in Seq(SentRecord) /\ Len(begun) = Len(rs) + 1
        /\ \A i \in 1..Len(begun) : i # Len(begun) => i \in 1..Len(rs) /\ begun[i] = rs[i]
        /\ begun[Len(begun)] = r
        /\ Ending(rs, n - 1) => Ending(begun, n)
    <3>1. Ending(rs, r.record - 1) => Ending(begun, r.record)
      BY <1>2, <2>1, <2>2, AppendEnds
    <3>2. /\ begun \in Seq(SentRecord) /\ Len(begun) = Len(rs) + 1
          /\ \A i \in 1..Len(begun) :
               i # Len(begun) => i \in 1..Len(rs) /\ begun[i] = rs[i]
          /\ begun[Len(begun)] = r
      BY <1>2, <2>1, <2>2, AppendEnds
    <3> QED
      BY <2>1, <3>1, <3>2
  <2>4. begun # <<>>
    BY <1>2, <2>3
  <2>5. n \in Int /\ Len(rs) \in Int
    BY <1>1, <1>2
  <2>6. n - Len(begun) = (n - 1) - Len(rs)
    <3>1. Len(begun) = Len(rs) + 1
      BY <2>3
    <3>2. \A i, j \in Int : i - (j + 1) = (i - 1) - j
      OBVIOUS
    <3> HIDE DEF n, rs
    <3> QED
      BY <2>5, <3>1, <3>2
  <2> QED
    BY <2>1, <2>3, <2>4, <2>6
<1> HIDE DEF begun
<1>6. CASE reader.lines = <<log[reader.at]>> /\ log[reader.at].first
  <2>1. Flushed = begun
    BY <1>4, <1>6 DEF AddLine, begun
  <2>2. Collected = n - 1
    BY <1>1, <1>6 DEF Collected, CollectedBy
  <2>3. Flushes(rs, Flushed, log[reader.at])
    BY <1>5, <1>6, <2>1 DEF Flushes
  <2> QED
    BY <1>5, <2>1, <2>2, <2>3
<1>7. CASE reader.lines = <<log[reader.at]>> /\ ~log[reader.at].first
  <2>1. Flushed = AddLine(rs, log[reader.at])
    BY <1>4, <1>7
  <2>2. Collected = n
    BY <1>1, <1>7 DEF Collected, CollectedBy
  <2>3. CASE rs = <<>>
    <3>1. Flushed = <<>>
      BY <1>7, <2>1, <2>3 DEF AddLine
    <3> QED
      BY <1>1, <1>2, <2>2, <2>3, <3>1 DEF Flushes, Ending
  <2>4. CASE rs # <<>>
    <3>1. /\ Flushed \in Seq(SentRecord) /\ Len(Flushed) = Len(rs)
          /\ \A i \in 1..Len(rs) : /\ Flushed[i].record = rs[i].record
                                   /\ rs[i].more => Flushed[i].more
      BY <1>2, <1>7, <2>1, <2>4, ContinuedBy, MoreText
    <3> QED
      BY <1>1, <1>2, <2>2, <3>1 DEF Flushes, Ending
  <2> QED
    BY <2>3, <2>4
<1>8. CASE /\ reader.at > 1 /\ log[reader.at - 1].first /\ ~log[reader.at].first
           /\ reader.lines = <<log[reader.at - 1], log[reader.at]>>
  <2> DEFINE before == reader.at - 1
  <2>1. log[reader.at] = NextLine(log[before].record)
    <3>1. before \in 1..Len(log) /\ before < Len(log) /\ before + 1 = reader.at
      BY <1>1, <1>8 DEF LogInv
    <3> HIDE DEF before
    <3>2. \/ log[before + 1] = FirstLine(log[before].record + 1)
          \/ log[before + 1] = NextLine(log[before].record)
      BY <3>1, LogAt
    <3> QED
      BY <1>8, <3>1, <3>2 DEF FirstLine
  <2>2. log[reader.at - 1].record = n
    BY <2>1 DEF NextLine
  <2>3. AddLine(rs, log[reader.at - 1]) = begun
    BY <1>8, <2>2 DEF AddLine, begun
  <2>4. Flushed = AddLine(begun, log[reader.at])
    BY <1>4, <1>8, <2>3
  <2>5. Flushed = Continued(begun)
    BY <1>5, <1>8, <2>4, ContinuedBy
  <2>6. /\ Flushed \in Seq(SentRecord) /\ Len(Flushed) = Len(begun)
        /\ \A i \in 1..Len(begun) : /\ Flushed[i].record = begun[i].record
                                    /\ begun[i].more => Flushed[i].more
        /\ Flushed[Len(begun)].more
    BY <1>5, <2>5, MoreText
  <2>7. Collected = n - 1
    BY <1>1, <1>8 DEF Collected, CollectedBy
  <2>8. Flushes(rs, Flushed, log[reader.at])
    BY <1>5, <2>6 DEF Flushes
  <2>9. Ending(rs, n - 1) => Ending(Flushed, n)
    BY <1>5, <2>6 DEF Ending
  <2> QED
    BY <1>5, <2>6, <2>7, <2>8, <2>9
<1> QED
  BY <1>3, <1>6, <1>7, <1>8 DEF ReaderInv

-----------------------------------------------------------------------------
(* The chain of records.                                                   *)

LEMMA BeforeType ==
  ASSUME NEW messages \in Seq(Seq(SentRecord)), NEW n \in Int, NEW k \in 0..Len(messages),
         \A i \in 1..Len(messages) : messages[i] # <<>>
  PROVE  EndBefore(messages, n, k) \in Int
<1>1. CASE k = Len(messages)
  BY <1>1 DEF EndBefore
<1>2. CASE k # Len(messages)
  <2>1. k + 1 \in 1..Len(messages)
    BY <1>2
  <2>2. messages[k + 1] \in Seq(SentRecord) /\ messages[k + 1] # <<>>
    BY <2>1
  <2>3. messages[k + 1][1] \in SentRecord
    BY <2>2
  <2>4. messages[k + 1][1].record \in Int
    BY <2>3, ViewerAssumption DEF SentRecord
  <2> QED
    BY <1>2, <2>4 DEF EndBefore
<1> QED
  BY <1>1, <1>2

\* What was in the buffer is sent.
LEMMA ChainSends ==
  ASSUME NEW lines, NEW messages \in Seq(Seq(SentRecord)), NEW records \in Seq(SentRecord),
         NEW n \in Int, records # <<>>, Chain(lines, messages, records, n)
  PROVE  Chain(lines, Append(messages, records), <<>>, n)
<1> DEFINE sent == Append(messages, records)
<1>1. /\ Len(messages) \in Nat /\ Len(records) \in Nat \ {0} /\ Records \in Nat
      /\ Len(sent) = Len(messages) + 1 /\ Len(<<>>) = 0
      /\ \A k \in 1..Len(sent) : sent[k] = IF k <= Len(messages) THEN messages[k] ELSE records
  BY ViewerAssumption
<1>2. records[1].record = n - Len(records) + 1 /\ Ending(records, n)
  BY <1>1 DEF Chain, Ending
<1>3. ASSUME NEW k \in 0..Len(messages)
      PROVE  EndBefore(sent, n - 0, k) = EndBefore(messages, n - Len(records), k)
  <2>1. CASE k = Len(messages)
    BY <1>1, <1>2, <2>1 DEF EndBefore
  <2>2. CASE k # Len(messages)
    <3>1. k + 1 \in 1..Len(messages) /\ k + 1 \in 1..Len(sent) /\ k # Len(sent)
      BY <1>1, <2>2
    <3> QED
      BY <1>1, <2>2, <3>1 DEF EndBefore
  <2> QED
    BY <2>1, <2>2
<1>4. ASSUME NEW k \in 1..Len(sent)
      PROVE  sent[k] # <<>> /\ Ending(sent[k], EndBefore(sent, n - 0, k))
  <2>1. CASE k = Len(sent)
    <3>1. EndBefore(sent, n - 0, k) = n
      BY <2>1 DEF EndBefore
    <3> QED
      BY <1>1, <1>2, <2>1, <3>1
  <2>2. CASE k # Len(sent)
    <3>1. k \in 1..Len(messages) /\ k \in 0..Len(messages) /\ sent[k] = messages[k]
      BY <1>1, <2>2
    <3> QED
      BY <1>3, <3>1 DEF Chain
  <2> QED
    BY <2>1, <2>2
<1>5. Ending(lines, EndBefore(sent, n - 0, 0))
  BY <1>1, <1>3 DEF Chain
<1> QED
  BY <1>1, <1>4, <1>5 DEF Chain, Ending

\* The first message is shown.
LEMMA ChainShows ==
  ASSUME NEW lines, NEW messages \in Seq(Seq(SentRecord)), NEW records \in Seq(SentRecord),
         NEW n \in Int, messages # <<>>, NEW more,
         Chain(lines, messages, records, n),
         Ending(lines, messages[1][1].record - 1)
           /\ Ending(messages[1], EndBefore(messages, n - Len(records), 1))
           => Ending(more, EndBefore(messages, n - Len(records), 1))
  PROVE  Chain(more, Tail(messages), records, n)
<1> DEFINE rest == Tail(messages)
           m == n - Len(records)
<1>1. /\ Len(messages) \in Nat \ {0} /\ Len(rest) = Len(messages) - 1 /\ Len(rest) \in Nat
      /\ \A k \in 1..Len(rest) : rest[k] = messages[k + 1]
  OBVIOUS
<1>2. ASSUME NEW k \in 0..Len(rest)
      PROVE  EndBefore(rest, m, k) = EndBefore(messages, m, k + 1)
  <2>1. CASE k = Len(rest)
    BY <1>1, <2>1 DEF EndBefore
  <2>2. CASE k # Len(rest)
    <3> HIDE DEF rest, m
    <3>1. k + 1 \in 1..Len(rest) /\ k + 1 # Len(messages)
      BY <1>1, <2>2
    <3>2. rest[k + 1] = messages[(k + 1) + 1]
      BY <1>1, <3>1
    <3> QED
      BY <2>2, <3>1, <3>2 DEF EndBefore
  <2> QED
    BY <2>1, <2>2
<1>3. Ending(more, EndBefore(messages, m, 1))
  <2>1. EndBefore(messages, m, 0) = messages[1][1].record - 1
    BY <1>1 DEF EndBefore
  <2>2. 1 \in 1..Len(messages)
    BY <1>1
  <2> QED
    BY <2>1, <2>2 DEF Chain
<1>4. Ending(more, EndBefore(rest, m, 0))
  BY <1>1, <1>2, <1>3
<1>5. ASSUME NEW k \in 1..Len(rest)
      PROVE  rest[k] # <<>> /\ Ending(rest[k], EndBefore(rest, m, k))
  <2>1. k + 1 \in 1..Len(messages) /\ k \in 0..Len(rest)
    BY <1>1
  <2> QED
    BY <1>1, <1>2, <2>1 DEF Chain
<1> QED
  BY <1>4, <1>5 DEF Chain

-----------------------------------------------------------------------------
(* The steps.                                                              *)

Buffer == [old: BOOLEAN, records: Seq(SentRecord)]

IsMessages(m, received, sent) ==
  /\ m \in Seq(Seq(SentRecord)) /\ Len(m) = Len(received) + Len(sent)
  /\ \A k \in 1..Len(m) : m[k] = IF k <= Len(received) THEN received[k].records
                                 ELSE sent[k - Len(received)]

LEMMA MessagesType ==
  ASSUME NEW received \in Seq(Buffer), NEW sent \in Seq(Seq(SentRecord))
  PROVE  IsMessages(MessagesOf(received, sent), received, sent)
<1> DEFINE messages == MessagesOf(received, sent)
           n == Len(received) + Len(sent)
<1>1. /\ Len(received) \in Nat /\ Len(sent) \in Nat /\ n \in Nat
      /\ \A k \in 1..Len(received) : received[k] \in Buffer
      /\ \A k \in 1..Len(sent) : sent[k] \in Seq(SentRecord)
  OBVIOUS
<1>2. messages = [k \in 1..n |-> IF k <= Len(received) THEN received[k].records
                                 ELSE sent[k - Len(received)]]
  BY DEF MessagesOf
<1>3. ASSUME NEW k \in 1..n
      PROVE  (IF k <= Len(received) THEN received[k].records ELSE sent[k - Len(received)])
                \in Seq(SentRecord)
  <2>1. CASE k <= Len(received)
    BY <1>1, <2>1 DEF Buffer
  <2>2. CASE ~(k <= Len(received))
    <3>1. k - Len(received) \in 1..Len(sent)
      BY <1>1, <2>2
    <3> QED
      BY <1>1, <2>2, <3>1
  <2> QED
    BY <2>1, <2>2
<1> HIDE DEF messages, n
<1>4. messages \in [1..n -> Seq(SentRecord)]
  BY <1>2, <1>3
<1>5. messages \in Seq(Seq(SentRecord)) /\ Len(messages) = n
  BY <1>1, <1>4
<1> QED
  BY <1>2, <1>5 DEF messages, n, IsMessages

LEMMA MessagesSent ==
  ASSUME NEW received \in Seq(Buffer), NEW sent \in Seq(Seq(SentRecord)),
         NEW records \in Seq(SentRecord)
  PROVE  MessagesOf(received, Append(sent, records)) = Append(MessagesOf(received, sent), records)
<1> DEFINE s == Append(sent, records)
           a == MessagesOf(received, s)
           m == MessagesOf(received, sent)
           b == Append(m, records)
<1>1. /\ s \in Seq(Seq(SentRecord)) /\ Len(s) = Len(sent) + 1
      /\ \A k \in 1..(Len(sent) + 1) : s[k] = IF k = Len(sent) + 1 THEN records ELSE sent[k]
      /\ Len(received) \in Nat /\ Len(sent) \in Nat
  BY Appended
<1> HIDE DEF s
<1>2. IsMessages(m, received, sent) /\ IsMessages(a, received, s)
  BY <1>1, MessagesType
<1> HIDE DEF a, m
<1>3. /\ b \in Seq(Seq(SentRecord)) /\ Len(b) = Len(m) + 1
      /\ \A k \in 1..(Len(m) + 1) : b[k] = IF k = Len(m) + 1 THEN records ELSE m[k]
  <2>1. m \in Seq(Seq(SentRecord))
    BY <1>2 DEF IsMessages
  <2> QED
    BY <2>1, Appended
<1> HIDE DEF b
<1>4. Len(m) = Len(received) + Len(sent) /\ Len(a) = Len(received) + Len(s)
  BY <1>2 DEF IsMessages
<1>5. ASSUME NEW k \in 1..Len(a) PROVE a[k] = b[k]
  <2>1. a[k] = IF k <= Len(received) THEN received[k].records ELSE s[k - Len(received)]
    BY <1>2 DEF IsMessages
  <2>2. k \in 1..Len(m) =>
          m[k] = IF k <= Len(received) THEN received[k].records ELSE sent[k - Len(received)]
    BY <1>2 DEF IsMessages
  <2>3. k \in 1..(Len(m) + 1)
    BY <1>1, <1>4
  <2>4. CASE k <= Len(received)
    <3>1. k \in 1..Len(m) /\ k # Len(m) + 1
      BY <1>1, <1>4, <2>3, <2>4
    <3> QED
      BY <1>3, <2>1, <2>2, <2>3, <2>4, <3>1
  <2>5. CASE ~(k <= Len(received))
    <3>1. k - Len(received) \in 1..(Len(sent) + 1)
      BY <1>1, <1>4, <2>5
    <3>2. s[k - Len(received)] = IF k - Len(received) = Len(sent) + 1 THEN records
                                 ELSE sent[k - Len(received)]
      BY <1>1, <3>1
    <3>3. /\ k - Len(received) = Len(sent) + 1 <=> k = Len(m) + 1
          /\ k # Len(m) + 1 => k \in 1..Len(m)
      <4>1. k \in Int /\ Len(m) = Len(received) + Len(sent)
        BY <1>4
      <4>2. k - Len(received) = Len(sent) + 1 <=> k = Len(m) + 1
        BY <1>1, <4>1
      <4>3. k # Len(m) + 1 => k \in 1..Len(m)
        <5>1. Len(m) \in Nat
          BY <1>1, <4>1
        <5> QED
          BY <2>3, <5>1
      <4> QED
        BY <4>2, <4>3
    <3>4. b[k] = IF k = Len(m) + 1 THEN records ELSE m[k]
      BY <1>3, <2>3
    <3> QED
      BY <2>1, <2>2, <2>5, <3>2, <3>3, <3>4
  <2> QED
    BY <2>4, <2>5
<1>6. a = b
  <2>1. a \in Seq(Seq(SentRecord)) /\ Len(a) = Len(b)
    BY <1>1, <1>2, <1>3, <1>4 DEF IsMessages
  <2> QED
    BY <1>3, <1>5, <2>1, SeqEqual
<1> QED
  BY <1>6 DEF a, b, m, s

LEMMA MessagesReceived ==
  ASSUME NEW received \in Seq(Buffer), NEW sent \in Seq(Seq(SentRecord)), sent # <<>>,
         NEW old \in BOOLEAN
  PROVE  LET r == Append(received, [old |-> old, records |-> Head(sent)])
         IN  r \in Seq(Buffer) /\ MessagesOf(r, Tail(sent)) = MessagesOf(received, sent)
<1> DEFINE buffer == [old |-> old, records |-> Head(sent)]
           r == Append(received, buffer)
           t == Tail(sent)
           a == MessagesOf(r, t)
           b == MessagesOf(received, sent)
<1>1. /\ Head(sent) = sent[1] /\ Head(sent) \in Seq(SentRecord)
      /\ t \in Seq(Seq(SentRecord)) /\ Len(t) = Len(sent) - 1
      /\ \A k \in 1..(Len(sent) - 1) : t[k] = sent[k + 1]
      /\ Len(sent) \in Nat \ {0}
  BY Tailed
<1>2. buffer \in Buffer /\ buffer.records = sent[1] /\ Len(received) \in Nat
  BY <1>1 DEF Buffer
<1> HIDE DEF buffer, t
<1>3. /\ r \in Seq(Buffer) /\ Len(r) = Len(received) + 1
      /\ \A k \in 1..(Len(received) + 1) :
           r[k] = IF k = Len(received) + 1 THEN buffer ELSE received[k]
  BY <1>2, Appended
<1> HIDE DEF r
<1>4. IsMessages(a, r, t) /\ IsMessages(b, received, sent)
  BY <1>1, <1>3, MessagesType
<1> HIDE DEF a, b
<1>5. Len(a) = Len(r) + Len(t) /\ Len(b) = Len(received) + Len(sent) /\ Len(a) = Len(b)
  BY <1>1, <1>2, <1>3, <1>4 DEF IsMessages
<1>6. ASSUME NEW k \in 1..Len(a) PROVE a[k] = b[k]
  <2>1. a[k] = IF k <= Len(r) THEN r[k].records ELSE t[k - Len(r)]
    BY <1>4 DEF IsMessages
  <2>2. b[k] = IF k <= Len(received) THEN received[k].records ELSE sent[k - Len(received)]
    BY <1>4, <1>5 DEF IsMessages
  <2>3. CASE k <= Len(received)
    <3>1. r[k] = received[k] /\ k <= Len(r)
      BY <1>2, <1>3, <2>3
    <3> QED
      BY <2>1, <2>2, <2>3, <3>1
  <2>4. CASE k = Len(received) + 1
    <3>1. r[k] = buffer /\ k <= Len(r) /\ ~(k <= Len(received)) /\ k - Len(received) = 1
      BY <1>2, <1>3, <2>4
    <3> QED
      BY <1>2, <2>1, <2>2, <3>1
  <2>5. CASE k > Len(received) + 1
    <3> DEFINE j == k - Len(r)
    <3>1. /\ j \in 1..(Len(sent) - 1) /\ j + 1 = k - Len(received)
          /\ ~(k <= Len(r)) /\ ~(k <= Len(received))
      <4>1. /\ k \in Int /\ k <= Len(a) /\ Len(received) \in Int /\ Len(sent) \in Int
            /\ Len(r) = Len(received) + 1 /\ Len(a) = Len(received) + Len(sent)
        BY <1>1, <1>2, <1>3, <1>5
      <4> QED
        BY <2>5, <4>1
    <3>2. t[j] = sent[j + 1]
      BY <1>1, <3>1
    <3> QED
      BY <2>1, <2>2, <3>1, <3>2
  <2> QED
    BY <1>2, <2>3, <2>4, <2>5
<1>7. a = b
  <2>1. a \in Seq(Seq(SentRecord)) /\ b \in Seq(Seq(SentRecord))
    BY <1>4 DEF IsMessages
  <2> QED
    BY <1>5, <1>6, <2>1, SeqEqual
<1> QED
  BY <1>3, <1>7 DEF a, b, r, t, buffer

LEMMA MessagesResolved ==
  ASSUME NEW received \in Seq(Buffer), NEW sent \in Seq(Seq(SentRecord)), received # <<>>
  PROVE  MessagesOf(RemoveAt(received, 1), sent) = Tail(MessagesOf(received, sent))
<1> DEFINE r == RemoveAt(received, 1)
           a == MessagesOf(r, sent)
           m == MessagesOf(received, sent)
           b == Tail(m)
<1>1. Len(received) \in Nat \ {0} /\ Len(sent) \in Nat /\ 1 \in 1..Len(received)
  OBVIOUS
<1>2. /\ r \in Seq(Buffer) /\ Len(r) = Len(received) - 1
      /\ \A k \in 1..Len(r) : r[k] = IF k < 1 THEN received[k] ELSE received[k + 1]
  BY <1>1, Removed
<1> HIDE DEF r
<1>3. IsMessages(a, r, sent) /\ IsMessages(m, received, sent)
  BY <1>2, MessagesType
<1> HIDE DEF a, m
<1>4. Len(a) = Len(r) + Len(sent) /\ Len(m) = Len(received) + Len(sent) /\ m # <<>>
  BY <1>1, <1>3 DEF IsMessages
<1>5. /\ b \in Seq(Seq(SentRecord)) /\ Len(b) = Len(m) - 1
      /\ \A k \in 1..(Len(m) - 1) : b[k] = m[k + 1]
  BY <1>3, <1>4, Tailed DEF IsMessages
<1> HIDE DEF b
<1>6. ASSUME NEW k \in 1..Len(a) PROVE a[k] = b[k]
  <2>1. k + 1 \in 1..Len(m) /\ b[k] = m[k + 1]
    BY <1>1, <1>2, <1>4, <1>5
  <2>2. a[k] = IF k <= Len(r) THEN r[k].records ELSE sent[k - Len(r)]
    BY <1>3 DEF IsMessages
  <2>3. m[k + 1] = IF k + 1 <= Len(received) THEN received[k + 1].records
                   ELSE sent[(k + 1) - Len(received)]
    BY <1>3, <2>1 DEF IsMessages
  <2>4. CASE k <= Len(r)
    <3>1. r[k] = received[k + 1] /\ k + 1 <= Len(received)
      BY <1>1, <1>2, <2>4
    <3> QED
      BY <2>1, <2>2, <2>3, <2>4, <3>1
  <2>5. CASE ~(k <= Len(r))
    <3>1. (k + 1) - Len(received) = k - Len(r) /\ ~(k + 1 <= Len(received))
      BY <1>1, <1>2, <2>5
    <3> QED
      BY <2>1, <2>2, <2>3, <2>5, <3>1
  <2> QED
    BY <2>4, <2>5
<1>7. a = b
  <2>1. a \in Seq(Seq(SentRecord)) /\ Len(a) = Len(b)
    BY <1>1, <1>2, <1>3, <1>4, <1>5 DEF IsMessages
  <2> QED
    BY <1>5, <1>6, <2>1, SeqEqual
<1> QED
  BY <1>7 DEF a, b, m, r

\* The log grows.
LEMMA LogGrows ==
  ASSUME LogInv, WriteLog
  PROVE  /\ LogInv'
         /\ Len(log') = Len(log) + 1 /\ \A i \in 1..Len(log) : log'[i] = log[i]
         /\ \A r : r.record \in Int /\ Told(r, log, parted) => Told(r, log', parted)
<1>1. log \in Seq(Line) /\ Len(log) \in Nat /\ Records \in Nat
      /\ \A i \in 1..Len(log) : log[i] \in Line /\ log[i].record \in 1..Records
  <2>1. log \in Seq(Line) /\ Records \in Nat
    BY ViewerAssumption DEF LogInv
  <2>2. \A i \in 1..Len(log) : log[i] \in Line
    BY <2>1
  <2> QED
    BY <2>1, <2>2 DEF Line
<1>2. /\ LastRecord \in 0..Records
      /\ log = <<>> => LastRecord = 0
      /\ log # <<>> => Len(log) \in 1..Len(log) /\ Last(log) = log[Len(log)]
                       /\ LastRecord = log[Len(log)].record
      /\ \A i \in 1..Len(log) : log[i].record <= LastRecord
  <2>1. CASE log = <<>>
    BY <1>1, <2>1 DEF LastRecord
  <2>2. CASE log # <<>>
    <3>1. Len(log) \in 1..Len(log) /\ LastRecord = log[Len(log)].record
          /\ Last(log) = log[Len(log)]
      BY <1>1, <2>2 DEF LastRecord, Last
    <3>2. \A i \in 1..Len(log) : log[i].record <= LastRecord
      BY LogAt
    <3> QED
      BY <1>1, <2>2, <3>1, <3>2
  <2> QED
    BY <2>1, <2>2
<1>3. PICK line \in Line :
        /\ log' = Append(log, line)
        /\ \/ line = FirstLine(LastRecord + 1)
           \/ log # <<>> /\ Last(log).first /\ line = NextLine(LastRecord)
  <2>1. CASE LastRecord < Records /\ log' = Append(log, FirstLine(LastRecord + 1))
    <3>1. FirstLine(LastRecord + 1) \in Line
      BY <1>1, <1>2, <2>1 DEF FirstLine, Line
    <3> QED
      BY <2>1, <3>1
  <2>2. CASE LastRecord \in Long /\ Last(log).first /\ log' = Append(log, NextLine(LastRecord))
    <3>1. LastRecord \in 1..Records
      BY <2>2, ViewerAssumption
    <3>2. NextLine(LastRecord) \in Line /\ log # <<>>
      BY <1>2, <3>1 DEF NextLine, Line
    <3> QED
      BY <2>2, <3>2
  <2> QED
    BY <2>1, <2>2 DEF WriteLog
<1>4. /\ log' \in Seq(Line) /\ Len(log') = Len(log) + 1
      /\ \A i \in 1..(Len(log) + 1) : log'[i] = IF i = Len(log) + 1 THEN line ELSE log[i]
  BY <1>1, <1>3, Appended
<1>5. \A i \in 1..Len(log) : log'[i] = log[i]
  BY <1>1, <1>4
<1>6. log'[Len(log) + 1] = line
  BY <1>1, <1>4
<1>7. log' # <<>> => log'[1] = FirstLine(1)
  <2>1. CASE log = <<>>
    BY <1>1, <1>2, <1>3, <1>6, <2>1
  <2>2. CASE log # <<>>
    BY <1>1, <1>2, <1>5, <2>2 DEF LogInv
  <2> QED
    BY <2>1, <2>2
<1>8. ASSUME NEW i \in 1..(Len(log') - 1)
      PROVE  \/ log'[i + 1] = FirstLine(log'[i].record + 1)
             \/ log'[i].first /\ log'[i + 1] = NextLine(log'[i].record)
  <2>1. i \in 1..Len(log) /\ log'[i] = log[i]
    BY <1>1, <1>4, <1>5
  <2>2. CASE i = Len(log)
    <3>1. log'[i + 1] = line /\ log # <<>> /\ Last(log) = log[i] /\ LastRecord = log[i].record
      BY <1>1, <1>2, <1>6, <2>1, <2>2
    <3> QED
      BY <1>3, <2>1, <3>1
  <2>3. CASE i # Len(log)
    <3>1. i \in 1..(Len(log) - 1) /\ i + 1 \in 1..Len(log)
      BY <1>1, <2>1, <2>3
    <3>2. log'[i + 1] = log[i + 1]
      BY <1>5, <3>1
    <3> QED
      BY <2>1, <3>1, <3>2 DEF LogInv
  <2> QED
    BY <2>2, <2>3
<1>9. ASSUME NEW i \in 1..Len(log'), NEW j \in 1..Len(log'), i < j
      PROVE  \/ log'[i].record < log'[j].record
             \/ j = i + 1 /\ log'[i].first /\ ~log'[j].first
  <2>1. i \in 1..Len(log) /\ log'[i] = log[i]
    BY <1>1, <1>4, <1>5, <1>9
  <2>2. CASE j \in 1..Len(log)
    BY <1>5, <1>9, <2>1, <2>2 DEF LogInv
  <2>3. CASE j \notin 1..Len(log)
    <3>1. j = Len(log) + 1 /\ log'[j] = line /\ log # <<>>
      BY <1>1, <1>4, <1>6, <2>1, <2>3
    <3>2. log[i].record <= LastRecord /\ log[i].record \in Int /\ LastRecord \in Int
      BY <1>1, <1>2, <2>1
    <3>3. CASE line = FirstLine(LastRecord + 1)
      BY <2>1, <3>1, <3>2, <3>3 DEF FirstLine
    <3>4. CASE Last(log).first /\ line = NextLine(LastRecord)
      <4>1. line.record = LastRecord /\ ~line.first
        BY <3>4 DEF NextLine
      <4>2. Len(log) \in 1..Len(log) /\ log[Len(log)].first /\ LastRecord = log[Len(log)].record
        BY <1>2, <3>1, <3>4
      <4>3. CASE i = Len(log)
        BY <2>1, <3>1, <4>1, <4>2, <4>3
      <4>4. CASE i # Len(log)
        <5>1. i < Len(log)
          BY <1>1, <2>1, <4>4
        <5>2. log[i].record < log[Len(log)].record
          BY <2>1, <4>2, <5>1 DEF LogInv
        <5> QED
          BY <2>1, <3>1, <4>1, <4>2, <5>2
      <4> QED
        BY <4>3, <4>4
    <3> QED
      BY <1>3, <3>3, <3>4
  <2> QED
    BY <2>2, <2>3
<1>10. LogInv'
  BY <1>4, <1>7, <1>8, <1>9 DEF LogInv
<1>11. ASSUME NEW r, r.record \in Int, Told(r, log, parted) PROVE Told(r, log', parted)
  <2>1. CASE r.more \/ r.record \in parted
    BY <2>1 DEF Told
  <2>2. CASE /\ log # <<>> /\ r.record < Last(log).record
             /\ ~Contains(log, NextLine(r.record))
    <3>1. Last(log') = line /\ log' # <<>>
      BY <1>1, <1>4, <1>6 DEF Last
    <3>2. line.record \in Int /\ LastRecord <= line.record /\ LastRecord \in Int
          /\ r.record < LastRecord
      BY <1>1, <1>2, <1>3, <2>2 DEF FirstLine, NextLine
    <3>3. line # NextLine(r.record)
      BY <3>2 DEF NextLine
    <3>4. \A i \in 1..Len(log) : log[i] # NextLine(r.record)
      BY <1>1, <2>2 DEF Contains
    <3>5. \A i \in 1..(Len(log) + 1) : log'[i] # NextLine(r.record)
      BY <1>1, <1>4, <3>3, <3>4
    <3>6. ~Contains(log', NextLine(r.record))
      BY <1>4, <3>5 DEF Contains
    <3>7. r.record < Last(log').record
      BY <1>11, <3>1, <3>2
    <3> QED
      BY <3>1, <3>6, <3>7 DEF Told
  <2> QED
    BY <1>11, <2>1, <2>2 DEF Told
<1> QED
  BY <1>4, <1>5, <1>10, <1>11

-----------------------------------------------------------------------------

\* Of what the page keeps.
LEMMA KeptLines ==
  ASSUME NEW S, NEW s \in Seq(S)
  PROVE  /\ Kept(s) \in Seq(S) /\ Len(Kept(s)) <= Capacity /\ Len(Kept(s)) <= Len(s)
         /\ \A i \in 1..Len(Kept(s)) : Kept(s)[i] = s[(Len(s) - Len(Kept(s))) + i]
<1>1. Capacity \in Nat \ {0} /\ Len(s) \in Nat
  BY ViewerAssumption
<1>2. CASE Len(s) <= Capacity
  <2>1. Kept(s) = s
    BY <1>2 DEF Kept
  <2> QED
    BY <1>1, <1>2, <2>1
<1>3. CASE ~(Len(s) <= Capacity)
  <2> DEFINE m == Len(s) - Capacity + 1
             n == Len(s)
             k == SubSeq(s, m, n)
  <2>1. Kept(s) = k
    BY <1>3 DEF Kept
  <2>2. m \in Int /\ n \in Int /\ m <= n /\ (n - m) + 1 = Capacity /\ \A i \in m..n : s[i] \in S
    BY <1>1, <1>3
  <2> HIDE DEF m, n
  <2>3. /\ k \in Seq(S) /\ Len(k) = IF m <= n THEN n - m + 1 ELSE 0
        /\ \A i \in 1..(n - m + 1) : k[i] = s[m + i - 1]
    BY <2>2, SubSeqProperties
  <2> HIDE DEF k
  <2>4. Len(k) = Capacity
    BY <2>2, <2>3
  <2>5. ASSUME NEW i \in 1..Len(k) PROVE k[i] = s[(Len(s) - Len(k)) + i]
    <3>1. m + i - 1 = (Len(s) - Len(k)) + i
      BY <1>1, <2>4 DEF m
    <3>2. k[i] = s[m + i - 1]
      BY <2>2, <2>3, <2>4
    <3> QED
      BY <3>1, <3>2
  <2> QED
    BY <1>1, <1>3, <2>1, <2>3, <2>4, <2>5
<1> QED
  BY <1>2, <1>3

\* Records are shown.
LEMMA Shows ==
  ASSUME PageInv, NEW records \in Seq(SentRecord), AddRecords(records),
         filtering' = filtering, mixed' \in BOOLEAN, parted' = parted, socket' = socket,
         log' = log
  PROVE  /\ PageInv'
         /\ \A n \in Int : Ending(shown, n - Len(records)) /\ Ending(records, n)
                             => Ending(shown', n)
         /\ AllTold(shown, log, parted) /\ AllTold(records, log, parted)
              => AllTold(shown', log, parted)
<1> DEFINE new == [i \in DOMAIN records |->
                     [record |-> records[i].record, more |-> records[i].more,
                      id |-> lineId + i, hidden |-> Hides(filtering, records[i].record)]]
           all == shown \o new
<1>1. /\ shown \in Seq(ShownLine) /\ Len(shown) \in Nat /\ Len(records) \in Nat
      /\ lineId \in Nat /\ DOMAIN records = 1..Len(records)
      /\ \A i \in 1..Len(records) : records[i].record \in 1..Records /\ records[i].more \in BOOLEAN
      /\ shown' = Kept(all) /\ lineId' = lineId + Len(records)
      /\ filtering \in BOOLEAN
  <2>1. shown' = Kept(all) /\ lineId' = lineId + Len(records)
    BY DEF AddRecords
  <2>2. shown \in Seq(ShownLine) /\ lineId \in Nat /\ filtering \in BOOLEAN
    BY DEF PageInv
  <2>3. \A i \in 1..Len(records) : records[i] \in SentRecord
    OBVIOUS
  <2>4. \A i \in 1..Len(records) :
          records[i].record \in 1..Records /\ records[i].more \in BOOLEAN
    BY <2>3 DEF SentRecord
  <2>5. Len(shown) \in Nat /\ Len(records) \in Nat /\ DOMAIN records = 1..Len(records)
    BY <2>2
  <2> HIDE DEF all
  <2> QED
    BY <2>1, <2>2, <2>4, <2>5
<1>2. ASSUME NEW i \in 1..Len(records)
      PROVE  /\ new[i] \in ShownLine /\ new[i].record = records[i].record
             /\ new[i].more = records[i].more /\ new[i].id = lineId + i
             /\ new[i].hidden <=> Hides(filtering, records[i].record)
  <2>1. Hides(filtering, records[i].record) \in BOOLEAN
    BY <1>1 DEF Hides
  <2> DEFINE hides == Hides(filtering, records[i].record)
             r == [record |-> records[i].record, more |-> records[i].more,
                   id |-> lineId + i, hidden |-> hides]
  <2>2. new[i] = r
    BY <1>1
  <2> HIDE DEF hides
  <2>3. r \in ShownLine
    BY <1>1, <2>1 DEF ShownLine, hides
  <2> QED
    BY <2>2, <2>3 DEF hides
<1> HIDE DEF new
<1>3. new \in Seq(ShownLine) /\ Len(new) = Len(records)
  <2>1. new \in [1..Len(records) -> ShownLine]
    BY <1>1, <1>2 DEF new
  <2> HIDE DEF all
  <2>2. Len(records) \in Nat
    BY <1>1
  <2> QED
    BY <2>1, <2>2
<1>4. /\ all \in Seq(ShownLine) /\ Len(all) = Len(shown) + Len(records)
      /\ \A i \in 1..(Len(shown) + Len(records)) :
           all[i] = IF i <= Len(shown) THEN shown[i] ELSE new[i - Len(shown)]
  <2>1. shown \in Seq(ShownLine) /\ new \in Seq(ShownLine)
    BY <1>1, <1>3
  <2>2. /\ all \in Seq(ShownLine) /\ Len(all) = Len(shown) + Len(new)
        /\ \A i \in 1..(Len(shown) + Len(new)) :
             all[i] = IF i <= Len(shown) THEN shown[i] ELSE new[i - Len(shown)]
    BY <2>1, ConcatProperties
  <2> QED
    BY <1>3, <2>2
<1> HIDE DEF all
<1> DEFINE d == Len(all) - Len(shown')
<1>5. /\ shown' \in Seq(ShownLine) /\ Len(shown') <= Capacity /\ Len(shown') <= Len(all)
      /\ \A i \in 1..Len(shown') : shown'[i] = all[d + i]
  BY <1>1, <1>4, KeptLines
<1>6. d \in Nat /\ Len(shown') \in Nat /\ Len(shown') = Len(shown) + Len(records) - d
  BY <1>1, <1>4, <1>5
<1> HIDE DEF d
<1>7. ASSUME NEW i \in 1..Len(shown')
      PROVE  \/ d + i \in 1..Len(shown) /\ shown'[i] = shown[d + i]
             \/ /\ (d + i) - Len(shown) \in 1..Len(records)
                /\ shown'[i] = new[(d + i) - Len(shown)]
  <2>1. d + i \in 1..(Len(shown) + Len(records)) /\ shown'[i] = all[d + i]
    <3>1. Len(shown) \in Nat /\ Len(records) \in Nat
      BY <1>1
    <3>2. d + i \in 1..(Len(shown) + Len(records))
      BY <1>6, <3>1
    <3>3. shown'[i] = all[d + i]
      BY <1>5
    <3> QED
      BY <3>2, <3>3
  <2>2. CASE d + i <= Len(shown)
    <3>1. all[d + i] = shown[d + i]
      BY <1>4, <2>1, <2>2
    <3>2. d + i \in 1..Len(shown)
      BY <1>1, <2>1, <2>2
    <3> QED
      BY <2>1, <3>1, <3>2
  <2>3. CASE ~(d + i <= Len(shown))
    <3>1. all[d + i] = new[(d + i) - Len(shown)]
      BY <1>4, <2>1, <2>3
    <3>2. (d + i) - Len(shown) \in 1..Len(records)
      BY <1>1, <1>6, <2>1, <2>3
    <3> QED
      BY <2>1, <3>1, <3>2
  <2> QED
    BY <2>2, <2>3
<1>8. ASSUME NEW n \in Int, Ending(shown, n - Len(records)), Ending(records, n),
             NEW i \in 1..Len(shown')
      PROVE  shown'[i].record = n - Len(shown') + i
  <2>1. CASE d + i \in 1..Len(shown) /\ shown'[i] = shown[d + i]
    <3>1. shown[d + i].record = (n - Len(records)) - Len(shown) + (d + i)
      BY <1>8, <2>1 DEF Ending
    <3> QED
      BY <1>1, <1>6, <2>1, <3>1
  <2>2. CASE /\ (d + i) - Len(shown) \in 1..Len(records)
             /\ shown'[i] = new[(d + i) - Len(shown)]
    <3>1. shown'[i].record = records[(d + i) - Len(shown)].record
      BY <1>2, <2>2
    <3>2. records[(d + i) - Len(shown)].record = n - Len(records) + ((d + i) - Len(shown))
      BY <1>8, <2>2 DEF Ending
    <3> QED
      BY <1>1, <1>6, <3>1, <3>2
  <2> QED
    BY <1>7, <2>1, <2>2
<1>9. ASSUME AllTold(shown, log, parted), AllTold(records, log, parted), NEW i \in 1..Len(shown')
      PROVE  Told(shown'[i], log, parted)
  <2>1. CASE d + i \in 1..Len(shown) /\ shown'[i] = shown[d + i]
    BY <1>9, <2>1 DEF AllTold
  <2>2. CASE /\ (d + i) - Len(shown) \in 1..Len(records)
             /\ shown'[i] = new[(d + i) - Len(shown)]
    <3> DEFINE j == (d + i) - Len(shown)
    <3>1. Told(records[j], log, parted)
      BY <1>9, <2>2 DEF AllTold
    <3>2. shown'[i].record = records[j].record /\ shown'[i].more = records[j].more
      BY <1>2, <2>2
    <3> QED
      BY <3>1, <3>2 DEF Told
  <2> QED
    BY <1>7, <2>1, <2>2
<1>10. ASSUME socket' = "open", NEW i \in 1..Len(shown')
       PROVE  /\ shown'[i].id = lineId' - Len(shown') + i
              /\ shown'[i].hidden <=> Hides(filtering', shown'[i].record)
  <2>1. CASE d + i \in 1..Len(shown) /\ shown'[i] = shown[d + i]
    <3>1. /\ shown[d + i].id = lineId - Len(shown) + (d + i)
          /\ shown[d + i].hidden <=> Hides(filtering, shown[d + i].record)
      BY <1>1, <1>10, <2>1 DEF PageInv
    <3>2. /\ lineId \in Int /\ d \in Int /\ i \in Int /\ Len(shown) \in Int
          /\ Len(records) \in Int /\ lineId' = lineId + Len(records)
          /\ Len(shown') = Len(shown) + Len(records) - d
      BY <1>1, <1>6
    <3>3. shown'[i].id = lineId' - Len(shown') + i
      BY <2>1, <3>1, <3>2
    <3>4. shown'[i].hidden <=> Hides(filtering', shown'[i].record)
      BY <2>1, <3>1
    <3> QED
      BY <3>3, <3>4
  <2>2. CASE /\ (d + i) - Len(shown) \in 1..Len(records)
             /\ shown'[i] = new[(d + i) - Len(shown)]
    <3>1. /\ shown'[i].id = lineId + ((d + i) - Len(shown))
          /\ shown'[i].hidden <=> Hides(filtering, shown'[i].record)
      BY <1>2, <2>2
    <3>2. /\ lineId \in Int /\ d \in Int /\ i \in Int /\ Len(shown) \in Int
          /\ Len(records) \in Int /\ lineId' = lineId + Len(records)
          /\ Len(shown') = Len(shown) + Len(records) - d
      BY <1>1, <1>6
    <3>3. shown'[i].id = lineId' - Len(shown') + i
      BY <3>1, <3>2
    <3>4. shown'[i].hidden <=> Hides(filtering', shown'[i].record)
      BY <3>1
    <3> QED
      BY <3>3, <3>4
  <2> QED
    BY <1>7, <2>1, <2>2
<1>11. PageInv'
  <2>1. DOMAIN shown' = 1..Len(shown')
    BY <1>5
  <2>2. lineId' \in Nat /\ {filtering', mixed'} \subseteq BOOLEAN /\ parted' \subseteq 1..Records
    BY <1>1 DEF PageInv
  <2> QED
    BY <1>5, <1>10, <2>1, <2>2 DEF PageInv
<1> QED
  BY <1>8, <1>9, <1>11 DEF Ending, AllTold

-----------------------------------------------------------------------------

LEMMA CollectedType == ASSUME LogInv, ReaderInv PROVE Collected \in Int
<1>1. reader.at # 0 => log[reader.at] \in Line
  BY DEF LogInv, ReaderInv
<1> QED
  BY <1>1, ViewerAssumption DEF Collected, CollectedBy, Line

LEMMA ToldAfter ==
  ASSUME NEW records, NEW text, NEW ends, NEW more, ends \subseteq more,
         AllTold(records, text, ends)
  PROVE  AllTold(records, text, more)
BY DEF AllTold, Told

\* The reader has read, and sends what it has collected or does not.
LEMMA SendFlows ==
  ASSUME ViewerInv, socket = "open", NEW new, NEW due, Send(new, due),
         new = [at |-> new.at, lines |-> new.lines, records |-> new.records,
                missed |-> new.missed],
         new.records \in Seq(SentRecord),
         log' = log, UNCHANGED <<connection, page, mixed>>,
         parted \subseteq parted', parted' \subseteq 1..Records,
         CollectedBy(new, log) \in Int,
         CollectedBy(new, log) - Len(new.records) = Collected - Len(reader.records),
         Ending(reader.records, Collected) => Ending(new.records, CollectedBy(new, log)),
         AllTold(reader.records, log, parted) => AllTold(new.records, log, parted')
  PROVE  /\ SocketInv' /\ PageInv' /\ FlowInv'
         /\ reader' = [at |-> new.at, lines |-> new.lines, records |-> reader'.records,
                       missed |-> new.missed]
         /\ reader'.records \in Seq(SentRecord)
<1> DEFINE ms == MessagesOf(buffers, wire)
           n == CollectedBy(new, log)
<1>1. /\ wire \in Seq(Seq(SentRecord)) /\ buffers \in Seq(Buffer)
      /\ wire' \in Seq(Seq(SentRecord))
      /\ socket' = socket /\ losses' = losses /\ buffers' = buffers /\ shown' = shown
      /\ lineId' = lineId /\ filtering' = filtering /\ mixed' = mixed
  <2>1. /\ wire \in Seq(Seq(SentRecord)) /\ buffers \in Seq(Buffer)
        /\ wire' = wire \/ wire' = Append(wire, new.records)
    BY DEF ViewerInv, SocketInv, Send, Buffer
  <2>2. Append(wire, new.records) \in Seq(Seq(SentRecord))
    BY <2>1, Appended
  <2>3. socket' = socket /\ losses' = losses
    BY DEF connection
  <2>4. /\ buffers' = buffers /\ shown' = shown /\ lineId' = lineId
        /\ filtering' = filtering /\ mixed' = mixed
    BY DEF page
  <2> QED
    BY <2>1, <2>2, <2>3, <2>4
<1>2. SocketInv' /\ PageInv'
  BY <1>1 DEF ViewerInv, SocketInv, PageInv, Hides, Buffer
<1>3. \/ wire' = wire /\ reader' = new
      \/ /\ new.records # <<>>
         /\ wire' = Append(wire, new.records) /\ reader' = [new EXCEPT !.records = <<>>]
  BY DEF Send
<1>4. /\ reader' = [at |-> new.at, lines |-> new.lines, records |-> reader'.records,
                     missed |-> new.missed]
      /\ reader'.records \in Seq(SentRecord)
      /\ reader'.at = new.at /\ reader'.lines = new.lines
  <2>1. CASE reader' = new
    BY <2>1
  <2>2. CASE reader' = [new EXCEPT !.records = <<>>]
    <3>1. reader' = [at |-> new.at, lines |-> new.lines, records |-> <<>>,
                     missed |-> new.missed]
      BY <2>2
    <3>2. <<>> \in Seq(SentRecord)
      OBVIOUS
    <3> QED
      BY <3>1, <3>2
  <2> QED
    BY <1>3, <2>1, <2>2
<1>5. CollectedBy(reader', log) = n
  BY <1>4 DEF CollectedBy
<1>6. IsMessages(ms, buffers, wire)
  BY <1>1, MessagesType
<1>7. ms \in Seq(Seq(SentRecord))
  BY <1>6 DEF IsMessages
<1>8. Fresh' <=> Fresh
  BY <1>1 DEF Fresh
<1>9. ASSUME Fresh
      PROVE  Flows(MessagesOf(buffers, wire), Collected)' /\ \A i \in 1..Len(buffers) : ~buffers[i].old
  <2>1. Flows(ms, Collected) /\ \A i \in 1..Len(buffers) : ~buffers[i].old
    BY <1>9 DEF ViewerInv, FlowInv
  <2> HIDE DEF n
  <2>2. Chain(shown, ms, new.records, n)
    BY <2>1 DEF Flows, Chain, n
  <2>3. /\ AllTold(shown, log, parted') /\ AllTold(new.records, log, parted')
        /\ \A k \in 1..Len(ms) : AllTold(ms[k], log, parted')
    BY <2>1, ToldAfter DEF Flows
  <2>4. CASE wire' = wire /\ reader' = new
    <3>1. MessagesOf(buffers', wire') = ms
      BY <1>1, <2>4
    <3> HIDE DEF ms
    <3> QED
      BY <1>1, <1>5, <2>1, <2>2, <2>3, <2>4, <3>1 DEF Flows, Collected, n
  <2>5. CASE /\ new.records # <<>>
             /\ wire' = Append(wire, new.records) /\ reader' = [new EXCEPT !.records = <<>>]
    <3> DEFINE more == Append(ms, new.records)
    <3>1. MessagesOf(buffers', wire') = more
      BY <1>1, <2>5, MessagesSent
    <3>2. reader'.records = <<>>
      BY <1>4, <2>5
    <3>3. Chain(shown, more, <<>>, n)
      BY <1>7, <2>2, <2>5, ChainSends DEF n
    <3>4. \A k \in 1..Len(more) : AllTold(more[k], log, parted')
      BY <1>7, <2>3, Appended
    <3>5. AllTold(<<>>, log, parted')
      BY DEF AllTold
    <3> HIDE DEF ms, more
    <3> QED
      BY <1>1, <1>5, <2>1, <2>3, <3>1, <3>2, <3>3, <3>4, <3>5 DEF Flows, Collected, n
  <2> QED
    BY <1>3, <2>4, <2>5
<1>10. FlowInv'
  BY <1>1, <1>8, <1>9 DEF ViewerInv, FlowInv
<1> QED
  BY <1>2, <1>4, <1>10

\* So have those of the buffer with the lines held back.
LEMMA FlushTold ==
  ASSUME NEW records, NEW flushed, NEW line, NEW text, NEW ends, NEW more, ends \subseteq more,
         AllTold(records, text, ends), Flushes(records, flushed, line),
         line.first => \/ line.record \in more
                       \/ /\ text # <<>> /\ line.record < Last(text).record
                          /\ ~Contains(text, NextLine(line.record))
  PROVE  AllTold(flushed, text, more)
<1> SUFFICES ASSUME NEW i \in 1..Len(flushed) PROVE Told(flushed[i], text, more)
  BY DEF AllTold
<1>1. CASE \E j \in 1..Len(records) : /\ flushed[i].record = records[j].record
                                      /\ records[j].more => flushed[i].more
  <2>1. PICK j \in 1..Len(records) : /\ flushed[i].record = records[j].record
                                     /\ records[j].more => flushed[i].more
    BY <1>1
  <2>2. Told(records[j], text, ends)
    BY DEF AllTold
  <2> QED
    BY <2>1, <2>2 DEF Told
<1>2. CASE flushed[i].record = line.record /\ (flushed[i].more \/ line.first)
  BY <1>2 DEF Told
<1> QED
  BY <1>1, <1>2 DEF Flushes

LEMMA TwoLines ==
  ASSUME NEW S, NEW a \in S, NEW b \in S PROVE Append(<<a>>, b) = <<a, b>>
<1>1. <<a>> \in Seq(S) /\ Len(<<a>>) = 1 /\ <<a, b>> \in Seq(S) /\ Len(<<a, b>>) = 2
  OBVIOUS
<1>2. /\ Append(<<a>>, b) \in Seq(S) /\ Len(Append(<<a>>, b)) = 2
      /\ \A k \in 1..2 : Append(<<a>>, b)[k] = IF k = 2 THEN b ELSE <<a>>[k]
  BY <1>1, Appended
<1>3. \A k \in 1..2 : Append(<<a>>, b)[k] = <<a, b>>[k]
  BY <1>2
<1> QED
  BY <1>1, <1>2, <1>3, SeqEqual

LEMMA ReadLineStep ==
  ASSUME ViewerInv, NEW due, ReadLine(due) PROVE ViewerInv'
<1> DEFINE at == reader.at
           line == log[at + 1]
           flushed == Reader(at + 1, <<line>>, Flushed, 0)
           longer == Reader(at + 1, Append(reader.lines, line), reader.records, 0)
<1>1. /\ LogInv /\ ReaderInv /\ socket = "open" /\ at < Len(log)
      /\ log' = log /\ UNCHANGED <<connection, page, mixed>> /\ parted' = parted
  BY DEF ViewerInv, ReadLine, viewerHistory
<1>2. /\ at \in Nat /\ at + 1 \in 1..Len(log) /\ line \in Line /\ line.record \in Int
      /\ parted' \subseteq 1..Records /\ Records \in Nat
  <2>1. at \in Nat /\ at + 1 \in 1..Len(log)
    BY <1>1 DEF ReaderInv, LogInv
  <2>2. log[at + 1] \in Line
    BY <1>1, <2>1, LogAt
  <2>3. line.record \in Int /\ Records \in Nat
    BY <2>2, ViewerAssumption DEF Line
  <2>4. parted' \subseteq 1..Records
    BY <1>1 DEF ViewerInv, PageInv
  <2> QED
    BY <2>1, <2>2, <2>3, <2>4
<1>3. /\ reader = [at |-> at, lines |-> reader.lines, records |-> reader.records,
                   missed |-> reader.missed]
      /\ reader.records \in Seq(SentRecord)
  BY <1>1 DEF ReaderInv
<1>4. \/ line.first /\ reader.lines # <<>> /\ Send(flushed, due)
      \/ (~line.first \/ reader.lines = <<>>) /\ Send(longer, FALSE)
  BY DEF ReadLine, Flushed, Send
<1>5. at > 0 => /\ at \in 1..Len(log) /\ log[at] \in Line /\ log[at].record \in Int
                /\ \/ line = FirstLine(log[at].record + 1)
                   \/ log[at].first /\ line = NextLine(log[at].record)
                /\ log[at].first /\ line.first =>
                     ~HasNextLine(log[at].record) /\ log[at].record < LastRecord
                /\ LastRecord = Last(log).record /\ log # <<>>
  <2>1. at > 0 => at \in 1..Len(log)
    BY <1>1, <1>2
  <2> QED
    BY <1>1, <1>2, <2>1, LogAt DEF Line
<1>6. CASE line.first /\ reader.lines # <<>> /\ Send(flushed, due)
  <2> DEFINE n == log[at].record
  <2>1. at > 0
    BY <1>1, <1>2, <1>6 DEF ReaderInv
  <2>2. /\ Flushed \in Seq(SentRecord)
        /\ n - Len(Flushed) = Collected - Len(reader.records)
        /\ Ending(reader.records, Collected) => Ending(Flushed, n)
        /\ Flushes(reader.records, Flushed, log[at])
    BY <1>1, <2>1, FlushedLines
  <2>3. line = FirstLine(n + 1)
    BY <1>5, <1>6, <2>1 DEF NextLine
  <2>4. CollectedBy(flushed, log) = n
    <3>1. line.record - 1 = n
      BY <1>5, <2>1, <2>3 DEF FirstLine
    <3>2. at + 1 # 0
      BY <1>2
    <3> QED
      BY <1>6, <3>1, <3>2 DEF CollectedBy, Reader
  <2>5. AllTold(reader.records, log, parted) => AllTold(Flushed, log, parted')
    <3>1. log[at].first => /\ log # <<>> /\ log[at].record < Last(log).record
                           /\ ~Contains(log, NextLine(log[at].record))
      BY <1>5, <1>6, <2>1 DEF HasNextLine
    <3> QED
      BY <1>1, <2>2, <3>1, FlushTold
  <2>6. n \in Int
    BY <1>5, <2>1
  <2>7. /\ flushed.at = at + 1 /\ flushed.lines = <<line>> /\ flushed.records = Flushed
        /\ flushed.missed = 0
        /\ flushed = [at |-> flushed.at, lines |-> flushed.lines,
                      records |-> flushed.records, missed |-> flushed.missed]
    BY DEF Reader
  <2> HIDE DEF flushed, n
  <2>8. /\ SocketInv' /\ PageInv' /\ FlowInv'
        /\ reader' = [at |-> flushed.at, lines |-> flushed.lines, records |-> reader'.records,
                      missed |-> flushed.missed]
        /\ reader'.records \in Seq(SentRecord)
    BY <1>1, <1>2, <1>6, <2>2, <2>4, <2>5, <2>6, <2>7, SendFlows
  <2>9. ReaderInv'
    BY <1>1, <1>2, <2>7, <2>8 DEF ReaderInv
  <2> QED
    BY <1>1, <2>8, <2>9 DEF ViewerInv, LogInv
<1>7. CASE (~line.first \/ reader.lines = <<>>) /\ Send(longer, FALSE)
  <2>1. \/ reader.lines = <<>> /\ Append(reader.lines, line) = <<line>>
        \/ /\ at > 0 /\ log[at].first /\ ~line.first /\ reader.lines = <<log[at]>>
           /\ Append(reader.lines, line) = <<log[at], line>>
           /\ line = NextLine(log[at].record)
    <3>1. CASE reader.lines = <<>>
      BY <3>1
    <3>2. CASE reader.lines # <<>>
      <4>1. at > 0 /\ ~line.first
        BY <1>1, <1>2, <1>7, <3>2 DEF ReaderInv
      <4>2. log[at].first /\ line = NextLine(log[at].record)
        BY <1>5, <4>1 DEF FirstLine
      <4>3. reader.lines = <<log[at]>>
        BY <1>1, <3>2, <4>2 DEF ReaderInv
      <4>4. log[at] \in Line
        BY <1>5, <4>1
      <4>5. Append(reader.lines, line) = <<log[at], line>>
        BY <1>2, <4>3, <4>4, TwoLines
      <4> QED
        BY <4>1, <4>2, <4>3, <4>5
    <3> QED
      BY <3>1, <3>2
  <2>2. CollectedBy(longer, log) = Collected
    <3>1. CASE reader.lines = <<>> /\ at = 0
      <4>1. line = FirstLine(1)
        BY <1>1, <1>2, <3>1 DEF LogInv
      <4>2. line.record = 1 /\ line.first
        BY <4>1 DEF FirstLine
      <4> QED
        BY <2>1, <3>1, <4>2 DEF CollectedBy, Collected, Reader
    <3>2. CASE reader.lines = <<>> /\ at > 0
      <4>1. at + 1 # 0 /\ at # 0 /\ Append(reader.lines, line) = <<line>>
        BY <1>2, <3>2
      <4>2. Collected = log[at].record
        BY <3>2, <4>1 DEF Collected, CollectedBy
      <4>3. CollectedBy(longer, log) = IF line.first THEN line.record - 1 ELSE line.record
        BY <4>1 DEF CollectedBy, Reader
      <4>4. IF line.first THEN line.record = log[at].record + 1
            ELSE line.record = log[at].record
        BY <1>5, <3>2 DEF FirstLine, NextLine
      <4> QED
        BY <1>5, <3>2, <4>2, <4>3, <4>4
    <3>3. CASE /\ at > 0 /\ log[at].first /\ reader.lines = <<log[at]>>
               /\ Append(reader.lines, line) = <<log[at], line>>
               /\ line = NextLine(log[at].record)
      <4>1. line.record = log[at].record
        BY <3>3 DEF NextLine
      <4> QED
        BY <1>2, <3>3, <4>1 DEF CollectedBy, Collected, Reader
    <3> QED
      BY <1>2, <2>1, <3>1, <3>2, <3>3
  <2>3. Collected \in Int
    BY <1>1, CollectedType
  <2>4. /\ longer.at = at + 1 /\ longer.lines = Append(reader.lines, line)
        /\ longer.records = reader.records /\ longer.missed = 0
        /\ longer = [at |-> longer.at, lines |-> longer.lines,
                   records |-> longer.records, missed |-> longer.missed]
    BY DEF Reader
  <2> HIDE DEF longer
  <2>5. AllTold(reader.records, log, parted) => AllTold(longer.records, log, parted')
    BY <1>1, <2>4
  <2>6. /\ SocketInv' /\ PageInv' /\ FlowInv'
        /\ reader' = [at |-> longer.at, lines |-> longer.lines, records |-> reader'.records,
                      missed |-> longer.missed]
        /\ reader'.records \in Seq(SentRecord)
    BY <1>1, <1>2, <1>3, <1>7, <2>2, <2>3, <2>4, <2>5, SendFlows
  <2>7. /\ reader'.at = at + 1 /\ reader'.lines = Append(reader.lines, line)
        /\ reader'.missed = 0
    BY <2>4, <2>6
  <2>8. \/ reader'.at > 0 /\ reader'.lines = <<log[reader'.at]>>
        \/ /\ reader'.at > 1 /\ log[reader'.at - 1].first /\ ~log[reader'.at].first
           /\ reader'.lines = <<log[reader'.at - 1], log[reader'.at]>>
    <3>1. reader'.at - 1 = at /\ reader'.at > 0 /\ (at > 0 => reader'.at > 1)
      BY <1>2, <2>7
    <3> QED
      BY <2>1, <2>7, <3>1
  <2>9. ReaderInv'
    <3>1. reader' = [at |-> reader'.at, lines |-> reader'.lines, records |-> reader'.records,
                     missed |-> reader'.missed]
      BY <2>6
    <3>2. reader'.at \in 0..Len(log) /\ reader'.missed \in 0..2
      BY <1>1, <1>2, <2>7
    <3> QED
      BY <1>1, <2>6, <2>8, <3>1, <3>2 DEF ReaderInv
  <2> QED
    BY <1>1, <2>6, <2>9 DEF ViewerInv, LogInv
<1> QED
  BY <1>4, <1>6, <1>7

LEMMA ReadNothingStep ==
  ASSUME ViewerInv, NEW due, ReadNothing(due) PROVE ViewerInv'
<1> DEFINE at == reader.at
           n == log[at].record
           waits == Reader(at, reader.lines, reader.records, 1)
           flushed == Reader(at, <<>>, Flushed, 2)
<1>1. /\ LogInv /\ ReaderInv /\ socket = "open" /\ at = Len(log) /\ log # <<>>
      /\ log' = log /\ UNCHANGED <<connection, page, mixed>>
  BY DEF ViewerInv, ReadNothing
<1>2. /\ at \in 1..Len(log) /\ log[at] \in Line /\ n \in 1..Records /\ n \in Int
      /\ LastRecord = n /\ Last(log) = log[at] /\ at > 0
  <2>1. log \in Seq(Line) /\ Len(log) \in Nat \ {0}
    BY <1>1 DEF LogInv
  <2>2. at \in 1..Len(log) /\ log[at] \in Line
    BY <1>1, <2>1
  <2> QED
    BY <1>1, <2>2, ViewerAssumption DEF LastRecord, Last, Line
<1>3. CASE reader.missed = 0
  <2>1. Send(waits, FALSE) /\ parted' = parted
    <3>1. [reader EXCEPT !.missed = 1] = waits
      BY <1>1 DEF ReaderInv, Reader
    <3>2. reader' = [reader EXCEPT !.missed = 1] /\ UNCHANGED <<wire, parted>>
      BY <1>3 DEF ReadNothing
    <3> QED
      BY <3>1, <3>2 DEF Send
  <2>2. /\ waits.at = at /\ waits.lines = reader.lines
        /\ waits.records = reader.records /\ waits.missed = 1
        /\ waits = [at |-> waits.at, lines |-> waits.lines,
                    records |-> waits.records, missed |-> waits.missed]
    BY DEF Reader
  <2> HIDE DEF waits
  <2>3. CollectedBy(waits, log) = Collected /\ Collected \in Int
    BY <1>1, <2>2, CollectedType DEF CollectedBy, Collected
  <2>4. waits.records \in Seq(SentRecord) /\ parted' \subseteq 1..Records
    BY <1>1, <2>1, <2>2 DEF ReaderInv, ViewerInv, PageInv
  <2>5. AllTold(reader.records, log, parted) => AllTold(waits.records, log, parted')
    BY <2>1, <2>2
  <2>6. /\ SocketInv' /\ PageInv' /\ FlowInv'
        /\ reader' = [at |-> waits.at, lines |-> waits.lines, records |-> reader'.records,
                      missed |-> waits.missed]
        /\ reader'.records \in Seq(SentRecord)
    BY <1>1, <2>1, <2>2, <2>3, <2>4, <2>5, SendFlows
  <2>7. ReaderInv'
    BY <1>1, <2>2, <2>6 DEF ReaderInv
  <2> QED
    BY <1>1, <2>6, <2>7 DEF ViewerInv, LogInv
<1>4. CASE reader.missed # 0
  <2>1. /\ Send(flushed, due)
        /\ parted' = IF log[at].first THEN parted \cup {n} ELSE parted
    BY <1>2, <1>4 DEF ReadNothing, Flushed
  <2>2. /\ flushed.at = at /\ flushed.lines = <<>> /\ flushed.records = Flushed
        /\ flushed.missed = 2
        /\ flushed = [at |-> flushed.at, lines |-> flushed.lines,
                      records |-> flushed.records, missed |-> flushed.missed]
    BY DEF Reader
  <2> HIDE DEF flushed
  <2>3. CollectedBy(flushed, log) = n
    BY <1>2, <2>2 DEF CollectedBy
  <2>4. /\ Flushed \in Seq(SentRecord)
        /\ n - Len(Flushed) = Collected - Len(reader.records)
        /\ Ending(reader.records, Collected) => Ending(Flushed, n)
        /\ Flushes(reader.records, Flushed, log[at])
    BY <1>1, <1>2, FlushedLines
  <2>5. parted \subseteq parted' /\ parted' \subseteq 1..Records
    BY <1>2, <2>1 DEF ViewerInv, PageInv
  <2>6. AllTold(reader.records, log, parted) => AllTold(Flushed, log, parted')
    <3>1. log[at].first => log[at].record \in parted'
      BY <2>1
    <3> QED
      BY <2>4, <2>5, <3>1, FlushTold
  <2> HIDE DEF n
  <2>7. /\ SocketInv' /\ PageInv' /\ FlowInv'
        /\ reader' = [at |-> flushed.at, lines |-> flushed.lines, records |-> reader'.records,
                      missed |-> flushed.missed]
        /\ reader'.records \in Seq(SentRecord)
    BY <1>1, <1>2, <2>1, <2>2, <2>3, <2>4, <2>5, <2>6, SendFlows
  <2>8. ReaderInv'
    BY <1>1, <2>2, <2>7 DEF ReaderInv
  <2> QED
    BY <1>1, <2>7, <2>8 DEF ViewerInv, LogInv
<1> QED
  BY <1>3, <1>4

\* The steps of the page.

LEMMA ReceiveStep == ASSUME ViewerInv, Receive PROVE ViewerInv'
<1> DEFINE buffer == [old |-> FALSE, records |-> Head(wire)]
<1>1. /\ wire # <<>> /\ wire' = Tail(wire) /\ buffers' = Append(buffers, buffer)
      /\ log' = log /\ reader' = reader /\ socket' = socket /\ losses' = losses
      /\ shown' = shown /\ lineId' = lineId /\ filtering' = filtering
      /\ mixed' = mixed /\ parted' = parted
  BY DEF Receive, connection, viewerHistory
<1>2. /\ wire \in Seq(Seq(SentRecord)) /\ buffers \in Seq(Buffer) /\ socket = "open"
  BY <1>1 DEF ViewerInv, SocketInv, Buffer
<1>3. /\ wire' \in Seq(Seq(SentRecord)) /\ buffers' \in Seq(Buffer)
      /\ MessagesOf(buffers', wire') = MessagesOf(buffers, wire)
  <2>1. FALSE \in BOOLEAN
    OBVIOUS
  <2> QED
    BY <1>1, <1>2, <2>1, MessagesReceived, Tailed
<1>4. /\ Len(buffers) \in Nat /\ Len(buffers') = Len(buffers) + 1
      /\ \A k \in 1..(Len(buffers) + 1) :
           buffers'[k] = IF k = Len(buffers) + 1 THEN buffer ELSE buffers[k]
  <2>1. Head(wire) \in Seq(SentRecord)
    BY <1>1, <1>2, Tailed
  <2>2. buffer \in Buffer
    BY <2>1 DEF Buffer
  <2> QED
    BY <1>1, <1>2, <2>2, Appended
<1>5. ~buffer.old
  OBVIOUS
<1> HIDE DEF buffer
<1>6. Fresh' <=> Fresh
  <2>1. buffers' # <<>> /\ (buffers = <<>> => buffers'[1] = buffer)
        /\ (buffers # <<>> => buffers'[1] = buffers[1])
    BY <1>2, <1>3, <1>4
  <2> QED
    BY <1>1, <1>5, <2>1 DEF Fresh
<1>7. SocketInv' /\ PageInv' /\ ReaderInv' /\ LogInv'
  BY <1>1, <1>2, <1>3 DEF ViewerInv, SocketInv, PageInv, ReaderInv, LogInv, Hides, Buffer
<1>8. FlowInv'
  <2>1. ASSUME Fresh PROVE \A i \in 1..Len(buffers') : ~buffers'[i].old
    BY <1>4, <1>5, <2>1 DEF ViewerInv, FlowInv
  <2>2. ASSUME Fresh PROVE Flows(MessagesOf(buffers, wire), Collected)'
    <3>1. Flows(MessagesOf(buffers, wire), Collected)
      BY <2>2 DEF ViewerInv, FlowInv
    <3> QED
      BY <1>1, <1>3, <3>1 DEF Flows, Collected
  <2> QED
    BY <1>1, <1>6, <2>1, <2>2 DEF ViewerInv, FlowInv
<1> QED
  BY <1>7, <1>8 DEF ViewerInv

LEMMA ResolveStep ==
  ASSUME ViewerInv, NEW i \in DOMAIN buffers, Resolve(i) PROVE ViewerInv'
<1> DEFINE r == buffers[i].records
           ms == MessagesOf(buffers, wire)
           m == Collected - Len(reader.records)
<1>1. /\ AddRecords(r) /\ buffers' = RemoveAt(buffers, i)
      /\ mixed' = (mixed \/ i > 1 \/ buffers[i].old)
      /\ log' = log /\ reader' = reader /\ wire' = wire /\ socket' = socket
      /\ losses' = losses /\ filtering' = filtering /\ parted' = parted
  BY DEF Resolve, connection
<1>2. /\ wire \in Seq(Seq(SentRecord)) /\ buffers \in Seq(Buffer)
      /\ i \in 1..Len(buffers) /\ Len(buffers) \in Nat \ {0}
  BY DEF ViewerInv, SocketInv, Buffer
<1>3. buffers[i] \in Buffer /\ r \in Seq(SentRecord) /\ buffers[i].old \in BOOLEAN
  <2>1. buffers[i] \in Buffer
    BY <1>2
  <2> QED
    BY <2>1 DEF Buffer
<1>4. /\ buffers' \in Seq(Buffer) /\ Len(buffers') = Len(buffers) - 1
      /\ \A k \in 1..Len(buffers') :
           buffers'[k] = IF k < i THEN buffers[k] ELSE buffers[k + 1]
  BY <1>1, <1>2, Removed
<1>5. mixed \in BOOLEAN /\ mixed' \in BOOLEAN
  BY <1>1, <1>3 DEF ViewerInv, PageInv
<1> HIDE DEF r
<1>6. /\ PageInv'
      /\ \A n \in Int : Ending(shown, n - Len(r)) /\ Ending(r, n) => Ending(shown', n)
      /\ AllTold(shown, log, parted) /\ AllTold(r, log, parted)
           => AllTold(shown', log, parted)
  BY <1>1, <1>3, <1>5, Shows DEF ViewerInv
<1>7. SocketInv'
  <2>1. ASSUME NEW k \in 1..Len(buffers'), socket' = "connecting" PROVE buffers'[k].old
    <3>1. k \in 1..Len(buffers) /\ k + 1 \in 1..Len(buffers)
      BY <1>2, <1>4
    <3>2. \A j \in 1..Len(buffers) : buffers[j].old
      BY <1>1, <1>2, <2>1 DEF ViewerInv, SocketInv
    <3>3. buffers'[k] = buffers[k] \/ buffers'[k] = buffers[k + 1]
      BY <1>4
    <3> QED
      BY <3>1, <3>2, <3>3, Zenon
  <2>2. DOMAIN buffers' = 1..Len(buffers')
    BY <1>4
  <2> QED
    BY <1>1, <1>4, <2>1, <2>2 DEF ViewerInv, SocketInv, Buffer
<1>8. ASSUME socket' = "open", ~mixed'
      PROVE  /\ Fresh' /\ \A k \in 1..Len(buffers') : ~buffers'[k].old
             /\ Flows(MessagesOf(buffers, wire), Collected)'
  <2>1. Fresh /\ i = 1
    <3>1. ~mixed /\ ~(i > 1) /\ ~buffers[i].old
      BY <1>1, <1>8, Zenon
    <3>2. i = 1
      BY <1>2, <3>1
    <3> QED
      BY <1>1, <1>8, <3>1, <3>2 DEF Fresh
  <2>2. /\ \A k \in 1..Len(buffers) : ~buffers[k].old
        /\ Flows(ms, Collected)
    BY <2>1 DEF ViewerInv, FlowInv
  <2>3. \A k \in 1..Len(buffers') : ~buffers'[k].old
    <3>1. \A k \in 1..Len(buffers') : k \in 1..Len(buffers) /\ k + 1 \in 1..Len(buffers)
      BY <1>2, <1>4
    <3> QED
      BY <1>4, <2>2, <3>1
  <2>4. buffers' # <<>> => 1 \in 1..Len(buffers')
    BY <1>4
  <2>5. Fresh'
    BY <1>8, <2>3, <2>4 DEF Fresh
  <2>6. IsMessages(ms, buffers, wire)
    BY <1>2, MessagesType
  <2> HIDE DEF ms
  <2>7. /\ ms \in Seq(Seq(SentRecord)) /\ Len(ms) = Len(buffers) + Len(wire)
        /\ ms # <<>> /\ ms[1] = r /\ Len(ms) \in Nat \ {0}
        /\ \A k \in 1..Len(ms) : ms[k] \in Seq(SentRecord)
    <3>1. ms \in Seq(Seq(SentRecord)) /\ Len(ms) = Len(buffers) + Len(wire)
      BY <2>6 DEF IsMessages
    <3>2. 1 \in 1..Len(ms) /\ 1 <= Len(buffers)
      BY <1>2, <3>1
    <3>3. ms[1] = r
      BY <2>1, <2>6, <3>2 DEF IsMessages, r
    <3> QED
      BY <3>1, <3>2, <3>3
  <2>8. MessagesOf(buffers', wire') = Tail(ms)
    <3>1. buffers # <<>>
      BY <1>2
    <3> QED
      BY <1>1, <1>2, <2>1, <3>1, MessagesResolved DEF ms
  <2>9. Collected \in Int /\ m \in Int /\ reader.records \in Seq(SentRecord)
    <3>1. reader.records \in Seq(SentRecord)
      BY DEF ViewerInv, ReaderInv
    <3> QED
      BY <3>1, CollectedType DEF ViewerInv
  <2>10. Chain(shown, ms, reader.records, Collected)
    BY <2>2 DEF Flows
  <2>11. \A k \in 1..Len(ms) : ms[k] # <<>> /\ Ending(ms[k], EndBefore(ms, m, k))
    BY <2>10 DEF Chain
  <2> DEFINE b == EndBefore(ms, m, 1)
  <2>12. b \in Int
    <3>1. 1 \in 0..Len(ms)
      BY <2>7
    <3> QED
      BY <2>7, <2>9, <2>11, <3>1, BeforeType
  <2> HIDE DEF b, m
  <2>13. Ending(shown, r[1].record - 1) /\ Ending(r, b) => Ending(shown', b)
    <3>1. r # <<>> /\ Ending(r, b)
      <4>1. 1 \in 1..Len(ms)
        BY <2>7
      <4> QED
        BY <2>7, <2>11, <4>1 DEF b
    <3>2. Len(r) \in Nat /\ 1 \in 1..Len(r)
      BY <1>3, <3>1
    <3>3. r[1].record = b - Len(r) + 1
      BY <3>1, <3>2 DEF Ending
    <3>4. r[1].record - 1 = b - Len(r)
      BY <2>12, <3>2, <3>3
    <3> QED
      BY <1>6, <2>12, <3>4
  <2>14. Chain(shown', Tail(ms), reader.records, Collected)
    BY <2>7, <2>9, <2>10, <2>13, ChainShows DEF b, m
  <2>15. AllTold(shown', log, parted)
    <3>1. 1 \in 1..Len(ms)
      BY <2>7
    <3> QED
      BY <1>6, <2>2, <2>7, <3>1 DEF Flows
  <2>16. \A k \in 1..Len(Tail(ms)) : AllTold(Tail(ms)[k], log, parted)
    <3>1. Len(Tail(ms)) = Len(ms) - 1 /\ \A k \in 1..(Len(ms) - 1) : Tail(ms)[k] = ms[k + 1]
      BY <2>7, Tailed
    <3>2. \A k \in 1..Len(ms) : AllTold(ms[k], log, parted)
      BY <2>2 DEF Flows
    <3>3. \A k \in 1..Len(Tail(ms)) : k + 1 \in 1..Len(ms) /\ Tail(ms)[k] = ms[k + 1]
      BY <2>7, <3>1
    <3> QED
      BY <3>2, <3>3
  <2>17. Flows(MessagesOf(buffers, wire), Collected)'
    BY <1>1, <2>2, <2>8, <2>14, <2>15, <2>16 DEF Flows, Collected
  <2> QED
    BY <2>3, <2>5, <2>17
<1>9. FlowInv'
  BY <1>8 DEF FlowInv, Fresh
<1>10. ReaderInv' /\ LogInv'
  BY <1>1 DEF ViewerInv, ReaderInv, LogInv
<1> QED
  BY <1>6, <1>7, <1>9, <1>10 DEF ViewerInv

LEMMA SetFilterStep == ASSUME ViewerInv, SetFilter PROVE ViewerInv'
<1> DEFINE hides(j) == Hides(filtering', shown[j].record)
           ids == {shown[i].id : i \in {j \in DOMAIN shown : hides(j)}}
           line(i) == [shown[i] EXCEPT !.hidden = shown[i].id \in ids]
<1>1. /\ filtering' = ~filtering /\ shown' = [i \in DOMAIN shown |-> line(i)]
      /\ log' = log /\ reader' = reader /\ wire' = wire /\ buffers' = buffers
      /\ lineId' = lineId /\ socket' = socket /\ losses' = losses
      /\ mixed' = mixed /\ parted' = parted
  BY DEF SetFilter, connection, viewerHistory
<1>2. /\ shown \in Seq(ShownLine) /\ DOMAIN shown = 1..Len(shown) /\ Len(shown) \in Nat
      /\ \A i \in 1..Len(shown) : shown[i] \in ShownLine /\ shown[i].id \in Int
  <2>1. shown \in Seq(ShownLine)
    BY DEF ViewerInv, PageInv
  <2>2. \A i \in 1..Len(shown) : shown[i] \in ShownLine
    BY <2>1
  <2>3. \A i \in 1..Len(shown) : shown[i].id \in Int
    BY <2>2 DEF ShownLine
  <2> QED
    BY <2>1, <2>2, <2>3
<1>3. ASSUME NEW i \in 1..Len(shown)
      PROVE  /\ line(i) \in ShownLine /\ line(i).record = shown[i].record
             /\ line(i).more = shown[i].more /\ line(i).id = shown[i].id
             /\ line(i).hidden = (shown[i].id \in ids)
  <2> DEFINE hidden == shown[i].id \in ids
  <2>1. hidden \in BOOLEAN
    OBVIOUS
  <2>2. line(i) = [shown[i] EXCEPT !.hidden = hidden]
    OBVIOUS
  <2> HIDE DEF hidden, line
  <2>3. /\ line(i) \in ShownLine /\ line(i).record = shown[i].record
        /\ line(i).more = shown[i].more /\ line(i).id = shown[i].id
        /\ line(i).hidden = hidden
    BY <1>2, <2>1, <2>2 DEF ShownLine
  <2> QED
    BY <2>3 DEF hidden
<1> HIDE DEF line
<1>4. /\ shown' \in Seq(ShownLine) /\ Len(shown') = Len(shown)
      /\ \A i \in 1..Len(shown) : shown'[i] = line(i)
  <2>1. shown' \in [1..Len(shown) -> ShownLine]
    BY <1>1, <1>2, <1>3
  <2>2. shown' \in Seq(ShownLine) /\ Len(shown') = Len(shown)
    BY <1>2, <2>1
  <2> QED
    BY <1>1, <1>2, <2>2
<1>5. ASSUME socket = "open", NEW i \in 1..Len(shown)
      PROVE  shown[i].id \in ids <=> hides(i)
  <2>1. \A j \in 1..Len(shown) : shown[j].id = lineId - Len(shown) + j
    BY <1>2, <1>5 DEF ViewerInv, PageInv
  <2>2. lineId \in Int
    BY DEF ViewerInv, PageInv
  <2>3. \A j \in 1..Len(shown) : shown[j].id = shown[i].id => j = i
    BY <1>2, <2>1, <2>2
  <2> HIDE DEF hides
  <2> QED
    BY <1>2, <2>3
<1>6. PageInv'
  <2>1. ASSUME socket' = "open", NEW i \in 1..Len(shown')
        PROVE  /\ shown'[i].id = lineId' - Len(shown') + i
               /\ shown'[i].hidden <=> Hides(filtering', shown'[i].record)
    <3>1. i \in 1..Len(shown) /\ shown'[i] = line(i)
      BY <1>4, <2>1
    <3>2. shown'[i].id = lineId' - Len(shown') + i
      BY <1>1, <1>2, <1>3, <1>4, <2>1, <3>1 DEF ViewerInv, PageInv
    <3>3. /\ shown'[i].hidden = (shown[i].id \in ids)
          /\ shown'[i].record = shown[i].record
      BY <1>3, <3>1
    <3>4. shown[i].id \in ids <=> hides(i)
      BY <1>1, <1>5, <2>1, <3>1
    <3> HIDE DEF ids
    <3>5. shown'[i].hidden <=> Hides(filtering', shown'[i].record)
      BY <3>3, <3>4, Zenon
    <3> QED
      BY <3>2, <3>5
  <2>2. DOMAIN shown' = 1..Len(shown')
    BY <1>4
  <2>3. /\ Len(shown') <= Capacity /\ lineId' \in Nat /\ parted' \subseteq 1..Records
        /\ {filtering', mixed'} \subseteq BOOLEAN
    BY <1>1, <1>4 DEF ViewerInv, PageInv
  <2> QED
    BY <1>4, <2>1, <2>2, <2>3 DEF PageInv
<1>7. SocketInv' /\ ReaderInv' /\ LogInv'
  BY <1>1 DEF ViewerInv, SocketInv, ReaderInv, LogInv
<1>8. /\ \A n : Ending(shown, n) => Ending(shown', n)
      /\ AllTold(shown, log, parted) => AllTold(shown', log, parted)
      /\ shown = <<>> => shown' = <<>>
  <2>1. \A i \in 1..Len(shown') : /\ i \in 1..Len(shown)
                                  /\ shown'[i].record = shown[i].record
                                  /\ shown'[i].more = shown[i].more
    BY <1>3, <1>4
  <2>2. \A n : Ending(shown, n) => Ending(shown', n)
    BY <1>4, <2>1 DEF Ending
  <2>3. AllTold(shown, log, parted) => AllTold(shown', log, parted)
    BY <2>1 DEF AllTold, Told
  <2>4. shown = <<>> => shown' = <<>>
    BY <1>4
  <2> QED
    BY <2>2, <2>3, <2>4
<1>9. FlowInv'
  <2>1. Fresh' <=> Fresh
    BY <1>1 DEF Fresh
  <2>2. ASSUME Fresh PROVE Flows(MessagesOf(buffers, wire), Collected)'
    <3>1. Flows(MessagesOf(buffers, wire), Collected)
      BY <2>2 DEF ViewerInv, FlowInv
    <3>2. MessagesOf(buffers', wire') = MessagesOf(buffers, wire)
      BY <1>1
    <3> QED
      BY <1>1, <1>8, <3>1, <3>2 DEF Flows, Chain, Collected
  <2> QED
    BY <1>1, <1>8, <2>1, <2>2 DEF ViewerInv, FlowInv
<1> QED
  BY <1>6, <1>7, <1>9 DEF ViewerInv

\* Connections.

LEMMA LoseStep == ASSUME ViewerInv, Lose PROVE ViewerInv'
<1>1. /\ losses < Losses /\ socket' = "lost" /\ losses' = losses + 1 /\ wire' = <<>>
      /\ log' = log /\ reader' = reader /\ buffers' = buffers /\ shown' = shown
      /\ lineId' = lineId /\ filtering' = filtering /\ mixed' = mixed /\ parted' = parted
  BY DEF Lose, page, viewerHistory
<1>2. SocketInv'
  <2>1. losses' \in 0..Losses
    BY <1>1, ViewerAssumption DEF ViewerInv, SocketInv
  <2> QED
    BY <1>1, <2>1 DEF ViewerInv, SocketInv
<1>3. LogInv' /\ ReaderInv' /\ PageInv' /\ FlowInv'
  BY <1>1 DEF ViewerInv, LogInv, ReaderInv, PageInv, FlowInv, Fresh
<1> QED
  BY <1>2, <1>3 DEF ViewerInv

LEMMA StartLogStep == ASSUME ViewerInv, StartLog PROVE ViewerInv'
<1> DEFINE past(i) == [buffers[i] EXCEPT !.old = TRUE]
<1>1. /\ socket = "lost" /\ socket' = "connecting" /\ losses' = losses /\ lineId' = 0
      /\ buffers' = [i \in DOMAIN buffers |-> past(i)]
      /\ log' = log /\ reader' = reader /\ wire' = wire /\ shown' = shown
      /\ filtering' = filtering /\ mixed' = mixed /\ parted' = parted
  BY DEF StartLog, viewerHistory
<1>2. buffers \in Seq(Buffer)
  BY DEF ViewerInv, SocketInv, Buffer
<1>3. ASSUME NEW i \in DOMAIN buffers PROVE past(i) \in Buffer /\ past(i).old
  <2>1. buffers[i] \in Buffer
    BY <1>2
  <2> QED
    BY <2>1 DEF Buffer
<1> HIDE DEF past
<1>4. buffers' \in Seq(Buffer) /\ \A i \in DOMAIN buffers' : buffers'[i].old
  <2>1. DOMAIN buffers = 1..Len(buffers) /\ Len(buffers) \in Nat
    BY <1>2
  <2>2. buffers' \in [1..Len(buffers) -> Buffer]
    BY <1>1, <1>3, <2>1
  <2> QED
    BY <1>1, <1>3, <2>1, <2>2
<1>5. SocketInv'
  BY <1>1, <1>4 DEF ViewerInv, SocketInv, Buffer
<1>6. LogInv' /\ ReaderInv' /\ PageInv' /\ FlowInv'
  BY <1>1 DEF ViewerInv, LogInv, ReaderInv, PageInv, FlowInv, Fresh
<1> QED
  BY <1>5, <1>6 DEF ViewerInv

\* Nothing is shown, and nothing under way.
LEMMA NothingFlows ==
  /\ Len(MessagesOf(<<>>, <<>>)) = 0
  /\ Chain(<<>>, MessagesOf(<<>>, <<>>), <<>>, 0)
  /\ \A text, ends : AllTold(<<>>, text, ends)
<1>1. Len(MessagesOf(<<>>, <<>>)) = 0
  BY DEF MessagesOf
<1> QED
  BY <1>1 DEF Chain, Ending, AllTold

LEMMA OpenStep == ASSUME ViewerInv, Open PROVE ViewerInv'
<1>1. /\ socket = "connecting" /\ socket' = "open" /\ losses' = losses
      /\ reader' = NewReader /\ shown' = <<>> /\ ~mixed' /\ mixed' \in BOOLEAN /\ parted' = {}
      /\ log' = log /\ wire' = wire /\ buffers' = buffers /\ lineId' = lineId
      /\ filtering' = filtering
  BY DEF Open
<1>2. LogInv' /\ SocketInv'
  BY <1>1 DEF ViewerInv, LogInv, SocketInv
<1>3. ReaderInv'
  BY <1>1, <1>2 DEF ReaderInv, NewReader, Reader, LogInv
<1>4. PageInv'
  BY <1>1, ViewerAssumption DEF ViewerInv, PageInv
<1>5. FlowInv'
  <2>1. ASSUME Fresh' PROVE buffers' = <<>> /\ wire' = <<>>
    <3>1. wire = <<>> /\ \A i \in DOMAIN buffers : buffers[i].old
      BY <1>1 DEF ViewerInv, SocketInv
    <3>2. buffers # <<>> => 1 \in DOMAIN buffers
      BY DEF ViewerInv, SocketInv
    <3> QED
      BY <1>1, <2>1, <3>1, <3>2 DEF Fresh
  <2>2. ASSUME Fresh' PROVE Flows(MessagesOf(buffers, wire), Collected)'
    <3>1. Collected' = 0 /\ reader'.records = <<>>
      BY <1>1 DEF Collected, CollectedBy, NewReader, Reader
    <3>2. buffers' = <<>> /\ wire' = <<>>
      BY <2>1, <2>2
    <3> DEFINE ms == MessagesOf(<<>>, <<>>)
    <3>3. MessagesOf(buffers', wire') = ms /\ Len(ms) = 0 /\ Chain(<<>>, ms, <<>>, 0)
      BY <3>2, NothingFlows
    <3>4. \A text, ends : AllTold(<<>>, text, ends)
      BY NothingFlows
    <3> HIDE DEF ms
    <3> QED
      BY <1>1, <3>1, <3>3, <3>4 DEF Flows
  <2>3. ASSUME Fresh' PROVE \A i \in 1..Len(buffers') : ~buffers'[i].old
    BY <2>1, <2>3
  <2> QED
    BY <1>1, <2>2, <2>3 DEF FlowInv
<1> QED
  BY <1>2, <1>3, <1>4, <1>5 DEF ViewerInv

LEMMA WriteLogStep == ASSUME ViewerInv, WriteLog PROVE ViewerInv'
<1>1. /\ reader' = reader /\ wire' = wire /\ socket' = socket /\ losses' = losses
      /\ buffers' = buffers /\ shown' = shown /\ lineId' = lineId
      /\ filtering' = filtering /\ mixed' = mixed /\ parted' = parted
  BY DEF WriteLog, connection, page, viewerHistory
<1>2. /\ LogInv'
      /\ Len(log') = Len(log) + 1 /\ \A i \in 1..Len(log) : log'[i] = log[i]
      /\ \A r : r.record \in Int /\ Told(r, log, parted) => Told(r, log', parted)
  BY LogGrows DEF ViewerInv
<1>3. Len(log) \in Nat
  BY DEF ViewerInv, LogInv
<1>4. ReaderInv'
  <2>1. /\ reader.at \in 0..Len(log')
        /\ reader.at > 0 => log'[reader.at] = log[reader.at]
        /\ reader.at > 1 => log'[reader.at - 1] = log[reader.at - 1]
    BY <1>2, <1>3 DEF ViewerInv, ReaderInv
  <2>2. \/ reader.lines = <<>>
        \/ reader.at > 0 /\ reader.lines = <<log'[reader.at]>>
        \/ /\ reader.at > 1 /\ log'[reader.at - 1].first /\ ~log'[reader.at].first
           /\ reader.lines = <<log'[reader.at - 1], log'[reader.at]>>
    <3>1. reader.at > 1 => reader.at > 0
      BY <1>3 DEF ViewerInv, ReaderInv
    <3> QED
      BY <2>1, <3>1 DEF ViewerInv, ReaderInv
  <2> QED
    BY <1>1, <2>1, <2>2 DEF ViewerInv, ReaderInv
<1>5. SocketInv' /\ PageInv'
  BY <1>1 DEF ViewerInv, SocketInv, PageInv, Hides
<1>6. Collected' = Collected
  <2>1. reader.at # 0 => log'[reader.at] = log[reader.at]
    BY <1>2, <1>3 DEF ViewerInv, ReaderInv
  <2> QED
    BY <1>1, <2>1 DEF Collected, CollectedBy
<1>7. ASSUME Fresh PROVE Flows(MessagesOf(buffers, wire), Collected)'
  <2> DEFINE ms == MessagesOf(buffers, wire)
  <2>1. Flows(ms, Collected)
    BY <1>7 DEF ViewerInv, FlowInv
  <2>2. /\ ms \in Seq(Seq(SentRecord)) /\ reader.records \in Seq(SentRecord)
        /\ shown \in Seq(ShownLine)
    <3>1. wire \in Seq(Seq(SentRecord)) /\ buffers \in Seq(Buffer)
      BY DEF ViewerInv, SocketInv, Buffer
    <3>2. IsMessages(ms, buffers, wire)
      BY <3>1, MessagesType
    <3> QED
      BY <3>2 DEF IsMessages, ViewerInv, ReaderInv, PageInv
  <2>3. MessagesOf(buffers', wire') = ms
    BY <1>1
  <2> HIDE DEF ms
  <2>4. ASSUME NEW records \in Seq(SentRecord), AllTold(records, log, parted)
        PROVE  AllTold(records, log', parted)
    <3>1. ASSUME NEW i \in 1..Len(records) PROVE Told(records[i], log', parted)
      <4>1. records[i] \in SentRecord
        OBVIOUS
      <4>2. records[i].record \in Int
        BY <4>1, ViewerAssumption DEF SentRecord
      <4>3. Told(records[i], log, parted)
        BY <2>4 DEF AllTold
      <4> QED
        BY <1>2, <4>2, <4>3
    <3> QED
      BY <3>1 DEF AllTold
  <2>5. AllTold(shown, log', parted)
    <3>1. ASSUME NEW i \in 1..Len(shown) PROVE Told(shown[i], log', parted)
      <4>1. shown[i] \in ShownLine
        BY <2>2
      <4>2. shown[i].record \in Int
        BY <4>1, ViewerAssumption DEF ShownLine
      <4>3. Told(shown[i], log, parted)
        BY <2>1 DEF Flows, AllTold
      <4> QED
        BY <1>2, <4>2, <4>3
    <3> QED
      BY <3>1 DEF AllTold
  <2>6. \A k \in 1..Len(ms) : AllTold(ms[k], log', parted)
    <3>1. \A k \in 1..Len(ms) : ms[k] \in Seq(SentRecord)
      BY <2>2
    <3> QED
      BY <2>1, <2>4, <3>1 DEF Flows
  <2>7. AllTold(reader.records, log', parted)
    BY <2>1, <2>2, <2>4 DEF Flows
  <2> QED
    BY <1>1, <1>6, <2>1, <2>3, <2>5, <2>6, <2>7 DEF Flows
<1>8. FlowInv'
  BY <1>1, <1>7 DEF ViewerInv, FlowInv, Fresh
<1> QED
  BY <1>2, <1>4, <1>5, <1>8 DEF ViewerInv

-----------------------------------------------------------------------------

\* The inductive invariant of the log viewer.
THEOREM ViewerInvariant == ViewerSpec => []ViewerInv
<1>1. ViewerInit => ViewerInv
  <2> SUFFICES ASSUME ViewerInit PROVE ViewerInv
    OBVIOUS
  <2>1. LogInv
    BY DEF ViewerInit, LogInv
  <2>2. ReaderInv
    BY <2>1 DEF ViewerInit, ReaderInv, NewReader, Reader, LogInv
  <2>3. SocketInv
    BY ViewerAssumption DEF ViewerInit, SocketInv
  <2>4. PageInv
    <3>1. shown \in Seq(ShownLine) /\ Len(shown) = 0 /\ Capacity \in Nat
      BY ViewerAssumption DEF ViewerInit
    <3>2. {filtering, mixed} \subseteq BOOLEAN
      BY DEF ViewerInit
    <3>3. /\ Len(shown) <= Capacity /\ lineId \in Nat /\ parted \subseteq 1..Records
          /\ socket # "open"
      BY <3>1 DEF ViewerInit
    <3> QED
      BY <3>1, <3>2, <3>3 DEF PageInv
  <2>5. FlowInv
    BY DEF ViewerInit, FlowInv, Fresh
  <2> QED
    BY <2>1, <2>2, <2>3, <2>4, <2>5 DEF ViewerInv
<1>2. ViewerInv /\ [ViewerNext]_viewerVars => ViewerInv'
  <2> SUFFICES ASSUME ViewerInv, [ViewerNext]_viewerVars PROVE ViewerInv'
    OBVIOUS
  <2>1. CASE WriteLog
    BY <2>1, WriteLogStep
  <2>2. CASE \E due \in BOOLEAN : ReadLine(due)
    BY <2>2, ReadLineStep
  <2>3. CASE \E due \in BOOLEAN : ReadNothing(due)
    BY <2>3, ReadNothingStep
  <2>4. CASE Receive
    BY <2>4, ReceiveStep
  <2>5. CASE \E i \in DOMAIN buffers : Resolve(i)
    BY <2>5, ResolveStep
  <2>6. CASE StartLog
    BY <2>6, StartLogStep
  <2>7. CASE Open
    BY <2>7, OpenStep
  <2>8. CASE SetFilter
    BY <2>8, SetFilterStep
  <2>9. CASE Lose
    BY <2>9, LoseStep
  <2>10. CASE UNCHANGED viewerVars
    <3>1. /\ log' = log /\ reader' = reader /\ wire' = wire /\ socket' = socket
          /\ losses' = losses /\ buffers' = buffers /\ shown' = shown
          /\ lineId' = lineId /\ filtering' = filtering /\ mixed' = mixed
          /\ parted' = parted
      BY <2>10 DEF viewerVars, connection, page, viewerHistory
    <3>2. LogInv' /\ ReaderInv' /\ SocketInv' /\ PageInv'
      BY <3>1 DEF ViewerInv, LogInv, ReaderInv, SocketInv, PageInv
    <3>3. FlowInv'
      BY <3>1 DEF ViewerInv, FlowInv, Flows, Fresh, Collected
    <3> QED
      BY <3>2, <3>3 DEF ViewerInv
  <2> QED
    BY <2>1, <2>2, <2>3, <2>4, <2>5, <2>6, <2>7, <2>8, <2>9, <2>10
       DEF ViewerNext, ViewerStep
<1> QED
  BY <1>1, <1>2, PTL DEF ViewerSpec

\* The variables of the log viewer have their types.
THEOREM ViewerTypeCorrect == ViewerSpec => []ViewerTypeOK
<1>1. ViewerInv => ViewerTypeOK
  <2> SUFFICES ASSUME ViewerInv PROVE ViewerTypeOK
    OBVIOUS
  <2>1. log \in Seq(Line) /\ \A i \in DOMAIN log : log[i] \in [record: 1..Records, first: BOOLEAN]
    <3>1. log \in Seq(Line)
      BY DEF ViewerInv, LogInv
    <3>2. \A i \in DOMAIN log : log[i] \in Line
      BY <3>1
    <3> QED
      BY <3>1, <3>2 DEF Line
  <2>2. \A i \in 1..Len(log) : log[i] \in ToSet(log)
    BY <2>1, ToSetOf
  <2>3. \A i \in DOMAIN reader.lines : reader.lines[i] \in ToSet(log)
    <3>1. CASE reader.lines = <<>>
      BY <3>1
    <3>2. CASE reader.at > 0 /\ reader.lines = <<log[reader.at]>>
      <4>1. reader.at \in 1..Len(log)
        BY <2>1, <3>2 DEF ViewerInv, ReaderInv
      <4> QED
        BY <2>2, <3>2, <4>1
    <3>3. CASE reader.at > 1 /\ reader.lines = <<log[reader.at - 1], log[reader.at]>>
      <4>1. reader.at \in 1..Len(log) /\ reader.at - 1 \in 1..Len(log)
        BY <2>1, <3>3 DEF ViewerInv, ReaderInv
      <4>2. /\ DOMAIN reader.lines = 1..2
            /\ reader.lines[1] = log[reader.at - 1] /\ reader.lines[2] = log[reader.at]
        BY <3>3
      <4>3. log[reader.at - 1] \in ToSet(log) /\ log[reader.at] \in ToSet(log)
        BY <2>2, <4>1
      <4> QED
        BY <4>2, <4>3
    <3> QED
      BY <3>1, <3>2, <3>3 DEF ViewerInv, ReaderInv
  <2>4. /\ wire \in Seq(Seq(SentRecord)) /\ buffers \in Seq(Buffer)
        /\ reader.records \in Seq(SentRecord)
    BY DEF ViewerInv, SocketInv, ReaderInv, Buffer
  <2>5. ASSUME NEW records \in {reader.records} \cup ToSet(wire)
                                \cup {buffers[i].records : i \in DOMAIN buffers}
        PROVE  ToSet(records) \subseteq SentRecord
    <3>1. ToSet(wire) \subseteq Seq(SentRecord)
      BY <2>4, ToSetOf
    <3>2. ASSUME NEW i \in DOMAIN buffers PROVE buffers[i].records \in Seq(SentRecord)
      <4>1. buffers[i] \in Buffer
        BY <2>4
      <4> QED
        BY <4>1 DEF Buffer
    <3>3. records \in Seq(SentRecord)
      BY <2>4, <3>1, <3>2
    <3> QED
      BY <3>3, ToSetOf
  <2>6. reader.at \in 0..Len(log) /\ reader.missed \in 0..2
    BY DEF ViewerInv, ReaderInv
  <2>7. socket \in {"connecting", "open", "lost"} /\ losses \in 0..Losses
    BY DEF ViewerInv, SocketInv
  <2>8. /\ Len(shown) <= Capacity /\ {filtering, mixed} \subseteq BOOLEAN
        /\ parted \subseteq 1..Records
    BY DEF ViewerInv, PageInv
  <2> QED
    BY <2>1, <2>3, <2>5, <2>6, <2>7, <2>8 DEF ViewerTypeOK
<1> QED
  BY <1>1, ViewerInvariant, PTL

\* While promises are resolved in order, the page shows consecutive records with
\* all their text, through reconnections and with the eldest dropped.
THEOREM RecordsAreShown == ViewerSpec => []ShownIsTheLog
<1>1. ViewerInv => ShownIsTheLog
  <2> SUFFICES ASSUME ViewerInv, socket = "open", ~mixed
               PROVE  /\ \A i \in DOMAIN shown : shown[i].record = shown[1].record + i - 1
                      /\ \A i \in DOMAIN shown :
                           HasNextLine(shown[i].record)
                             => shown[i].more \/ shown[i].record \in parted
    BY DEF ShownIsTheLog
  <2>1. shown \in Seq(ShownLine) /\ DOMAIN shown = 1..Len(shown) /\ Len(shown) \in Nat
    BY DEF ViewerInv, PageInv
  <2>2. CASE shown = <<>>
    BY <2>2
  <2>3. CASE shown # <<>>
    <3>1. Flows(MessagesOf(buffers, wire), Collected)
      BY <2>3 DEF ViewerInv, FlowInv
    <3>2. PICK n \in Int : Ending(shown, n)
      <4> DEFINE ms == MessagesOf(buffers, wire)
                 m == Collected - Len(reader.records)
      <4>1. ms \in Seq(Seq(SentRecord))
        <5>1. wire \in Seq(Seq(SentRecord)) /\ buffers \in Seq(Buffer)
          BY DEF ViewerInv, SocketInv, Buffer
        <5> QED
          BY <5>1, MessagesType DEF IsMessages
      <4>2. m \in Int
        <5>1. reader.records \in Seq(SentRecord)
          BY DEF ViewerInv, ReaderInv
        <5> QED
          BY <5>1, CollectedType DEF ViewerInv
      <4> HIDE DEF ms
      <4>3. Ending(shown, EndBefore(ms, m, 0)) /\ \A k \in 1..Len(ms) : ms[k] # <<>>
        BY <3>1 DEF Flows, Chain, ms
      <4>4. 0 \in 0..Len(ms)
        BY <4>1
      <4> HIDE DEF m
      <4>5. EndBefore(ms, m, 0) \in Int
        BY <4>1, <4>2, <4>3, <4>4, BeforeType
      <4> QED
        BY <4>3, <4>5
    <3>3. ASSUME NEW i \in DOMAIN shown
          PROVE  shown[i].record = shown[1].record + i - 1
      <4>1. /\ 1 \in 1..Len(shown) /\ i \in 1..Len(shown)
            /\ shown[1] \in ShownLine /\ shown[1].record \in Int
        <5>1. 1 \in 1..Len(shown) /\ shown[1] \in ShownLine
          BY <2>1, <2>3
        <5> QED
          BY <2>1, <5>1, ViewerAssumption DEF ShownLine
      <4>2. /\ shown[1].record = n - Len(shown) + 1
            /\ shown[i].record = n - Len(shown) + i
        BY <3>2, <4>1 DEF Ending
      <4> QED
        BY <2>1, <4>1, <4>2
    <3>4. ASSUME NEW i \in DOMAIN shown, HasNextLine(shown[i].record)
          PROVE  shown[i].more \/ shown[i].record \in parted
      <4>1. Told(shown[i], log, parted)
        BY <2>1, <3>1 DEF Flows, AllTold
      <4> QED
        BY <3>4, <4>1 DEF Told, HasNextLine
    <3> QED
      BY <3>3, <3>4
  <2> QED
    BY <2>2, <2>3
<1> QED
  BY <1>1, ViewerInvariant, PTL

\* The lines hidden are those the filter hides, although they are found by ids
\* that begin anew with each connection.
THEOREM FilterHides == ViewerSpec => []HiddenIfFiltered
<1>1. ViewerInv => HiddenIfFiltered
  BY DEF ViewerInv, PageInv, HiddenIfFiltered
<1> QED
  BY <1>1, ViewerInvariant, PTL

-----------------------------------------------------------------------------
(* MCParts: the parts side by side.                                        *)

\* Each part behaves as its own specification says, since the others have no
\* step that changes it.
LEMMA PartsSeparate ==
  Spec => /\ SorterSpec /\ BackendSpec /\ PopupsSpec /\ ConnectionSpec
          /\ StateSpec /\ TimelineSpec /\ ViewerSpec /\ UpdateSpec
<1>1. Init => /\ SorterInit /\ BackendInit /\ PopupsInit /\ ConnectionInit
              /\ StateInit /\ TimelineInit /\ ViewerInit /\ UpdateInit
  BY DEF Init
<1>2. [Next]_vars =>
        /\ [SorterNext]_sorterVars /\ [PopupsNext]_popupVars /\ [ConnectionNext]_connectionVars
        /\ [StateNext]_stateVars /\ [TimelineNext]_timelineVars /\ [ViewerNext]_viewerVars
        /\ [UpdateNext]_updateVars
  BY DEF Next, vars
<1>3. Change => BackendNext
  <2> SUFFICES ASSUME Change PROVE BackendNext
    OBVIOUS
  <2>1. {app, lib, tool} \subseteq Products
    BY PartsAssumption
  <2> QED
    BY <2>1 DEF Change, BackendNext
<1>4. [Next]_vars => [BackendNext]_backendVars
  <2>1. Sync => BackendNext
    BY DEF BackendNext
  <2> QED
    BY <1>3, <2>1 DEF Next, vars
<1> QED
  BY <1>1, <1>2, <1>4, PTL DEF Spec, SorterSpec, BackendSpec, PopupsSpec, ConnectionSpec,
    StateSpec, TimelineSpec, ViewerSpec, UpdateSpec

\* The variables of all parts have their types, side by side as the run has them:
\* the parts that MCParts puts together do not disturb each other.
THEOREM PartsTypeCorrect == Spec => []PartsTypeOK
<1>1. /\ SorterTypeOK /\ BackendTypeOK /\ PopupsTypeOK /\ ConnectionTypeOK
      /\ StateTypeOK /\ TimelineTypeOK /\ ViewerTypeOK /\ UpdateTypeOK
      => PartsTypeOK
  BY DEF PartsTypeOK
<1> QED
  BY <1>1, PartsSeparate, SorterTypeCorrect, BackendTypeCorrect, PopupsTypeCorrect,
    ConnectionTypeCorrect, StateTypeCorrect, TimelineTypeCorrect, ViewerTypeCorrect,
    UpdateTypeCorrect, PTL
=============================================================================
