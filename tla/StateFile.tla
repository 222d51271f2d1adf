----------------------------- MODULE StateFile -----------------------------
(***************************************************************************)
(* State.set and the file it keeps (State.py). The dict is changed without *)
(* a lock; what is written is taken from it under the lock, so that of     *)
(* several threads that set a value the last one to write has the values   *)
(* of all. Opening the file for writing empties it.                        *)
(***************************************************************************)
EXTENDS Naturals

CONSTANTS Setters,   \* threads
          Names, StateValues,
          Counter,   \* the name "shutdown_cancel_counter"
          Zero,      \* its value after a start
          Starter,   \* the main thread
          Unset, None

ASSUME StateAssumption ==
  /\ Counter \in Names /\ Zero \in StateValues /\ Starter \in Setters
  /\ None \notin Setters

States == [Names -> StateValues \cup {Unset}]

VARIABLES
  state,      \* _state
  file,       \* what the file holds, None while it is empty
  stateLock,  \* who holds _stateLock
  setter,     \* what a thread in set() is at
  dumped,     \* the json text a thread holds
  failed      \* history: the last attempt to write the file has failed

stateVars == <<state, file, stateLock, setter, dumped, failed>>

Nothing == [n \in Names |-> Unset]

StateInit ==
  /\ state = Nothing
  /\ file = Nothing
  /\ stateLock = None
  /\ setter = [t \in Setters |-> "away"]
  /\ dumped = [t \in Setters |-> Nothing]
  /\ failed = FALSE

Set(t, n, v) ==
  /\ setter[t] = "away"
  /\ state' = [state EXCEPT ![n] = v]
  /\ setter' = [setter EXCEPT ![t] = "set"]
  /\ UNCHANGED <<file, stateLock, dumped, failed>>

\* A mutant: without a look at the lock.
DumpUnlocked(t) ==
  /\ setter[t] = "set"
  /\ stateLock' = t
  /\ dumped' = [dumped EXCEPT ![t] = state]
  /\ setter' = [setter EXCEPT ![t] = "dumped"]
  /\ UNCHANGED <<state, file, failed>>

\* _writeStateFile: the lock is taken, then the text is made,
Dump(t) ==
  /\ setter[t] = "set" /\ stateLock = None
  /\ stateLock' = t
  /\ dumped' = [dumped EXCEPT ![t] = state]
  /\ setter' = [setter EXCEPT ![t] = "dumped"]
  /\ UNCHANGED <<state, file, failed>>

\* the file is opened, which empties it,
OpenFile(t) ==
  /\ setter[t] = "dumped"
  /\ file' = None
  /\ setter' = [setter EXCEPT ![t] = "open"]
  /\ UNCHANGED <<state, stateLock, dumped, failed>>

\* and written.
WriteFile(t) ==
  /\ setter[t] = "open"
  /\ file' = dumped[t]
  /\ failed' = FALSE
  /\ stateLock' = None
  /\ setter' = [setter EXCEPT ![t] = "away"]
  /\ UNCHANGED <<state, dumped>>

\* Errors are logged only.
WriteFails(t) ==
  /\ setter[t] \in {"dumped", "open"}
  /\ failed' = TRUE
  /\ stateLock' = None
  /\ setter' = [setter EXCEPT ![t] = "away"]
  /\ UNCHANGED <<state, file, dumped>>

\* The daemon ends or crashes at any moment, and starts again: the file is read
\* (an empty one is an error, which is logged only), and the counter is reset.
RestartState ==
  /\ state' = [(IF file = None THEN Nothing ELSE file) EXCEPT ![Counter] = Zero]
  /\ setter' = [t \in Setters |-> IF t = Starter THEN "set" ELSE "away"]
  /\ stateLock' = None
  /\ UNCHANGED <<file, dumped, failed>>

StateNext ==
  \/ \E t \in Setters:
       \/ \E n \in Names, v \in StateValues: Set(t, n, v)
       \/ Dump(t) \/ OpenFile(t) \/ WriteFile(t) \/ WriteFails(t)
  \/ RestartState

StateSpec == StateInit /\ [][StateNext]_stateVars

-----------------------------------------------------------------------------

StateTypeOK ==
  /\ state \in States
  /\ file \in States \cup {None}
  /\ stateLock \in Setters \cup {None}
  /\ setter \in [Setters -> {"away", "set", "dumped", "open"}]
  /\ dumped \in [Setters -> States]
  /\ failed \in BOOLEAN

\* When nobody is in set(), the file has all that was set, although threads
\* change the dict while others write it; unless the last write has failed.
SetIsWritten ==
  (\A t \in Setters: setter[t] = "away") => file = state \/ failed

-----------------------------------------------------------------------------

\* Writers hold the lock.
OneWriter ==
  \A t \in Setters: setter[t] \in {"dumped", "open"} <=> stateLock = t

\* Somebody has changed the dict and not yet made the text of it.
Pending == \E t \in Setters: setter[t] = "set"

\* The inductive invariant: what is written last is the dict, or somebody
\* will write again.
StateInv ==
  /\ StateTypeOK
  /\ OneWriter
  /\ stateLock = None => file = state \/ failed \/ Pending
  /\ \A t \in Setters: stateLock = t => dumped[t] = state \/ Pending
=============================================================================
