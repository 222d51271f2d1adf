---------------------------- MODULE ControlPipe ----------------------------
(***************************************************************************)
(* The control pipe, through which the daemon tells the opsi credential    *)
(* providers at the logon screen to block logins, or to log a user in.     *)
(*                                                                         *)
(* Each connection has a thread of its own.  It waits for registerClient,  *)
(* tells the new client whether logins are blocked, and from then on only  *)
(* looks whether the client is still there.  Any other thread may call     *)
(* setBlockLogin or loginUser; these talk to one connection after the      *)
(* other, and hold the comLock of a connection while they do.  The list of *)
(* connections is read without a lock, and an object of its own: loginUser *)
(* replaces it by a list with one element and walks the list it replaced.  *)
(*                                                                         *)
(* This is the pipe of Windows, where the credential provider exists.  A   *)
(* connection stands for one client process; one that comes back is a new  *)
(* connection.  The requests of the old protocol change nothing here:      *)
(* process_rpcs is a generator by now, whose result cannot be serialized,  *)
(* so each is answered by an error.  The client and the operating system   *)
(* are not part of this code: a client answers, or it goes.                *)
(***************************************************************************)
EXTENDS Naturals, Sequences, Functions, SequencesExt

CONSTANTS
  Clients,       \* connections
  SetCallers,    \* threads that call setBlockLogin
  LoginCallers,  \* threads that call loginUser
  Nobody,        \* no connection, and no holder of a lock
  MaxLists       \* bound: lists made, one at the start and one per loginUser

Callers == SetCallers \cup LoginCallers

ASSUME PipeAssumption ==
  /\ SetCallers \cap LoginCallers = {}
  /\ Clients \cap Callers = {}
  /\ Nobody \notin Clients \cup Callers
  /\ MaxLists \in Nat \ {0}

\* What a local variable held is reset, to its value in Init, when it is done with.
VARIABLES
  block,       \* Opsiclientd._blockLogin
  stopping,    \* ControlPipe._stopEvent
  lists,       \* the list objects made so far; the last is _clients
  thread,      \* thread[c]: what the thread of connection c is at
  peer,        \* peer[c]: the client has its end of the pipe open
  registered,  \* connections with a clientInfo
  capable,     \* connections that are login_capable
  ended,       \* connections whose _stopEvent is set
  comLock,     \* comLock[c]: who holds it, Nobody, a caller or c's own thread
  greeting,    \* greeting[c]: the argument of the blockLogin sent on register
  stage,       \* stage[k]: what caller k is at
  new,         \* new[k]: the argument of setBlockLogin, later of the RPC
  on,          \* on[k]: the list caller k walks, by its index in lists
  pos,         \* pos[k]: how many of its elements the walk has taken
  to,          \* to[k]: the connection caller k executes its RPC on
  told,        \* history: what client c was last told by blockLogin
  loggedIn     \* history: connections whose client has reported a login

connections == <<thread, peer, registered, capable, ended, greeting>>
calls == <<stage, new, on, pos, to>>
history == <<told, loggedIn>>
vars == <<block, stopping, lists, connections, comLock, calls, history>>

Threads == {"none", "read", "registered", "greet", "check", "over"}
Stages == {"idle", "changed", "same", "notify", "pick", "replace", "walk",
           "execute", "answer"}

\* _clients, and the number of the list it is.
current == Len(lists)
clients == lists[current]

----------------------------------------------------------------------------
(* Connections *)

\* waitForClient returns, the connection is listed and its thread started.
Accept(c) ==
  /\ thread[c] = "none" /\ ~stopping
  /\ lists' = [lists EXCEPT ![current] = Append(@, c)]
  /\ thread' = [thread EXCEPT ![c] = "read"]
  /\ peer' = [peer EXCEPT ![c] = TRUE]
  /\ UNCHANGED <<block, stopping, registered, capable, ended, comLock, greeting,
                 calls, history>>

\* ClientConnection.clientDisconnected: the current list forgets it, not the
\* older ones; registered and login_capable stay as they are.  (A list has no
\* connection twice.)
Disconnect(c) ==
  /\ ended' = ended \cup {c}
  /\ IF c \in Range(clients)
     THEN \E i \in DOMAIN clients :
            clients[i] = c /\ lists' = [lists EXCEPT ![current] = RemoveAt(@, i)]
     ELSE UNCHANGED lists

\* A mutant: the lock is given back before the greeting.
RegisterUnlocked(c) ==
  /\ thread[c] = "read" /\ c \notin ended /\ peer[c] /\ comLock[c] = Nobody
  /\ registered' = registered \cup {c}
  /\ capable' = capable \cup {c}
  /\ thread' = [thread EXCEPT ![c] = "registered"]
  /\ UNCHANGED <<block, stopping, lists, peer, ended, comLock, greeting, calls, history>>

\* registerClient is read; comLock is kept for the answer and the greeting.
Register(c) ==
  /\ thread[c] = "read" /\ c \notin ended /\ peer[c] /\ comLock[c] = Nobody
  /\ comLock' = [comLock EXCEPT ![c] = c]
  /\ registered' = registered \cup {c}
  /\ capable' = capable \cup {c}
  /\ thread' = [thread EXCEPT ![c] = "registered"]
  /\ UNCHANGED <<block, stopping, lists, peer, ended, greeting, calls, history>>

\* A second later, _blockLogin is read as the argument of the greeting.
ReadBlock(c) ==
  /\ thread[c] = "registered"
  /\ greeting' = [greeting EXCEPT ![c] = block]
  /\ thread' = [thread EXCEPT ![c] = "greet"]
  /\ UNCHANGED <<block, stopping, lists, peer, registered, capable, ended, comLock,
                 calls, history>>

\* executeRpc("blockLogin", with_lock=False): a client that is there hears it;
\* whether it answers makes no difference.
Greet(c) ==
  /\ thread[c] = "greet"
  /\ IF peer[c]
     THEN told' = [told EXCEPT ![c] = greeting[c]] /\ UNCHANGED <<lists, ended>>
     ELSE Disconnect(c) /\ UNCHANGED told
  /\ comLock' = [comLock EXCEPT ![c] = Nobody]
  /\ greeting' = [greeting EXCEPT ![c] = TRUE]
  /\ thread' = [thread EXCEPT ![c] = "check"]
  /\ UNCHANGED <<block, stopping, peer, registered, capable, calls, loggedIn>>

\* read or checkConnection finds the pipe broken, or the thread is told to stop.
ThreadEnds(c) ==
  /\ thread[c] \in {"read", "check"}
  /\ ~peer[c] \/ c \in ended
  /\ Disconnect(c)
  /\ thread' = [thread EXCEPT ![c] = "over"]
  /\ UNCHANGED <<block, stopping, peer, registered, capable, comLock, greeting,
                 calls, history>>

\* The client closes its end, or its process ends.
HangUp(c) ==
  /\ peer[c]
  /\ peer' = [peer EXCEPT ![c] = FALSE]
  /\ UNCHANGED <<block, stopping, lists, thread, registered, capable, ended, comLock,
                 greeting, calls, history>>

\* ControlPipe.stop
Stop ==
  /\ ~stopping
  /\ stopping' = TRUE
  /\ ended' = ended \cup Range(clients)
  /\ UNCHANGED <<block, lists, thread, peer, registered, capable, comLock, greeting,
                 calls, history>>

----------------------------------------------------------------------------
(* setBlockLogin *)

\* changed is computed and, a few instructions later, _blockLogin assigned.
SetBlockLogin(k, v) ==
  /\ stage[k] = "idle"
  /\ stage' = [stage EXCEPT ![k] = IF v = block THEN "same" ELSE "changed"]
  /\ new' = [new EXCEPT ![k] = v]
  /\ UNCHANGED <<block, stopping, lists, connections, comLock, on, pos, to, history>>

AssignBlock(k) ==
  /\ stage[k] \in {"same", "changed"}
  /\ block' = new[k]
  /\ stage' = [stage EXCEPT ![k] = IF @ = "changed" THEN "notify" ELSE "idle"]
  /\ new' = [new EXCEPT ![k] = TRUE]
  /\ UNCHANGED <<stopping, lists, connections, comLock, on, pos, to, history>>

\* executeRpc("blockLogin", self._blockLogin): the attribute is read again.  No
\* client is an error, which is logged.
Notify(k) ==
  /\ stage[k] = "notify"
  /\ IF clients = <<>>
     THEN stage' = [stage EXCEPT ![k] = "idle"] /\ UNCHANGED <<new, on, pos>>
     ELSE /\ stage' = [stage EXCEPT ![k] = "walk"]
          /\ new' = [new EXCEPT ![k] = block]
          /\ on' = [on EXCEPT ![k] = current]
          /\ pos' = [pos EXCEPT ![k] = 0]
  /\ UNCHANGED <<block, stopping, lists, connections, comLock, to, history>>

----------------------------------------------------------------------------
(* loginUser *)

\* getLoginCapableCredentialProvider: the last one of the list.
LoginCapable == {i \in DOMAIN clients : clients[i] \in capable}

LatestProvider(i) == i \in LoginCapable /\ \A j \in LoginCapable : j <= i

\* credentialProviderConnected(login_capable=True), polled for ten seconds.
LoginUser(k) ==
  /\ stage[k] = "idle" /\ current < MaxLists
  /\ LoginCapable # {}
  /\ stage' = [stage EXCEPT ![k] = "pick"]
  /\ UNCHANGED <<block, stopping, lists, connections, comLock, new, on, pos, to,
                 history>>

\* A mutant: that the provider may be gone by now is not looked at.
PickProviderUnchecked(k) ==
  /\ stage[k] = "pick"
  /\ stage' = [stage EXCEPT ![k] = "replace"]
  /\ on' = [on EXCEPT ![k] = current]
  /\ \/ LoginCapable = {} /\ to' = [to EXCEPT ![k] = Nobody]
     \/ \E i \in DOMAIN clients :
          LatestProvider(i) /\ to' = [to EXCEPT ![k] = clients[i]]
  /\ UNCHANGED <<block, stopping, lists, connections, comLock, new, pos, history>>

\* executeRpc takes the list, and looks for the provider once more.
PickProvider(k) ==
  /\ stage[k] = "pick"
  /\ IF LoginCapable = {}
     THEN stage' = [stage EXCEPT ![k] = "idle"] /\ UNCHANGED <<on, to>>
     ELSE /\ stage' = [stage EXCEPT ![k] = "replace"]
          /\ on' = [on EXCEPT ![k] = current]
          /\ \E i \in DOMAIN clients :
               LatestProvider(i) /\ to' = [to EXCEPT ![k] = clients[i]]
  /\ UNCHANGED <<block, stopping, lists, connections, comLock, new, pos, history>>

\* _clients becomes a new list with the provider; the walk is over the old one.
ReplaceClients(k) ==
  /\ stage[k] = "replace" /\ current < MaxLists
  /\ lists' = Append(lists, <<to[k]>>)
  /\ stage' = [stage EXCEPT ![k] = "walk"]
  /\ pos' = [pos EXCEPT ![k] = 0]
  /\ to' = [to EXCEPT ![k] = Nobody]
  /\ UNCHANGED <<block, stopping, connections, comLock, new, on, history>>

----------------------------------------------------------------------------
(* Walking the list: ControlPipe.executeRpc and ClientConnection.executeRpc *)

\* A connection that is not login_capable is passed over by loginUser, one
\* without a clientInfo answers an error.
Serves(k, c) == c \in registered /\ (k \in LoginCallers => c \in capable)

\* The loop takes the next element of the list as it is by now.
NextClient(k) ==
  /\ stage[k] = "walk" /\ pos[k] < Len(lists[on[k]])
  /\ pos' = [pos EXCEPT ![k] = @ + 1]
  /\ LET c == lists[on[k]][pos[k] + 1] IN
       IF Serves(k, c)
       THEN /\ to' = [to EXCEPT ![k] = c]
            /\ stage' = [stage EXCEPT ![k] = "execute"]
       ELSE UNCHANGED <<to, stage>>
  /\ UNCHANGED <<block, stopping, lists, connections, comLock, new, on, history>>

WalkEnds(k) ==
  /\ stage[k] = "walk" /\ pos[k] >= Len(lists[on[k]])
  /\ stage' = [stage EXCEPT ![k] = "idle"]
  /\ new' = [new EXCEPT ![k] = TRUE]
  /\ on' = [on EXCEPT ![k] = 1]
  /\ pos' = [pos EXCEPT ![k] = 0]
  /\ UNCHANGED <<block, stopping, lists, connections, comLock, to, history>>

\* A mutant: a connection that is in use is passed over.
ExecuteIfFree(k) ==
  /\ stage[k] = "execute"
  /\ LET c == to[k]
         free == comLock[c] = Nobody IN
       /\ comLock' = [comLock EXCEPT ![c] = IF free THEN k ELSE @]
       /\ told' = IF free /\ k \in SetCallers /\ peer[c]
                  THEN [told EXCEPT ![c] = new[k]] ELSE told
       /\ stage' = [stage EXCEPT ![k] = IF free THEN "answer" ELSE "walk"]
  /\ UNCHANGED <<block, stopping, lists, connections, new, on, pos, to, loggedIn>>

\* The lock is taken and the request written; a broken pipe is found out by the
\* write or by the read after it.
Execute(k) ==
  /\ stage[k] = "execute" /\ comLock[to[k]] = Nobody
  /\ comLock' = [comLock EXCEPT ![to[k]] = k]
  /\ told' = IF k \in SetCallers /\ peer[to[k]]
             THEN [told EXCEPT ![to[k]] = new[k]] ELSE told
  /\ stage' = [stage EXCEPT ![k] = "answer"]
  /\ UNCHANGED <<block, stopping, lists, connections, new, on, pos, to, loggedIn>>

\* The call returns to the loop, and the lock is free.
Returns(k) ==
  /\ comLock' = [comLock EXCEPT ![to[k]] = Nobody]
  /\ to' = [to EXCEPT ![k] = Nobody]
  /\ stage' = [stage EXCEPT ![k] = "walk"]
  /\ UNCHANGED <<block, stopping, thread, peer, registered, greeting, new, on, pos, told>>

\* A mutant: the provider stays login_capable.
LoginDoneStillCapable(k) ==
  /\ stage[k] = "answer" /\ k \in LoginCallers /\ peer[to[k]]
  /\ loggedIn' = loggedIn \cup {to[k]}
  /\ Returns(k)
  /\ UNCHANGED <<lists, capable, ended>>

\* A provider that reports a login is not used for another one.
LoginDone(k) ==
  /\ stage[k] = "answer" /\ k \in LoginCallers /\ peer[to[k]]
  /\ capable' = capable \ {to[k]}
  /\ loggedIn' = loggedIn \cup {to[k]}
  /\ Returns(k)
  /\ UNCHANGED <<lists, ended>>

\* Any answer to blockLogin, or a login that failed.
Answered(k) ==
  /\ stage[k] = "answer" /\ peer[to[k]]
  /\ Returns(k)
  /\ UNCHANGED <<lists, capable, ended, loggedIn>>

NoAnswer(k) ==
  /\ stage[k] = "answer" /\ ~peer[to[k]]
  /\ Disconnect(to[k])
  /\ Returns(k)
  /\ UNCHANGED <<capable, loggedIn>>

----------------------------------------------------------------------------
Init ==
  /\ block = TRUE
  /\ stopping = FALSE
  /\ lists = <<<<>>>>
  /\ thread = [c \in Clients |-> "none"]
  /\ peer = [c \in Clients |-> FALSE]
  /\ registered = {} /\ capable = {} /\ ended = {}
  /\ comLock = [c \in Clients |-> Nobody]
  /\ greeting = [c \in Clients |-> TRUE]
  /\ stage = [k \in Callers |-> "idle"]
  /\ new = [k \in Callers |-> TRUE]
  /\ on = [k \in Callers |-> 1]
  /\ pos = [k \in Callers |-> 0]
  /\ to = [k \in Callers |-> Nobody]
  /\ told = [c \in Clients |-> FALSE]
  /\ loggedIn = {}

Connection(c) ==
  \/ Accept(c) \/ Register(c) \/ ReadBlock(c) \/ Greet(c) \/ ThreadEnds(c) \/ HangUp(c)

Setting(k) == (\E v \in BOOLEAN : SetBlockLogin(k, v)) \/ AssignBlock(k) \/ Notify(k)

LoggingIn(k) == LoginUser(k) \/ PickProvider(k) \/ ReplaceClients(k) \/ LoginDone(k)

Walking(k) ==
  NextClient(k) \/ WalkEnds(k) \/ Execute(k) \/ Answered(k) \/ NoAnswer(k)

Next ==
  \/ \E c \in Clients : Connection(c)
  \/ Stop
  \/ \E k \in SetCallers : Setting(k)
  \/ \E k \in LoginCallers : LoggingIn(k)
  \/ \E k \in Callers : Walking(k)

Spec == Init /\ [][Next]_vars

----------------------------------------------------------------------------
TypeOK ==
  /\ block \in BOOLEAN /\ stopping \in BOOLEAN
  /\ lists \in Seq(Seq(Clients)) /\ lists # <<>>
  /\ thread \in [Clients -> Threads]
  /\ peer \in [Clients -> BOOLEAN]
  /\ registered \subseteq Clients /\ capable \subseteq registered
  /\ ended \subseteq Clients
  /\ comLock \in [Clients -> Clients \cup Callers \cup {Nobody}]
  /\ greeting \in [Clients -> BOOLEAN] /\ told \in [Clients -> BOOLEAN]
  /\ stage \in [Callers -> Stages]
  /\ new \in [Callers -> BOOLEAN]
  /\ on \in [Callers -> Nat \ {0}] /\ pos \in [Callers -> Nat]
  /\ to \in [Callers -> Clients \cup {Nobody}]
  /\ loggedIn \subseteq registered

\* One at a time talks to a client, its own thread greeting it or a caller
\* executing an RPC, so no one reads the answer meant for another: the greeting
\* does not take the lock, and relies on its being held since the registration.
OneTalks ==
  \A c \in Clients :
    /\ thread[c] \in {"registered", "greet"} =>
         ~ \E k \in Callers : stage[k] = "answer" /\ to[k] = c
    /\ \A k, l \in Callers :
         stage[k] = "answer" /\ stage[l] = "answer" /\ to[k] = c /\ to[l] = c => k = l

\* While no connection has been lost, a setBlockLogin that has returned has
\* reached every client of the list that has been greeted, also one that
\* registered meanwhile.  (With one thread that calls setBlockLogin and one that
\* calls loginUser.)
AgreesWhenQuiet ==
  (ended = {} /\ \A k \in SetCallers : stage[k] = "idle") =>
    \A c \in Range(clients) : thread[c] = "check" => (told[c] <=> block)

\* A credential provider that has reported a login and keeps its connection open
\* is not asked for another one.  (With one thread that calls loginUser.)
OneLoginPerProvider ==
  \A k \in LoginCallers : stage[k] = "answer" => to[k] \notin loggedIn
=============================================================================
