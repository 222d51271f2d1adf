------------------------- MODULE ControlPipeProofs --------------------------
(***************************************************************************)
(* Proofs about ControlPipe, for any connections and threads.              *)
(***************************************************************************)
EXTENDS ControlPipe, SequenceTheorems, TLAPS

Greeted == {"registered", "greet"}
Executing == {"execute", "answer"}

\* Who talks to a client holds its lock; a call is executed on a connection that
\* has been registered.  What the lists contain does not matter.
LockInv ==
  /\ DOMAIN stage = Callers /\ DOMAIN to = Callers
  /\ DOMAIN thread = Clients /\ DOMAIN comLock = Clients
  /\ registered \subseteq Clients
  /\ \A k \in Callers :
       /\ stage[k] \in Executing => to[k] \in registered
       /\ stage[k] = "answer" => comLock[to[k]] = k
  /\ \A c \in Clients : thread[c] \in Greeted => comLock[c] = c

LEMMA LockInit == Init => LockInv
BY DEF Init, LockInv, Executing, Greeted

LEMMA LockStep == LockInv /\ [Next]_vars => LockInv'
<1> SUFFICES ASSUME LockInv, [Next]_vars PROVE LockInv'
  OBVIOUS
<1> USE PipeAssumption DEF LockInv, Executing, Greeted, Callers,
        connections, calls, history
<1>1. ASSUME NEW c \in Clients, Connection(c) PROVE LockInv'
  <2>1. CASE Accept(c)
    BY <2>1 DEF Accept
  <2>2. CASE Register(c)
    BY <2>2 DEF Register
  <2>3. CASE ReadBlock(c)
    BY <2>3 DEF ReadBlock
  <2>4. CASE Greet(c)
    <3>1. /\ thread[c] = "greet"
          /\ thread' = [thread EXCEPT ![c] = "check"]
          /\ comLock' = [comLock EXCEPT ![c] = Nobody]
          /\ UNCHANGED <<registered, stage, to>>
      BY <2>4 DEF Greet
    <3>2. \A k \in Callers : stage[k] = "answer" => to[k] # c
      BY <3>1
    <3> QED BY <3>1, <3>2
  <2>5. CASE ThreadEnds(c)
    BY <2>5 DEF ThreadEnds
  <2>6. CASE HangUp(c)
    BY <2>6 DEF HangUp
  <2> QED BY <1>1, <2>1, <2>2, <2>3, <2>4, <2>5, <2>6 DEF Connection
<1>2. CASE Stop
  BY <1>2 DEF Stop
<1>3. ASSUME NEW k \in SetCallers, Setting(k) PROVE LockInv'
  <2>1. ASSUME NEW v \in BOOLEAN, SetBlockLogin(k, v) PROVE LockInv'
    BY <2>1 DEF SetBlockLogin
  <2>2. CASE AssignBlock(k)
    BY <2>2 DEF AssignBlock
  <2>3. CASE Notify(k)
    BY <2>3 DEF Notify
  <2> QED BY <1>3, <2>1, <2>2, <2>3 DEF Setting
<1>4. ASSUME NEW k \in LoginCallers, LoggingIn(k) PROVE LockInv'
  <2>1. CASE LoginUser(k)
    BY <2>1 DEF LoginUser
  <2>2. CASE PickProvider(k)
    <3>1. /\ stage[k] = "pick"
          /\ stage' \in {[stage EXCEPT ![k] = "idle"], [stage EXCEPT ![k] = "replace"]}
          /\ DOMAIN to' = Callers /\ \A l \in Callers \ {k} : to'[l] = to[l]
          /\ UNCHANGED <<thread, comLock, registered>>
      BY <2>2 DEF PickProvider
    <3> QED BY <3>1
  <2>3. CASE ReplaceClients(k)
    BY <2>3 DEF ReplaceClients
  <2>4. CASE LoginDone(k)
    BY <2>4 DEF LoginDone, Returns
  <2> QED BY <1>4, <2>1, <2>2, <2>3, <2>4 DEF LoggingIn
<1>5. ASSUME NEW k \in Callers, Walking(k) PROVE LockInv'
  <2>1. CASE NextClient(k)
    <3>1. PICK c :
            /\ stage[k] = "walk"
            /\ \/ /\ c \in registered
                  /\ to' = [to EXCEPT ![k] = c]
                  /\ stage' = [stage EXCEPT ![k] = "execute"]
               \/ UNCHANGED <<to, stage>>
            /\ UNCHANGED <<thread, comLock, registered>>
      BY <2>1 DEF NextClient, Serves
    <3> QED BY <3>1
  <2>2. CASE WalkEnds(k)
    BY <2>2 DEF WalkEnds
  <2>3. CASE Execute(k)
    <3>1. /\ stage[k] = "execute" /\ comLock[to[k]] = Nobody
          /\ comLock' = [comLock EXCEPT ![to[k]] = k]
          /\ stage' = [stage EXCEPT ![k] = "answer"]
          /\ UNCHANGED <<thread, registered, to>>
      BY <2>3 DEF Execute
    <3> QED BY <3>1
  <2>4. CASE Answered(k)
    BY <2>4 DEF Answered, Returns
  <2>5. CASE NoAnswer(k)
    BY <2>5 DEF NoAnswer, Returns
  <2> QED BY <1>5, <2>1, <2>2, <2>3, <2>4, <2>5 DEF Walking
<1>6. CASE UNCHANGED vars
  BY <1>6 DEF vars
<1> QED BY <1>1, <1>2, <1>3, <1>4, <1>5, <1>6 DEF Next

\* Of the threads that talk to a client only one does at a time, so no answer is
\* read by the wrong one, whatever else the threads do to the lists.
THEOREM OneTalksAtATime == Spec => []OneTalks
<1>1. LockInv => OneTalks
  BY PipeAssumption DEF LockInv, OneTalks, Executing, Greeted, Callers
<1> QED BY <1>1, LockInit, LockStep, PTL DEF Spec

----------------------------------------------------------------------------
\* A provider that has done a login is not login_capable and never becomes so
\* again, and the call under way is not executed on it.
LoginInv ==
  /\ capable \cap loggedIn = {}
  /\ loggedIn \subseteq registered
  /\ \A c \in Clients : thread[c] \in {"none", "read"} => c \notin registered
  /\ \A k \in LoginCallers : stage[k] \in Executing => to[k] \notin loggedIn

OneLoginCaller == \A k, l \in LoginCallers : k = l

LEMMA LoginInit == Init => LoginInv
BY DEF Init, LoginInv, Executing, Callers

LEMMA LoginStep ==
  OneLoginCaller /\ LockInv /\ LoginInv /\ [Next]_vars => LoginInv'
<1> SUFFICES ASSUME OneLoginCaller, LockInv, LoginInv, [Next]_vars PROVE LoginInv'
  OBVIOUS
<1> USE PipeAssumption DEF LockInv, LoginInv, Executing, Callers,
        connections, calls, history
<1>1. ASSUME NEW c \in Clients, Connection(c) PROVE LoginInv'
  <2>1. CASE Accept(c)
    BY <2>1 DEF Accept
  <2>2. CASE Register(c)
    BY <2>2 DEF Register
  <2>3. CASE ReadBlock(c)
    BY <2>3 DEF ReadBlock
  <2>4. CASE Greet(c)
    BY <2>4 DEF Greet
  <2>5. CASE ThreadEnds(c)
    BY <2>5 DEF ThreadEnds
  <2>6. CASE HangUp(c)
    BY <2>6 DEF HangUp
  <2> QED BY <1>1, <2>1, <2>2, <2>3, <2>4, <2>5, <2>6 DEF Connection
<1>2. CASE Stop
  BY <1>2 DEF Stop
<1>3. ASSUME NEW k \in SetCallers, Setting(k) PROVE LoginInv'
  <2>1. ASSUME NEW v \in BOOLEAN, SetBlockLogin(k, v) PROVE LoginInv'
    BY <2>1 DEF SetBlockLogin
  <2>2. CASE AssignBlock(k)
    BY <2>2 DEF AssignBlock
  <2>3. CASE Notify(k)
    BY <2>3 DEF Notify
  <2> QED BY <1>3, <2>1, <2>2, <2>3 DEF Setting
<1>4. ASSUME NEW k \in LoginCallers, LoggingIn(k) PROVE LoginInv'
  <2>1. CASE LoginUser(k)
    BY <2>1 DEF LoginUser
  <2>2. CASE PickProvider(k)
    <3>1. /\ stage' \in {[stage EXCEPT ![k] = "idle"], [stage EXCEPT ![k] = "replace"]}
          /\ \A l \in Callers \ {k} : to'[l] = to[l]
          /\ UNCHANGED <<thread, registered, capable, loggedIn>>
      BY <2>2 DEF PickProvider
    <3> QED BY <3>1
  <2>3. CASE ReplaceClients(k)
    BY <2>3 DEF ReplaceClients
  <2>4. CASE LoginDone(k)
    <3>1. /\ stage[k] = "answer"
          /\ stage' = [stage EXCEPT ![k] = "walk"]
          /\ capable' = capable \ {to[k]} /\ loggedIn' = loggedIn \cup {to[k]}
          /\ UNCHANGED <<thread, registered>>
      BY <2>4 DEF LoginDone, Returns
    <3>2. \A l \in LoginCallers : l = k
      BY DEF OneLoginCaller
    <3> QED BY <3>1, <3>2
  <2> QED BY <1>4, <2>1, <2>2, <2>3, <2>4 DEF LoggingIn
<1>5. ASSUME NEW k \in Callers, Walking(k) PROVE LoginInv'
  <2>1. CASE NextClient(k)
    <3>1. PICK c :
            /\ \/ /\ k \in LoginCallers => c \in capable
                  /\ to' = [to EXCEPT ![k] = c]
                  /\ stage' = [stage EXCEPT ![k] = "execute"]
               \/ UNCHANGED <<to, stage>>
            /\ UNCHANGED <<thread, registered, capable, loggedIn>>
      BY <2>1 DEF NextClient, Serves
    <3> QED BY <3>1
  <2>2. CASE WalkEnds(k)
    BY <2>2 DEF WalkEnds
  <2>3. CASE Execute(k)
    BY <2>3 DEF Execute
  <2>4. CASE Answered(k)
    BY <2>4 DEF Answered, Returns
  <2>5. CASE NoAnswer(k)
    BY <2>5 DEF NoAnswer, Returns
  <2> QED BY <1>5, <2>1, <2>2, <2>3, <2>4, <2>5 DEF Walking
<1>6. CASE UNCHANGED vars
  BY <1>6 DEF vars
<1> QED BY <1>1, <1>2, <1>3, <1>4, <1>5, <1>6 DEF Next

\* If one thread at a time calls loginUser, no provider that has reported a login
\* is asked for another, however connections come and go.
THEOREM SerialLogins ==
  ASSUME OneLoginCaller PROVE Spec => []OneLoginPerProvider
<1>1. LockInv /\ LoginInv => OneLoginPerProvider
  BY DEF LockInv, LoginInv, OneLoginPerProvider, Executing, Callers
<1>2. Init => LockInv /\ LoginInv
  BY LockInit, LoginInit
<1>3. LockInv /\ LoginInv /\ [Next]_vars => (LockInv /\ LoginInv)'
  BY OneLoginCaller, LockStep, LoginStep
<1> QED BY <1>1, <1>2, <1>3, PTL DEF Spec

----------------------------------------------------------------------------
\* What is needed beside the types: a list that is walked exists, and a provider
\* that was picked is a connection.
ListInv ==
  \A k \in Callers :
    /\ stage[k] \in {"replace", "walk"} \cup Executing => on[k] \in DOMAIN lists
    /\ stage[k] = "replace" => to[k] \in Clients

TypeInv == TypeOK /\ ListInv

LEMMA RemoveAtType ==
  ASSUME NEW S, NEW s \in Seq(S), NEW i \in 1..Len(s)
  PROVE  RemoveAt(s, i) \in Seq(S)
<1>1. SubSeq(s, 1, i - 1) \in Seq(S) /\ SubSeq(s, i + 1, Len(s)) \in Seq(S)
  BY SubSeqProperties
<1> QED BY <1>1, ConcatProperties DEF RemoveAt

LEMMA TypeInit == Init => TypeInv
<1> SUFFICES ASSUME Init PROVE TypeInv
  OBVIOUS
<1>1. <<<<>>>> \in Seq(Seq(Clients)) /\ <<<<>>>> # <<>>
  OBVIOUS
<1>2. /\ stage \in [Callers -> Stages] /\ new \in [Callers -> BOOLEAN]
      /\ on \in [Callers -> Nat \ {0}] /\ pos \in [Callers -> Nat]
      /\ to \in [Callers -> Clients \cup {Nobody}]
  BY DEF Init, Stages
<1>3. /\ thread \in [Clients -> Threads] /\ peer \in [Clients -> BOOLEAN]
      /\ comLock \in [Clients -> Clients \cup Callers \cup {Nobody}]
      /\ greeting \in [Clients -> BOOLEAN] /\ told \in [Clients -> BOOLEAN]
  BY DEF Init, Threads
<1>4. TypeOK
  BY <1>1, <1>2, <1>3 DEF Init, TypeOK
<1>5. ListInv
  BY DEF Init, ListInv, Executing
<1> QED BY <1>4, <1>5 DEF TypeInv

\* A list that changes stays a list of connections, and no list goes away.
LEMMA ListsChange ==
  ASSUME TypeOK,
         NEW s \in Seq(Clients), lists' = [lists EXCEPT ![current] = s]
  PROVE  lists' \in Seq(Seq(Clients)) /\ lists' # <<>> /\ DOMAIN lists' = DOMAIN lists
BY DEF TypeOK, current

LEMMA DisconnectLists ==
  ASSUME TypeOK, NEW c \in Clients, Disconnect(c)
  PROVE  /\ lists' \in Seq(Seq(Clients)) /\ lists' # <<>> /\ DOMAIN lists' = DOMAIN lists
         /\ ended' \subseteq Clients /\ ended' # {}
<1>1. current \in DOMAIN lists /\ clients \in Seq(Clients)
  BY DEF TypeOK, current, clients
<1>2. CASE c \in Range(clients)
  <2>1. PICK i \in DOMAIN clients :
          lists' = [lists EXCEPT ![current] = RemoveAt(clients, i)]
    BY <1>2, <1>1 DEF Disconnect, clients
  <2>2. RemoveAt(clients, i) \in Seq(Clients)
    BY <1>1, RemoveAtType
  <2> QED BY <2>1, <2>2, ListsChange DEF Disconnect, TypeOK
<1>3. CASE c \notin Range(clients)
  BY <1>3 DEF Disconnect, TypeOK
<1> QED BY <1>2, <1>3

LEMMA TypeStep == LockInv /\ TypeInv /\ [Next]_vars => TypeInv'
<1> SUFFICES ASSUME LockInv, TypeInv, [Next]_vars PROVE TypeInv'
  OBVIOUS
<1>0. TypeOK /\ current \in DOMAIN lists /\ clients \in Seq(Clients)
  BY DEF TypeInv, TypeOK, current, clients
<1> USE PipeAssumption DEF TypeInv, TypeOK, ListInv, Executing, Threads, Stages, Callers,
        connections, calls, history
<1>1. ASSUME NEW c \in Clients, Connection(c) PROVE TypeInv'
  <2>1. CASE Accept(c)
    <3>1. /\ lists' = [lists EXCEPT ![current] = Append(clients, c)]
          /\ thread' = [thread EXCEPT ![c] = "read"]
          /\ peer' = [peer EXCEPT ![c] = TRUE]
          /\ UNCHANGED <<block, stopping, registered, capable, ended, comLock, greeting,
                         calls, history>>
      BY <2>1 DEF Accept, clients
    <3>2. Append(clients, c) \in Seq(Clients)
      BY <1>0
    <3>3. lists' \in Seq(Seq(Clients)) /\ lists' # <<>> /\ DOMAIN lists' = DOMAIN lists
      BY <1>0, <3>1, <3>2, ListsChange
    <3> QED BY <3>1, <3>3
  <2>2. CASE Register(c)
    BY <2>2 DEF Register
  <2>3. CASE ReadBlock(c)
    BY <2>3 DEF ReadBlock
  <2>4. CASE Greet(c)
    <3>1. /\ lists' \in Seq(Seq(Clients)) /\ lists' # <<>> /\ DOMAIN lists' = DOMAIN lists
          /\ ended' \subseteq Clients
      BY <1>0, <2>4, DisconnectLists DEF Greet
    <3>2. told' \in [Clients -> BOOLEAN]
      BY <2>4 DEF Greet, Disconnect
    <3> QED BY <2>4, <3>1, <3>2 DEF Greet
  <2>5. CASE ThreadEnds(c)
    BY <1>0, <2>5, DisconnectLists DEF ThreadEnds
  <2>6. CASE HangUp(c)
    BY <2>6 DEF HangUp
  <2> QED BY <1>1, <2>1, <2>2, <2>3, <2>4, <2>5, <2>6 DEF Connection
<1>2. CASE Stop
  <2>1. Range(clients) \subseteq Clients
    BY <1>0 DEF Range
  <2> QED BY <1>2, <2>1 DEF Stop
<1>3. ASSUME NEW k \in SetCallers, Setting(k) PROVE TypeInv'
  <2>1. ASSUME NEW v \in BOOLEAN, SetBlockLogin(k, v) PROVE TypeInv'
    BY <2>1 DEF SetBlockLogin
  <2>2. CASE AssignBlock(k)
    BY <2>2 DEF AssignBlock
  <2>3. CASE Notify(k)
    <3>1. /\ stage' \in {[stage EXCEPT ![k] = "idle"], [stage EXCEPT ![k] = "walk"]}
          /\ new' \in {new, [new EXCEPT ![k] = block]}
          /\ on' \in {on, [on EXCEPT ![k] = current]}
          /\ stage'[k] = "walk" => on'[k] = current
          /\ pos' \in {pos, [pos EXCEPT ![k] = 0]}
          /\ UNCHANGED <<block, stopping, lists, connections, comLock, to, history>>
      BY <2>3 DEF Notify
    <3>2. current \in Nat \ {0}
      BY <1>0
    <3>3. stage' \in [Callers -> Stages]
      BY <3>1
    <3>4. new' \in [Callers -> BOOLEAN] /\ pos' \in [Callers -> Nat]
      BY <3>1
    <3>5. on' \in [Callers -> Nat \ {0}]
      <4>1. CASE on' = on
        BY <4>1
      <4>2. CASE on' = [on EXCEPT ![k] = current]
        BY <4>2, <3>2
      <4> QED BY <3>1, <4>1, <4>2
    <3>6. ListInv'
      BY <1>0, <3>1
    <3> QED BY <3>1, <3>3, <3>4, <3>5, <3>6
  <2> QED BY <1>3, <2>1, <2>2, <2>3 DEF Setting
<1>4. ASSUME NEW k \in LoginCallers, LoggingIn(k) PROVE TypeInv'
  <2>1. CASE LoginUser(k)
    BY <2>1 DEF LoginUser
  <2>2. CASE PickProvider(k)
    <3>1. /\ \/ stage' = [stage EXCEPT ![k] = "idle"] /\ UNCHANGED <<on, to>>
             \/ /\ stage' = [stage EXCEPT ![k] = "replace"]
                /\ on' = [on EXCEPT ![k] = current]
                /\ \E c \in Clients : to' = [to EXCEPT ![k] = c]
          /\ UNCHANGED <<block, stopping, lists, connections, comLock, new, pos, history>>
      <4>1. \A i \in DOMAIN clients : clients[i] \in Clients
        BY <1>0
      <4> QED BY <4>1, <2>2 DEF PickProvider
    <3>2. CASE stage' = [stage EXCEPT ![k] = "idle"] /\ UNCHANGED <<on, to>>
      BY <3>1, <3>2
    <3>3. ASSUME NEW c \in Clients,
                 /\ stage' = [stage EXCEPT ![k] = "replace"]
                 /\ on' = [on EXCEPT ![k] = current]
                 /\ to' = [to EXCEPT ![k] = c]
          PROVE  TypeInv'
      <4>1. current \in Nat \ {0}
        BY <1>0
      <4>2. /\ stage' \in [Callers -> Stages] /\ on' \in [Callers -> Nat \ {0}]
            /\ to' \in [Callers -> Clients \cup {Nobody}]
        BY <3>3, <4>1
      <4>3. ListInv'
        BY <1>0, <3>1, <3>3
      <4> QED BY <3>1, <4>2, <4>3
    <3> QED BY <3>1, <3>2, <3>3
  <2>3. CASE ReplaceClients(k)
    <3>1. <<to[k]>> \in Seq(Clients)
      BY <2>3 DEF ReplaceClients
    <3>2. /\ lists' \in Seq(Seq(Clients)) /\ lists' # <<>>
          /\ Len(lists') = Len(lists) + 1
      BY <2>3, <3>1, AppendProperties DEF ReplaceClients
    <3>3. DOMAIN lists \subseteq DOMAIN lists'
      BY <3>2
    <3> QED BY <2>3, <3>2, <3>3 DEF ReplaceClients
  <2>4. CASE LoginDone(k)
    BY <2>4 DEF LoginDone, Returns, LockInv
  <2> QED BY <1>4, <2>1, <2>2, <2>3, <2>4 DEF LoggingIn
<1>5. ASSUME NEW k \in Callers, Walking(k) PROVE TypeInv'
  <2>1. CASE NextClient(k)
    <3>1. PICK c :
            /\ stage[k] = "walk"
            /\ pos' = [pos EXCEPT ![k] = @ + 1]
            /\ \/ /\ c \in registered
                  /\ to' = [to EXCEPT ![k] = c]
                  /\ stage' = [stage EXCEPT ![k] = "execute"]
               \/ UNCHANGED <<to, stage>>
            /\ UNCHANGED <<block, stopping, lists, connections, comLock, new, on, history>>
      BY <2>1 DEF NextClient, Serves
    <3>2. pos' \in [Callers -> Nat]
      BY <3>1
    <3>3. stage' \in [Callers -> Stages]
      BY <3>1
    <3>4. to' \in [Callers -> Clients \cup {Nobody}]
      BY <3>1
    <3>5. ListInv'
      BY <3>1
    <3> QED BY <3>1, <3>2, <3>3, <3>4, <3>5
  <2>2. CASE WalkEnds(k)
    BY <2>2 DEF WalkEnds
  <2>3. CASE Execute(k)
    BY <2>3 DEF Execute, LockInv
  <2>4. CASE Answered(k)
    BY <2>4 DEF Answered, Returns
  <2>5. CASE NoAnswer(k)
    <3>1. to[k] \in Clients
      BY <2>5 DEF NoAnswer, LockInv
    <3> QED BY <1>0, <2>5, <3>1, DisconnectLists DEF NoAnswer, Returns
  <2> QED BY <1>5, <2>1, <2>2, <2>3, <2>4, <2>5 DEF Walking
<1>6. CASE UNCHANGED vars
  BY <1>6 DEF vars
<1> QED BY <1>1, <1>2, <1>3, <1>4, <1>5, <1>6 DEF Next

\* Types, for any connections and threads; LockInv tells that calls are executed on
\* connections.
THEOREM TypeCorrect == Spec => []TypeOK
<1>1. Init => LockInv /\ TypeInv
  BY LockInit, TypeInit
<1>2. LockInv /\ TypeInv /\ [Next]_vars => (LockInv /\ TypeInv)'
  BY LockStep, TypeStep
<1>3. TypeInv => TypeOK
  BY DEF TypeInv
<1> QED BY <1>1, <1>2, <1>3, PTL DEF Spec

----------------------------------------------------------------------------
\* The walk of k has still to tell c, or has found that it is gone.
Tells(k, c) ==
  \/ stage[k] = "notify"
  \/ /\ stage[k] \in {"walk"} \cup Executing
     /\ \E i \in DOMAIN lists[on[k]] : i > pos[k] /\ lists[on[k]][i] = c
  \/ stage[k] = "execute" /\ to[k] = c
  \/ stage[k] = "answer" /\ to[k] = c /\ ~peer[c]

Pending(c) == \E k \in SetCallers : Tells(k, c)

\* A client has been told, or will be by its greeting, the present value, unless it
\* has still to be told by a walk.
Agrees(c) ==
  /\ thread[c] = "check" => (told[c] <=> block) \/ Pending(c)
  /\ thread[c] = "greet" => (greeting[c] <=> block) \/ Pending(c)

\* A walk passes over no client that has read _blockLogin, since it is registered,
\* and a client that joins a newer list than the one walked reads the new value.
AgreeInv ==
  /\ \A c \in Clients : thread[c] \in Greeted \cup {"check"} => c \in registered
  /\ \A k \in SetCallers :
       stage[k] \in {"same", "walk"} \cup Executing => (new[k] <=> block)
  /\ ended = {} =>
       /\ \A c \in Range(clients) : Agrees(c)
       /\ \A k \in LoginCallers : stage[k] = "replace" => to[k] \in Range(clients)

OneSetCaller == \A k, l \in SetCallers : k = l

LEMMA AgreeInit == Init => AgreeInv
BY DEF Init, AgreeInv, Agrees, Executing, Greeted, Range, clients, current, Callers

\* What is left to do while the lists, the walks of setBlockLogin and block do not
\* change: the client concerned, and nobody else, has to agree.
LEMMA AgreeFrame ==
  ASSUME AgreeInv, UNCHANGED <<block, lists>>, ended' = {} => ended = {},
         \A k \in SetCallers :
           stage'[k] = stage[k] /\ new'[k] = new[k] /\ on'[k] = on[k]
             /\ pos'[k] = pos[k] /\ to'[k] = to[k],
         \A k \in LoginCallers :
           stage'[k] = "replace" =>
             (stage[k] = "replace" /\ to'[k] = to[k]) \/ to'[k] \in Range(clients),
         \A c \in Clients : thread'[c] \in Greeted \cup {"check"} => c \in registered',
         \A c \in Clients : ~peer[c] => ~peer'[c],
         \A c \in Range(clients) :
           \/ thread'[c] \notin {"greet", "check"}
           \/ /\ thread'[c] = thread[c] /\ told'[c] = told[c]
              /\ greeting'[c] = greeting[c]
           \/ thread'[c] = "greet" /\ greeting'[c] = block
           \/ thread'[c] = "check" /\ thread[c] = "greet" /\ told'[c] = greeting[c],
         Range(clients) \subseteq Clients
  PROVE  AgreeInv'
<1>1. clients' = clients
  BY DEF clients, current
<1>2. ASSUME NEW c \in Clients, Pending(c) PROVE Pending(c)'
  BY <1>2 DEF Pending, Tells
<1>3. ASSUME ended' = {}, NEW c \in Range(clients) PROVE Agrees(c)'
  <2>1. Agrees(c)
    BY <1>3 DEF AgreeInv
  <2> QED BY <2>1, <1>2 DEF Agrees
<1> QED BY <1>1, <1>3 DEF AgreeInv

LEMMA AgreeStep ==
  ASSUME OneSetCaller, OneLoginCaller, LockInv, TypeInv, AgreeInv, [Next]_vars
  PROVE  AgreeInv'
<1>0. /\ TypeOK /\ current \in DOMAIN lists /\ clients \in Seq(Clients)
      /\ Range(clients) \subseteq Clients
      /\ \A i \in DOMAIN clients : clients[i] \in Clients
  BY DEF TypeInv, TypeOK, current, clients, Range
<1>a. \A k \in Callers : k \in SetCallers => k \notin LoginCallers
  BY PipeAssumption
<1> USE DEF connections, calls, history
<1>1. ASSUME NEW c \in Clients, Connection(c) PROVE AgreeInv'
  <2>1. CASE Accept(c)
    <3>1. /\ thread' = [thread EXCEPT ![c] = "read"]
          /\ peer' = [peer EXCEPT ![c] = TRUE] /\ thread[c] = "none"
          /\ lists' = [lists EXCEPT ![current] = Append(clients, c)]
          /\ UNCHANGED <<block, registered, ended, greeting, calls, told>>
      BY <2>1 DEF Accept, clients
    <3>2. /\ clients' = Append(clients, c) /\ DOMAIN lists' = DOMAIN lists
          /\ \A n \in DOMAIN lists :
               /\ DOMAIN lists[n] \subseteq DOMAIN lists'[n]
               /\ \A i \in DOMAIN lists[n] : lists'[n][i] = lists[n][i]
      <4>1. Len(lists') = Len(lists)
        BY <1>0, <3>1 DEF TypeOK
      <4>2. /\ Append(clients, c) \in Seq(Clients)
            /\ DOMAIN clients \subseteq DOMAIN Append(clients, c)
            /\ \A i \in DOMAIN clients : Append(clients, c)[i] = clients[i]
        BY <1>0, AppendProperties
      <4> QED BY <1>0, <3>1, <4>1, <4>2 DEF TypeOK, clients, current
    <3>3. Range(clients') = Range(clients) \cup {c}
      <4>1. /\ DOMAIN Append(clients, c) = 1 .. Len(clients) + 1
            /\ \A i \in 1 .. Len(clients) : Append(clients, c)[i] = clients[i]
            /\ Append(clients, c)[Len(clients) + 1] = c
        BY <1>0, AppendProperties
      <4> QED BY <1>0, <3>2, <4>1 DEF Range
    <3>4. ASSUME NEW d \in Clients \ {c}, Pending(d) PROVE Pending(d)'
      <4>1. PICK k \in SetCallers : Tells(k, d)
        BY <3>4 DEF Pending, Tells
      <4>2. stage[k] \in {"walk"} \cup Executing => on[k] \in DOMAIN lists
        BY DEF TypeInv, ListInv, Callers
      <4>3. peer'[d] = peer[d]
        BY <1>0, <3>1 DEF TypeOK
      <4> QED BY <3>1, <3>2, <4>1, <4>2, <4>3 DEF Pending, Tells
    <3>5. ASSUME ended' = {}, NEW d \in Range(clients') PROVE Agrees(d)'
      <4>1. CASE d = c
        BY <1>0, <3>1, <4>1 DEF Agrees, TypeOK
      <4>2. CASE d # c
        <5>1. d \in Clients \ {c} /\ Agrees(d)
          BY <1>0, <3>1, <3>3, <3>5, <4>2 DEF AgreeInv
        <5> QED BY <1>0, <3>1, <3>4, <5>1 DEF Agrees, TypeOK
      <4> QED BY <4>1, <4>2
    <3> QED BY <1>0, <3>1, <3>3, <3>5 DEF AgreeInv, Greeted, TypeOK
  <2>2. CASE Register(c)
    <3>1. /\ thread' = [thread EXCEPT ![c] = "registered"]
          /\ registered' = registered \cup {c}
          /\ UNCHANGED <<block, lists, peer, ended, greeting, calls, told>>
      BY <2>2 DEF Register
    <3> QED BY <1>0, <3>1, AgreeFrame DEF AgreeInv, Greeted, TypeOK
  <2>3. CASE ReadBlock(c)
    <3>1. /\ thread[c] = "registered" /\ thread' = [thread EXCEPT ![c] = "greet"]
          /\ greeting' = [greeting EXCEPT ![c] = block]
          /\ UNCHANGED <<block, lists, peer, registered, ended, calls, told>>
      BY <2>3 DEF ReadBlock
    <3> QED BY <1>0, <3>1, AgreeFrame DEF AgreeInv, Greeted, TypeOK
  <2>4. CASE Greet(c)
    <3>1. /\ thread[c] = "greet" /\ thread' = [thread EXCEPT ![c] = "check"]
          /\ greeting' = [greeting EXCEPT ![c] = TRUE]
          /\ UNCHANGED <<block, peer, registered, calls>>
      BY <2>4 DEF Greet
    <3>2. CASE peer[c]
      <4>1. told' = [told EXCEPT ![c] = greeting[c]] /\ UNCHANGED <<lists, ended>>
        BY <2>4, <3>2 DEF Greet
      <4> QED BY <1>0, <3>1, <4>1, AgreeFrame DEF AgreeInv, Greeted, TypeOK
    <3>3. CASE ~peer[c]
      <4>1. ended' # {}
        BY <1>0, <2>4, <3>3, DisconnectLists DEF Greet
      <4> QED BY <1>0, <3>1, <4>1 DEF AgreeInv, Greeted, TypeOK
    <3> QED BY <3>2, <3>3
  <2>5. CASE ThreadEnds(c)
    <3>1. ended' # {}
      BY <1>0, <2>5, DisconnectLists DEF ThreadEnds
    <3>2. /\ thread' = [thread EXCEPT ![c] = "over"]
          /\ UNCHANGED <<block, registered, calls>>
      BY <2>5 DEF ThreadEnds
    <3> QED BY <1>0, <3>1, <3>2 DEF AgreeInv, Greeted, TypeOK
  <2>6. CASE HangUp(c)
    <3>1. /\ peer' = [peer EXCEPT ![c] = FALSE]
          /\ UNCHANGED <<block, lists, thread, registered, ended, greeting, calls, told>>
      BY <2>6 DEF HangUp
    <3> QED BY <1>0, <3>1, AgreeFrame DEF AgreeInv, Greeted, TypeOK
  <2> QED BY <1>1, <2>1, <2>2, <2>3, <2>4, <2>5, <2>6 DEF Connection
<1>2. CASE Stop
  <2>1. /\ ended' = ended \cup Range(clients)
        /\ UNCHANGED <<block, lists, thread, peer, registered, greeting, calls, told>>
    BY <1>2 DEF Stop
  <2> QED BY <1>0, <2>1, AgreeFrame DEF AgreeInv
<1>3. ASSUME NEW k \in SetCallers, Setting(k) PROVE AgreeInv'
  <2>0. /\ \A l \in SetCallers : l = k
        /\ k \in Callers /\ k \notin LoginCallers
    BY <1>a DEF OneSetCaller, Callers
  <2>1. ASSUME NEW v \in BOOLEAN, SetBlockLogin(k, v) PROVE AgreeInv'
    <3>1. /\ stage[k] = "idle"
          /\ stage' = [stage EXCEPT ![k] = IF v = block THEN "same" ELSE "changed"]
          /\ new' = [new EXCEPT ![k] = v]
          /\ UNCHANGED <<block, lists, connections, on, pos, to, told>>
      BY <2>1 DEF SetBlockLogin
    <3>2. \A c \in Clients : ~Pending(c)
      BY <2>0, <3>1 DEF Pending, Tells, Executing
    <3>3. clients' = clients
      BY <3>1 DEF clients, current
    <3>4. \A l \in Callers \ {k} : stage'[l] = stage[l] /\ new'[l] = new[l]
      BY <1>0, <3>1 DEF TypeOK
    <3>5. stage'[k] \in {"same", "changed"} /\ (stage'[k] = "same" => (new'[k] <=> block))
      BY <1>0, <2>0, <3>1 DEF TypeOK
    <3>6. ASSUME ended' = {}, NEW c \in Range(clients) PROVE Agrees(c)'
      <4>1. Agrees(c) /\ c \in Clients
        BY <1>0, <3>1, <3>6 DEF AgreeInv
      <4> QED BY <3>1, <3>2, <4>1 DEF Agrees
    <3> QED BY <2>0, <3>1, <3>3, <3>4, <3>5, <3>6 DEF AgreeInv, Executing, Callers
  <2>2. CASE AssignBlock(k)
    <3>1. /\ block' = new[k]
          /\ stage' = [stage EXCEPT ![k] = IF @ = "changed" THEN "notify" ELSE "idle"]
          /\ UNCHANGED <<lists, connections, on, pos, to, told>>
      BY <2>2 DEF AssignBlock
    <3>2. clients' = clients
      BY <3>1 DEF clients, current
    <3>3. \A l \in Callers \ {k} : stage'[l] = stage[l]
      BY <1>0, <3>1 DEF TypeOK
    <3>4. CASE stage[k] = "same"
      <4>1. block' = block /\ stage'[k] = "idle"
        BY <1>0, <2>0, <3>1, <3>4 DEF AgreeInv, TypeOK
      <4>2. \A c \in Clients : ~Pending(c)
        BY <2>0, <3>4 DEF Pending, Tells, Executing
      <4>3. ASSUME ended' = {}, NEW c \in Range(clients) PROVE Agrees(c)'
        <5>1. Agrees(c) /\ c \in Clients
          BY <1>0, <3>1, <4>3 DEF AgreeInv
        <5> QED BY <3>1, <4>1, <4>2, <5>1 DEF Agrees
      <4> QED BY <2>0, <3>1, <3>2, <3>3, <4>1, <4>3 DEF AgreeInv, Executing, Callers
    <3>5. CASE stage[k] = "changed"
      <4>1. stage'[k] = "notify"
        BY <1>0, <2>0, <3>1, <3>5 DEF TypeOK
      <4>2. ASSUME NEW c \in Clients PROVE Agrees(c)'
        BY <4>1 DEF Agrees, Pending, Tells
      <4> QED BY <1>0, <2>0, <3>1, <3>2, <3>3, <4>1, <4>2 DEF AgreeInv, Executing, Callers
    <3> QED BY <2>2, <3>4, <3>5 DEF AssignBlock
  <2>3. CASE Notify(k)
    <3>1. UNCHANGED <<block, lists, connections, to, told>>
      BY <2>3 DEF Notify
    <3>2. clients' = clients
      BY <3>1 DEF clients, current
    <3>3. \A l \in Callers \ {k} : stage'[l] = stage[l]
      BY <1>0, <2>3 DEF TypeOK, Notify
    <3>4. CASE clients = <<>>
      <4>1. stage'[k] = "idle" /\ Range(clients) = {}
        BY <1>0, <2>0, <2>3, <3>4 DEF Notify, TypeOK, Range
      <4> QED BY <2>0, <3>1, <3>2, <3>3, <4>1 DEF AgreeInv, Executing, Callers
    <3>5. CASE clients # <<>>
      <4>1. /\ stage'[k] = "walk" /\ new'[k] = block
            /\ on'[k] = current /\ pos'[k] = 0
        BY <1>0, <2>0, <2>3, <3>5 DEF Notify, TypeOK
      <4>2. ASSUME NEW c \in Range(clients) PROVE Pending(c)'
        <5>1. PICK i \in DOMAIN clients : clients[i] = c
          BY DEF Range
        <5>2. i > 0
          BY <1>0
        <5> QED BY <3>1, <4>1, <5>1, <5>2 DEF Pending, Tells, clients
      <4> QED BY <2>0, <3>1, <3>2, <3>3, <4>1, <4>2 DEF AgreeInv, Agrees, Executing, Callers
    <3> QED BY <3>4, <3>5
  <2> QED BY <1>3, <2>1, <2>2, <2>3 DEF Setting
<1>4. ASSUME NEW k \in LoginCallers, LoggingIn(k) PROVE AgreeInv'
  <2>0. /\ \A l \in LoginCallers : l = k
        /\ k \in Callers /\ k \notin SetCallers
    BY <1>a DEF OneLoginCaller, Callers
  <2>1. CASE LoginUser(k)
    <3>1. /\ stage' = [stage EXCEPT ![k] = "pick"]
          /\ UNCHANGED <<block, lists, connections, new, on, pos, to, told>>
      BY <2>1 DEF LoginUser
    <3> QED BY <1>0, <2>0, <3>1, AgreeFrame DEF AgreeInv, TypeOK
  <2>2. CASE PickProvider(k)
    <3>1. /\ DOMAIN stage' = Callers /\ DOMAIN on' = Callers /\ DOMAIN to' = Callers
          /\ \A l \in Callers \ {k} :
               stage'[l] = stage[l] /\ on'[l] = on[l] /\ to'[l] = to[l]
          /\ UNCHANGED <<block, lists, connections, new, pos, told>>
      BY <1>0, <2>2 DEF PickProvider, TypeOK
    <3>2. stage'[k] = "replace" => to'[k] \in Range(clients)
      <4>1. \A i \in DOMAIN clients : clients[i] \in Range(clients)
        BY DEF Range
      <4> QED BY <1>0, <2>0, <2>2, <4>1 DEF PickProvider, TypeOK
    <3> QED BY <1>0, <2>0, <3>1, <3>2, AgreeFrame DEF AgreeInv, Callers
  <2>3. CASE ReplaceClients(k)
    <3>1. /\ stage[k] = "replace" /\ stage' = [stage EXCEPT ![k] = "walk"]
          /\ pos' = [pos EXCEPT ![k] = 0] /\ to' = [to EXCEPT ![k] = Nobody]
          /\ lists' = Append(lists, <<to[k]>>)
          /\ UNCHANGED <<block, connections, new, on, told>>
      BY <2>3 DEF ReplaceClients
    <3>2. to[k] \in Clients
      BY <2>0, <3>1 DEF TypeInv, ListInv
    <3>3. /\ Len(lists') = Len(lists) + 1
          /\ \A n \in DOMAIN lists : n \in DOMAIN lists' /\ lists'[n] = lists[n]
          /\ clients' = <<to[k]>>
      <4>1. <<to[k]>> \in Seq(Clients)
        BY <3>2
      <4> QED BY <1>0, <3>1, <4>1, AppendProperties DEF TypeOK, clients, current
    <3>4. Range(clients') = {to[k]}
      BY <3>3 DEF Range
    <3>5. \A l \in SetCallers :
            /\ stage'[l] = stage[l] /\ pos'[l] = pos[l] /\ to'[l] = to[l]
            /\ stage[l] \in {"walk"} \cup Executing => on[l] \in DOMAIN lists
      BY <1>0, <2>0, <3>1 DEF TypeOK, TypeInv, ListInv, Callers
    <3>6. ASSUME NEW c \in Clients, Pending(c) PROVE Pending(c)'
      BY <3>1, <3>3, <3>5, <3>6 DEF Pending, Tells
    <3>7. ASSUME ended' = {}, NEW c \in Clients, c = to[k] PROVE Agrees(c)'
      <4>1. Agrees(c)
        BY <2>0, <3>1, <3>7 DEF AgreeInv
      <4> QED BY <3>1, <3>6, <4>1 DEF Agrees
    <3>8. stage'[k] = "walk"
      BY <1>0, <2>0, <3>1 DEF TypeOK
    <3>9. \A l \in SetCallers :
            stage'[l] \in {"same", "walk"} \cup Executing => (new'[l] <=> block')
      BY <3>1, <3>5 DEF AgreeInv
    <3>10. ended' = {} => \A c \in Range(clients') : Agrees(c)'
      BY <3>2, <3>4, <3>7
    <3>11. \A l \in LoginCallers : stage'[l] # "replace"
      BY <2>0, <3>8
    <3> QED BY <3>1, <3>9, <3>10, <3>11 DEF AgreeInv
  <2>4. CASE LoginDone(k)
    <3>1. /\ stage' = [stage EXCEPT ![k] = "walk"]
          /\ to' = [to EXCEPT ![k] = Nobody]
          /\ UNCHANGED <<block, lists, thread, peer, registered, ended, greeting, new,
                         on, pos, told>>
      BY <2>4 DEF LoginDone, Returns
    <3> QED BY <1>0, <2>0, <3>1, AgreeFrame DEF AgreeInv, TypeOK
  <2> QED BY <1>4, <2>1, <2>2, <2>3, <2>4 DEF LoggingIn
<1>5. ASSUME NEW k \in Callers, Walking(k) PROVE AgreeInv'
  <2>0. k \in SetCallers => \A l \in SetCallers : l = k
    BY DEF OneSetCaller
  <2>1. CASE NextClient(k)
    <3> DEFINE c == lists[on[k]][pos[k] + 1]
    <3>1. /\ stage[k] = "walk" /\ pos[k] < Len(lists[on[k]])
          /\ pos' = [pos EXCEPT ![k] = @ + 1]
          /\ IF Serves(k, c)
             THEN /\ to' = [to EXCEPT ![k] = c]
                  /\ stage' = [stage EXCEPT ![k] = "execute"]
             ELSE UNCHANGED <<to, stage>>
          /\ UNCHANGED <<block, lists, connections, new, on, told>>
      BY <2>1 DEF NextClient
    <3> HIDE DEF c
    <3>2. clients' = clients
      BY <3>1 DEF clients, current
    <3>3. \A l \in Callers \ {k} :
            stage'[l] = stage[l] /\ pos'[l] = pos[l] /\ to'[l] = to[l]
      BY <1>0, <3>1 DEF TypeOK
    <3>4. /\ pos'[k] = pos[k] + 1 /\ stage'[k] \in {"walk", "execute"}
          /\ Serves(k, c) => stage'[k] = "execute" /\ to'[k] = c
      BY <1>0, <3>1 DEF TypeOK
    <3>5. ASSUME NEW d \in Clients, Pending(d) PROVE Pending(d)' \/ (d = c /\ d \notin registered)
      <4>1. PICK l \in SetCallers : Tells(l, d)
        BY <3>5 DEF Pending, Tells
      <4>0. UNCHANGED <<lists, on, peer>>
        BY <3>1
      <4>2. CASE l # k
        <5>1. stage'[l] = stage[l] /\ pos'[l] = pos[l] /\ to'[l] = to[l]
          BY <3>3, <4>2 DEF Callers
        <5>2. Tells(l, d)'
          BY <4>0, <4>1, <5>1 DEF Tells
        <5> QED BY <5>2 DEF Pending
      <4>3. CASE l = k
        <5>0. k \in SetCallers
          BY <4>3
        <5>1. PICK i \in DOMAIN lists[on[k]] : i > pos[k] /\ lists[on[k]][i] = d
          BY <3>1, <4>1, <4>3 DEF Tells, Executing
        <5>2. pos[k] \in Nat /\ i \in Nat
          <6>1. on[k] \in DOMAIN lists
            BY <3>1 DEF TypeInv, ListInv
          <6> QED BY <1>0, <6>1 DEF TypeOK
        <5>3. CASE i = pos[k] + 1
          <6>1. d = c
            BY <5>1, <5>3 DEF c
          <6>2. d \in registered => Serves(k, c)
            BY <1>a, <4>3, <6>1 DEF Serves
          <6>3. CASE d \in registered
            <7>1. stage'[k] = "execute" /\ to'[k] = d
              BY <3>4, <6>1, <6>2, <6>3
            <7>2. Tells(k, d)'
              BY <7>1 DEF Tells
            <7> QED BY <5>0, <7>2 DEF Pending
          <6> QED BY <6>1, <6>3
        <5>4. CASE i > pos[k] + 1
          <6>1. /\ stage'[k] \in {"walk"} \cup Executing /\ i > pos'[k]
                /\ i \in DOMAIN lists'[on'[k]] /\ lists'[on'[k]][i] = d
            BY <3>4, <4>0, <5>1, <5>4 DEF Executing
          <6>2. Tells(k, d)'
            BY <6>1 DEF Tells
          <6> QED BY <5>0, <6>2 DEF Pending
        <5> QED BY <5>1, <5>2, <5>3, <5>4
      <4> QED BY <4>2, <4>3
    <3>6. ASSUME ended' = {}, NEW d \in Range(clients) PROVE Agrees(d)'
      <4>1. Agrees(d) /\ d \in Clients
        BY <1>0, <3>1, <3>6 DEF AgreeInv
      <4>2. d \notin registered => thread[d] \notin {"greet", "check"}
        BY <4>1 DEF AgreeInv, Greeted
      <4> QED BY <3>1, <3>5, <4>1, <4>2 DEF Agrees
    <3>7. \A l \in SetCallers :
            stage'[l] \in {"same", "walk"} \cup Executing => (new'[l] <=> block')
      BY <3>1, <3>3, <3>4 DEF AgreeInv, Executing, Callers
    <3> QED BY <3>1, <3>2, <3>3, <3>4, <3>6, <3>7 DEF AgreeInv, Callers
  <2>2. CASE WalkEnds(k)
    <3>1. /\ stage[k] = "walk" /\ pos[k] >= Len(lists[on[k]])
          /\ stage' = [stage EXCEPT ![k] = "idle"]
          /\ new' = [new EXCEPT ![k] = TRUE]
          /\ on' = [on EXCEPT ![k] = 1] /\ pos' = [pos EXCEPT ![k] = 0]
          /\ UNCHANGED <<block, lists, connections, to, told>>
      BY <2>2 DEF WalkEnds
    <3>2. clients' = clients
      BY <3>1 DEF clients, current
    <3>3. \A l \in Callers \ {k} : /\ stage'[l] = stage[l] /\ pos'[l] = pos[l]
                                   /\ on'[l] = on[l] /\ new'[l] = new[l]
      BY <1>0, <3>1 DEF TypeOK
    <3>4. ASSUME NEW d \in Clients, Pending(d) PROVE Pending(d)'
      <4>1. PICK l \in SetCallers : Tells(l, d)
        BY <3>4 DEF Pending, Tells
      <4>2. CASE l # k
        BY <3>1, <3>3, <4>1, <4>2 DEF Pending, Tells, Callers
      <4>3. CASE l = k
        <5>1. on[k] \in DOMAIN lists
          BY <3>1 DEF TypeInv, ListInv
        <5>2. lists[on[k]] \in Seq(Clients) /\ pos[k] \in Nat
          BY <1>0, <5>1 DEF TypeOK
        <5> QED BY <3>1, <4>1, <4>3, <5>2 DEF Tells, Executing
      <4> QED BY <4>2, <4>3
    <3>5. ASSUME ended' = {}, NEW d \in Range(clients) PROVE Agrees(d)'
      <4>1. Agrees(d) /\ d \in Clients
        BY <1>0, <3>1, <3>5 DEF AgreeInv
      <4> QED BY <3>1, <3>4, <4>1 DEF Agrees
    <3>6. stage'[k] = "idle"
      BY <1>0, <3>1 DEF TypeOK
    <3>7. \A l \in SetCallers :
            stage'[l] \in {"same", "walk"} \cup Executing => (new'[l] <=> block')
      BY <3>1, <3>3, <3>6 DEF AgreeInv, Executing, Callers
    <3> QED BY <3>1, <3>2, <3>3, <3>5, <3>6, <3>7 DEF AgreeInv, Callers
  <2>3. CASE Execute(k)
    <3>1. /\ stage[k] = "execute" /\ comLock[to[k]] = Nobody
          /\ told' = IF k \in SetCallers /\ peer[to[k]]
                     THEN [told EXCEPT ![to[k]] = new[k]] ELSE told
          /\ stage' = [stage EXCEPT ![k] = "answer"]
          /\ UNCHANGED <<block, lists, connections, new, on, pos, to>>
      BY <2>3 DEF Execute
    <3>2. clients' = clients
      BY <3>1 DEF clients, current
    <3>3. /\ \A l \in Callers \ {k} : stage'[l] = stage[l]
          /\ stage'[k] = "answer"
      BY <1>0, <3>1 DEF TypeOK
    <3>4. to[k] \in Clients /\ thread[to[k]] \notin Greeted
      BY PipeAssumption, <3>1 DEF LockInv, Executing
    <3>5. ASSUME NEW d \in Clients, Pending(d)
          PROVE  Pending(d)' \/ (d = to[k] /\ peer[d] /\ k \in SetCallers)
      <4>0. UNCHANGED <<lists, on, pos, to, peer>>
        BY <3>1
      <4>1. PICK l \in SetCallers : Tells(l, d)
        BY <3>5 DEF Pending, Tells
      <4>2. CASE l # k
        <5>1. stage'[l] = stage[l]
          BY <3>3, <4>2 DEF Callers
        <5>2. Tells(l, d)'
          BY <4>0, <4>1, <5>1 DEF Tells
        <5> QED BY <5>2 DEF Pending
      <4>3. CASE l = k
        <5>1. Tells(k, d)' \/ (d = to[k] /\ peer[d])
          BY <3>1, <3>3, <4>0, <4>1, <4>3 DEF Tells, Executing
        <5> QED BY <4>3, <5>1 DEF Pending
      <4> QED BY <4>2, <4>3
    <3>6. ASSUME ended' = {}, NEW d \in Range(clients) PROVE Agrees(d)'
      <4>1. Agrees(d) /\ d \in Clients
        BY <1>0, <3>1, <3>6 DEF AgreeInv
      <4>2. CASE d = to[k] /\ peer[d] /\ k \in SetCallers
        <5>1. told'[d] = new[k] /\ (new[k] <=> block)
          BY <1>0, <3>1, <3>4, <4>2 DEF AgreeInv, Executing, TypeOK
        <5> QED BY <3>1, <3>4, <4>2, <5>1 DEF Agrees, Greeted
      <4>3. CASE ~(d = to[k] /\ peer[d] /\ k \in SetCallers)
        <5>1. told'[d] = told[d]
          BY <1>0, <3>1, <3>4, <4>1, <4>3 DEF TypeOK
        <5> QED BY <3>1, <3>5, <4>1, <4>3, <5>1 DEF Agrees
      <4> QED BY <4>2, <4>3
    <3>7. \A l \in SetCallers :
            stage'[l] \in {"same", "walk"} \cup Executing => (new'[l] <=> block')
      BY <3>1, <3>3 DEF AgreeInv, Executing, Callers
    <3> QED BY <3>1, <3>2, <3>3, <3>6, <3>7 DEF AgreeInv, Callers
  <2>4. CASE Answered(k)
    <3>1. /\ stage[k] = "answer" /\ peer[to[k]]
          /\ stage' = [stage EXCEPT ![k] = "walk"]
          /\ to' = [to EXCEPT ![k] = Nobody]
          /\ UNCHANGED <<block, lists, connections, new, on, pos, told>>
      BY <2>4 DEF Answered, Returns
    <3>2. clients' = clients
      BY <3>1 DEF clients, current
    <3>3. /\ \A l \in Callers \ {k} : stage'[l] = stage[l] /\ to'[l] = to[l]
          /\ stage'[k] = "walk"
      BY <1>0, <3>1 DEF TypeOK
    <3>4. ASSUME NEW d \in Clients, Pending(d) PROVE Pending(d)'
      BY <3>1, <3>3, <3>4 DEF Pending, Tells, Executing, Callers
    <3>5. ASSUME ended' = {}, NEW d \in Range(clients) PROVE Agrees(d)'
      <4>1. Agrees(d) /\ d \in Clients
        BY <1>0, <3>1, <3>5 DEF AgreeInv
      <4> QED BY <3>1, <3>4, <4>1 DEF Agrees
    <3>6. \A l \in SetCallers :
            stage'[l] \in {"same", "walk"} \cup Executing => (new'[l] <=> block')
      BY <3>1, <3>3 DEF AgreeInv, Executing, Callers
    <3> QED BY <3>1, <3>2, <3>3, <3>5, <3>6 DEF AgreeInv, Callers
  <2>5. CASE NoAnswer(k)
    <3>1. to[k] \in Clients
      BY <2>5 DEF NoAnswer, LockInv, Executing
    <3>2. ended' # {}
      BY <1>0, <2>5, <3>1, DisconnectLists DEF NoAnswer
    <3>3. /\ stage[k] = "answer" /\ stage' = [stage EXCEPT ![k] = "walk"]
          /\ UNCHANGED <<block, thread, registered, new>>
      BY <2>5 DEF NoAnswer, Returns
    <3>4. \A l \in SetCallers :
            stage'[l] \in {"same", "walk"} \cup Executing => (new'[l] <=> block')
      BY <1>0, <3>3 DEF AgreeInv, TypeOK, Executing, Callers
    <3> QED BY <3>2, <3>3, <3>4 DEF AgreeInv
  <2> QED BY <1>5, <2>1, <2>2, <2>3, <2>4, <2>5 DEF Walking
<1>6. CASE UNCHANGED vars
  BY <1>0, <1>6, AgreeFrame DEF AgreeInv, vars, calls
<1> QED BY <1>1, <1>2, <1>3, <1>4, <1>5, <1>6 DEF Next

\* If one thread at a time sets block login, and one logs users in, then while no
\* connection is lost every client that has been greeted knows the present value
\* once setBlockLogin has returned, whenever it came and registered.
THEOREM ClientsAgree ==
  ASSUME OneSetCaller, OneLoginCaller PROVE Spec => []AgreesWhenQuiet
<1>1. TypeInv /\ AgreeInv => AgreesWhenQuiet
  <2> SUFFICES ASSUME TypeInv, AgreeInv, ended = {},
                      \A k \in SetCallers : stage[k] = "idle",
                      NEW c \in Range(clients), thread[c] = "check"
               PROVE  told[c] <=> block
    BY DEF AgreesWhenQuiet
  <2>1. Agrees(c)
    BY DEF AgreeInv
  <2>2. ~Pending(c)
    BY DEF Pending, Tells, Executing
  <2> QED BY <2>1, <2>2 DEF Agrees
<1>2. Init => LockInv /\ TypeInv /\ AgreeInv
  BY LockInit, TypeInit, AgreeInit
<1>3. LockInv /\ TypeInv /\ AgreeInv /\ [Next]_vars => (LockInv /\ TypeInv /\ AgreeInv)'
  BY OneSetCaller, OneLoginCaller, LockStep, TypeStep, AgreeStep
<1> QED BY <1>1, <1>2, <1>3, PTL DEF Spec
=============================================================================
