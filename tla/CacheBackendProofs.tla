------------------------ MODULE CacheBackendProofs ------------------------
(***************************************************************************)
(* Proofs about the client cache backend.                                  *)
(*   CacheBackend, for any products, settings and licenses: changes of the *)
(* client arrive on the server, whatever pushes fail, and pushes leave     *)
(* what administrators have changed meanwhile.                             *)
(*   ActionGroups, the order in which the backend hands out actions, for   *)
(* any number of products, any dependencies and requests: what is required *)
(* gets an action, and requirements of one kind are met.                   *)
(***************************************************************************)
EXTENDS CacheBackend, ActionGroups, Induction, SequenceTheorems, TLAPS

-----------------------------------------------------------------------------
(* CacheBackend                                                            *)

Commands == {"none", "insert", "update", "delete"}

\* What is left of a push, at each of its stages, and the objects concerned.
Lefts == {<<"products", "licenses", "settings", "clear">>,
          <<"licenses", "settings", "clear">>,
          <<"settings", "clear">>, <<"clear">>, <<>>}
Remaining(left) == UNION {Class(left[k]) : k \in DOMAIN left}

\* The classes of objects.
SettingObject == Values \cup {Absent}
ProductObject == [request: Requests, done: BOOLEAN]
LicenseObject == {"held", Absent}

\* Objects have the types of their classes.
ObjectsInv ==
  /\ \A data \in {master, work, snapshot} :
       DOMAIN data = Idents /\ \A i \in Idents : data[i] \in Objects(i)
  /\ tracked \in [Idents -> Commands]
  /\ replaced \subseteq Products
  /\ held \cup changed \cup taken \cup again \cup late \subseteq Idents

\* Objects of which LocalChangeArrives says something.
Undisturbed(i) == i \notin late \cup changed \cup (again \cap Settings)

\* The server reflects an object of the replica.
Reflected(i) ==
  CASE i \in Settings -> master[i] = work[i]
    [] i \in Products -> master[i].done = work[i].done
    [] OTHER -> snapshot[i] = Absent \/ (master[i] # Absent <=> i \in used)

\* What a modification says of an object.
TrackedInv ==
  /\ \A s \in Settings :
       /\ tracked[s] = "delete" => work[s] = Absent
       /\ tracked[s] \in {"insert", "update"} => work[s] # Absent
       /\ Undisturbed(s) => /\ s \notin taken => master[s] = snapshot[s]
                            /\ master[s] \in {snapshot[s], work[s]}
  /\ \A p \in Products :
       /\ tracked[p] \in {"none", "update"}
       /\ tracked[p] = "update" => work[p] = [request |-> "none", done |-> TRUE]
  /\ \A l \in Licenses :
       /\ tracked[l] \in {"none", "insert", "delete"}
       /\ tracked[l] = "delete" => l \notin used /\ snapshot[l] # Absent
       /\ tracked[l] = "insert" => l \in used /\ work[l] # Absent

\* What the client has changed is in the replica unless a new one has overwritten
\* it.
MineInv ==
  /\ DOMAIN mine = Idents /\ overwritten \subseteq Idents
  /\ \A i \in Idents \ overwritten : mine[i] = Wanted(i)

\* What the tracker has forgotten is on the server.
ForgottenInv ==
  \A i \in Idents : tracked[i] = "none" /\ Undisturbed(i) => Reflected(i)

\* A push has all modifications that were tracked when it began, with their
\* objects; what it has decided to write is from the class it is at.
PushInv ==
  /\ push = [left |-> push.left, modified |-> push.modified, deletes |-> push.deletes,
             updates |-> push.updates]
  /\ push.left \in Lefts
  /\ Idle => push = NoPush
  /\ DOMAIN push.modified \subseteq {i \in taken : tracked[i] # "none"}
  /\ \A i \in DOMAIN push.modified :
       /\ push.modified[i].object \in Objects(i)
       /\ i \in Products => push.modified[i] =
            [command |-> "update", object |-> [request |-> "none", done |-> TRUE]]
  /\ \A i \in Idents : ~Idle /\ tracked[i] # "none" /\ i \notin late =>
       /\ i \in DOMAIN push.modified <=> Object(i) # Absent
       /\ i \in DOMAIN push.modified =>
            push.modified[i] = [command |-> tracked[i], object |-> Object(i)]
  /\ \A i \in push.deletes :
       i \in DOMAIN push.modified /\ push.modified[i].command = "delete"
  /\ \A i \in DOMAIN push.updates :
       /\ i \in DOMAIN push.modified /\ push.modified[i].command # "delete"
       /\ i \notin Products => push.updates[i] = push.modified[i].object
       /\ i \in Products => /\ push.updates[i] \in [request: Requests \cup {"unchanged"},
                                                    done: {TRUE}]

Decides == push.deletes # {} \/ push.updates # <<>>

\* Of the classes a push is through with, what was tracked is on the server; of
\* the class it is at, it will be.
DoneInv ==
  /\ ~Idle => \A i \in Idents \ Remaining(push.left) :
                tracked[i] # "none" /\ Undisturbed(i) => Reflected(i)
  /\ Decides =>
       /\ ~Idle /\ Head(push.left) # "clear"
       /\ push.deletes \cup DOMAIN push.updates \subseteq Class(Head(push.left))
       /\ \A i \in Class(Head(push.left)) :
            tracked[i] # "none" /\ Undisturbed(i) => Decided(i) \/ Reflected(i)

\* What an administrator has changed on both sides is not decided to be written.
HeldInv ==
  \A i \in held :
    /\ i \in Settings => /\ snapshot[i] # Absent /\ master[i] \notin {Absent, snapshot[i]}
                         /\ ~Decided(i)
    /\ i \in Products => /\ i \in replaced
                         /\ i \in DOMAIN push.updates =>
                              push.updates[i].request = "unchanged"

BackendInv == ObjectsInv /\ TrackedInv /\ ForgottenInv /\ PushInv /\ DoneInv /\ HeldInv

-----------------------------------------------------------------------------
(* The dependencies.                                                       *)

\* What the assumption says of each dependency.
LEMMA DependencyType ==
  ASSUME NEW k \in 1..Len(Dependencies)
  PROVE  Dependencies[k] \in [product: Products, action: Requests, required: Products,
                              requiredAction: Requests]
<1> DEFINE D == [product: Products, action: Requests, required: Products,
                 requiredAction: Requests]
<1>1. Dependencies \in Seq(D)
  BY BackendAssumption
<1> HIDE DEF D
<1>2. Dependencies[k] \in D
  BY <1>1
<1> QED
  BY <1>2 DEF D

\* The requests after each dependency are those the definition says.
LEMMA RequestsAfterEach ==
  ASSUME ObjectsInv
  PROVE  RequestsAfter =
           [k \in 0..Len(Dependencies) |->
              IF k = 0 THEN [p \in Products |-> master[p].request]
              ELSE Require(RequestsAfter[k - 1], Dependencies[k])]
         /\ \A k \in 0..Len(Dependencies) : RequestsAfter[k] \in [Products -> Requests]
<1> DEFINE S == [Products -> Requests]
           N == Len(Dependencies)
           b == [p \in Products |-> master[p].request]
           g == [k \in 1..N |-> [r \in S |-> Require(r, Dependencies[k])]]
<1>1. N \in Nat
  BY BackendAssumption
<1>2. b \in S
  BY BackendAssumption DEF ObjectsInv, Objects, Idents
<1>3. g \in [1..N -> [S -> S]]
  <2> SUFFICES ASSUME NEW k \in 1..N, NEW r \in S
               PROVE  Require(r, Dependencies[k]) \in S
    OBVIOUS
  <2>1. Dependencies[k] \in [product: Products, action: Requests, required: Products,
                             requiredAction: Requests]
    BY DependencyType
  <2> QED
    BY <2>1 DEF Require
<1>4. PICK f \in [0..N -> S] : f[0] = b /\ \A k \in 1..N : f[k] = g[k][f[k - 1]]
  <2> HIDE DEF S, N, b, g
  <2> QED
    BY <1>1, <1>2, <1>3, AppliedExists DEF Applied
<1>5. f = [k \in 0..N |-> IF k = 0 THEN b ELSE Require(f[k - 1], Dependencies[k])]
  <2>1. ASSUME NEW k \in 1..N PROVE f[k] = Require(f[k - 1], Dependencies[k])
    <3>1. k - 1 \in 0..N
      BY <1>1
    <3>2. f[k - 1] \in S
      BY <3>1, <1>4
    <3> QED
      BY <3>2, <1>4
  <2>2. f[0] = b
    BY <1>4
  <2>3. f = [k \in 0..N |-> f[k]]
    BY <1>4
  <2>4. \A k \in 0..N : f[k] = IF k = 0 THEN b ELSE Require(f[k - 1], Dependencies[k])
    BY <1>1, <2>1, <2>2
  <2> HIDE DEF b
  <2> QED
    BY <2>3, <2>4
<1>6. RequestsAfter =
        [k \in 0..N |-> IF k = 0 THEN b ELSE Require(RequestsAfter[k - 1], Dependencies[k])]
  BY <1>5 DEF RequestsAfter
<1>7. \A k \in 0..N : RequestsAfter[k] \in S
  <2> DEFINE Bad == {k \in 0..N : RequestsAfter[k] \notin S}
  <2> SUFFICES ASSUME Bad # {} PROVE FALSE
    OBVIOUS
  <2>1. PICK m \in Bad : \A n \in Bad : m <= n
    <3>1. Bad \subseteq Nat
      BY <1>1
    <3> QED
      BY <3>1, LeastNumber
  <2>2. m # 0
    BY <1>1, <1>2, <1>6
  <2>3. m \in 1..N /\ m - 1 \in 0..N /\ m - 1 \notin Bad
    BY <1>1, <2>1, <2>2
  <2>4. RequestsAfter[m] = Require(RequestsAfter[m - 1], Dependencies[m])
    BY <1>6, <2>2, <2>3
  <2>5. Require(RequestsAfter[m - 1], Dependencies[m]) = g[m][RequestsAfter[m - 1]]
    BY <2>3
  <2>6. g[m][RequestsAfter[m - 1]] \in S
    <3>1. RequestsAfter[m - 1] \in S
      BY <2>3
    <3> HIDE DEF g, S
    <3> QED
      BY <1>3, <2>3, <3>1
  <2> QED
    BY <2>4, <2>5, <2>6
<1> QED
  BY <1>6, <1>7

\* Repairing requests changes nothing else, and keeps the types.
LEMMA RepairedObjects ==
  ASSUME ObjectsInv
  PROVE  /\ DOMAIN Repaired = Idents
         /\ \A i \in Idents : Repaired[i] \in Objects(i)
<1>1. Len(Dependencies) \in Nat
  BY BackendAssumption
<1>2. RequestsAfter[Len(Dependencies)] \in [Products -> Requests]
  BY <1>1, RequestsAfterEach
<1>3. ASSUME NEW p \in Products
      PROVE  p \in Idents /\ Objects(p) = ProductObject
  BY <1>3, BackendAssumption DEF Idents, Objects, ProductObject
<1>4. ASSUME NEW p \in Products PROVE Repaired[p] \in Objects(p)
  <2>1. master[p] \in ProductObject
    BY <1>3 DEF ObjectsInv
  <2> QED
    BY <1>2, <1>3, <2>1 DEF Repaired, ProductObject
<1> QED
  BY <1>4 DEF Repaired, ObjectsInv


-----------------------------------------------------------------------------
(* Classes and stages.                                                     *)

\* Each object is of one class.
LEMMA Partition ==
  /\ \A s \in Settings : /\ s \in Idents /\ s \notin Products /\ s \notin Licenses
                         /\ Objects(s) = SettingObject
  /\ \A p \in Products : /\ p \in Idents /\ p \notin Settings /\ p \notin Licenses
                         /\ Objects(p) = ProductObject
  /\ \A l \in Licenses : /\ l \in Idents /\ l \notin Settings /\ l \notin Products
                         /\ Objects(l) = LicenseObject
  /\ \A i \in Idents : i \in Settings \/ i \in Products \/ i \in Licenses
BY BackendAssumption DEF Idents, Objects, SettingObject, ProductObject, LicenseObject

\* A push goes through all classes, one after the other.
LEMMA StageSteps ==
  /\ Stages \in Lefts /\ Stages # <<>> /\ Remaining(Stages) = Idents
  /\ \A left \in Lefts \ {<<>>} :
       /\ Head(left) = "clear" => Remaining(left) = {}
       /\ Head(left) # "clear" =>
            /\ Tail(left) \in Lefts \ {<<>>}
            /\ Remaining(left) = Class(Head(left)) \cup Remaining(Tail(left))
<1>1. /\ Class("products") = Products /\ Class("licenses") = Licenses
      /\ Class("settings") = Settings /\ Class("clear") = {}
  BY DEF Class
<1>2. Remaining(<<"products", "licenses", "settings", "clear">>) = Idents
  BY <1>1 DEF Remaining, Idents
<1>3. Remaining(<<"licenses", "settings", "clear">>) = Licenses \cup Settings
  BY <1>1 DEF Remaining
<1>4. Remaining(<<"settings", "clear">>) = Settings
  BY <1>1 DEF Remaining
<1>5. Remaining(<<"clear">>) = {}
  BY <1>1 DEF Remaining
<1>6. Stages \in Lefts /\ Stages # <<>> /\ Remaining(Stages) = Idents
  BY <1>2 DEF Stages, Lefts
<1>7. ASSUME NEW left \in Lefts \ {<<>>}
      PROVE  /\ Head(left) = "clear" => Remaining(left) = {}
             /\ Head(left) # "clear" =>
                  /\ Tail(left) \in Lefts \ {<<>>}
                  /\ Remaining(left) = Class(Head(left)) \cup Remaining(Tail(left))
  <2>1. CASE left = <<"products", "licenses", "settings", "clear">>
    <3>1. Head(left) = "products" /\ Tail(left) = <<"licenses", "settings", "clear">>
      BY <2>1
    <3> QED
      BY <2>1, <3>1, <1>1, <1>2, <1>3 DEF Lefts, Idents
  <2>2. CASE left = <<"licenses", "settings", "clear">>
    <3>1. Head(left) = "licenses" /\ Tail(left) = <<"settings", "clear">>
      BY <2>2
    <3> QED
      BY <2>2, <3>1, <1>1, <1>3, <1>4 DEF Lefts
  <2>3. CASE left = <<"settings", "clear">>
    <3>1. Head(left) = "settings" /\ Tail(left) = <<"clear">>
      BY <2>3
    <3> QED
      BY <2>3, <3>1, <1>1, <1>4, <1>5 DEF Lefts
  <2>4. CASE left = <<"clear">>
    BY <2>4, <1>5
  <2> QED
    BY <2>1, <2>2, <2>3, <2>4 DEF Lefts
<1> QED
  BY <1>6, <1>7

\* The invariant holds at first.
LEMMA BackendInitial == ASSUME BackendInit PROVE BackendInv
<1>1. PICK orders \in [Products -> Requests], values \in [Settings -> SettingObject] :
        master = [i \in Idents |->
                    IF i \in Products THEN [request |-> orders[i], done |-> FALSE]
                    ELSE IF i \in Settings THEN values[i] ELSE Absent]
  BY DEF BackendInit, SettingObject
<1>2. \A i \in Idents : master[i] \in Objects(i)
  <2>1. \A s \in Settings : master[s] \in SettingObject
    BY <1>1, Partition
  <2>2. \A p \in Products : master[p] \in ProductObject
    BY <1>1, Partition DEF ProductObject
  <2>3. \A l \in Licenses : master[l] \in LicenseObject
    BY <1>1, Partition DEF LicenseObject
  <2> QED
    BY <2>1, <2>2, <2>3, Partition
<1>3. ObjectsInv
  BY <1>1, <1>2 DEF BackendInit, ObjectsInv, Commands
<1>4. TrackedInv
  BY Partition DEF BackendInit, TrackedInv
<1>5. ForgottenInv
  <2>1. \A l \in Licenses : snapshot[l] = Absent
    BY <1>1, Partition DEF BackendInit
  <2> QED
    BY <2>1, Partition DEF BackendInit, ForgottenInv, Reflected
<1>6. PushInv
  BY DEF BackendInit, PushInv, NoPush, Idle, Lefts
<1>7. DoneInv
  BY DEF BackendInit, DoneInv, NoPush, Idle, Decides
<1>8. HeldInv
  BY DEF BackendInit, HeldInv
<1> QED
  BY <1>3, <1>4, <1>5, <1>6, <1>7, <1>8 DEF BackendInv


-----------------------------------------------------------------------------
(* Administrators, and the client between pushes.                          *)

\* An object on the server is changed by somebody else: nothing is lost of a
\* product's result, and settings are not looked at any longer.
LEMMA ServerChanges ==
  ASSUME BackendInv, NEW i \in Settings \cup Products, ObjectsInv',
         UNCHANGED <<work, snapshot, tracked, push, taken, again, late, used>>,
         \A j \in Idents \ {i} : master'[j] = master[j],
         i \in Settings => changed' = changed \cup {i},
         i \in Products => changed' = changed /\ master'[i].done = master[i].done
  PROVE  TrackedInv' /\ ForgottenInv' /\ PushInv' /\ DoneInv'
<1> USE Partition DEF BackendInv
<1>1. TrackedInv'
  BY DEF TrackedInv, Undisturbed
<1>2. ASSUME NEW j \in Idents, Undisturbed(j)'
      PROVE  Undisturbed(j) /\ (Reflected(j) => Reflected(j)')
  BY <1>2 DEF Undisturbed, Reflected
<1>3. ForgottenInv'
  BY <1>2 DEF ForgottenInv
<1>4. PushInv'
  BY DEF PushInv, Idle, Object
<1>5. DoneInv'
  <2>1. ASSUME ~Idle, NEW j \in Idents \ Remaining(push.left), tracked[j] # "none",
               Undisturbed(j)'
        PROVE  Reflected(j)'
    BY <1>2, <2>1 DEF DoneInv
  <2>2. ASSUME Decides, NEW j \in Class(Head(push.left)), tracked[j] # "none",
               Undisturbed(j)'
        PROVE  Decided(j) \/ Reflected(j)'
    <3>1. j \in Idents
      BY DEF Class
    <3> QED
      BY <1>2, <2>2, <3>1 DEF DoneInv
  <2> QED
    BY <2>1, <2>2 DEF DoneInv, Idle, Decides, Decided
<1> QED
  BY <1>1, <1>3, <1>4, <1>5

LEMMA ChangeSettingKeeps ==
  ASSUME BackendInv, NEW s \in Settings, NEW v \in SettingObject, ChangeSetting(s, v)
  PROVE  BackendInv'
<1> USE Partition DEF BackendInv
<1>1. ObjectsInv'
  BY DEF ObjectsInv, ChangeSetting
<1>2. TrackedInv' /\ ForgottenInv' /\ PushInv' /\ DoneInv'
  <2>1. UNCHANGED <<work, snapshot, tracked, push, taken, again, late, used>>
    BY DEF ChangeSetting
  <2>2. \A j \in Idents \ {s} : master'[j] = master[j]
    BY DEF ChangeSetting, ObjectsInv
  <2>3. changed' = changed \cup {s}
    BY DEF ChangeSetting
  <2> QED
    BY <1>1, <2>1, <2>2, <2>3, ServerChanges
<1>3. HeldInv'
  BY DEF HeldInv, ChangeSetting, ObjectsInv, Decided
<1> QED
  BY <1>1, <1>2, <1>3

LEMMA OrderKeeps ==
  ASSUME BackendInv, NEW p \in Products, NEW r \in Requests, Order(p, r)
  PROVE  BackendInv'
<1> USE Partition DEF BackendInv
<1>1. master[p] \in ProductObject
  BY DEF ObjectsInv
<1>2. master'[p] \in ProductObject /\ master'[p].done = master[p].done
      /\ \A j \in Idents \ {p} : master'[j] = master[j]
  BY <1>1 DEF Order, ObjectsInv, ProductObject
<1>3. ObjectsInv'
  BY <1>2 DEF ObjectsInv, Order
<1>4. TrackedInv' /\ ForgottenInv' /\ PushInv' /\ DoneInv'
  <2>1. UNCHANGED <<work, snapshot, tracked, push, changed, taken, again, late, used>>
    BY DEF Order
  <2> QED
    BY <1>2, <1>3, <2>1, ServerChanges
<1>5. HeldInv'
  BY <1>2 DEF HeldInv, Order, Decided
<1> QED
  BY <1>3, <1>4, <1>5

LEMMA ReplaceVersionKeeps ==
  ASSUME BackendInv, NEW p \in Products, ReplaceVersion(p)
  PROVE  BackendInv'
<1>1. UNCHANGED <<master, work, snapshot, tracked, push, held, changed, taken, again,
                  late, used>>
      /\ replaced' = replaced \cup {p}
  BY DEF ReplaceVersion, backendHistory
<1>2. ObjectsInv'
  BY <1>1 DEF BackendInv, ObjectsInv
<1>3. TrackedInv' /\ ForgottenInv'
  BY <1>1 DEF BackendInv, TrackedInv, ForgottenInv, Undisturbed, Reflected, Idle, Object
<1>4. PushInv'
  BY <1>1 DEF BackendInv, PushInv, Undisturbed, Reflected, Idle, Object, Decides, Decided
<1>5. DoneInv'
  BY <1>1 DEF BackendInv, DoneInv, Undisturbed, Reflected, Idle, Object, Decides, Decided
<1>6. HeldInv'
  BY <1>1 DEF BackendInv, HeldInv, Decided
<1> QED
  BY <1>2, <1>3, <1>4, <1>5, <1>6 DEF BackendInv

\* The client changes an object, and the tracker notes it.
LEMMA ClientChanges ==
  ASSUME BackendInv, NEW i \in Idents, NEW command \in Commands \ {"none"},
         Track(i, command), ObjectsInv',
         \A j \in Idents \ {i} : work'[j] = work[j] /\ (j \in used' <=> j \in used),
         TrackedInv'
  PROVE  BackendInv'
<1> USE Partition DEF BackendInv
<1>1. /\ tracked'[i] # "none" /\ \A j \in Idents \ {i} : tracked'[j] = tracked[j]
      /\ late' = IF Idle THEN late ELSE late \cup {i}
      /\ again \subseteq again'
      /\ UNCHANGED <<master, replaced, snapshot, push, held, changed, taken>>
  BY DEF Track, serverData, ObjectsInv, Commands
<1>2. ASSUME NEW j \in Idents, j # i
      PROVE  /\ Reflected(j) => Reflected(j)'
             /\ Undisturbed(j)' => Undisturbed(j)
  BY <1>1, <1>2 DEF Reflected, Undisturbed
<1>3. ForgottenInv'
  BY <1>1, <1>2 DEF ForgottenInv
<1>4. PushInv'
  <2>1. \A j \in Idents \ {i} : Object(j)' = Object(j)
    BY <1>1 DEF Object
  <2>2. Idle' = Idle
    BY <1>1 DEF Idle
  <2>3. ASSUME NEW j \in Idents, ~Idle, tracked'[j] # "none", j \notin late'
        PROVE  j # i /\ tracked[j] # "none" /\ j \notin late
    BY <1>1, <2>3
  <2>4. DOMAIN push.modified \subseteq {j \in taken : tracked'[j] # "none"}
    <3>1. taken \subseteq Idents
      BY DEF ObjectsInv
    <3> QED
      BY <1>1, <3>1 DEF PushInv
  <2>5. ASSUME NEW j \in Idents, ~Idle, tracked'[j] # "none", j \notin late'
        PROVE  /\ j \in DOMAIN push.modified <=> Object(j)' # Absent
               /\ j \in DOMAIN push.modified =>
                    push.modified[j] = [command |-> tracked'[j], object |-> Object(j)']
    BY <1>1, <2>1, <2>3, <2>5 DEF PushInv
  <2> QED
    BY <1>1, <2>2, <2>4, <2>5 DEF PushInv
<1>5. DoneInv'
  <2>1. ~Idle => i \in late'
    BY <1>1
  <2>2. ASSUME ~Idle, NEW j \in Idents \ Remaining(push.left), tracked'[j] # "none",
               Undisturbed(j)'
        PROVE  Reflected(j)'
    <3>1. j # i
      BY <2>1, <2>2 DEF Undisturbed
    <3> QED
      BY <1>1, <1>2, <2>2, <3>1 DEF DoneInv
  <2>3. ASSUME Decides, NEW j \in Class(Head(push.left)), tracked'[j] # "none",
               Undisturbed(j)'
        PROVE  Decided(j) \/ Reflected(j)'
    <3>1. j \in Idents
      BY DEF Class
    <3>2. ~Idle
      BY <2>3 DEF DoneInv
    <3>3. j # i
      BY <2>1, <2>3, <3>2 DEF Undisturbed
    <3> QED
      BY <1>1, <1>2, <2>3, <3>1, <3>3 DEF DoneInv
  <2> QED
    BY <1>1, <2>2, <2>3 DEF DoneInv, Idle, Decides, Decided
<1>6. HeldInv'
  BY <1>1 DEF HeldInv, Decided
<1> QED
  BY <1>3, <1>4, <1>5, <1>6

LEMMA CarryOutKeeps ==
  ASSUME BackendInv, NEW p \in Products, CarryOut(p)
  PROVE  BackendInv'
<1> USE Partition DEF BackendInv
<1>1. /\ tracked' = [tracked EXCEPT ![p] = "update"]
      /\ work' = [work EXCEPT ![p] = [request |-> "none", done |-> TRUE]]
      /\ again' = again \cup ({p} \cap taken)
      /\ late' \in {late, late \cup {p}}
      /\ UNCHANGED <<master, replaced, snapshot, held, changed, taken, used>>
  BY DEF CarryOut, Track, serverData
<1>2. ObjectsInv'
  <2>1. [request |-> "none", done |-> TRUE] \in ProductObject
    BY BackendAssumption DEF ProductObject
  <2>2. DOMAIN work' = Idents /\ \A j \in Idents : work'[j] \in Objects(j)
    BY <1>1, <2>1 DEF ObjectsInv
  <2>3. tracked' \in [Idents -> Commands]
    BY <1>1 DEF ObjectsInv, Commands
  <2> QED
    BY <1>1, <2>2, <2>3 DEF ObjectsInv
<1>3. TrackedInv'
  BY <1>1 DEF TrackedInv, Undisturbed, ObjectsInv
<1>4. \A j \in Idents \ {p} : work'[j] = work[j] /\ (j \in used' <=> j \in used)
  BY <1>1 DEF ObjectsInv
<1>5. Track(p, "update") /\ "update" \in Commands \ {"none"}
  BY DEF CarryOut, Commands
<1> QED
  BY <1>2, <1>3, <1>4, <1>5, ClientChanges

LEMMA SetLocallyKeeps ==
  ASSUME BackendInv, NEW s \in Settings, NEW v \in SettingObject, SetLocally(s, v)
  PROVE  BackendInv'
<1> USE Partition DEF BackendInv
<1> DEFINE command == IF v = Absent THEN "delete"
                      ELSE IF work[s] = Absent THEN "insert" ELSE "update"
<1>1. /\ Track(s, command) /\ command \in Commands \ {"none"}
      /\ work' = [work EXCEPT ![s] = v]
      /\ used' = used
  BY DEF SetLocally, Commands
<1>2. /\ tracked' = [tracked EXCEPT ![s] = command]
      /\ again' = again \cup ({s} \cap taken)
      /\ late' \in {late, late \cup {s}}
      /\ UNCHANGED <<master, replaced, snapshot, held, changed, taken>>
  BY <1>1 DEF Track, serverData
<1>3. ObjectsInv'
  BY <1>1, <1>2 DEF ObjectsInv
<1>4. TrackedInv'
  BY <1>1, <1>2 DEF TrackedInv, Undisturbed, ObjectsInv
<1>5. \A j \in Idents \ {s} : work'[j] = work[j] /\ (j \in used' <=> j \in used)
  BY <1>1 DEF ObjectsInv
<1> QED
  BY <1>1, <1>3, <1>4, <1>5, ClientChanges

LEMMA UseLicenseKeeps ==
  ASSUME BackendInv, NEW l \in Licenses, UseLicense(l)
  PROVE  BackendInv'
<1> USE Partition DEF BackendInv
<1>1. /\ Track(l, "insert") /\ "insert" \in Commands \ {"none"}
      /\ work[l] # Absent /\ work' = work
      /\ used' = used \cup {l}
  BY DEF UseLicense, Commands
<1>2. /\ tracked' = [tracked EXCEPT ![l] = "insert"]
      /\ again' = again \cup ({l} \cap taken)
      /\ late' \in {late, late \cup {l}}
      /\ UNCHANGED <<master, replaced, snapshot, held, changed, taken>>
  BY <1>1 DEF Track, serverData
<1>3. ObjectsInv'
  BY <1>1, <1>2 DEF ObjectsInv
<1>4. TrackedInv'
  BY <1>1, <1>2 DEF TrackedInv, Undisturbed, ObjectsInv
<1> QED
  BY <1>1, <1>3, <1>4, ClientChanges


-----------------------------------------------------------------------------
(* A push.                                                                 *)

LEMMA BeginPushKeeps ==
  ASSUME BackendInv, BeginPush
  PROVE  BackendInv'
<1> USE Partition DEF BackendInv
<1> DEFINE modified == {i \in Idents : tracked[i] # "none" /\ Object(i) # Absent}
<1>1. /\ push' = [left |-> Stages,
                  modified |-> [i \in modified |-> [command |-> tracked[i],
                                                    object |-> Object(i)]],
                  deletes |-> {}, updates |-> <<>>]
      /\ taken' = taken \cup {i \in Idents : tracked[i] # "none"}
      /\ UNCHANGED <<master, replaced, work, snapshot, tracked, held, changed, again, late,
                     used>>
  BY DEF BeginPush, NoPush, serverData
<1>2. ObjectsInv'
  BY <1>1 DEF ObjectsInv
<1>3. TrackedInv' /\ ForgottenInv'
  BY <1>1 DEF TrackedInv, ForgottenInv, Undisturbed, Reflected
<1>4. push'.left = Stages /\ ~Idle' /\ push'.left \in Lefts
      /\ Remaining(push'.left) = Idents
  BY <1>1, StageSteps DEF Idle
<1>5. PushInv'
  <2>1. ASSUME NEW i \in modified
        PROVE  /\ Object(i) \in Objects(i)
               /\ i \in Products =>
                    tracked[i] = "update" /\ Object(i) = [request |-> "none", done |-> TRUE]
    BY DEF Object, ObjectsInv, TrackedInv
  <2>2. DOMAIN push'.modified = modified
        /\ \A i \in modified :
             push'.modified[i] = [command |-> tracked[i], object |-> Object(i)]
    BY <1>1
  <2>3. push'.deletes = {} /\ push'.updates = <<>>
        /\ push' = [left |-> push'.left, modified |-> push'.modified,
                    deletes |-> push'.deletes, updates |-> push'.updates]
    BY <1>1
  <2>4. \A i \in Idents : Object(i)' = Object(i)
    BY <1>1 DEF Object
  <2>5. modified \subseteq {i \in taken' : tracked'[i] # "none"}
    BY <1>1
  <2>6. \A i \in Idents : tracked[i] # "none" => (i \in modified <=> Object(i) # Absent)
    OBVIOUS
  <2>7. UNCHANGED <<tracked, late>>
    BY <1>1
  <2> HIDE DEF modified
  <2> HIDE <1>1
  <2>8. \A i \in DOMAIN push'.modified :
          /\ push'.modified[i].object \in Objects(i)
          /\ i \in Products => push'.modified[i] =
               [command |-> "update", object |-> [request |-> "none", done |-> TRUE]]
    <3> SUFFICES ASSUME NEW i \in modified
                 PROVE  /\ push'.modified[i].object \in Objects(i)
                        /\ i \in Products => push'.modified[i] =
                             [command |-> "update",
                              object |-> [request |-> "none", done |-> TRUE]]
      BY <2>2
    <3>1. push'.modified[i] = [command |-> tracked[i], object |-> Object(i)]
      BY <2>2
    <3>2. push'.modified[i].object = Object(i)
      BY <3>1
    <3> QED
      BY <2>1, <3>1, <3>2
  <2>9. \A i \in Idents : tracked'[i] # "none" =>
          /\ i \in DOMAIN push'.modified <=> Object(i)' # Absent
          /\ i \in DOMAIN push'.modified =>
               push'.modified[i] = [command |-> tracked'[i], object |-> Object(i)']
    BY <2>2, <2>4, <2>6, <2>7
  <2>10. DOMAIN push'.modified \subseteq {i \in taken' : tracked'[i] # "none"}
    BY <2>2, <2>5
  <2>11. DOMAIN push'.updates = {}
    BY <2>3
  <2> QED
    BY <1>4, <2>3, <2>8, <2>9, <2>10, <2>11 DEF PushInv
<1>6. DoneInv'
  BY <1>1, <1>4 DEF DoneInv, Decides
<1>7. HeldInv'
  BY <1>1 DEF HeldInv, Decided
<1> QED
  BY <1>2, <1>3, <1>5, <1>6, <1>7

\* What is written for an object: with its request, or without.
LEMMA MergedObject ==
  ASSUME BackendInv, NEW i \in Idents, NEW object, Merge(i, object) # {},
         NEW w, w = CHOOSE o \in Merge(i, object) : TRUE
  PROVE  /\ i \notin Products => w = object
         /\ i \in Products => w \in {object, [object EXCEPT !.request = "unchanged"]}
         /\ i \in Products \cap replaced => w = [object EXCEPT !.request = "unchanged"]
<1> USE Partition
<1>1. replaced \subseteq Products
  BY DEF BackendInv, ObjectsInv
<1>2. i \in Products => master[i] # Absent /\ snapshot[i] # Absent
  <2>1. Absent \notin ProductObject
    BY BackendAssumption DEF ProductObject
  <2>2. i \in Products => master[i] \in ProductObject /\ snapshot[i] \in ProductObject
    BY DEF BackendInv, ObjectsInv
  <2> QED
    BY <2>1, <2>2
<1>3. w \in Merge(i, object)
  OBVIOUS
<1>4. i \notin Products => Merge(i, object) \subseteq {object}
  BY <1>1 DEF Merge
<1>5. i \in Products =>
        Merge(i, object) = {IF i \in replaced THEN [object EXCEPT !.request = "unchanged"]
                            ELSE object}
  BY <1>2 DEF Merge
<1> QED
  BY <1>3, <1>4, <1>5

\* What a push decides to write of the class it is at.
LEMMA ReadMasterFacts ==
  ASSUME BackendInv, ReadMaster
  PROVE  LET H == Head(push.left)
             modified == DOMAIN push.modified \cap Class(H)
         IN  /\ push' = [left |-> push'.left, modified |-> push.modified,
                         deletes |-> push'.deletes, updates |-> push'.updates]
             /\ push'.deletes = {i \in modified : /\ push.modified[i].command = "delete"
                                                  /\ snapshot[i] # Absent
                                                  /\ master[i] = snapshot[i]}
             /\ DOMAIN push'.updates = {i \in modified :
                                          /\ push.modified[i].command # "delete"
                                          /\ Merge(i, push.modified[i].object) # {}}
             /\ \A i \in DOMAIN push'.updates :
                  push'.updates[i] = CHOOSE o \in Merge(i, push.modified[i].object) : TRUE
             /\ DOMAIN push'.updates = {} => push'.updates = <<>>
             /\ push'.left = IF push'.deletes = {} /\ DOMAIN push'.updates = {}
                             THEN Tail(push.left) ELSE push.left
<1> DEFINE modified == DOMAIN push.modified \cap Class(Head(push.left))
           deletes == {i \in modified : /\ push.modified[i].command = "delete"
                                        /\ snapshot[i] # Absent
                                        /\ master[i] = snapshot[i]}
           updates == {i \in modified : /\ push.modified[i].command # "delete"
                                        /\ Merge(i, push.modified[i].object) # {}}
           written == [i \in updates |-> CHOOSE o \in
                                           Merge(i, push.modified[i].object) : TRUE]
           rest == IF deletes = {} /\ updates = {} THEN Tail(push.left) ELSE push.left
<1>1. push' = [push EXCEPT !.left = rest, !.deletes = deletes, !.updates = written]
  BY DEF ReadMaster
<1>2. push = [left |-> push.left, modified |-> push.modified, deletes |-> push.deletes,
              updates |-> push.updates]
  BY DEF BackendInv, PushInv
<1>3. DOMAIN written = updates /\ \A i \in updates :
        written[i] = CHOOSE o \in Merge(i, push.modified[i].object) : TRUE
  OBVIOUS
<1>4. updates = {} => written = <<>>
  <2> SUFFICES ASSUME updates = {} PROVE written = <<>>
    OBVIOUS
  <2>1. written \in [{} -> {}]
    <3>1. written = [i \in updates |-> written[i]]
      OBVIOUS
    <3> HIDE DEF written, updates
    <3> QED
      BY <3>1
  <2>2. <<>> \in [{} -> {}]
    OBVIOUS
  <2> HIDE DEF written, updates
  <2> QED
    BY <2>1, <2>2
<1> HIDE DEF rest, deletes, updates, written
<1>5. push' = [left |-> rest, modified |-> push.modified, deletes |-> deletes,
               updates |-> written]
  BY <1>1, <1>2
<1>6. /\ push'.left = rest /\ push'.modified = push.modified
      /\ push'.deletes = deletes /\ push'.updates = written
  BY <1>5
<1> QED
  BY <1>3, <1>4, <1>5, <1>6 DEF rest, deletes, updates


\* The result of an action, with a request and without.
LEMMA DoneObject ==
  /\ [request |-> "none", done |-> TRUE] # Absent
  /\ [request |-> "none", done |-> TRUE] \in
       [request: Requests \cup {"unchanged"}, done: {TRUE}]
  /\ [[request |-> "none", done |-> TRUE] EXCEPT !.request = "unchanged"] =
       [request |-> "unchanged", done |-> TRUE]
  /\ [request |-> "unchanged", done |-> TRUE] \in
       [request: Requests \cup {"unchanged"}, done: {TRUE}]
<1>1. "none" \in Requests /\ Absent \notin ProductObject
  BY BackendAssumption DEF ProductObject
<1>2. [request |-> "none", done |-> TRUE] \in ProductObject
  BY <1>1 DEF ProductObject
<1>3. [request |-> "none", done |-> TRUE] # Absent
  BY <1>1, <1>2
<1>4. [request |-> "none", done |-> TRUE] \in
        [request: Requests \cup {"unchanged"}, done: {TRUE}]
  BY <1>1
<1>5. [[request |-> "none", done |-> TRUE] EXCEPT !.request = "unchanged"] =
        [request |-> "unchanged", done |-> TRUE]
  <2>1. \A done : [[request |-> "none", done |-> done] EXCEPT !.request = "unchanged"] =
                   [request |-> "unchanged", done |-> done]
    OBVIOUS
  <2> QED
    BY <2>1, Zenon
<1>6. [request |-> "unchanged", done |-> TRUE] \in
        [request: Requests \cup {"unchanged"}, done: {TRUE}]
  OBVIOUS
<1> QED
  BY <1>3, <1>4, <1>5, <1>6

\* What a push writes for a product is its result.
LEMMA PushedProduct ==
  ASSUME PushInv, NEW i \in DOMAIN push.modified, i \in Products
  PROVE  /\ push.modified[i].object = [request |-> "none", done |-> TRUE]
         /\ push.modified[i].command = "update"
<1>1. push.modified[i] =
        [command |-> "update", object |-> [request |-> "none", done |-> TRUE]]
  BY DEF PushInv
<1> QED
  BY <1>1

LEMMA ReadMasterKeeps ==
  ASSUME BackendInv, ReadMaster
  PROVE  BackendInv'
<1> USE Partition DEF BackendInv
<1> DEFINE H == Head(push.left)
           modified == DOMAIN push.modified \cap Class(H)
           W(i) == CHOOSE o \in Merge(i, push.modified[i].object) : TRUE
<1>1. UNCHANGED <<master, replaced, work, snapshot, tracked, held, changed, taken, again,
                  late, used>>
  BY DEF ReadMaster, serverData, backendHistory
<1>2. /\ ~Idle /\ push.left \in Lefts \ {<<>>} /\ H # "clear"
      /\ push.deletes = {} /\ push.updates = <<>>
  BY DEF ReadMaster, PushInv, Idle
<1>3. /\ push' = [left |-> push'.left, modified |-> push.modified,
                  deletes |-> push'.deletes, updates |-> push'.updates]
      /\ push'.deletes = {i \in modified : /\ push.modified[i].command = "delete"
                                           /\ snapshot[i] # Absent
                                           /\ master[i] = snapshot[i]}
      /\ DOMAIN push'.updates = {i \in modified :
                                   /\ push.modified[i].command # "delete"
                                   /\ Merge(i, push.modified[i].object) # {}}
      /\ \A i \in DOMAIN push'.updates : push'.updates[i] = W(i)
      /\ DOMAIN push'.updates = {} => push'.updates = <<>>
      /\ push'.left = IF push'.deletes = {} /\ DOMAIN push'.updates = {}
                      THEN Tail(push.left) ELSE push.left
  BY ReadMasterFacts
<1>4. push'.modified = push.modified
  BY <1>3
<1>5. modified \subseteq Idents
  BY DEF PushInv, ObjectsInv
<1> HIDE DEF W
<1>6. ASSUME NEW i \in DOMAIN push'.updates
      PROVE  /\ i \notin Products => push'.updates[i] = push.modified[i].object
             /\ i \in Products => /\ push'.updates[i] \in
                                      [request: Requests \cup {"unchanged"}, done: {TRUE}]
                                  /\ i \in replaced => push'.updates[i].request = "unchanged"
  <2>1. i \in modified /\ Merge(i, push.modified[i].object) # {}
    BY <1>3
  <2>2. /\ i \notin Products => push'.updates[i] = push.modified[i].object
        /\ i \in Products =>
             push'.updates[i] \in {push.modified[i].object,
                                   [push.modified[i].object EXCEPT !.request = "unchanged"]}
        /\ i \in Products \cap replaced =>
             push'.updates[i] = [push.modified[i].object EXCEPT !.request = "unchanged"]
    <3>1. push'.updates[i] = CHOOSE o \in Merge(i, push.modified[i].object) : TRUE
      BY <1>3 DEF W
    <3>2. i \in Idents
      BY <1>5, <2>1
    <3> QED
      BY <2>1, <3>1, <3>2, MergedObject
  <2>3. i \in Products => push.modified[i].object = [request |-> "none", done |-> TRUE]
    BY <2>1, PushedProduct
  <2> HIDE DEF modified
  <2> HIDE <1>3
  <2>4. i \in Products => push'.updates[i] \in {[request |-> "none", done |-> TRUE],
                                               [request |-> "unchanged", done |-> TRUE]}
    BY <2>2, <2>3, DoneObject
  <2>5. i \in Products /\ i \in replaced =>
          push'.updates[i] = [request |-> "unchanged", done |-> TRUE]
    BY <2>2, <2>3, DoneObject
  <2>6. i \in Products /\ i \in replaced => push'.updates[i].request = "unchanged"
    BY <2>5
  <2> QED
    BY <2>2, <2>4, <2>6, DoneObject
<1>7. ObjectsInv' /\ TrackedInv' /\ ForgottenInv'
  BY <1>1 DEF ObjectsInv, TrackedInv, ForgottenInv, Undisturbed, Reflected
<1>8. push'.left \in Lefts /\ push'.left # <<>>
  BY <1>2, <1>3, StageSteps
<1>9. PushInv'
  <2>1. \A i \in Idents : Object(i)' = Object(i)
    BY <1>1 DEF Object
  <2>2. \A i \in push'.deletes :
          i \in DOMAIN push.modified /\ push.modified[i].command = "delete"
    BY <1>3
  <2>3. \A i \in DOMAIN push'.updates :
          i \in DOMAIN push.modified /\ push.modified[i].command # "delete"
    BY <1>3
  <2>4. push' = [left |-> push'.left, modified |-> push'.modified,
                 deletes |-> push'.deletes, updates |-> push'.updates]
    BY <1>3, <1>4
  <2>5. ~Idle'
    BY <1>8 DEF Idle
  <2>6. UNCHANGED <<tracked, taken, late>>
    BY <1>1
  <2>7. push.deletes = {} /\ DOMAIN push.updates = {}
    BY <1>2
  <2> HIDE <1>1, <1>3
  <2>8. /\ DOMAIN push'.modified \subseteq {i \in taken' : tracked'[i] # "none"}
        /\ \A i \in DOMAIN push'.modified :
             /\ push'.modified[i].object \in Objects(i)
             /\ i \in Products => push'.modified[i] =
                  [command |-> "update", object |-> [request |-> "none", done |-> TRUE]]
    BY <1>4, <2>6 DEF PushInv
  <2>9. \A i \in Idents : ~Idle' /\ tracked'[i] # "none" /\ i \notin late' =>
          /\ i \in DOMAIN push'.modified <=> Object(i)' # Absent
          /\ i \in DOMAIN push'.modified =>
               push'.modified[i] = [command |-> tracked'[i], object |-> Object(i)']
    BY <1>2, <1>4, <2>1, <2>6 DEF PushInv
  <2>10. \A i \in push'.deletes :
           i \in DOMAIN push'.modified /\ push'.modified[i].command = "delete"
    BY <1>4, <2>2
  <2>11. \A i \in DOMAIN push'.updates :
           /\ i \in DOMAIN push'.modified /\ push'.modified[i].command # "delete"
           /\ i \notin Products => push'.updates[i] = push'.modified[i].object
           /\ i \in Products => push'.updates[i] \in
                [request: Requests \cup {"unchanged"}, done: {TRUE}]
    BY <1>4, <1>6, <2>3
  <2> QED
    BY <1>8, <2>4, <2>5, <2>8, <2>9, <2>10, <2>11 DEF PushInv
<1>10. ASSUME NEW i \in Class(H), tracked[i] # "none", Undisturbed(i)
       PROVE  Decided(i)' \/ Reflected(i)
  <2>1. i \in Idents /\ i \notin late
    BY <1>10 DEF Class, Undisturbed
  <2>2. /\ i \in DOMAIN push.modified <=> Object(i) # Absent
        /\ i \in DOMAIN push.modified =>
             push.modified[i] = [command |-> tracked[i], object |-> Object(i)]
    BY <1>2, <1>10, <2>1 DEF PushInv
  <2>3. i \in push'.deletes <=> /\ Object(i) # Absent /\ tracked[i] = "delete"
                                /\ snapshot[i] # Absent /\ master[i] = snapshot[i]
    BY <1>3, <1>10, <2>2
  <2>4. i \in DOMAIN push'.updates <=> /\ Object(i) # Absent /\ tracked[i] # "delete"
                                       /\ Merge(i, Object(i)) # {}
    BY <1>3, <1>10, <2>2
  <2>5. CASE i \in Settings
    BY <1>10, <2>3, <2>4, <2>5
    DEF TrackedInv, Reflected, Decided, Object, Merge, ObjectsInv, Commands
  <2>6. CASE i \in Products
    <3>1. tracked[i] = "update" /\ Object(i) = [request |-> "none", done |-> TRUE]
      BY <1>10, <2>6 DEF TrackedInv, Object
    <3>2. Object(i) # Absent
      BY <3>1, DoneObject
    <3>3. Merge(i, Object(i)) # {}
      BY <2>6 DEF Merge
    <3> QED
      BY <2>4, <3>1, <3>2, <3>3 DEF Decided
  <2>7. CASE i \in Licenses
    BY <1>10, <2>3, <2>4, <2>7
    DEF TrackedInv, Reflected, Decided, Object, Merge, ObjectsInv, LicenseObject
  <2> QED
    BY <2>1, <2>5, <2>6, <2>7
<1>11. DoneInv'
  <2>1. \A i \in Idents : /\ Undisturbed(i)' = Undisturbed(i)
                          /\ Reflected(i)' = Reflected(i)
    BY <1>1 DEF Undisturbed, Reflected
  <2>2. CASE push'.deletes = {} /\ DOMAIN push'.updates = {}
    <3>1. push'.left = Tail(push.left) /\ ~Decides'
      BY <1>3, <2>2 DEF Decides
    <3>2. Remaining(push.left) = Class(H) \cup Remaining(push'.left)
      BY <1>2, <3>1, StageSteps
    <3>3. \A i \in Idents : ~Decided(i)'
      BY <2>2 DEF Decided
    <3>4. ASSUME NEW i \in Idents \ Remaining(push'.left), tracked[i] # "none",
                 Undisturbed(i)
          PROVE  Reflected(i)
      BY <1>2, <1>10, <3>2, <3>3, <3>4 DEF DoneInv
    <3> QED
      BY <1>1, <2>1, <3>1, <3>4 DEF DoneInv
  <2>3. CASE ~(push'.deletes = {} /\ DOMAIN push'.updates = {})
    <3>1. push'.left = push.left
      BY <1>3, <2>3
    <3>2. \A i \in Idents \ Remaining(push.left) :
            tracked[i] # "none" /\ Undisturbed(i) => Reflected(i)
      BY <1>2 DEF DoneInv
    <3>3. push'.deletes \cup DOMAIN push'.updates \subseteq Class(H)
      BY <1>3
    <3>4. Class(H) \subseteq Idents
      BY DEF Class
    <3> QED
      BY <1>1, <1>2, <1>8, <1>10, <2>1, <3>1, <3>2, <3>3, <3>4 DEF DoneInv, Idle
  <2> QED
    BY <2>2, <2>3
<1>12. HeldInv'
  <2> SUFFICES ASSUME NEW i \in held
               PROVE  /\ i \in Settings => ~Decided(i)'
                      /\ i \in Products /\ i \in DOMAIN push'.updates =>
                           push'.updates[i].request = "unchanged"
    BY <1>1 DEF HeldInv
  <2>1. CASE i \in Settings
    <3>1. snapshot[i] # Absent /\ master[i] \notin {Absent, snapshot[i]}
      BY <2>1 DEF HeldInv
    <3>2. Merge(i, push.modified[i].object) = {}
      BY <2>1, <3>1 DEF Merge
    <3> QED
      BY <1>3, <2>1, <3>1, <3>2 DEF Decided
  <2>2. CASE i \in Products
    BY <1>6, <2>2 DEF HeldInv
  <2> QED
    BY <2>1, <2>2
<1> QED
  BY <1>7, <1>9, <1>11, <1>12

\* What the server has of an object when the push has written it.
Result(i) == IF i \in push.deletes THEN Absent ELSE Updated(i)

\* It is what the client has made of it, unless that has changed it again.
LEMMA WrittenIsWork ==
  ASSUME BackendInv, NEW i \in Idents, Decided(i)
  PROVE  /\ ~Idle /\ i \in taken /\ tracked[i] # "none"
         /\ Result(i) \in Objects(i)
         /\ i \in Products => Result(i).done = TRUE /\ work[i].done = TRUE
         /\ i \in Settings /\ i \notin late => Result(i) = work[i]
         /\ i \in Licenses /\ i \notin late => (Result(i) # Absent <=> i \in used)
<1> USE Partition DEF BackendInv
<1>1. i \in push.deletes \/ i \in DOMAIN push.updates
  BY DEF Decided
<1>2. i \in DOMAIN push.modified
  BY <1>1 DEF PushInv
<1>3. ~Idle
  BY <1>1 DEF DoneInv, Decides
<1>4. i \in taken /\ tracked[i] # "none"
  BY <1>2 DEF PushInv
<1>5. i \notin late => push.modified[i] = [command |-> tracked[i], object |-> Object(i)]
  BY <1>2, <1>3, <1>4 DEF PushInv
<1>6. i \notin late => /\ push.modified[i].command = tracked[i]
                       /\ push.modified[i].object = Object(i)
  BY <1>5
<1>7. push.modified[i].object \in Objects(i)
  BY <1>2 DEF PushInv
<1>8. CASE i \in push.deletes
  <2>1. push.modified[i].command = "delete" /\ Result(i) = Absent
    BY <1>8 DEF PushInv, Result
  <2>2. i \notin Products
    BY <1>2, <2>1, PushedProduct
  <2>3. Absent \in Objects(i)
    BY <2>2 DEF SettingObject, LicenseObject
  <2>4. i \notin late => tracked[i] = "delete"
    BY <1>6, <2>1
  <2>5. i \in Settings /\ i \notin late => Result(i) = work[i]
    BY <2>1, <2>4 DEF TrackedInv
  <2>6. i \in Licenses /\ i \notin late => i \notin used
    BY <2>4 DEF TrackedInv
  <2> QED
    BY <1>3, <1>4, <2>1, <2>2, <2>3, <2>5, <2>6
<1>9. CASE i \notin push.deletes
  <2>1. i \in DOMAIN push.updates /\ push.modified[i].command # "delete"
        /\ Result(i) = Updated(i)
    BY <1>1, <1>9 DEF PushInv, Result
  <2>2. CASE i \in Products
    <3>1. push.updates[i] \in [request: Requests \cup {"unchanged"}, done: {TRUE}]
      BY <2>1, <2>2 DEF PushInv
    <3>2. master[i] \in ProductObject
      BY <2>2 DEF ObjectsInv
    <3>3. Updated(i) \in [request: Requests, done: {TRUE}]
      <4>1. CASE push.updates[i].request = "unchanged"
        <5>1. master[i].request \in Requests
          BY <3>2 DEF ProductObject
        <5>2. Updated(i) = [push.updates[i] EXCEPT !.request = master[i].request]
          BY <2>2, <4>1 DEF Updated
        <5> QED
          BY <3>1, <5>1, <5>2
      <4>2. CASE push.updates[i].request # "unchanged"
        BY <2>2, <3>1, <4>2 DEF Updated
      <4> QED
        BY <4>1, <4>2
    <3>4. Updated(i) \in ProductObject /\ Updated(i).done = TRUE
      BY <3>3 DEF ProductObject
    <3>5. tracked[i] = "update"
      BY <1>4, <2>2 DEF TrackedInv
    <3>6. work[i] = [request |-> "none", done |-> TRUE]
      BY <2>2, <3>5 DEF TrackedInv
    <3>7. work[i].done = TRUE
      BY <3>6
    <3> QED
      BY <1>3, <1>4, <2>1, <2>2, <3>4, <3>7
  <2>3. CASE i \notin Products
    <3>1. Result(i) = push.modified[i].object
      BY <2>1, <2>3 DEF PushInv, Updated
    <3>2. i \notin late => tracked[i] # "delete" /\ Result(i) = work[i]
      BY <1>6, <2>1, <3>1 DEF Object
    <3>3. i \in Licenses /\ i \notin late => tracked[i] = "insert"
      BY <1>4, <3>2 DEF TrackedInv
    <3>4. i \in Licenses /\ i \notin late => i \in used /\ work[i] # Absent
      BY <3>3 DEF TrackedInv
    <3> QED
      BY <1>3, <1>4, <1>7, <2>3, <3>1, <3>2, <3>4
  <2> QED
    BY <2>2, <2>3
<1> QED
  BY <1>8, <1>9

\* A part of what has been decided is written.
LEMMA WritesKeep ==
  ASSUME BackendInv, Decides,
         NEW W, W \subseteq push.deletes \cup DOMAIN push.updates,
         master' = [i \in Idents |-> IF i \in W THEN Result(i) ELSE master[i]],
         UNCHANGED <<replaced, work, snapshot, tracked, held, changed, taken, again, late,
                     used>>,
         push' = [left |-> push'.left, modified |-> push.modified,
                  deletes |-> push'.deletes, updates |-> push'.updates],
         push'.deletes \subseteq push.deletes, push'.updates \in {push.updates, <<>>},
         push.deletes \cup DOMAIN push.updates \subseteq
           W \cup push'.deletes \cup DOMAIN push'.updates,
         push'.left = IF push'.deletes = {} /\ push'.updates = <<>>
                      THEN Tail(push.left) ELSE push.left
  PROVE  BackendInv'
<1> USE Partition DEF BackendInv
<1>1. \A i \in W : i \in Idents /\ Decided(i)
  BY DEF PushInv, ObjectsInv, Decided
<1>2. ObjectsInv'
  <2>1. ASSUME NEW i \in Idents PROVE master'[i] \in Objects(i)
    BY <1>1, WrittenIsWork DEF ObjectsInv
  <2> QED
    BY <2>1 DEF ObjectsInv
<1>3. \A i \in Idents : Undisturbed(i)' = Undisturbed(i)
  BY DEF Undisturbed
<1>4. TrackedInv'
  <2>1. ASSUME NEW s \in Settings, Undisturbed(s)
        PROVE  /\ s \notin taken => master'[s] = snapshot[s]
               /\ master'[s] \in {snapshot[s], work[s]}
    <3>1. CASE s \in W
      <4>1. s \notin late
        BY <2>1 DEF Undisturbed
      <4> QED
        BY <1>1, <3>1, <4>1, WrittenIsWork
    <3>2. CASE s \notin W
      BY <2>1, <3>2 DEF TrackedInv
    <3> QED
      BY <3>1, <3>2
  <2> QED
    BY <1>3, <2>1 DEF TrackedInv
<1>5. \A i \in Idents \ W : Reflected(i)' = Reflected(i)
  BY DEF Reflected
<1>6. ASSUME NEW i \in W, Undisturbed(i) PROVE Reflected(i)'
  <2>1. i \in Idents /\ i \notin late /\ Decided(i) /\ master'[i] = Result(i)
    BY <1>1, <1>6 DEF Undisturbed
  <2>2. /\ i \in Products => Result(i).done = TRUE /\ work[i].done = TRUE
        /\ i \in Settings => Result(i) = work[i]
        /\ i \in Licenses => (Result(i) # Absent <=> i \in used)
    BY <2>1, WrittenIsWork
  <2> QED
    BY <2>1, <2>2 DEF Reflected
<1>7. ForgottenInv'
  <2>1. ASSUME NEW i \in Idents, tracked[i] = "none" PROVE i \notin W
    BY <1>1, <2>1, WrittenIsWork
  <2> QED
    BY <1>3, <1>5, <2>1 DEF ForgottenInv
<1>8. /\ ~Idle /\ push.left \in Lefts \ {<<>>} /\ Head(push.left) # "clear"
      /\ push'.left \in Lefts \ {<<>>}
  BY StageSteps DEF DoneInv, PushInv, Idle
<1>9. push'.modified = push.modified
  OBVIOUS
<1>10. DOMAIN push'.updates \subseteq DOMAIN push.updates
       /\ \A i \in DOMAIN push'.updates : push'.updates[i] = push.updates[i]
  OBVIOUS
<1>11. PushInv'
  <2>1. ~Idle /\ ~Idle'
    BY <1>8 DEF Idle
  <2>2. \A i \in Idents : Object(i)' = Object(i)
    BY DEF Object
  <2>3. push' = [left |-> push'.left, modified |-> push'.modified,
                 deletes |-> push'.deletes, updates |-> push'.updates]
    BY <1>9
  <2>4. UNCHANGED <<tracked, taken, late>>
    OBVIOUS
  <2>5. \A i \in push'.deletes :
          i \in DOMAIN push'.modified /\ push'.modified[i].command = "delete"
    BY <1>9 DEF PushInv
  <2>6. \A i \in DOMAIN push'.updates :
          /\ i \in DOMAIN push'.modified /\ push'.modified[i].command # "delete"
          /\ i \notin Products => push'.updates[i] = push'.modified[i].object
          /\ i \in Products => push'.updates[i] \in
               [request: Requests \cup {"unchanged"}, done: {TRUE}]
    BY <1>9, <1>10 DEF PushInv
  <2>7. \A i \in Idents : tracked'[i] # "none" /\ i \notin late' =>
          /\ i \in DOMAIN push'.modified <=> Object(i)' # Absent
          /\ i \in DOMAIN push'.modified =>
               push'.modified[i] = [command |-> tracked'[i], object |-> Object(i)']
    BY <1>9, <2>1, <2>2, <2>4 DEF PushInv
  <2>8. /\ DOMAIN push'.modified \subseteq {i \in taken' : tracked'[i] # "none"}
        /\ \A i \in DOMAIN push'.modified :
             /\ push'.modified[i].object \in Objects(i)
             /\ i \in Products => push'.modified[i] =
                  [command |-> "update", object |-> [request |-> "none", done |-> TRUE]]
    BY <1>9, <2>4 DEF PushInv
  <2> QED
    BY <1>8, <2>1, <2>3, <2>5, <2>6, <2>7, <2>8 DEF PushInv
<1>12. ASSUME NEW i \in Idents, tracked[i] # "none", Undisturbed(i),
              Decided(i) \/ Reflected(i)
       PROVE  i \in push'.deletes \cup DOMAIN push'.updates \/ Reflected(i)'
  BY <1>5, <1>6, <1>12 DEF Decided
<1>13. ASSUME NEW i \in Class(Head(push.left)), tracked[i] # "none", Undisturbed(i)
       PROVE  Decided(i)' \/ Reflected(i)'
  <2>1. i \in Idents
    BY DEF Class
  <2>2. Decided(i) \/ Reflected(i)
    BY <1>13 DEF DoneInv
  <2> QED
    BY <1>12, <1>13, <2>1, <2>2 DEF Decided
<1>14. ASSUME NEW i \in Idents \ Remaining(push.left), tracked[i] # "none", Undisturbed(i)
       PROVE  Reflected(i)'
  <2>1. Reflected(i)
    BY <1>8, <1>14 DEF DoneInv
  <2> QED
    BY <1>5, <1>6, <1>14, <2>1
<1>15. DoneInv'
  <2>1. CASE push'.deletes = {} /\ push'.updates = <<>>
    <3>1. Remaining(push.left) = Class(Head(push.left)) \cup Remaining(push'.left)
      BY <1>8, <2>1, StageSteps
    <3>2. \A i \in Idents : ~Decided(i)'
      BY <2>1 DEF Decided
    <3>3. ~Decides'
      BY <2>1 DEF Decides
    <3>4. ASSUME NEW i \in Idents \ Remaining(push'.left), tracked[i] # "none",
                 Undisturbed(i)
          PROVE  Reflected(i)'
      BY <1>13, <1>14, <3>1, <3>2, <3>4
    <3>5. UNCHANGED tracked
      OBVIOUS
    <3> QED
      BY <1>3, <3>3, <3>4, <3>5 DEF DoneInv
  <2>2. CASE ~(push'.deletes = {} /\ push'.updates = <<>>)
    <3>1. push'.left = push.left
      BY <2>2
    <3>2. push'.deletes \cup DOMAIN push'.updates \subseteq Class(Head(push.left))
      BY <1>10 DEF DoneInv
    <3>3. UNCHANGED tracked
      OBVIOUS
    <3>4. Class(Head(push.left)) \subseteq Idents
      BY DEF Class
    <3>5. ~Idle'
      BY <1>8 DEF Idle
    <3> QED
      BY <1>3, <1>8, <1>13, <1>14, <3>1, <3>2, <3>3, <3>4, <3>5 DEF DoneInv
  <2> QED
    BY <2>1, <2>2
<1>16. HeldInv'
  <2> SUFFICES ASSUME NEW i \in held
               PROVE  /\ i \in Settings => master'[i] = master[i] /\ ~Decided(i)'
                      /\ i \in Products /\ i \in DOMAIN push'.updates =>
                           push'.updates[i].request = "unchanged"
    BY DEF HeldInv
  <2>1. CASE i \in Settings
    <3>1. ~Decided(i)
      BY <2>1 DEF HeldInv
    <3> QED
      BY <1>10, <2>1, <3>1 DEF Decided
  <2>2. CASE i \in Products
    BY <1>10, <2>2 DEF HeldInv
  <2> QED
    BY <2>1, <2>2
<1> QED
  BY <1>2, <1>4, <1>7, <1>11, <1>15, <1>16

LEMMA DeleteObjectsKeeps ==
  ASSUME BackendInv, DeleteObjects
  PROVE  BackendInv'
<1>1. push = [left |-> push.left, modified |-> push.modified, deletes |-> push.deletes,
              updates |-> push.updates]
  BY DEF BackendInv, PushInv
<1> DEFINE rest == IF push.updates = <<>> THEN Tail(push.left) ELSE push.left
<1>2. push' = [push EXCEPT !.deletes = {}, !.left = rest]
  BY DEF DeleteObjects
<1> HIDE DEF rest
<1>3. push' = [left |-> rest, modified |-> push.modified, deletes |-> {},
               updates |-> push.updates]
  BY <1>1, <1>2
<1>4. push'.left = rest /\ push'.deletes = {} /\ push'.updates = push.updates
  BY <1>3
<1>5. master' = [i \in Idents |-> IF i \in push.deletes THEN Result(i) ELSE master[i]]
  BY DEF DeleteObjects, Result
<1>6. UNCHANGED <<replaced, work, snapshot, tracked, held, changed, taken, again, late, used>>
  BY DEF DeleteObjects, backendHistory
<1>7. Decides
  BY DEF DeleteObjects, Decides
<1> QED
  BY <1>3, <1>4, <1>5, <1>6, <1>7, WritesKeep DEF rest

LEMMA UpdateObjectsKeeps ==
  ASSUME BackendInv, UpdateObjects
  PROVE  BackendInv'
<1>1. push = [left |-> push.left, modified |-> push.modified, deletes |-> push.deletes,
              updates |-> push.updates]
  BY DEF BackendInv, PushInv
<1>2. push' = [push EXCEPT !.updates = <<>>, !.left = Tail(push.left)]
      /\ push.deletes = {} /\ push.updates # <<>>
  BY DEF UpdateObjects
<1>3. push' = [left |-> Tail(push.left), modified |-> push.modified, deletes |-> {},
               updates |-> <<>>]
  BY <1>1, <1>2
<1>4. push'.left = Tail(push.left) /\ push'.deletes = {} /\ push'.updates = <<>>
  BY <1>3
<1>5. master' = [i \in Idents |-> IF i \in DOMAIN push.updates THEN Result(i) ELSE master[i]]
  BY <1>2 DEF UpdateObjects, Result
<1>6. UNCHANGED <<replaced, work, snapshot, tracked, held, changed, taken, again, late, used>>
  BY DEF UpdateObjects, backendHistory
<1>7. Decides
  BY <1>2 DEF Decides
<1> QED
  BY <1>2, <1>3, <1>4, <1>5, <1>6, <1>7, WritesKeep

LEMMA ClearTrackerKeeps ==
  ASSUME BackendInv, ClearTracker
  PROVE  BackendInv'
<1> USE Partition DEF BackendInv
<1>1. /\ push' = NoPush /\ tracked' = [i \in Idents |-> "none"]
      /\ ~Idle /\ Head(push.left) = "clear"
      /\ UNCHANGED <<master, replaced, work, snapshot, held, changed, taken, again, late,
                     used>>
  BY DEF ClearTracker, serverData, backendHistory
<1>2. push.left \in Lefts \ {<<>>}
  BY <1>1 DEF PushInv, Idle
<1>3. Remaining(push.left) = {}
  BY <1>1, <1>2, StageSteps
<1>4. \A i \in Idents : Undisturbed(i)' = Undisturbed(i) /\ Reflected(i)' = Reflected(i)
  BY <1>1 DEF Undisturbed, Reflected
<1>5. \A i \in Idents : Undisturbed(i) => Reflected(i)
  <2> SUFFICES ASSUME NEW i \in Idents, Undisturbed(i) PROVE Reflected(i)
    OBVIOUS
  <2>1. CASE tracked[i] = "none"
    BY <2>1 DEF ForgottenInv
  <2>2. CASE tracked[i] # "none"
    BY <1>1, <1>3, <2>2 DEF DoneInv
  <2> QED
    BY <2>1, <2>2
<1>6. ForgottenInv'
  BY <1>4, <1>5 DEF ForgottenInv
<1>7. ObjectsInv'
  BY <1>1 DEF ObjectsInv, Commands
<1>8. TrackedInv'
  BY <1>1 DEF TrackedInv, Undisturbed
<1>9. PushInv'
  BY <1>1 DEF PushInv, NoPush, Idle, Lefts
<1>10. DoneInv'
  BY <1>1 DEF DoneInv, NoPush, Idle, Decides
<1>11. HeldInv'
  BY <1>1 DEF HeldInv, NoPush, Decided
<1> QED
  BY <1>6, <1>7, <1>8, <1>9, <1>10, <1>11

LEMMA PushFailsKeeps ==
  ASSUME BackendInv, PushFails
  PROVE  BackendInv'
<1> USE DEF BackendInv
<1>1. push' = NoPush
      /\ UNCHANGED <<master, replaced, work, snapshot, tracked, held, changed, taken, again,
                     late, used>>
  BY DEF PushFails, serverData, backendHistory
<1>2. ObjectsInv' /\ TrackedInv' /\ ForgottenInv'
  BY <1>1 DEF ObjectsInv, TrackedInv, ForgottenInv, Undisturbed, Reflected
<1>3. PushInv'
  BY <1>1 DEF PushInv, NoPush, Idle, Lefts
<1>4. DoneInv'
  BY <1>1 DEF DoneInv, NoPush, Idle, Decides
<1>5. HeldInv'
  BY <1>1 DEF HeldInv, NoPush, Decided
<1> QED
  BY <1>2, <1>3, <1>4, <1>5


-----------------------------------------------------------------------------
(* A new replica.                                                          *)

LEMMA ReplicateKeeps ==
  ASSUME BackendInv, Replicate
  PROVE  BackendInv'
<1> USE Partition DEF BackendInv
<1> DEFINE needed == {l \in Licenses : Repaired[LicenseOf[l]].request # "none"}
<1>1. /\ master' = [i \in Idents |-> IF i \in needed THEN "held" ELSE Repaired[i]]
      /\ work' = [i \in Idents |-> IF i \in Licenses \ needed THEN Absent ELSE master'[i]]
      /\ tracked' = [i \in Idents |-> IF i \in needed THEN "delete" ELSE "none"]
      /\ snapshot' = work' /\ replaced' = {} /\ push' = push /\ Idle
      /\ held' = {} /\ changed' = {} /\ taken' = {} /\ again' = {} /\ late' = {}
      /\ used' = {}
  BY DEF Replicate
<1>2. DOMAIN Repaired = Idents /\ \A i \in Idents : Repaired[i] \in Objects(i)
  BY RepairedObjects
<1>3. needed \subseteq Licenses /\ Absent # "held"
  BY BackendAssumption
<1>4. push = NoPush
  BY <1>1 DEF PushInv
<1> HIDE DEF needed
<1>5. \A i \in Idents : master'[i] \in Objects(i) /\ work'[i] \in Objects(i)
  BY <1>1, <1>2, <1>3 DEF LicenseObject
<1>6. ObjectsInv'
  <2>1. DOMAIN master' = Idents /\ DOMAIN work' = Idents
    BY <1>1
  <2>2. tracked' \in [Idents -> Commands]
    BY <1>1 DEF Commands
  <2> QED
    BY <1>1, <1>5, <2>1, <2>2 DEF ObjectsInv
<1>7. /\ \A i \in Settings \cup Products :
           master'[i] = work'[i] /\ snapshot'[i] = work'[i] /\ tracked'[i] = "none"
      /\ \A l \in needed : work'[l] = "held" /\ snapshot'[l] = "held" /\ tracked'[l] = "delete"
      /\ \A l \in Licenses \ needed : snapshot'[l] = Absent /\ tracked'[l] = "none"
  BY <1>1, <1>3
<1>8. TrackedInv'
  BY <1>1, <1>3, <1>7 DEF TrackedInv
<1>9. ForgottenInv'
  BY <1>3, <1>7 DEF ForgottenInv, Reflected
<1>10. PushInv' /\ DoneInv' /\ HeldInv'
  BY <1>1, <1>4 DEF PushInv, DoneInv, HeldInv, NoPush, Idle, Lefts, Decides
<1> QED
  BY <1>6, <1>8, <1>9, <1>10


-----------------------------------------------------------------------------

\* Every step keeps the invariant.
LEMMA BackendSteps ==
  ASSUME BackendInv, [BackendNext]_backendVars
  PROVE  BackendInv'
<1>1. ASSUME NEW s \in Settings, NEW v \in Values \cup {Absent},
             ChangeSetting(s, v) \/ SetLocally(s, v)
      PROVE  BackendInv'
  BY <1>1, ChangeSettingKeeps, SetLocallyKeeps DEF SettingObject
<1>2. ASSUME NEW p \in Products, NEW r \in Requests, Order(p, r)
      PROVE  BackendInv'
  BY <1>2, OrderKeeps
<1>3. ASSUME NEW p \in Products, ReplaceVersion(p) \/ CarryOut(p)
      PROVE  BackendInv'
  BY <1>3, ReplaceVersionKeeps, CarryOutKeeps
<1>4. ASSUME NEW l \in Licenses, UseLicense(l)
      PROVE  BackendInv'
  BY <1>4, UseLicenseKeeps
<1>5. CASE Sync
  BY <1>5, BeginPushKeeps, ReadMasterKeeps, DeleteObjectsKeeps, UpdateObjectsKeeps,
     ClearTrackerKeeps, PushFailsKeeps, ReplicateKeeps DEF Sync
<1>6. CASE UNCHANGED backendVars
  <2>1. UNCHANGED <<master, replaced, work, snapshot, tracked, push, held, changed, taken,
                    again, late, used>>
    BY <1>6 DEF backendVars, serverData, backendHistory
  <2>2. ObjectsInv' /\ TrackedInv' /\ ForgottenInv'
    BY <2>1 DEF BackendInv, ObjectsInv, TrackedInv, ForgottenInv, Undisturbed, Reflected
  <2>3. PushInv'
    BY <2>1 DEF BackendInv, PushInv, Idle, Object
  <2>4. DoneInv' /\ HeldInv'
    BY <2>1 DEF BackendInv, DoneInv, HeldInv, Undisturbed, Reflected, Idle, Decides, Decided
  <2> QED
    BY <2>2, <2>3, <2>4 DEF BackendInv
<1> QED
  BY <1>1, <1>2, <1>3, <1>4, <1>5, <1>6 DEF BackendNext

\* What the client and administrators have changed, what the tracker notes of it
\* and what a push has of that fit together, whatever pushes fail.
THEOREM BackendInvariant == BackendSpec => []BackendInv
<1>1. BackendInit => BackendInv
  BY BackendInitial
<1>2. BackendInv /\ [BackendNext]_backendVars => BackendInv'
  BY BackendSteps
<1> QED
  BY <1>1, <1>2, PTL DEF BackendSpec

\* The client's steps leave what they are not about.
LEMMA MineKeeps ==
  ASSUME MineInv, ObjectsInv, [BackendNext]_backendVars
  PROVE  MineInv'
<1> USE Partition DEF MineInv
<1>1. ASSUME NEW i \in Idents, NEW command \in Commands, Track(i, command),
             \A j \in Idents \ {i} : Wanted(j)' = Wanted(j)
      PROVE  MineInv'
  BY <1>1 DEF Track
<1>2. ASSUME UNCHANGED <<work, used, mine, overwritten>> PROVE MineInv'
  BY <1>2 DEF Wanted
<1>3. ASSUME NEW s \in Settings, NEW v \in Values \cup {Absent}, SetLocally(s, v)
      PROVE  MineInv'
  <2>1. PICK command \in Commands : Track(s, command)
    BY <1>3 DEF SetLocally, Commands
  <2>2. \A j \in Idents \ {s} : Wanted(j)' = Wanted(j)
    BY <1>3 DEF SetLocally, Wanted, ObjectsInv
  <2> QED
    BY <1>1, <2>1, <2>2
<1>4. ASSUME NEW p \in Products, CarryOut(p) PROVE MineInv'
  <2>1. Track(p, "update") /\ "update" \in Commands
    BY <1>4 DEF CarryOut, Commands
  <2>2. \A j \in Idents \ {p} : Wanted(j)' = Wanted(j)
    BY <1>4 DEF CarryOut, Wanted, ObjectsInv
  <2> QED
    BY <1>1, <2>1, <2>2
<1>5. ASSUME NEW l \in Licenses, UseLicense(l) PROVE MineInv'
  <2>1. Track(l, "insert") /\ "insert" \in Commands
    BY <1>5 DEF UseLicense, Commands
  <2>2. \A j \in Idents \ {l} : Wanted(j)' = Wanted(j)
    BY <1>5 DEF UseLicense, Wanted, ObjectsInv
  <2> QED
    BY <1>1, <2>1, <2>2
<1>6. CASE Replicate
  <2>1. /\ overwritten' \subseteq Idents
        /\ mine' = [i \in Idents |-> IF i \in overwritten' THEN mine[i] ELSE Wanted(i)']
    BY <1>6 DEF Replicate
  <2> QED
    BY <2>1
<1>7. ASSUME NEW s \in Settings, NEW v \in Values \cup {Absent}, ChangeSetting(s, v)
      PROVE  MineInv'
  BY <1>2, <1>7 DEF ChangeSetting, clientHistory
<1>8. ASSUME NEW p \in Products, NEW r \in Requests, Order(p, r) PROVE MineInv'
  BY <1>2, <1>8 DEF Order, clientHistory
<1>9. CASE UNCHANGED backendVars \/ \E p \in Products : ReplaceVersion(p)
  BY <1>2, <1>9 DEF ReplaceVersion, backendVars, backendHistory, clientHistory
<1>10. CASE Sync /\ ~Replicate
  BY <1>2, <1>10 DEF Sync, BeginPush, ReadMaster, DeleteObjects, UpdateObjects,
     ClearTracker, PushFails, backendHistory, clientHistory
<1> QED
  BY <1>3, <1>4, <1>5, <1>6, <1>7, <1>8, <1>9, <1>10 DEF BackendNext

\* What the client has left of an object is kept in the replica, whatever pushes
\* fail and whatever replicas are made, unless a replica came too early.
LEMMA MineInvariant == BackendSpec => []MineInv
<1>1. BackendInit => MineInv
  <2> SUFFICES ASSUME BackendInit PROVE MineInv
    OBVIOUS
  <2>1. PICK orders \in [Products -> Requests], values \in [Settings -> SettingObject] :
          master = [i \in Idents |->
                      IF i \in Products THEN [request |-> orders[i], done |-> FALSE]
                      ELSE IF i \in Settings THEN values[i] ELSE Absent]
    BY DEF BackendInit, SettingObject
  <2>2. \A l \in Licenses : master[l] = Absent
    BY <2>1, Partition
  <2> QED
    BY <2>1, <2>2, Partition DEF BackendInit, MineInv, Wanted
<1>2. BackendInv /\ MineInv /\ [BackendNext]_backendVars => MineInv'
  BY MineKeeps DEF BackendInv
<1> QED
  BY <1>1, <1>2, BackendInvariant, PTL DEF BackendSpec

\* What is left of a push is an end of its stages.
StageNames == {"products", "licenses", "settings", "clear"}

LEMMA LeftsAreStages ==
  Lefts \subseteq {SubSeq(Stages, k, Len(Stages)) : k \in 1..(Len(Stages) + 1)}
<1>1. /\ Stages \in Seq(StageNames) /\ Len(Stages) = 4
      /\ \A i \in 1..4 : Stages[i] \in StageNames
  BY DEF Stages, StageNames
<1>2. ASSUME NEW left \in Seq(StageNames), NEW k \in 1..5, Len(left) = 5 - k,
             \A i \in 1..(5 - k) : left[i] = Stages[k + i - 1]
      PROVE  left \in {SubSeq(Stages, n, Len(Stages)) : n \in 1..(Len(Stages) + 1)}
  <2> DEFINE rest == SubSeq(Stages, k, 4)
  <2>1. \A i \in k..4 : Stages[i] \in StageNames
    BY <1>1
  <2>2. /\ rest \in Seq(StageNames) /\ Len(rest) = 5 - k
        /\ \A i \in 1..(4 - k + 1) : rest[i] = Stages[k + i - 1]
    <3>1. k \in Int /\ 4 \in Int
      OBVIOUS
    <3>2. /\ rest \in Seq(StageNames)
          /\ Len(rest) = IF k <= 4 THEN 4 - k + 1 ELSE 0
          /\ \A i \in 1..(4 - k + 1) : rest[i] = Stages[k + i - 1]
      BY <2>1, <3>1, SubSeqProperties, SMTT(30)
    <3> HIDE DEF rest
    <3> QED
      BY <3>2
  <2> HIDE DEF rest
  <2>3. left = rest
    BY <1>2, <2>2, SeqEqual
  <2>4. k \in 1..(Len(Stages) + 1) /\ left = SubSeq(Stages, k, Len(Stages))
    BY <1>1, <2>3 DEF rest
  <2> QED
    BY <2>4
<1>3. ASSUME NEW left \in Lefts
      PROVE  \E k \in 1..5 : /\ left \in Seq(StageNames) /\ Len(left) = 5 - k
                             /\ \A i \in 1..(5 - k) : left[i] = Stages[k + i - 1]
  <2>1. CASE left = <<"products", "licenses", "settings", "clear">>
    <3>1. left = Stages
      BY <2>1 DEF Stages
    <3>2. /\ 1 \in 1..5 /\ left \in Seq(StageNames) /\ Len(left) = 5 - 1
          /\ \A i \in 1..(5 - 1) : i = 1 + i - 1
      BY <1>1, <3>1
    <3>3. \A i \in 1..(5 - 1) : left[i] = Stages[1 + i - 1]
      BY <3>1, <3>2
    <3> QED
      BY <3>2, <3>3
  <2>2. CASE left = <<"licenses", "settings", "clear">>
    BY <2>2 DEF Stages, StageNames
  <2>3. CASE left = <<"settings", "clear">>
    BY <2>3 DEF Stages, StageNames
  <2>4. CASE left = <<"clear">>
    BY <2>4 DEF Stages, StageNames
  <2>5. CASE left = <<>>
    BY <2>5
  <2> QED
    BY <2>1, <2>2, <2>3, <2>4, <2>5 DEF Lefts
<1> QED
  BY <1>2, <1>3

\* The variables of the backend have their types.
THEOREM BackendTypeCorrect == BackendSpec => []BackendTypeOK
<1>1. BackendInv /\ MineInv => BackendTypeOK
  <2> SUFFICES ASSUME BackendInv, MineInv PROVE BackendTypeOK
    OBVIOUS
  <2>1. push.left \in {SubSeq(Stages, k, Len(Stages)) : k \in 1..(Len(Stages) + 1)}
    BY LeftsAreStages DEF BackendInv, PushInv
  <2>2. DOMAIN push.modified \subseteq Idents
    BY DEF BackendInv, PushInv, ObjectsInv
  <2> QED
    BY <2>1, <2>2 DEF BackendInv, ObjectsInv, MineInv, Commands, BackendTypeOK
<1> QED
  BY <1>1, BackendInvariant, MineInvariant, PTL

\* What the client has changed is on the server as soon as the tracker forgets it,
\* and after new replicas, too, but those that were made before it had arrived.
THEOREM LocalChangesArrive == BackendSpec => []LocalChangeArrives
<1>1. ASSUME BackendInv, MineInv, Idle, NEW i \in Idents, tracked[i] = "none",
             i \notin late \cup changed \cup overwritten \cup (again \cap Settings)
      PROVE  Synced(i)
  <2>1. Reflected(i) /\ mine[i] = Wanted(i)
    BY <1>1 DEF BackendInv, ForgottenInv, Undisturbed, MineInv
  <2>2. i \in Licenses => master[i] \in {"held", Absent} /\ "held" # Absent
    BY <1>1, Partition, BackendAssumption DEF BackendInv, ObjectsInv, LicenseObject
  <2> QED
    BY <2>1, <2>2, Partition DEF Reflected, Wanted, Synced
<1>2. BackendInv /\ MineInv => LocalChangeArrives
  BY <1>1 DEF LocalChangeArrives
<1> QED
  BY <1>2, BackendInvariant, MineInvariant, PTL

\* A push does not change what an administrator has changed since the replica
\* was made.
THEOREM ServerChangesStay == BackendSpec => ServerChangeStays
<1>1. ASSUME BackendInv, DeleteObjects \/ UpdateObjects, NEW i \in held
      PROVE  /\ i \in Settings => master'[i] = master[i]
             /\ i \in Products => master'[i].request = master[i].request
  <2>1. i \in Idents /\ DOMAIN master = Idents
    BY <1>1 DEF BackendInv, ObjectsInv
  <2>2. CASE i \in Settings
    <3>1. ~Decided(i) /\ i \notin Products
      BY <1>1, <2>2, Partition DEF BackendInv, HeldInv
    <3> QED
      BY <1>1, <2>1, <3>1 DEF DeleteObjects, UpdateObjects, Decided
  <2>3. CASE i \in Products
    <3>1. i \notin push.deletes /\ i \notin Settings
      BY <1>1, <2>3, Partition, PushedProduct DEF BackendInv, PushInv
    <3>2. CASE DeleteObjects
      BY <2>1, <2>3, <3>1, <3>2 DEF DeleteObjects
    <3>3. CASE UpdateObjects /\ i \in DOMAIN push.updates
      <4>1. push.updates[i].request = "unchanged"
        BY <1>1, <2>3, <3>3 DEF BackendInv, HeldInv
      <4>2. push.updates[i] \in [request: Requests \cup {"unchanged"}, done: {TRUE}]
        BY <1>1, <2>3, <3>3 DEF BackendInv, PushInv
      <4>3. master'[i] = [push.updates[i] EXCEPT !.request = master[i].request]
        BY <2>1, <2>3, <3>3, <4>1 DEF UpdateObjects, Updated
      <4>4. master'[i].request = master[i].request
        BY <4>2, <4>3
      <4> QED
        BY <3>1, <4>4
    <3>4. CASE UpdateObjects /\ i \notin DOMAIN push.updates
      BY <2>1, <3>1, <3>4 DEF UpdateObjects
    <3> QED
      BY <1>1, <3>2, <3>3, <3>4
  <2>4. CASE i \notin Settings \cup Products
    BY <2>4
  <2> QED
    BY <2>2, <2>3, <2>4
<1>2. BackendInv => ServerChangeIsKept
  BY <1>1 DEF ServerChangeIsKept
<1> QED
  BY <1>2, BackendInvariant, PTL DEF ServerChangeStays

-----------------------------------------------------------------------------
(* ActionGroups: what is known at each loop of the sorter.                 *)

\* The requirements recorded so far.
Recorded == UNION {ToSet(hard[p]) : p \in ProductIds}

\* Some action of p is not "none".
Real(p) == \E i \in DOMAIN found[p] : found[p][i] # "none"

\* What RequirementsHaveActions asks of d, and of the first n dependencies of p.
Obeyed(d) == d.on \in request.available => Settled(request, d) \/ Real(d.on)
Obeys(p, action, n) ==
  p \in request.available =>
    \A i \in 1..n : request.dependencies[p][i].action = action
                      => Obeyed(request.dependencies[p][i])
Searched(p, action) == Obeys(p, action, Len(request.dependencies[p]))

\* The action i of p is being searched, or will be.
UnderWay(p, action) ==
  \E j \in DOMAIN stack : stack[j].product = p /\ stack[j].action = action
ToCome(p, i) ==
  \/ \E k \in DOMAIN todo : k > 1 /\ todo[k] = p
  \/ todo # <<>> /\ todo[1] = p /\ i > turn

\* A call goes on with a product on the path; it has obeyed the dependencies
\* before its next one.
GoesOn(c) ==
  /\ c.action \in ToSet(found[c.product])
  /\ c.product \in ToSet(path)
  /\ c.next <= Len(request.dependencies[c.product]) + 1
  /\ Obeys(c.product, c.action, c.next - 1)

\* What the path keeps a call off has an action. Only the first call can be for
\* "none", for which nothing is required.
CallsInv ==
  /\ stage # "search" => stack = <<>>
  /\ \A j \in DOMAIN stack : GoesOn(stack[j])
  /\ Len(stack) > 1 => \A j \in DOMAIN stack : stack[j].action # "none"
  /\ stack # <<>> /\ Top.action # "none" => \A x \in ToSet(path) : Real(x)

\* The keys are the products found. An action is searched, or will be.
Unrepeated(s) == \A i, j \in DOMAIN s : s[i] = s[j] => i = j
FoundInv ==
  /\ \A p \in ProductIds : found[p] # <<>> <=> p \in ToSet(met)
  /\ Unrepeated(met)
  /\ stage = "search" => \A p \in ProductIds : \A i \in DOMAIN found[p] :
       Searched(p, found[p][i]) \/ UnderWay(p, found[p][i]) \/ ToCome(p, i)
  /\ stage \notin {"add", "search"} => \A p \in ProductIds : \A i \in DOMAIN found[p] :
       Searched(p, found[p][i])

\* Sets of linked products do not overlap, and requirements stay in one.
Apart(sets) == \A i, j \in DOMAIN sets : sets[i] \cap sets[j] # {} => i = j
LinkInv ==
  /\ Apart(linked)
  /\ \A p \in ProductIds : \A d \in ToSet(hard[p]) :
       d.from = p /\ d.type # "any" /\ \E i \in DOMAIN linked : {p, d.on} \subseteq linked[i]

Unique(list) ==
  \A i, j \in DOMAIN list : list[i].product = list[j].product => i = j
Members(list) == {list[i].product : i \in DOMAIN list}
Precedes(list, p, q) ==
  \E i, j \in DOMAIN list : i < j /\ list[i].product = p /\ list[j].product = q

\* Of requirements of one kind: p is on that side of q where it has to be.
Leads(kind, list, p, q) ==
  IF kind = "before" THEN Precedes(list, p, q) ELSE Precedes(list, q, p)
Holds(kind, list, d) == d.on \in Members(list) => Leads(kind, list, d.on, d.from)
HoldsFor(kind, list, p) == \A d \in Recorded : d.from = p => Holds(kind, list, d)

\* What OneKindIsMet supposes.
OneKind(kind) ==
  /\ \A d \in Recorded : d.type = kind
  /\ Acyclic(Before(Recorded))
  /\ kind = "after" => \A d \in Recorded : found[d.on] # <<>>

\* Products whose requirements hold and that no run moves any longer; one more
\* with each run.
Closed(set, members) ==
  \A d \in Recorded : d.on \in set /\ d.from \in members => d.from \in set

\* The run has been through the requirement i of p.
Visited(p, i) ==
  \E k \in DOMAIN copy :
    /\ copy[k].product = p
    /\ k < item \/ (k = item /\ i < next)
Through(kind, p) ==
  \A i \in DOMAIN hard[p] : Visited(p, i) => Holds(kind, actions, hard[p][i])

RunInv(kind) ==
  \E fixed \in SUBSET Members(actions) :
    /\ Cardinality(fixed) >= runs - 1
    /\ Closed(fixed, Members(actions))
    /\ \A p \in fixed : HoldsFor(kind, actions, p)
    /\ \/ fixed = Members(actions)
       \/ \E p \in Members(actions) \ fixed :
            Closed(fixed \cup {p}, Members(actions)) /\ Through(kind, p)

\* A run that has moved something has changed the order: whatever it moved has
\* passed a product that needs it, or else that has been moved, too.
MovedInv(kind) ==
  /\ moved \subseteq Members(actions)
  /\ moved = {} =>
       actions = copy /\ \A p \in Members(actions) : Through(kind, p)
  /\ \A p, q \in Members(actions) \ moved :
       Leads(kind, copy, p, q) <=> Leads(kind, actions, p, q)
  /\ \A p \in moved : \E d \in Recorded :
       /\ d.on = p /\ d.from \in Members(actions)
       /\ d.from \in moved \/ (Leads(kind, copy, d.from, p) /\ Leads(kind, actions, p, d.from))

SortInv ==
  stage = "sort" =>
    /\ Len(groups) < Len(linked)
    /\ ToSet(actions) = ActionsOf(linked[Len(groups) + 1]) /\ Unique(actions)
    /\ ToSet(copy) = ToSet(actions) /\ Unique(copy) /\ Len(copy) = Len(actions)
    /\ runs >= 1
    /\ item <= Len(copy) + 1
    /\ \A kind \in {"before", "after"} : OneKind(kind) => RunInv(kind) /\ MovedInv(kind)

InGroup(p, i) == p \in Members(groups[i].actions)

\* Each product found has its action in one group, with the products it is
\* linked to, and the group is sorted.
GroupInv ==
  /\ stage \in {"add", "search"} => groups = <<>>
  /\ stage = "group" => Len(groups) <= Len(linked)
  /\ stage \in {"group", "sort"} => \A i \in DOMAIN groups :
       ToSet(groups[i].actions) = ActionsOf(linked[i])
  /\ stage \in {"rest", "done"} =>
       /\ \A i \in DOMAIN linked : \A p \in linked[i] : found[p] # <<>> =>
            \E j \in DOMAIN groups : InGroup(p, j)
       /\ \A p \in ToSet(met) :
            p \in ToSet(todo) \/ \E j \in DOMAIN groups : InGroup(p, j)
  /\ stage = "rest" =>
       /\ Unrepeated(todo) /\ ToSet(todo) \subseteq ToSet(met)
       /\ \A p \in ToSet(todo) : \A j \in DOMAIN groups :
            InGroup(p, j) => \E i \in DOMAIN linked : p \in linked[i]
  /\ stage = "done" => todo = <<>>
  /\ \A i \in DOMAIN groups :
       ToSet(groups[i].actions) \subseteq ActionsOf(ProductIds) /\ Unique(groups[i].actions)
  /\ \A i, j \in DOMAIN groups : \A p \in ProductIds :
       InGroup(p, i) /\ InGroup(p, j) => i = j
  /\ \A d \in Recorded : \A i, j \in DOMAIN groups :
       InGroup(d.from, i) /\ InGroup(d.on, j) => i = j
  /\ \A kind \in {"before", "after"} : OneKind(kind) =>
       \A i \in DOMAIN groups : \A p \in Members(groups[i].actions) :
         HoldsFor(kind, groups[i].actions, p)

SorterInv == SorterTypeOK /\ CallsInv /\ FoundInv /\ LinkInv /\ SortInv /\ GroupInv

\* The list in which the item at i has been put to j.
Moved(list, i, j) == InsertAt(RemoveAt(list, i), j, list[i])

\* What moving an item does to a list: those between the two places are shifted
\* by one.
LEMMA MovedItems ==
  ASSUME NEW S, NEW list \in Seq(S), NEW i \in 1..Len(list), NEW j \in 1..Len(list),
         NEW r, r = Moved(list, i, j)
  PROVE  /\ r \in Seq(S) /\ Len(r) = Len(list)
         /\ \A k \in 1..Len(list) :
              r[k] = IF k = j THEN list[i]
                     ELSE IF i <= k /\ k < j THEN list[k + 1]
                     ELSE IF j < k /\ k <= i THEN list[k - 1]
                     ELSE list[k]
<1> DEFINE less == RemoveAt(list, i)
           e == list[i]
<1>1. Len(list) \in Nat /\ list[i] \in S
  OBVIOUS
<1>2. /\ less \in Seq(S) /\ Len(less) = Len(list) - 1
      /\ \A k \in 1..Len(less) : less[k] = IF k < i THEN list[k] ELSE list[k + 1]
  BY Removed
<1>5. r = InsertAt(less, j, e)
  BY DEF Moved
<1> HIDE DEF less, e
<1>3. j \in 1..(Len(less) + 1)
  BY <1>1, <1>2
<1>4. /\ r \in Seq(S) /\ Len(r) = Len(less) + 1
      /\ \A k \in 1..Len(r) :
           r[k] = IF k < j THEN less[k] ELSE IF k = j THEN list[i] ELSE less[k - 1]
  <2>1. e \in S
    BY <1>1 DEF e
  <2> PICK s \in Seq(S) : s = less
    BY <1>2
  <2> PICK at \in 1..(Len(s) + 1) : at = j
    BY <1>3
  <2> PICK x \in S : x = e
    BY <2>1
  <2>2. LET put == InsertAt(s, at, x)
        IN  /\ put \in Seq(S) /\ Len(put) = Len(s) + 1
            /\ \A k \in 1..Len(put) :
                 put[k] = IF k < at THEN s[k] ELSE IF k = at THEN x ELSE s[k - 1]
    BY Inserted
  <2>3. x = list[i] /\ r = InsertAt(s, at, x)
    BY <1>5 DEF e
  <2> QED
    BY <2>2, <2>3
<1>6. ASSUME NEW k \in 1..Len(list)
      PROVE  r[k] = IF k = j THEN list[i]
                    ELSE IF i <= k /\ k < j THEN list[k + 1]
                    ELSE IF j < k /\ k <= i THEN list[k - 1]
                    ELSE list[k]
  <2>1. k \in 1..Len(r) /\ (k < j => k \in 1..Len(less)) /\ (k > j => k - 1 \in 1..Len(less))
    BY <1>1, <1>2, <1>4
  <2>2. CASE k = j
    BY <1>4, <2>1, <2>2
  <2>3. CASE k < j
    <3>1. r[k] = less[k] /\ less[k] = IF k < i THEN list[k] ELSE list[k + 1]
      BY <1>2, <1>4, <2>1, <2>3
    <3> QED
      BY <2>3, <3>1
  <2>4. CASE k > j
    <3>1. r[k] = less[k - 1] /\ less[k - 1] = IF k - 1 < i THEN list[k - 1] ELSE list[k - 1 + 1]
      BY <1>2, <1>4, <2>1, <2>4
    <3>2. k - 1 + 1 = k /\ (k - 1 < i <=> k <= i)
      OBVIOUS
    <3> QED
      BY <2>4, <3>1, <3>2
  <2> QED
    BY <2>2, <2>3, <2>4
<1> QED
  BY <1>1, <1>2, <1>4, <1>6

\* A finite set of integers has a greatest and a least one.
LEMMA Bounds ==
  ASSUME NEW S, IsFiniteSet(S), S \subseteq Int, S # {}
  PROVE  /\ \E m \in S : \A n \in S : n <= m
         /\ \E m \in S : \A n \in S : m <= n
<1> DEFINE High(t) == \E m \in t : \A n \in t : n <= m
           Low(t) == \E m \in t : \A n \in t : m <= n
           B == {t \in SUBSET S : t # {} /\ ~(High(t) /\ Low(t))}
<1> SUFFICES ASSUME B # {} PROVE FALSE
  OBVIOUS
<1>1. PICK t \in B : \A x \in t : t \ {x} \notin B
  BY LeastSet
<1>2. PICK x \in t : TRUE
  OBVIOUS
<1>3. CASE t \ {x} = {}
  <2>1. t = {x} /\ x \in Int
    BY <1>3
  <2> QED
    BY <2>1
<1>4. CASE t \ {x} # {}
  <2>1. High(t \ {x}) /\ Low(t \ {x})
    BY <1>1, <1>4
  <2>2. PICK m \in t \ {x} : \A n \in t \ {x} : n <= m
    BY <2>1
  <2>3. PICK l \in t \ {x} : \A n \in t \ {x} : l <= n
    BY <2>1
  <2>4. x \in Int /\ m \in Int /\ l \in Int /\ t \subseteq Int
    OBVIOUS
  <2>5. High(t)
    <3>1. CASE x <= m
      BY <2>2, <2>4, <3>1
    <3>2. CASE ~(x <= m)
      <4>1. \A n \in t : n <= x
        BY <2>2, <2>4, <3>2
      <4> QED
        BY <4>1
    <3> QED
      BY <3>1, <3>2
  <2>6. Low(t)
    <3>1. CASE l <= x
      BY <2>3, <2>4, <3>1
    <3>2. CASE ~(l <= x)
      <4>1. \A n \in t : x <= n
        BY <2>3, <2>4, <3>2
      <4> QED
        BY <4>1
    <3> QED
      BY <3>1, <3>2
  <2> QED
    BY <2>5, <2>6
<1> QED
  BY <1>3, <1>4

\* Where the item at k comes to when that at i is put to j, and where it was.
NewPlace(i, j, k) ==
  IF k = i THEN j
  ELSE IF i < k /\ k <= j THEN k - 1
  ELSE IF j <= k /\ k < i THEN k + 1
  ELSE k
OldPlace(i, j, k) == NewPlace(j, i, k)

\* The places of the moved list are those of the list, in another order: only
\* that of the moved item changes its side of another.
LEMMA PlacesAreNumbers ==
  ASSUME NEW n \in Nat, NEW i \in 1..n, NEW j \in 1..n, NEW k \in 1..n, NEW m \in 1..n
  PROVE  /\ NewPlace(i, j, k) \in 1..n
         /\ OldPlace(i, j, NewPlace(i, j, k)) = k
         /\ NewPlace(i, j, k) = NewPlace(i, j, m) => k = m
         /\ k # i /\ m # i => (NewPlace(i, j, k) < NewPlace(i, j, m) <=> k < m)
         /\ NewPlace(i, j, i) = j
         /\ i < j /\ k < i => NewPlace(i, j, k) < j
         /\ i < j => NewPlace(i, j, j) < j
         /\ j < i /\ i < k => j < NewPlace(i, j, k)
         /\ j < i => j < NewPlace(i, j, j)
BY DEF NewPlace, OldPlace

\* Moving an item neither loses nor repeats one.
LEMMA MovedPlaces ==
  ASSUME NEW S, NEW list \in Seq(S), NEW i \in 1..Len(list), NEW j \in 1..Len(list),
         NEW r, r = Moved(list, i, j)
  PROVE  /\ r \in Seq(S) /\ Len(r) = Len(list)
         /\ \A k \in 1..Len(list) : r[NewPlace(i, j, k)] = list[k]
         /\ \A m \in 1..Len(list) : \E k \in 1..Len(list) : m = NewPlace(i, j, k)
         /\ ToSet(r) = ToSet(list)
<1>2. /\ r \in Seq(S) /\ Len(r) = Len(list)
      /\ \A k \in 1..Len(list) :
           r[k] = IF k = j THEN list[i]
                  ELSE IF i <= k /\ k < j THEN list[k + 1]
                  ELSE IF j < k /\ k <= i THEN list[k - 1]
                  ELSE list[k]
  BY MovedItems
<1> DEFINE n == Len(list)
<1>1. n \in Nat /\ DOMAIN list = 1..n
  OBVIOUS
<1>0. /\ Len(r) = n
      /\ \A k \in 1..n :
           r[k] = IF k = j THEN list[i]
                  ELSE IF i <= k /\ k < j THEN list[k + 1]
                  ELSE IF j < k /\ k <= i THEN list[k - 1]
                  ELSE list[k]
  BY <1>2
<1> HIDE DEF n
<1>3. ASSUME NEW k \in 1..n PROVE NewPlace(i, j, k) \in 1..n /\ r[NewPlace(i, j, k)] = list[k]
  <2>1. NewPlace(i, j, k) \in 1..n
    BY <1>1, PlacesAreNumbers DEF n
  <2>2. i \in 1..n /\ j \in 1..n
    BY DEF n
  <2> QED
    BY <1>0, <1>1, <2>1, <2>2 DEF NewPlace
<1>4. ASSUME NEW m \in 1..n PROVE \E k \in 1..n : m = NewPlace(i, j, k)
  <2>1. i \in 1..n /\ j \in 1..n
    BY DEF n
  <2>2. OldPlace(i, j, m) \in 1..n /\ m = NewPlace(i, j, OldPlace(i, j, m))
    BY <1>1, <2>1 DEF NewPlace, OldPlace
  <2> QED
    BY <2>2
<1>5. DOMAIN r = 1..n
  BY <1>0, <1>2
<1>6. ToSet(r) = ToSet(list)
  <2>1. ASSUME NEW x \in ToSet(r) PROVE x \in ToSet(list)
    <3>1. PICK m \in 1..n : x = r[m]
      BY <1>5 DEF ToSet
    <3>2. PICK k \in 1..n : m = NewPlace(i, j, k)
      BY <1>4
    <3> QED
      BY <1>1, <1>3, <3>1, <3>2 DEF ToSet
  <2>2. ASSUME NEW x \in ToSet(list) PROVE x \in ToSet(r)
    <3>1. PICK k \in 1..n : x = list[k]
      BY <1>1 DEF ToSet
    <3> QED
      BY <1>3, <1>5, <3>1 DEF ToSet
  <2> QED
    BY <2>1, <2>2
<1> QED
  BY <1>2, <1>3, <1>4, <1>6 DEF n

\* The products of a list are those of its set of actions.
LEMMA MembersOf ==
  ASSUME NEW list, NEW r, ToSet(r) = ToSet(list)
  PROVE  Members(r) = Members(list)
<1>1. \A s : Members(s) = {a.product : a \in ToSet(s)}
  BY DEF Members, ToSet
<1> QED
  BY <1>1

\* In a list with one action for each product they come one after another.
LEMMA OrderOf ==
  ASSUME NEW list \in Seq(Action), Unique(list), NEW p \in Members(list),
         NEW q \in Members(list), p # q
  PROVE  /\ Precedes(list, p, q) <=> ~Precedes(list, q, p)
         /\ Precedes(list, p, q) <=> Position(list, p) < Position(list, q)
         /\ Position(list, p) \in 1..Len(list) /\ list[Position(list, p)].product = p
<1>1. ASSUME NEW x \in Members(list), NEW i \in 1..Len(list), list[i].product = x
      PROVE  Position(list, x) = i
  <2>1. DOMAIN list = 1..Len(list)
    OBVIOUS
  <2> QED
    BY <1>1, <2>1 DEF Position, Unique
<1>2. PICK i \in 1..Len(list) : list[i].product = p
  BY DEF Members
<1>3. PICK j \in 1..Len(list) : list[j].product = q
  BY DEF Members
<1>4. Position(list, p) = i /\ Position(list, q) = j /\ i # j
  BY <1>1, <1>2, <1>3
<1>5. Precedes(list, p, q) <=> i < j
  BY <1>2, <1>3 DEF Precedes, Unique
<1>6. Precedes(list, q, p) <=> j < i
  BY <1>2, <1>3 DEF Precedes, Unique
<1> QED
  BY <1>2, <1>4, <1>5, <1>6

\* Moving an action changes where its product is, and nothing else.
LEMMA MovedOrder ==
  ASSUME NEW S, NEW list \in Seq(S), Unique(list),
         NEW i \in 1..Len(list), NEW j \in 1..Len(list)
  PROVE  LET r == Moved(list, i, j)
             p == list[i].product
             q == list[j].product
         IN  /\ Unique(r)
             /\ \A x, y : x # p /\ y # p => (Precedes(r, x, y) <=> Precedes(list, x, y))
             /\ i < j => /\ Precedes(r, q, p)
                         /\ \A x : Precedes(list, x, p) => Precedes(r, x, p)
             /\ j < i => /\ Precedes(r, p, q)
                         /\ \A x : Precedes(list, p, x) => Precedes(r, p, x)
<1> PICK r : r = Moved(list, i, j)
  OBVIOUS
<1>0. /\ r \in Seq(S) /\ Len(r) = Len(list)
      /\ \A k \in 1..Len(list) : r[NewPlace(i, j, k)] = list[k]
      /\ \A m \in 1..Len(list) : \E k \in 1..Len(list) : m = NewPlace(i, j, k)
  <2>1. r \in Seq(S) /\ Len(r) = Len(list)
    BY MovedPlaces
  <2>2. ASSUME NEW k \in 1..Len(list) PROVE r[NewPlace(i, j, k)] = list[k]
    BY <2>1, MovedPlaces, SMTT(30)
  <2>3. ASSUME NEW m \in 1..Len(list) PROVE \E k \in 1..Len(list) : m = NewPlace(i, j, k)
    BY MovedPlaces
  <2> QED
    BY <2>1, <2>2, <2>3
<1> DEFINE n == Len(list)
           P(k) == NewPlace(i, j, k)
<1>1. /\ n \in Nat /\ DOMAIN list = 1..n /\ r \in Seq(S) /\ Len(r) = n /\ DOMAIN r = 1..n
      /\ \A k \in 1..n : r[P(k)] = list[k]
      /\ \A m \in 1..n : \E k \in 1..n : m = P(k)
  <2>1. /\ r \in Seq(S) /\ Len(r) = n
        /\ \A k \in 1..n : r[P(k)] = list[k]
        /\ \A m \in 1..n : \E k \in 1..n : m = P(k)
    BY <1>0
  <2> HIDE DEF P
  <2>2. n \in Nat /\ DOMAIN list = 1..n
    OBVIOUS
  <2>3. DOMAIN r = 1..n
    BY <2>1
  <2> QED
    BY <2>1, <2>2, <2>3
<1>2. i \in 1..n /\ j \in 1..n
  OBVIOUS
<1> HIDE DEF n
<1>3. ASSUME NEW k \in 1..n, NEW m \in 1..n
      PROVE  /\ P(k) \in 1..n
             /\ P(k) = P(m) => k = m
             /\ k # i /\ m # i => (P(k) < P(m) <=> k < m)
             /\ P(i) = j
             /\ i < j /\ k < i => P(k) < j
             /\ i < j => P(j) < j
             /\ j < i /\ i < k => j < P(k)
             /\ j < i => j < P(j)
  <2>1. /\ P(k) = NewPlace(i, j, k) /\ P(m) = NewPlace(i, j, m)
        /\ P(i) = NewPlace(i, j, i) /\ P(j) = NewPlace(i, j, j)
    OBVIOUS
  <2> HIDE DEF P
  <2>2. /\ i \in Int /\ j \in Int /\ k \in Int /\ m \in Int /\ n \in Int
        /\ 1 <= i /\ i <= n /\ 1 <= j /\ j <= n /\ 1 <= k /\ k <= n
    BY <1>1, <1>2
  <2>3. P(k) \in 1..n
    BY <2>1, <2>2 DEF NewPlace
  <2>4. P(k) = P(m) => k = m
    BY <2>1, <2>2 DEF NewPlace
  <2>5. k # i /\ m # i => (P(k) < P(m) <=> k < m)
    BY <2>1, <2>2 DEF NewPlace
  <2>6. P(i) = j /\ (i < j => P(j) < j) /\ (j < i => j < P(j))
    BY <2>1, <2>2 DEF NewPlace
  <2>7. (i < j /\ k < i => P(k) < j) /\ (j < i /\ i < k => j < P(k))
    BY <2>1, <2>2 DEF NewPlace
  <2> QED
    BY <2>3, <2>4, <2>5, <2>6, <2>7
<1> HIDE DEF P
<1>4. Unique(r)
  <2> SUFFICES ASSUME NEW m \in 1..n, NEW l \in 1..n, r[m].product = r[l].product
               PROVE  m = l
    BY <1>1 DEF Unique
  <2>1. PICK k \in 1..n : m = P(k)
    BY <1>1
  <2>2. PICK k2 \in 1..n : l = P(k2)
    BY <1>1
  <2>3. list[k].product = list[k2].product
    BY <1>1, <2>1, <2>2
  <2> QED
    BY <1>1, <2>1, <2>2, <2>3 DEF Unique
<1>5. ASSUME NEW x, NEW y
      PROVE  Precedes(r, x, y) <=>
               \E k, m \in 1..n : P(k) < P(m) /\ list[k].product = x /\ list[m].product = y
  <2>1. ASSUME Precedes(r, x, y)
        PROVE  \E k, m \in 1..n : P(k) < P(m) /\ list[k].product = x /\ list[m].product = y
    <3>1. PICK a, b \in 1..n : a < b /\ r[a].product = x /\ r[b].product = y
      BY <1>1, <2>1 DEF Precedes
    <3>2. PICK k \in 1..n : a = P(k)
      BY <1>1
    <3>3. PICK m \in 1..n : b = P(m)
      BY <1>1
    <3> QED
      BY <1>1, <3>1, <3>2, <3>3
  <2>2. ASSUME NEW k \in 1..n, NEW m \in 1..n, P(k) < P(m), list[k].product = x,
               list[m].product = y
        PROVE  Precedes(r, x, y)
    <3>1. P(k) \in 1..n /\ P(m) \in 1..n /\ r[P(k)].product = x /\ r[P(m)].product = y
      BY <1>1, <1>3, <2>2
    <3> QED
      BY <1>1, <2>2, <3>1 DEF Precedes
  <2> QED
    BY <2>1, <2>2
<1>6. ASSUME NEW x, NEW y
      PROVE  Precedes(list, x, y) <=>
               \E k, m \in 1..n : k < m /\ list[k].product = x /\ list[m].product = y
  BY <1>1 DEF Precedes
<1> DEFINE p == list[i].product
           q == list[j].product
<1>7. \A k \in 1..n : list[k].product = p => k = i
  BY <1>1, <1>2 DEF Unique
<1>8. ASSUME NEW x, NEW y, x # p, y # p
      PROVE  Precedes(r, x, y) <=> Precedes(list, x, y)
  <2>1. ASSUME NEW k \in 1..n, NEW m \in 1..n, list[k].product = x, list[m].product = y
        PROVE  P(k) < P(m) <=> k < m
    BY <1>3, <1>8, <2>1
  <2> QED
    BY <1>5, <1>6, <2>1
<1>9. ASSUME i < j
      PROVE  /\ Precedes(r, q, p)
             /\ \A x : Precedes(list, x, p) => Precedes(r, x, p)
  <2>1. Precedes(r, q, p)
    BY <1>2, <1>3, <1>5, <1>9
  <2>2. ASSUME NEW x, Precedes(list, x, p) PROVE Precedes(r, x, p)
    <3>1. PICK k \in 1..n : k < i /\ list[k].product = x
      BY <1>6, <1>7, <2>2
    <3> QED
      BY <1>2, <1>3, <1>5, <1>9, <3>1
  <2> QED
    BY <2>1, <2>2
<1>10. ASSUME j < i
       PROVE  /\ Precedes(r, p, q)
              /\ \A x : Precedes(list, p, x) => Precedes(r, p, x)
  <2>1. Precedes(r, p, q)
    BY <1>2, <1>3, <1>5, <1>10
  <2>2. ASSUME NEW x, Precedes(list, p, x) PROVE Precedes(r, p, x)
    <3>1. PICK k \in 1..n : i < k /\ list[k].product = x
      BY <1>6, <1>7, <2>2
    <3> QED
      BY <1>2, <1>3, <1>5, <1>10, <3>1
  <2> QED
    BY <2>1, <2>2
<1> QED
  BY <1>4, <1>8, <1>9, <1>10

\* What the assumption says of the request.
LEMMA RequestOf ==
  ASSUME request \in SortRequests
  PROVE  /\ IsFiniteSet(ProductIds) /\ ProductIds \subseteq Nat
         /\ request.wanted \in Seq([product: ProductIds, action: Actions \cup {"none"}])
         /\ request.dependencies \in [ProductIds -> Seq(Dependency)]
         /\ request.priority \in [ProductIds -> Int]
         /\ \A p \in ProductIds : \A i \in 1..Len(request.dependencies[p]) :
              /\ request.dependencies[p][i] \in Dependency
              /\ request.dependencies[p][i].from = p
<1>1. IsRequest(request)
  BY SorterAssumption
<1>2. ASSUME NEW p \in ProductIds, NEW i \in 1..Len(request.dependencies[p])
      PROVE  /\ request.dependencies[p][i] \in Dependency
             /\ request.dependencies[p][i].from = p
  <2>1. request.dependencies[p] \in Seq(Dependency)
    BY <1>1 DEF IsRequest
  <2>2. DOMAIN request.dependencies[p] = 1..Len(request.dependencies[p])
    BY <2>1
  <2> QED
    BY <1>1, <1>2, <2>1, <2>2 DEF IsRequest
<1> QED
  BY <1>1, <1>2, SorterAssumption DEF IsRequest

\* A move keeps the actions of a list.
LEMMA MoveKeeps ==
  ASSUME NEW list \in Seq(Action), Unique(list), NEW d, d.from \in Members(list)
  PROVE  LET r == Move(list, d)
         IN  /\ r \in Seq(Action) /\ Len(r) = Len(list)
             /\ ToSet(r) = ToSet(list) /\ Unique(r)
             /\ Popped(list, d) \in 1..Len(list)
<1>1. /\ DOMAIN list = 1..Len(list) /\ Len(list) \in Nat
      /\ \A x : x \in Members(list) <=> \E i \in 1..Len(list) : list[i].product = x
  BY DEF Members
<1>2. Position(list, d.from) \in 1..Len(list)
  BY <1>1 DEF Position
<1>3. Popped(list, d) \in 1..Len(list)
  BY <1>1, <1>2 DEF Popped, Position
<1>4. Violated(list, d) => Move(list, d) = Moved(list, Popped(list, d), Position(list, d.from))
  BY DEF Move, Moved
<1>5. ~Violated(list, d) => Move(list, d) = list
  BY DEF Move
<1>6. CASE Violated(list, d)
  <2> PICK r : r = Moved(list, Popped(list, d), Position(list, d.from))
    OBVIOUS
  <2>1. r \in Seq(Action) /\ Len(r) = Len(list) /\ ToSet(r) = ToSet(list)
    BY <1>2, <1>3, MovedPlaces
  <2>2. Unique(r)
    BY <1>2, <1>3, MovedOrder
  <2> QED
    BY <1>3, <1>4, <1>6, <2>1, <2>2
<1>7. CASE ~Violated(list, d)
  BY <1>3, <1>5, <1>7
<1> QED
  BY <1>6, <1>7

\* What is required is where it has to be after the move. It still is on that
\* side of whatever else needs it, and nothing else changes its place.
LEMMA MoveLeads ==
  ASSUME NEW list \in Seq(Action), Unique(list), NEW d, NEW kind \in {"before", "after"},
         d.type = kind, d.from \in Members(list), d.on \in Members(list), d.on # d.from
  PROVE  LET r == Move(list, d)
         IN  /\ Violated(list, d) <=> ~Leads(kind, list, d.on, d.from)
             /\ Leads(kind, list, d.from, d.on) <=> ~Leads(kind, list, d.on, d.from)
             /\ Violated(list, d) =>
                  /\ list[Popped(list, d)].product = d.on
                  /\ Leads(kind, r, d.on, d.from)
                  /\ \A x : Leads(kind, list, d.on, x) => Leads(kind, r, d.on, x)
                  /\ \A x, y : x # d.on /\ y # d.on =>
                       (Leads(kind, r, x, y) <=> Leads(kind, list, x, y))
<1> DEFINE i == Position(list, d.on)
           j == Position(list, d.from)
           r == Moved(list, i, j)
<1>1. /\ Precedes(list, d.on, d.from) <=> ~Precedes(list, d.from, d.on)
      /\ Precedes(list, d.on, d.from) <=> i < j
      /\ i \in 1..Len(list) /\ list[i].product = d.on
      /\ Precedes(list, d.from, d.on) <=> j < i
      /\ j \in 1..Len(list) /\ list[j].product = d.from
  BY OrderOf
<1>2. Popped(list, d) = i
  BY <1>1 DEF Popped
<1>3. /\ Violated(list, d) <=> IF kind = "before" THEN j < i ELSE i < j
      /\ Violated(list, d) => Move(list, d) = r
  <2>1. Violated(list, d) <=> (kind = "before" /\ i > j) \/ (kind = "after" /\ i < j)
    BY DEF Violated
  <2>2. Len(list) \in Nat
    OBVIOUS
  <2>3. i \in Int /\ j \in Int
    BY <1>1, <2>2
  <2>4. Violated(list, d) => Move(list, d) = r
    BY <1>2 DEF Move, Moved
  <2> HIDE DEF i, j
  <2> QED
    BY <2>1, <2>3, <2>4
<1>4. /\ \A x, y : x # d.on /\ y # d.on => (Precedes(r, x, y) <=> Precedes(list, x, y))
      /\ i < j => /\ Precedes(r, d.from, d.on)
                  /\ \A x : Precedes(list, x, d.on) => Precedes(r, x, d.on)
      /\ j < i => /\ Precedes(r, d.on, d.from)
                  /\ \A x : Precedes(list, d.on, x) => Precedes(r, d.on, x)
  <2> HIDE DEF i, j
  <2> QED
    BY <1>1, MovedOrder
<1> HIDE DEF i, j, r
<1>5. CASE kind = "before"
  BY <1>1, <1>2, <1>3, <1>4, <1>5 DEF Leads
<1>6. CASE kind = "after"
  BY <1>1, <1>2, <1>3, <1>4, <1>6 DEF Leads
<1> QED
  BY <1>5, <1>6

\* In a set of products there is one that none of them needs.
LEMMA NotNeeded ==
  ASSUME NEW kind \in {"before", "after"}, OneKind(kind), IsFiniteSet(ProductIds),
         NEW S \in SUBSET ProductIds, S # {}
  PROVE  \E p \in S : \A d \in Recorded : d.on = p => d.from \notin S
<1>1. \A d \in Recorded : d.type = kind
  BY DEF OneKind
<1>2. ASSUME NEW T \in SUBSET ProductIds, T # {}
      PROVE  \E q \in T : \A p \in T : <<p, q>> \notin Before(Recorded)
  BY <1>2 DEF OneKind, Acyclic
<1>3. CASE kind = "after"
  <2>1. PICK q \in S : \A p \in S : <<p, q>> \notin Before(Recorded)
    BY <1>2
  <2>2. ASSUME NEW d \in Recorded, d.on = q PROVE <<d.from, q>> \in Before(Recorded)
    BY <1>1, <1>3, <2>2 DEF Before
  <2> QED
    BY <2>1, <2>2
<1>4. CASE kind = "before"
  <2> DEFINE Needed(T) == \A p \in T : \E d \in Recorded : d.on = p /\ d.from \in T
             B == {T \in SUBSET ProductIds : T # {} /\ Needed(T)}
  <2> SUFFICES ASSUME S \in B PROVE FALSE
    OBVIOUS
  <2>1. PICK T \in B : \A x \in T : T \ {x} \notin B
    BY LeastSet
  <2>2. PICK q \in T : \A p \in T : <<p, q>> \notin Before(Recorded)
    BY <1>2
  <2>3. ASSUME NEW d \in Recorded, d.on \in T PROVE d.from # q
    <3>1. <<d.on, d.from>> \in Before(Recorded)
      BY <1>1, <1>4 DEF Before
    <3> QED
      BY <2>2, <2>3, <3>1
  <2>4. Needed(T \ {q})
    BY <2>1, <2>3
  <2>5. T \ {q} # {}
    <3>1. PICK d \in Recorded : d.on = q /\ d.from \in T
      BY <2>1
    <3> QED
      BY <2>3, <3>1
  <2> QED
    BY <2>1, <2>4, <2>5
<1> QED
  BY <1>3, <1>4

\* Of several actions one that is carried out counts.
LEMMA MergedOf ==
  ASSUME NEW list \in Seq(Actions \cup {"none"})
  PROVE  /\ Merged(list) \in Actions \cup {"none"}
         /\ (\E i \in DOMAIN list : list[i] # "none") => Merged(list) # "none"
         /\ Merged(list) # "none" => \E i \in DOMAIN list : list[i] = Merged(list)
<1> DEFINE real == {i \in DOMAIN list : list[i] # "none"}
           last == CHOOSE i \in real : \A j \in real : j <= i
<1>1. real = {} => Merged(list) = "none"
  BY DEF Merged
<1>2. ASSUME real # {} PROVE last \in real
  <2>1. real \subseteq 1..Len(list) /\ Len(list) \in Nat /\ real \subseteq Int
    OBVIOUS
  <2>2. IsFiniteSet(real)
    <3>1. IsFiniteSet(1..Len(list))
      BY <2>1, FS_Interval
    <3> QED
      BY <2>1, <3>1, FS_Subset
  <2> HIDE DEF real
  <2>3. \E i \in real : \A j \in real : j <= i
    BY <1>2, <2>1, <2>2, Bounds
  <2> QED
    BY <2>3
<1>3. real # {} => Merged(list) = list[last]
  BY DEF Merged
<1> HIDE DEF last
<1>4. real # {} => Merged(list) # "none" /\ Merged(list) \in Actions \cup {"none"} /\ last \in DOMAIN list
  BY <1>2, <1>3
<1> QED
  BY <1>1, <1>3, <1>4

\* Each product of a group has the action its actions merge to.
LEMMA ActionsOfProducts ==
  ASSUME found \in [ProductIds -> Seq(Actions \cup {"none"})], NEW products \in SUBSET ProductIds
  PROVE  /\ ActionsOf(products) \subseteq Action
         /\ IsFiniteSet(ProductIds) => IsFiniteSet(ActionsOf(products))
         /\ \A a \in ActionsOf(products) :
              /\ a.product \in products /\ found[a.product] # <<>>
              /\ a.action = Merged(found[a.product])
         /\ \A p \in products : found[p] # <<>> =>
              \E a \in ActionsOf(products) : a.product = p
<1>1. \A p \in ProductIds : Merged(found[p]) \in Actions \cup {"none"}
  BY MergedOf
<1>2. ASSUME IsFiniteSet(ProductIds) PROVE IsFiniteSet(ActionsOf(products))
  <2> DEFINE f == [p \in Acting(products) |-> [product |-> p, action |-> Merged(found[p])]]
  <2>1. f \in Surjection(Acting(products), ActionsOf(products))
    BY DEF Surjection, ActionsOf
  <2>2. IsFiniteSet(Acting(products))
    <3>1. Acting(products) \in SUBSET ProductIds
      BY DEF Acting
    <3> QED
      BY <1>2, <3>1, FS_Subset
  <2> HIDE DEF f
  <2> QED
    BY <2>1, <2>2, FS_Surjection
<1>3. ActionsOf(products) \subseteq Action
  BY <1>1 DEF ActionsOf, Acting, Action
<1>4. ASSUME NEW a \in ActionsOf(products)
      PROVE  /\ a.product \in products /\ found[a.product] # <<>>
             /\ a.action = Merged(found[a.product])
  BY DEF ActionsOf, Acting
<1>5. ASSUME NEW p \in products, found[p] # <<>>
      PROVE  \E a \in ActionsOf(products) : a.product = p
  <2>1. [product |-> p, action |-> Merged(found[p])] \in ActionsOf(products)
    BY <1>5 DEF ActionsOf, Acting
  <2> QED
    BY <2>1
<1> QED
  BY <1>2, <1>3, <1>4, <1>5

\* The priority of a group is a number.
LEMMA PriorityType ==
  ASSUME request \in SortRequests, NEW list \in Seq(Action)
  PROVE  GroupPriority(list) \in Int
<1> DEFINE f == [i \in 1..Len(list) |-> request.priority[list[i].product]]
           own == {request.priority[list[i].product] : i \in DOMAIN list}
           all == own \cup {0}
           highest == CHOOSE x \in all : \A y \in all : y <= x
           lowest == CHOOSE x \in all : \A y \in all : x <= y
<1>1. DOMAIN list = 1..Len(list) /\ Len(list) \in Nat
  OBVIOUS
<1>2. own \subseteq Int
  <2>1. \A i \in 1..Len(list) : list[i].product \in ProductIds
    <3>1. \A i \in 1..Len(list) : list[i] \in Action
      OBVIOUS
    <3> QED
      BY <3>1 DEF Action
  <2> QED
    BY <1>1, <2>1, RequestOf
<1>3. IsFiniteSet(own)
  <2>1. f \in Surjection(1..Len(list), own)
    BY <1>1 DEF Surjection
  <2>2. IsFiniteSet(1..Len(list))
    BY <1>1, FS_Interval
  <2> HIDE DEF f, own
  <2> QED
    BY <2>1, <2>2, FS_Surjection
<1>4. IsFiniteSet(all) /\ all \subseteq Int /\ all # {}
  <2> HIDE DEF own
  <2> QED
    BY <1>2, <1>3, FS_AddElement
<1>5. GroupPriority(list) = IF highest > 0 THEN highest ELSE lowest
  BY DEF GroupPriority
<1> HIDE DEF all
<1>6. highest \in all /\ lowest \in all
  BY <1>4, Bounds
<1> HIDE DEF highest, lowest
<1> QED
  BY <1>4, <1>5, <1>6

\* Sorting makes a list of the actions, one for each product.
LEMMA SortedActions ==
  ASSUME request \in SortRequests, NEW set \in SUBSET Action, IsFiniteSet(set),
         NEW list \in ByPriority(set)
  PROVE  list \in Seq(Action) /\ ToSet(list) = set /\ Unique(list)
<1> DEFINE n == Cardinality(set)
<1>1. /\ list \in [1..n -> set] /\ ToSet(list) = set
      /\ \A i, j \in DOMAIN list : i < j => ComesFirst(list[i], list[j])
  BY DEF ByPriority
<1>2. n \in Nat
  BY FS_CardinalityType
<1> HIDE DEF n
<1>3. list \in Seq(Action) /\ DOMAIN list = 1..n
  BY <1>1, <1>2
<1>4. ASSUME NEW a \in Action, NEW b \in Action, a.product = b.product
      PROVE  ~ComesFirst(a, b)
  <2>1. a.product \in Nat /\ request.priority[a.product] \in Int
    BY RequestOf DEF Action
  <2> QED
    BY <1>4, <2>1 DEF ComesFirst
<1>5. \A i \in 1..n : list[i] \in Action
  BY <1>1
<1>6. ASSUME NEW i \in 1..n, NEW j \in 1..n, list[i].product = list[j].product
      PROVE  i = j
  <2>1. ~ComesFirst(list[i], list[j]) /\ ~ComesFirst(list[j], list[i])
    BY <1>4, <1>5, <1>6
  <2>2. ~(i < j) /\ ~(j < i)
    BY <1>1, <1>3, <2>1
  <2> QED
    BY <1>2, <2>2
<1> QED
  BY <1>1, <1>3, <1>6 DEF Unique

\* Linking two products keeps the sets apart, and together what they hold.
LEMMA Linked ==
  ASSUME NEW sets \in Seq(SUBSET ProductIds), Apart(sets),
         NEW p \in ProductIds, NEW q \in ProductIds
  PROVE  LET r == LinkProducts(sets, p, q)
         IN  /\ r \in Seq(SUBSET ProductIds) /\ Apart(r)
             /\ \A i \in DOMAIN sets : \E j \in DOMAIN r : sets[i] \subseteq r[j]
             /\ \E j \in DOMAIN r : {p, q} \subseteq r[j]
<1> DEFINE with == {i \in DOMAIN sets : sets[i] \cap {p, q} # {}}
           first == CHOOSE i \in with : \A j \in with : i <= j
           last == CHOOSE i \in with : \A j \in with : i >= j
           whole == sets[first] \cup sets[last] \cup {p, q}
           joined == [sets EXCEPT ![first] = sets[first] \cup sets[last] \cup {p, q}]
           r == LinkProducts(sets, p, q)
           more == Append(sets, {p, q})
           n == Len(sets)
<1>1. n \in Nat /\ DOMAIN sets = 1..n /\ with \subseteq 1..n
  OBVIOUS
<1>2. r = IF with = {} THEN more
          ELSE IF first = last THEN joined ELSE RemoveAt(joined, last)
  BY DEF LinkProducts
<1>3. CASE with = {}
  <2>1. r = Append(sets, {p, q})
    <3> HIDE DEF with, first, last, joined, r, more
    <3>1. r = more
      BY <1>2, <1>3
    <3> QED
      BY <3>1 DEF more
  <2>2. /\ Append(sets, {p, q}) \in Seq(SUBSET ProductIds)
        /\ Len(Append(sets, {p, q})) = n + 1
        /\ \A k \in 1..(n + 1) : Append(sets, {p, q})[k] = IF k = n + 1 THEN {p, q} ELSE sets[k]
    <3>1. {p, q} \in SUBSET ProductIds
      OBVIOUS
    <3> QED
      BY <3>1, Appended
  <2>3. /\ r \in Seq(SUBSET ProductIds) /\ DOMAIN r = 1..(n + 1)
        /\ \A k \in 1..n : r[k] = sets[k] /\ k \in 1..(n + 1)
        /\ r[n + 1] = {p, q} /\ n + 1 \in 1..(n + 1)
    BY <1>1, <2>1, <2>2
  <2>4. \A k \in 1..n : sets[k] \cap {p, q} = {}
    BY <1>1, <1>3
  <2> HIDE DEF r, n, with
  <2>5. Apart(r)
    <3> SUFFICES ASSUME NEW i \in 1..(n + 1), NEW j \in 1..(n + 1), r[i] \cap r[j] # {}
                 PROVE  i = j
      BY <2>3 DEF Apart
    <3>1. (i \in 1..n \/ i = n + 1) /\ (j \in 1..n \/ j = n + 1)
      BY <1>1
    <3>2. CASE i \in 1..n /\ j \in 1..n
      BY <1>1, <2>3, <3>2 DEF Apart
    <3> QED
      BY <2>3, <2>4, <3>1, <3>2
  <2> QED
    BY <1>1, <2>3, <2>5 DEF r
<1>4. CASE with # {}
  <2>1. first \in with /\ last \in with /\ \A j \in with : first <= j /\ j <= last
    <3>1. IsFiniteSet(with) /\ with \subseteq Int
      <4>1. IsFiniteSet(1..n)
        BY <1>1, FS_Interval
      <4> HIDE DEF with, n
      <4> QED
        <5>1. with \in SUBSET (1..n) /\ 1..n \subseteq Int
          BY <1>1
        <5> QED
          BY <4>1, <5>1, FS_Subset
    <3> HIDE DEF with
    <3>2. (\E m \in with : \A j \in with : j <= m) /\ (\E m \in with : \A j \in with : m <= j)
      BY <1>4, <3>1, Bounds
    <3>3. \A i, j \in with : (i >= j <=> j <= i)
      BY <3>1
    <3>4. \E m \in with : \A j \in with : m >= j
      BY <3>2, <3>3
    <3>5. first \in with /\ \A j \in with : first <= j
      BY <3>2
    <3>6. last \in with /\ \A j \in with : last >= j
      BY <3>4
    <3> QED
      BY <3>3, <3>5, <3>6
  <2> HIDE DEF first, last
  <2>2. first \in 1..n /\ last \in 1..n
    BY <1>1, <2>1
  <2>3. \A i \in with : i = first \/ i = last
    <3> SUFFICES ASSUME NEW i \in with, i # first, i # last PROVE FALSE
      OBVIOUS
    <3>1. PICK x \in {p, q} : x \in sets[i]
      OBVIOUS
    <3>2. PICK y \in {p, q} : y \in sets[first]
      BY <2>1
    <3>3. PICK z \in {p, q} : z \in sets[last]
      BY <2>1
    <3>4. i \in 1..n
      OBVIOUS
    <3>5. x # y /\ x # z
      BY <1>1, <2>2, <3>1, <3>2, <3>3, <3>4 DEF Apart
    <3>6. y = z
      BY <3>5
    <3>7. first = last
      BY <1>1, <2>2, <3>2, <3>3, <3>6 DEF Apart
    <3> QED
      BY <1>1, <2>1, <2>2, <3>4, <3>7
  <2>4. /\ joined \in Seq(SUBSET ProductIds) /\ Len(joined) = n /\ DOMAIN joined = 1..n
        /\ \A k \in 1..n : joined[k] = IF k = first THEN whole ELSE sets[k]
    BY <1>1, <2>2
  <2>5. /\ sets[first] \subseteq whole /\ sets[last] \subseteq whole /\ {p, q} \subseteq whole
        /\ whole \subseteq sets[first] \cup sets[last] \cup {p, q}
    OBVIOUS
  <2>6. ASSUME NEW k \in 1..n, k # first, k # last PROVE sets[k] \cap whole = {}
    <3>1. k \notin with
      BY <2>3, <2>6
    <3>2. sets[k] \cap {p, q} = {}
      BY <1>1, <3>1
    <3>3. sets[k] \cap sets[first] = {} /\ sets[k] \cap sets[last] = {}
      BY <1>1, <2>2, <2>6 DEF Apart
    <3> QED
      BY <3>2, <3>3
  <2> HIDE DEF whole, joined
  <2>7. CASE first = last
    <3>1. r = joined
      BY <1>2, <1>4, <2>7
    <3> HIDE DEF r
    <3>2. Apart(joined)
      <4> SUFFICES ASSUME NEW i \in 1..n, NEW j \in 1..n, joined[i] \cap joined[j] # {}, i # j
                   PROVE  FALSE
        BY <2>4 DEF Apart
      <4>1. CASE i # first /\ j # first
        BY <1>1, <2>4, <4>1 DEF Apart
      <4>2. CASE i = first
        BY <2>4, <2>6, <2>7, <4>2
      <4>3. CASE j = first
        BY <2>4, <2>6, <2>7, <4>3
      <4> QED
        BY <4>1, <4>2, <4>3
    <3>3. \A i \in 1..n : sets[i] \subseteq joined[i]
      BY <2>4, <2>5
    <3> QED
      BY <1>1, <2>2, <2>4, <2>5, <3>1, <3>2, <3>3 DEF r
  <2>8. CASE first # last
    <3>1. r = RemoveAt(joined, last)
      BY <1>2, <1>4, <2>8
    <3>2. /\ r \in Seq(SUBSET ProductIds) /\ Len(r) = n - 1
          /\ \A k \in 1..Len(r) : r[k] = IF k < last THEN joined[k] ELSE joined[k + 1]
      <4>1. last \in 1..Len(joined)
        <5>1. Len(joined) = n
          BY <2>4
        <5>2. last \in 1..n
          BY <2>2, Zenon
        <5> QED
          BY <5>1, <5>2
      <4> HIDE DEF r
      <4>2. LET u == RemoveAt(joined, last)
            IN  /\ u \in Seq(SUBSET ProductIds) /\ Len(u) = Len(joined) - 1
                /\ \A k \in 1..Len(u) : u[k] = IF k < last THEN joined[k] ELSE joined[k + 1]
        BY <2>4, <4>1, Removed
      <4> QED
        BY <2>4, <3>1, <4>2
    <3> HIDE DEF r
    <3>3. DOMAIN r = 1..(n - 1)
      BY <3>2
    <3> DEFINE Old(k) == IF k < last THEN k ELSE k + 1
    <3>4. ASSUME NEW k \in 1..(n - 1)
          PROVE  Old(k) \in 1..n /\ Old(k) # last /\ r[k] = joined[Old(k)]
      BY <1>1, <2>2, <3>2
    <3>5. \A i, j \in 1..(n - 1) : Old(i) = Old(j) => i = j
      BY <1>1, <2>2
    <3>6. ASSUME NEW i \in 1..n, i # last PROVE \E k \in 1..(n - 1) : Old(k) = i
      <4>1. CASE i < last
        <5>1. i \in 1..(n - 1) /\ Old(i) = i
          BY <1>1, <2>2, <4>1
        <5> QED
          BY <5>1
      <4>2. CASE ~(i < last)
        <5>1. i - 1 \in 1..(n - 1) /\ Old(i - 1) = i
          BY <1>1, <2>2, <3>6, <4>2
        <5> QED
          BY <5>1
      <4> QED
        BY <4>1, <4>2
    <3> HIDE DEF Old
    <3>7. Apart(r)
      <4> SUFFICES ASSUME NEW i \in 1..(n - 1), NEW j \in 1..(n - 1), r[i] \cap r[j] # {}, i # j
                   PROVE  FALSE
        BY <3>3 DEF Apart
      <4> DEFINE a == Old(i)
                 b == Old(j)
      <4>1. /\ a \in 1..n /\ b \in 1..n /\ a # last /\ b # last /\ a # b
            /\ joined[a] \cap joined[b] # {}
        BY <3>4, <3>5
      <4> HIDE DEF a, b
      <4>2. CASE a # first /\ b # first
        BY <1>1, <2>4, <4>1, <4>2 DEF Apart
      <4>3. CASE a = first
        BY <2>4, <2>6, <4>1, <4>3
      <4>4. CASE b = first
        BY <2>4, <2>6, <4>1, <4>4
      <4> QED
        BY <4>2, <4>3, <4>4
    <3>8. PICK f \in 1..(n - 1) : r[f] = whole
      <4>1. joined[first] = whole /\ first \in 1..n
        BY <2>2, <2>4
      <4>2. PICK k \in 1..(n - 1) : Old(k) = first
        BY <2>8, <3>6, <4>1
      <4> QED
        BY <3>4, <4>1, <4>2
    <3>9. ASSUME NEW i \in 1..n PROVE \E j \in 1..(n - 1) : sets[i] \subseteq r[j]
      <4>1. CASE i = first \/ i = last
        BY <2>5, <3>8, <4>1
      <4>2. CASE i # first /\ i # last
        BY <2>4, <3>4, <3>6, <4>2
      <4> QED
        BY <4>1, <4>2
    <3> QED
      BY <1>1, <2>5, <3>2, <3>3, <3>7, <3>8, <3>9 DEF r
  <2> QED
    BY <2>7, <2>8
<1> QED
  BY <1>3, <1>4

-----------------------------------------------------------------------------
(* ActionGroups: collecting and searching.                                 *)

\* Nothing is found or recorded before the first action is added.
LEMMA SorterInitial ==
  ASSUME SorterInit PROVE SorterInv
<1>1. /\ request \in SortRequests /\ stage = "add" /\ groups = <<>> /\ met = <<>> /\ stack = <<>>
      /\ found = [p \in ProductIds |-> <<>>] /\ hard = [p \in ProductIds |-> <<>>]
      /\ linked = <<>>
  BY DEF SorterInit
<1>2. SorterTypeOK
  BY DEF SorterInit, SorterTypeOK, SorterStages
<1>3. CallsInv
  BY <1>1 DEF CallsInv
<1>4. FoundInv
  BY <1>1 DEF FoundInv, Unrepeated, ToSet
<1>5. LinkInv
  BY <1>1 DEF LinkInv, Apart, ToSet
<1>6. SortInv
  BY <1>1 DEF SortInv
<1>7. GroupInv
  BY <1>1 DEF GroupInv
<1> QED
  BY <1>2, <1>3, <1>4, <1>5, <1>6, <1>7 DEF SorterInv

\* What is obeyed remains so.
LEMMA ObeysOn ==
  ASSUME SorterTypeOK, request' = request, \A p \in ProductIds : Real(p) => Real(p)',
         NEW p \in ProductIds, NEW action, NEW n \in 0..Len(request.dependencies[p]),
         Obeys(p, action, n)
  PROVE  Obeys(p, action, n)'
<1> USE DEF SorterTypeOK
<1> SUFFICES ASSUME p \in request.available, NEW i \in 1..n,
                    request.dependencies[p][i].action = action
             PROVE  Obeyed(request.dependencies[p][i])'
  BY DEF Obeys
<1> PICK d : d = request.dependencies[p][i]
  OBVIOUS
<1>1. Obeyed(d)
  BY DEF Obeys
<1>2. i \in 1..Len(request.dependencies[p])
  <2>1. request.dependencies[p] \in Seq(Dependency)
    BY RequestOf
  <2> QED
    BY <2>1
<1>3. d.on \in ProductIds
  <2>1. d \in Dependency
    BY <1>2, RequestOf
  <2> QED
    BY <2>1 DEF Dependency
<1>4. Obeyed(d)'
  BY <1>1, <1>3 DEF Obeyed, Settled
<1> QED
  BY <1>4

\* What Find does.
LEMMA Finds ==
  ASSUME SorterTypeOK, FoundInv, NEW q \in ProductIds, NEW action \in Actions \cup {"none"},
         Find(q, action)
  PROVE  /\ found' \in [ProductIds -> Seq(Actions \cup {"none"})] /\ met' \in Seq(ProductIds)
         /\ \A p \in ProductIds : found'[p] # <<>> <=> p \in ToSet(met')
         /\ Unrepeated(met')
         /\ \A p \in ProductIds : Real(p) => Real(p)'
         /\ action # "none" => Real(q)'
         /\ \A p \in ProductIds : p # q => found'[p] = found[p]
         /\ DOMAIN found'[q] = 1..(Len(found[q]) + 1) /\ found'[q][Len(found[q]) + 1] = action
         /\ \A i \in 1..Len(found[q]) : found'[q][i] = found[q][i]
         /\ \A p \in ProductIds : ToSet(found[p]) \subseteq ToSet(found'[p])
         /\ action \in ToSet(found'[q])
<1>1. /\ found \in [ProductIds -> Seq(Actions \cup {"none"})] /\ met \in Seq(ProductIds)
      /\ \A p \in ProductIds : found[p] # <<>> <=> p \in ToSet(met)
      /\ Unrepeated(met)
  BY DEF SorterTypeOK, FoundInv
<1>2. /\ found' = [found EXCEPT ![q] = Append(found[q], action)]
      /\ met' = IF found[q] = <<>> THEN Append(met, q) ELSE met
  BY DEF Find
<1> DEFINE list == Append(found[q], action)
           n == Len(found[q])
<1>3. /\ list \in Seq(Actions \cup {"none"}) /\ Len(list) = n + 1 /\ n \in Nat
      /\ list # <<>> /\ DOMAIN list = 1..(n + 1) /\ list[n + 1] = action
      /\ \A i \in 1..n : list[i] = found[q][i] /\ i \in DOMAIN list
      /\ DOMAIN found[q] = 1..n /\ n + 1 \in 1..(n + 1)
  <2>1. found[q] \in Seq(Actions \cup {"none"})
    BY <1>1
  <2>2. /\ list \in Seq(Actions \cup {"none"}) /\ Len(list) = n + 1
        /\ \A k \in 1..(n + 1) : list[k] = IF k = n + 1 THEN action ELSE found[q][k]
    BY <2>1, Appended
  <2>3. n \in Nat /\ DOMAIN found[q] = 1..n
    BY <2>1
  <2> HIDE DEF list, n
  <2> QED
    BY <2>2, <2>3
<1> HIDE DEF list, n
<1>4. /\ found' \in [ProductIds -> Seq(Actions \cup {"none"})]
      /\ found'[q] = list /\ \A p \in ProductIds : p # q => found'[p] = found[p]
  BY <1>1, <1>2, <1>3 DEF list
<1>5. /\ met' \in Seq(ProductIds)
      /\ \A p \in ProductIds : found'[p] # <<>> <=> p \in ToSet(met')
      /\ Unrepeated(met')
  <2>1. CASE found[q] # <<>>
    BY <1>1, <1>2, <1>3, <1>4, <2>1
  <2>2. CASE found[q] = <<>>
    <3> DEFINE m == Append(met, q)
               l == Len(met)
    <3>1. /\ m \in Seq(ProductIds) /\ Len(m) = l + 1 /\ l \in Nat /\ DOMAIN met = 1..l
          /\ \A k \in 1..(l + 1) : m[k] = IF k = l + 1 THEN q ELSE met[k]
      BY <1>1, Appended
    <3>2. met' = m
      BY <1>2, <2>2
    <3> HIDE DEF m, l
    <3>3. DOMAIN m = 1..(l + 1)
      BY <3>1
    <3>4. ToSet(m) = ToSet(met) \cup {q}
      BY <3>1, <3>3 DEF ToSet
    <3>5. q \notin ToSet(met)
      BY <1>1, <2>2
    <3>6. Unrepeated(m)
      <4> SUFFICES ASSUME NEW i \in 1..(l + 1), NEW j \in 1..(l + 1), m[i] = m[j]
                   PROVE  i = j
        BY <3>3 DEF Unrepeated
      <4>1. \A k \in 1..l : met[k] # q
        BY <3>1, <3>5 DEF ToSet
      <4>2. (i \in 1..l \/ i = l + 1) /\ (j \in 1..l \/ j = l + 1)
        BY <3>1
      <4>3. CASE i \in 1..l /\ j \in 1..l
        <5>1. met[i] = met[j]
          BY <3>1, <4>3
        <5> QED
          BY <1>1, <3>1, <4>3, <5>1 DEF Unrepeated
      <4>4. CASE i = l + 1 \/ j = l + 1
        BY <3>1, <4>1, <4>2, <4>4
      <4> QED
        BY <4>2, <4>3, <4>4
    <3> QED
      BY <1>1, <1>3, <1>4, <3>1, <3>2, <3>4, <3>6
  <2> QED
    BY <2>1, <2>2
<1>6. \A p \in ProductIds : Real(p) => Real(p)'
  BY <1>3, <1>4 DEF Real
<1>7. action # "none" => Real(q)'
  BY <1>3, <1>4 DEF Real
<1>8. \A p \in ProductIds : ToSet(found[p]) \subseteq ToSet(found'[p])
  <2>1. ToSet(found[q]) \subseteq ToSet(list)
    BY <1>3 DEF ToSet
  <2> QED
    BY <1>4, <2>1
<1>9. action \in ToSet(found'[q])
  BY <1>3, <1>4 DEF ToSet
<1> QED
  BY <1>3, <1>4, <1>5, <1>6, <1>7, <1>8, <1>9 DEF n

\* Before there are groups nothing is said of them.
LEMMA NoGroups ==
  ASSUME SorterInv, stage \in {"add", "search"}, stage' \in {"add", "search", "group"},
         groups' = groups, linked' \in Seq(SUBSET ProductIds)
  PROVE  SortInv' /\ GroupInv' /\ groups' \in Seq([priority: Int, actions: Seq(Action)])
<1>1. groups' = <<>>
  BY DEF SorterInv, GroupInv
<1>2. SortInv'
  BY DEF SortInv
<1>3. Len(linked') \in Nat /\ Len(groups') = 0 /\ DOMAIN groups' = {}
  BY <1>1
<1>4. GroupInv'
  BY <1>1, <1>3 DEF GroupInv
<1> QED
  BY <1>1, <1>2, <1>4

\* While the actions are added nothing is searched yet (add_product_on_client).
LEMMA CollectKeeps ==
  ASSUME SorterInv, Collect PROVE SorterInv'
<1> USE DEF SorterInv
<1>1. CASE AddProductOnClient
  <2>1. /\ stage = "add" /\ stage' = "add" /\ request' = request /\ todo' = todo
        /\ path' = path /\ stack' = stack /\ hard' = hard /\ linked' = linked
        /\ actions' = actions /\ copy' = copy /\ item' = item /\ next' = next /\ runs' = runs
        /\ moved' = moved /\ groups' = groups /\ turn' = turn + 1
    BY <1>1 DEF AddProductOnClient, searching, sorting
  <2>2. /\ found' \in [ProductIds -> Seq(Actions \cup {"none"})] /\ met' \in Seq(ProductIds)
        /\ \A p \in ProductIds : found'[p] # <<>> <=> p \in ToSet(met')
        /\ Unrepeated(met')
    <3>1. request.wanted \in Seq([product: ProductIds, action: Actions \cup {"none"}])
      BY RequestOf DEF SorterTypeOK
    <3>2. turn + 1 \in 1..Len(request.wanted)
      BY <1>1, <3>1 DEF AddProductOnClient, SorterTypeOK
    <3> DEFINE poc == request.wanted[turn + 1]
    <3>3. poc \in [product: ProductIds, action: Actions \cup {"none"}]
      BY <3>1, <3>2, ElementOfSeq
    <3>4. CASE Find(poc.product, poc.action)
      <4>1. poc.product \in ProductIds /\ poc.action \in Actions \cup {"none"}
        BY <3>3
      <4> HIDE DEF poc
      <4> QED
        BY <3>4, <4>1, Finds
    <3>5. CASE UNCHANGED <<found, met>>
      BY <3>5 DEF FoundInv, SorterTypeOK
    <3> QED
      BY <1>1, <3>4, <3>5 DEF AddProductOnClient
  <2>3. SortInv' /\ GroupInv'
    BY <2>1, NoGroups DEF SorterTypeOK
  <2>4. SorterTypeOK'
    BY <2>1, <2>2 DEF SorterTypeOK
  <2>5. CallsInv'
    BY <2>1 DEF CallsInv
  <2>6. FoundInv'
    BY <2>1, <2>2 DEF FoundInv
  <2>7. LinkInv'
    BY <2>1 DEF LinkInv
  <2> QED
    BY <2>3, <2>4, <2>5, <2>6, <2>7
<1>2. CASE AllAdded
  <2>1. /\ stage = "add" /\ stage' = "search" /\ request' = request /\ todo' = met /\ turn' = 0
        /\ path' = path /\ stack' = stack /\ hard' = hard /\ linked' = linked
        /\ actions' = actions /\ copy' = copy /\ item' = item /\ next' = next /\ runs' = runs
        /\ moved' = moved /\ groups' = groups /\ found' = found /\ met' = met
    BY <1>2 DEF AllAdded, searching, sorting
  <2>2. SortInv' /\ GroupInv'
    BY <2>1, NoGroups DEF SorterTypeOK
  <2>3. SorterTypeOK'
    BY <2>1 DEF SorterTypeOK, SorterStages
  <2>4. CallsInv'
    BY <2>1 DEF CallsInv
  <2>5. FoundInv'
    <3>1. ASSUME NEW p \in ProductIds, NEW i \in DOMAIN found[p] PROVE ToCome(p, i)'
      <4>1. found[p] \in Seq(Actions \cup {"none"})
        BY DEF SorterTypeOK
      <4>2. found[p] # <<>> /\ i \in Nat /\ i > 0
        BY <4>1, <3>1
      <4>3. p \in ToSet(met)
        BY <4>2 DEF FoundInv
      <4>4. PICK k \in DOMAIN met : met[k] = p
        BY <4>3 DEF ToSet
      <4>5. met \in Seq(ProductIds)
        BY DEF SorterTypeOK
      <4>6. k \in Nat /\ k >= 1 /\ met # <<>>
        BY <4>4, <4>5
      <4> QED
        BY <2>1, <4>2, <4>4, <4>6 DEF ToCome
    <3> QED
      BY <2>1, <3>1 DEF FoundInv
  <2>6. LinkInv'
    BY <2>1 DEF LinkInv
  <2> QED
    BY <2>2, <2>3, <2>4, <2>5, <2>6
<1> QED
  BY <1>1, <1>2 DEF Collect

\* The calls and what they have found are not changed by later stages.
LEMMA FoundStays ==
  ASSUME SorterInv, stage \notin {"add", "search"}, stage' \notin {"add", "search"},
         request' = request, found' = found, met' = met, stack' = stack
  PROVE  CallsInv' /\ FoundInv'
<1> USE DEF SorterInv
<1>1. stack = <<>> /\ stack' = <<>>
  BY DEF CallsInv
<1>2. CallsInv'
  BY <1>1 DEF CallsInv
<1>3. ASSUME NEW p \in ProductIds, NEW i \in DOMAIN found[p], Searched(p, found[p][i])
      PROVE  Searched(p, found[p][i])'
  BY <1>3 DEF Searched, Obeys, Obeyed, Real, Settled, Fulfilled
<1>4. FoundInv'
  BY <1>3 DEF FoundInv
<1> QED
  BY <1>2, <1>4

\* A dependency that a call is at.
LEMMA PresentOf ==
  ASSUME SorterInv, Looping
  PROVE  /\ Len(stack) \in 1..Len(stack) /\ Top = stack[Len(stack)] /\ Top \in SearchCall
         /\ Top.next \in 1..Len(request.dependencies[Top.product])
         /\ Present \in Dependency /\ Present.from = Top.product
         /\ GoesOn(Top) /\ stage = "search" /\ stack # <<>>
<1>1. stack \in Seq(SearchCall) /\ stack # <<>> /\ stage = "search"
  BY DEF SorterInv, SorterTypeOK, Looping
<1>2. Len(stack) \in 1..Len(stack) /\ Top = stack[Len(stack)] /\ Top \in SearchCall
      /\ DOMAIN stack = 1..Len(stack)
  BY <1>1 DEF Top
<1>3. Top.product \in ProductIds /\ Top.next \in Nat \ {0}
  BY <1>2 DEF SearchCall
<1>4. request.dependencies[Top.product] \in Seq(Dependency)
  BY <1>3, RequestOf DEF SorterInv, SorterTypeOK
<1>5. Top.next \in 1..Len(request.dependencies[Top.product])
  BY <1>3, <1>4 DEF Looping
<1>6. Present \in Dependency /\ Present.from = Top.product
  BY <1>3, <1>5, RequestOf DEF Present, SorterInv, SorterTypeOK
<1>7. GoesOn(Top)
  BY <1>2 DEF SorterInv, CallsInv
<1> QED
  BY <1>1, <1>2, <1>5, <1>6, <1>7

\* What a requirement that is recorded links.
LEMMA RequirementKeeps ==
  ASSUME SorterInv, NEW d \in Dependency, AddRequirement(d)
  PROVE  /\ hard' \in [ProductIds -> Seq(Dependency)] /\ linked' \in Seq(SUBSET ProductIds)
         /\ LinkInv'
<1> USE DEF SorterInv, SorterTypeOK
<1>1. /\ linked \in Seq(SUBSET ProductIds) /\ Apart(linked)
      /\ \A p \in ProductIds : \A e \in ToSet(hard[p]) :
           e.from = p /\ e.type # "any" /\ \E i \in DOMAIN linked : {p, e.on} \subseteq linked[i]
  BY DEF LinkInv
<1>2. CASE UNCHANGED <<hard, linked>>
  BY <1>1, <1>2 DEF LinkInv
<1>3. CASE /\ d.type # "any"
           /\ hard' = [hard EXCEPT ![d.from] = Append(@, d)]
           /\ linked' = LinkProducts(linked, d.from, d.on)
  <2>1. d.from \in ProductIds /\ d.on \in ProductIds
    BY DEF Dependency
  <2>2. /\ linked' \in Seq(SUBSET ProductIds) /\ Apart(linked')
        /\ \A i \in DOMAIN linked : \E j \in DOMAIN linked' : linked[i] \subseteq linked'[j]
        /\ \E j \in DOMAIN linked' : {d.from, d.on} \subseteq linked'[j]
    <3>1. LET r == LinkProducts(linked, d.from, d.on)
          IN  /\ r \in Seq(SUBSET ProductIds) /\ Apart(r)
              /\ \A i \in DOMAIN linked : \E j \in DOMAIN r : linked[i] \subseteq r[j]
              /\ \E j \in DOMAIN r : {d.from, d.on} \subseteq r[j]
      BY <1>1, <2>1, Linked
    <3> QED
      BY <1>3, <3>1
  <2> PICK old : old = hard[d.from]
    OBVIOUS
  <2> DEFINE list == Append(old, d)
  <2>3. list \in Seq(Dependency) /\ ToSet(list) = ToSet(hard[d.from]) \cup {d}
    <3>1. old \in Seq(Dependency)
      BY <2>1
    <3> HIDE DEF Dependency
    <3> QED
      BY <3>1, ToSetOfAppend
  <2>4. hard' = [hard EXCEPT ![d.from] = list]
    BY <1>3
  <2> HIDE DEF list
  <2>5. hard' \in [ProductIds -> Seq(Dependency)]
    BY <2>3, <2>4
  <2>6. ASSUME NEW p \in ProductIds, NEW e \in ToSet(hard'[p])
        PROVE  e.from = p /\ e.type # "any" /\ \E j \in DOMAIN linked' : {p, e.on} \subseteq linked'[j]
    <3>1. CASE e \in ToSet(hard[p])
      <4>1. PICK i \in DOMAIN linked : {p, e.on} \subseteq linked[i]
        BY <1>1, <3>1
      <4> QED
        BY <1>1, <2>2, <3>1, <4>1
    <3>2. CASE e \notin ToSet(hard[p])
      <4>1. p = d.from /\ e = d
        BY <2>1, <2>3, <2>4, <2>6, <3>2, SMTT(30)
      <4> QED
        BY <1>3, <2>2, <4>1
    <3> QED
      BY <3>1, <3>2
  <2> QED
    BY <2>2, <2>5, <2>6 DEF LinkInv
<1> QED
  BY <1>2, <1>3 DEF AddRequirement

\* The next action of the product starts a call with an empty path: it is the one
\* under way, and no later one is.
LEMMA ProcessActionKeeps ==
  ASSUME SorterInv, ProcessAction PROVE SorterInv'
<1> USE DEF SorterInv
<1>1. /\ stage = "search" /\ stage' = "search" /\ request' = request /\ todo' = todo
      /\ hard' = hard /\ linked' = linked /\ turn' = turn + 1 /\ stack = <<>> /\ todo # <<>>
      /\ actions' = actions /\ copy' = copy /\ item' = item /\ next' = next /\ runs' = runs
      /\ moved' = moved /\ groups' = groups /\ found' = found /\ met' = met
  BY DEF ProcessAction, sorting
<1> PICK p : p = todo[1]
  OBVIOUS
<1> PICK action : action = found[p][turn + 1]
  OBVIOUS
<1>2. /\ p \in ProductIds /\ action \in Actions \cup {"none"}
      /\ turn + 1 \in DOMAIN found[p] /\ found[p] \in Seq(Actions \cup {"none"})
      /\ action \in ToSet(found[p])
      /\ path' = <<p>>
      /\ stack' = <<[product |-> p, action |-> action, next |-> 1]>>
  <2>1. todo \in Seq(ProductIds) /\ found \in [ProductIds -> Seq(Actions \cup {"none"})]
        /\ turn \in Nat
    BY DEF SorterTypeOK
  <2>2. Head(todo) = p /\ p \in ProductIds
    BY <1>1, <2>1, Tailed
  <2>3. found[p] \in Seq(Actions \cup {"none"})
    BY <2>1, <2>2
  <2>4. turn + 1 \in 1..Len(found[p]) /\ DOMAIN found[p] = 1..Len(found[p])
    BY <2>1, <2>2, <2>3 DEF ProcessAction
  <2> QED
    BY <2>2, <2>3, <2>4 DEF ProcessAction, ToSet
<1> PICK c : c = [product |-> p, action |-> action, next |-> 1]
  OBVIOUS
<1>3. SortInv' /\ GroupInv'
  BY <1>1, NoGroups DEF SorterTypeOK
<1>4. stack' \in Seq(SearchCall) /\ Len(stack') = 1 /\ DOMAIN stack' = 1..1 /\ stack'[1] = c
  BY <1>2 DEF SearchCall
<1>5. SorterTypeOK'
  <2>1. path' \in Seq(ProductIds) /\ turn' \in Nat
    BY <1>1, <1>2 DEF SorterTypeOK
  <2> QED
    BY <1>1, <1>4, <2>1 DEF SorterTypeOK
<1>6. CallsInv'
  <2>1. GoesOn(c)'
    <3>1. ToSet(path') = {p}
      BY <1>2 DEF ToSet
    <3>2. request.dependencies[p] \in Seq(Dependency)
      BY <1>2, RequestOf DEF SorterTypeOK
    <3>3. Len(request.dependencies[p]) \in Nat
      BY <3>2
    <3>4. c.product = p /\ c.action = action /\ c.next = 1
      OBVIOUS
    <3> QED
      BY <1>1, <1>2, <3>1, <3>3, <3>4 DEF GoesOn, Obeys
  <2>2. Top' = c
    BY <1>4 DEF Top
  <2>3. c.action # "none" => \A x \in ToSet(path') : Real(x)'
    BY <1>1, <1>2 DEF ToSet, Real
  <2> QED
    BY <1>1, <1>4, <2>1, <2>2, <2>3 DEF CallsInv
<1>7. FoundInv'
  <2>1. ASSUME NEW q \in ProductIds, NEW i \in DOMAIN found[q], ToCome(q, i)
        PROVE  ToCome(q, i)' \/ UnderWay(q, found[q][i])'
    <3>1. CASE \E k \in DOMAIN todo : k > 1 /\ todo[k] = q
      BY <1>1, <3>1 DEF ToCome
    <3>2. CASE todo # <<>> /\ todo[1] = q /\ i > turn
      <4>1. q = p /\ found[q] \in Seq(Actions \cup {"none"}) /\ turn \in Nat
        BY <1>2, <3>2 DEF SorterTypeOK
      <4>2. i \in Nat
        BY <4>1
      <4>3. CASE i > turn + 1
        BY <1>1, <3>2, <4>3 DEF ToCome
      <4>4. CASE i = turn + 1
        <5>1. found[q][i] = action
          BY <4>1, <4>4
        <5>2. 1 \in DOMAIN stack' /\ stack'[1].product = q /\ stack'[1].action = action
          BY <1>4, <4>1
        <5> QED
          BY <1>1, <5>1, <5>2 DEF UnderWay
      <4> QED
        BY <3>2, <4>1, <4>2, <4>3, <4>4
    <3> QED
      BY <2>1, <3>1, <3>2 DEF ToCome
  <2>2. ASSUME NEW q \in ProductIds, NEW i \in DOMAIN found[q]
        PROVE  ~UnderWay(q, found[q][i])
    BY <1>1 DEF UnderWay
  <2>3. ASSUME NEW q \in ProductIds, NEW i \in DOMAIN found[q], Searched(q, found[q][i])
        PROVE  Searched(q, found[q][i])'
    BY <1>1, <2>3 DEF Searched, Obeys, Obeyed, Real, Settled, Fulfilled
  <2> QED
    BY <1>1, <2>1, <2>2, <2>3 DEF FoundInv
<1>8. LinkInv'
  BY <1>1 DEF LinkInv
<1> QED
  BY <1>3, <1>5, <1>6, <1>7, <1>8

\* All actions of the first product have been searched; those of the others are
\* still to come.
LEMMA NextProductKeeps ==
  ASSUME SorterInv, NextProduct PROVE SorterInv'
<1> USE DEF SorterInv
<1>1. /\ stage = "search" /\ stage' = "search" /\ request' = request /\ todo' = Tail(todo)
      /\ path' = path /\ stack' = stack /\ hard' = hard /\ linked' = linked /\ turn' = 0
      /\ actions' = actions /\ copy' = copy /\ item' = item /\ next' = next /\ runs' = runs
      /\ moved' = moved /\ groups' = groups /\ found' = found /\ met' = met
      /\ stack = <<>> /\ todo # <<>> /\ turn = Len(found[Head(todo)])
  BY DEF NextProduct, searching, sorting
<1>2. /\ Head(todo) = todo[1] /\ todo[1] \in ProductIds /\ todo' \in Seq(ProductIds)
      /\ Len(todo) \in Nat \ {0} /\ Len(todo') = Len(todo) - 1
      /\ \A k \in 1..(Len(todo) - 1) : todo'[k] = todo[k + 1]
      /\ DOMAIN todo = 1..Len(todo) /\ DOMAIN todo' = 1..(Len(todo) - 1)
  <2>1. todo \in Seq(ProductIds)
    BY DEF SorterTypeOK
  <2> QED
    BY <1>1, <2>1, Tailed
<1>3. SortInv' /\ GroupInv'
  BY <1>1, NoGroups DEF SorterTypeOK
<1>4. SorterTypeOK'
  BY <1>1, <1>2 DEF SorterTypeOK
<1>5. CallsInv'
  BY <1>1 DEF CallsInv, GoesOn, Obeys, Obeyed, Real, Top
<1>6. FoundInv'
  <2>1. ASSUME NEW q \in ProductIds, NEW i \in DOMAIN found[q], ToCome(q, i)
        PROVE  ToCome(q, i)'
    <3>1. found[q] \in Seq(Actions \cup {"none"}) /\ i \in 1..Len(found[q])
      BY DEF SorterTypeOK
    <3>2. PICK k \in 1..Len(todo) : k > 1 /\ todo[k] = q
      BY <1>1, <1>2, <2>1, <3>1, SMTT(30) DEF ToCome
    <3>3. k - 1 \in 1..(Len(todo) - 1) /\ todo'[k - 1] = q
      BY <1>2, <3>2
    <3>4. todo' # <<>> /\ i > turn'
      <4>1. todo' # <<>>
        BY <1>2, <3>3
      <4>2. i > 0
        BY <3>1
      <4> QED
        BY <1>1, <4>1, <4>2
    <3>5. CASE k = 2
      BY <3>3, <3>4, <3>5 DEF ToCome
    <3>6. CASE k # 2
      <4>1. k - 1 > 1
        BY <3>2, <3>6
      <4> QED
        BY <1>2, <3>3, <4>1 DEF ToCome
    <3> QED
      BY <3>5, <3>6
  <2>2. ASSUME NEW q \in ProductIds, NEW i \in DOMAIN found[q]
        PROVE  ~UnderWay(q, found[q][i])
    BY <1>1 DEF UnderWay
  <2>3. ASSUME NEW q \in ProductIds, NEW i \in DOMAIN found[q], Searched(q, found[q][i])
        PROVE  Searched(q, found[q][i])'
    BY <1>1, <2>3 DEF Searched, Obeys, Obeyed, Real, Settled, Fulfilled
  <2> QED
    BY <1>1, <2>1, <2>2, <2>3 DEF FoundInv
<1>7. LinkInv'
  BY <1>1 DEF LinkInv
<1> QED
  BY <1>3, <1>4, <1>5, <1>6, <1>7

\* Nothing is under way or to come: every action found has been searched.
LEMMA AllSearchedKeeps ==
  ASSUME SorterInv, AllSearched PROVE SorterInv'
<1> USE DEF SorterInv
<1>1. /\ stage = "search" /\ stage' = "group" /\ request' = request /\ todo' = todo
      /\ path' = path /\ stack' = stack /\ hard' = hard /\ linked' = linked /\ turn' = turn
      /\ actions' = actions /\ copy' = copy /\ item' = item /\ next' = next /\ runs' = runs
      /\ moved' = moved /\ groups' = groups /\ found' = found /\ met' = met
      /\ stack = <<>> /\ todo = <<>>
  BY DEF AllSearched, collecting, searching, sorting
<1>2. SortInv' /\ GroupInv'
  BY <1>1, NoGroups DEF SorterTypeOK
<1>3. SorterTypeOK'
  BY <1>1 DEF SorterTypeOK, SorterStages
<1>4. CallsInv'
  BY <1>1 DEF CallsInv
<1>5. FoundInv'
  <2>1. ASSUME NEW q \in ProductIds, NEW i \in DOMAIN found[q]
        PROVE  ~UnderWay(q, found[q][i]) /\ ~ToCome(q, i)
    BY <1>1 DEF UnderWay, ToCome
  <2>2. ASSUME NEW q \in ProductIds, NEW i \in DOMAIN found[q], Searched(q, found[q][i])
        PROVE  Searched(q, found[q][i])'
    BY <1>1, <2>2 DEF Searched, Obeys, Obeyed, Real, Settled, Fulfilled
  <2> QED
    BY <1>1, <2>1, <2>2 DEF FoundInv
<1>6. LinkInv'
  BY <1>1 DEF LinkInv
<1> QED
  BY <1>2, <1>3, <1>4, <1>5, <1>6

\* A call that returns has obeyed all dependencies.
LEMMA ReturnKeeps ==
  ASSUME SorterInv, Return PROVE SorterInv'
<1> USE DEF SorterInv
<1> DEFINE n == Len(stack)
<1>1. /\ stage = "search" /\ stage' = "search" /\ request' = request /\ todo' = todo
      /\ path' = path /\ hard' = hard /\ linked' = linked /\ turn' = turn
      /\ actions' = actions /\ copy' = copy /\ item' = item /\ next' = next /\ runs' = runs
      /\ moved' = moved /\ groups' = groups /\ found' = found /\ met' = met
      /\ stack # <<>> /\ stack' = SubSeq(stack, 1, n - 1) /\ ~Looping
  BY DEF Return, collecting, sorting
<1>2. /\ stack \in Seq(SearchCall) /\ n \in Nat \ {0} /\ stack' \in Seq(SearchCall)
      /\ Len(stack') = n - 1 /\ DOMAIN stack' = 1..(n - 1) /\ DOMAIN stack = 1..n
      /\ \A j \in 1..(n - 1) : j \in 1..n /\ stack'[j] = stack[j]
  <2>1. stack \in Seq(SearchCall)
    BY DEF SorterTypeOK
  <2>2. n \in Nat \ {0} /\ DOMAIN stack = 1..n
    BY <1>1, <2>1
  <2> HIDE DEF n
  <2>3. \A j \in 1..(n - 1) : j \in 1..n /\ stack[j] \in SearchCall
    BY <2>1, <2>2
  <2>4. /\ stack' \in Seq(SearchCall) /\ Len(stack') = n - 1
        /\ \A j \in 1..(n - 1) : stack'[j] = stack[j]
    <3>1. 1 \in Int /\ n - 1 \in Int /\ n - 1 - 1 + 1 = n - 1 /\ (1 <= n - 1 \/ n - 1 = 0)
      BY <2>2
    <3> DEFINE m == n - 1
    <3> HIDE DEF m
    <3>2. /\ SubSeq(stack, 1, m) \in Seq(SearchCall)
          /\ Len(SubSeq(stack, 1, m)) = IF 1 <= m THEN m - 1 + 1 ELSE 0
          /\ \A j \in 1..(m - 1 + 1) : SubSeq(stack, 1, m)[j] = stack[1 + j - 1]
      BY <2>3, <3>1, SubSeqProperties DEF m
    <3>3. m \in Int /\ m - 1 + 1 = m /\ \A j \in 1..m : 1 + j - 1 = j
      BY <3>1 DEF m
    <3>4. stack' = SubSeq(stack, 1, m)
      BY <1>1 DEF m
    <3> QED
      BY <3>1, <3>2, <3>3, <3>4 DEF m
  <2>5. DOMAIN stack' = 1..(n - 1)
    BY <2>4
  <2> QED
    BY <2>1, <2>2, <2>3, <2>4, <2>5
<1> HIDE DEF n
<1>3. Top = stack[n] /\ n \in 1..n /\ Top \in SearchCall
  BY <1>2 DEF Top, n
<1>4. SortInv' /\ GroupInv'
  BY <1>1, NoGroups DEF SorterTypeOK
<1>5. SorterTypeOK'
  BY <1>1, <1>2 DEF SorterTypeOK
<1>6. ASSUME NEW c, GoesOn(c) PROVE GoesOn(c)'
  <2>1. \A p : Real(p) <=> Real(p)'
    BY <1>1 DEF Real
  <2>2. \A p, action, i : Obeys(p, action, i) <=> Obeys(p, action, i)'
    BY <1>1, <2>1 DEF Obeys, Obeyed, Settled, Fulfilled
  <2> QED
    BY <1>1, <1>6, <2>2 DEF GoesOn
<1>7. CallsInv'
  <2>1. ASSUME stack' # <<>> PROVE Top.action # "none" /\ n > 1
    <3>1. n > 1
      BY <1>2, <2>1
    <3> QED
      BY <1>2, <1>3, <3>1 DEF CallsInv, n
  <2>2. ASSUME NEW j \in 1..(n - 1) PROVE GoesOn(stack[j])'
    <3> PICK c : c = stack[j]
      OBVIOUS
    <3>1. GoesOn(c) /\ c = stack'[j]
      BY <1>2 DEF CallsInv
    <3> QED
      BY <1>6, <3>1
  <2>3. n - 1 > 1 => \A j \in 1..(n - 1) : stack'[j].action # "none"
    <3>1. n > 1 => \A j \in 1..n : stack[j].action # "none"
      BY <1>2 DEF CallsInv, n
    <3> QED
      BY <1>2, <3>1
  <2>4. \A x : Real(x) <=> Real(x)'
    BY <1>1 DEF Real
  <2>5. stack' # <<>> => \A x \in ToSet(path') : Real(x)'
    BY <1>1, <2>1, <2>4 DEF CallsInv
  <2> QED
    BY <1>1, <1>2, <2>2, <2>3, <2>5 DEF CallsInv
<1>8. FoundInv'
  <2>1. ASSUME NEW q \in ProductIds, NEW a, Searched(q, a) PROVE Searched(q, a)'
    BY <1>1, <2>1 DEF Searched, Obeys, Obeyed, Real, Settled, Fulfilled
  <2>2. Searched(Top.product, Top.action)
    <3>1. GoesOn(Top)
      BY <1>2, <1>3 DEF CallsInv
    <3>2. Top.product \in ProductIds /\ Top.next \in Nat \ {0}
      BY <1>3 DEF SearchCall
    <3>3. Len(request.dependencies[Top.product]) \in Nat
      BY <3>2, RequestOf DEF SorterTypeOK
    <3>4. Top.product \notin request.available \/ Top.next > Len(request.dependencies[Top.product])
      BY <1>1, <3>2, <3>3 DEF Looping
    <3>5. CASE Top.product \notin request.available
      BY <3>5 DEF Searched, Obeys
    <3>6. CASE Top.next > Len(request.dependencies[Top.product])
      <4>1. Top.next - 1 = Len(request.dependencies[Top.product])
        BY <3>1, <3>2, <3>3, <3>6 DEF GoesOn
      <4> QED
        BY <3>1, <4>1 DEF GoesOn, Searched
    <3> QED
      BY <3>4, <3>5, <3>6
  <2>3. ASSUME NEW q \in ProductIds, NEW a, UnderWay(q, a)
        PROVE  UnderWay(q, a)' \/ Searched(q, a)
    <3>1. PICK j \in 1..n : stack[j].product = q /\ stack[j].action = a
      BY <1>2, <2>3 DEF UnderWay
    <3>2. CASE j = n
      BY <1>3, <2>2, <3>1, <3>2
    <3>3. CASE j # n
      <4>1. j \in 1..(n - 1)
        BY <1>2, <3>3
      <4> QED
        BY <1>2, <3>1, <4>1 DEF UnderWay
    <3> QED
      BY <3>2, <3>3
  <2>4. \A q, i : ToCome(q, i) => ToCome(q, i)'
    BY <1>1 DEF ToCome
  <2>5. ASSUME NEW q \in ProductIds, NEW i \in DOMAIN found'[q]
        PROVE  Searched(q, found[q][i])' \/ UnderWay(q, found[q][i])' \/ ToCome(q, i)'
    <3> PICK a : a = found[q][i]
      OBVIOUS
    <3>1. Searched(q, a) \/ UnderWay(q, a) \/ ToCome(q, i)
      BY <1>1, <2>5 DEF FoundInv
    <3>2. Searched(q, a)' \/ UnderWay(q, a)' \/ ToCome(q, i)'
      BY <2>1, <2>3, <2>4, <3>1
    <3>3. a = found'[q][i]
      BY <1>1
    <3> QED
      BY <3>2, <3>3
  <2> QED
    BY <1>1, <2>5 DEF FoundInv
<1>9. LinkInv'
  BY <1>1 DEF LinkInv
<1> QED
  BY <1>4, <1>5, <1>7, <1>8, <1>9

\* A call that goes on to its next dependency.
LEMMA AdvancedCalls ==
  ASSUME SorterInv, Looping
  PROVE  LET n == Len(stack)
             top == [Top EXCEPT !.next = @ + 1]
         IN  /\ Advanced \in Seq(SearchCall) /\ Len(Advanced) = n
             /\ n \in Nat \ {0} /\ DOMAIN stack = 1..n /\ DOMAIN Advanced = 1..n
             /\ \A j \in 1..n : Advanced[j] = IF j = n THEN top ELSE stack[j]
             /\ top \in SearchCall /\ top.product = Top.product /\ top.action = Top.action
             /\ top.next = Top.next + 1
<1> DEFINE n == Len(stack)
           top == [Top EXCEPT !.next = @ + 1]
<1>1. /\ n \in 1..n /\ Top = stack[n] /\ Top \in SearchCall /\ stack \in Seq(SearchCall)
  BY PresentOf DEF SorterInv, SorterTypeOK
<1>2. n \in Nat \ {0} /\ DOMAIN stack = 1..n
  BY <1>1
<1>3. /\ top \in SearchCall /\ top.product = Top.product /\ top.action = Top.action
      /\ top.next = Top.next + 1
  BY <1>1 DEF SearchCall
<1>4. Advanced = [stack EXCEPT ![n] = top]
  BY <1>1 DEF Advanced
<1> HIDE DEF n, top
<1>5. Advanced \in Seq(SearchCall) /\ Len(Advanced) = n
      /\ \A j \in 1..n : Advanced[j] = IF j = n THEN top ELSE stack[j]
  BY <1>1, <1>2, <1>3, <1>4, ExceptSeq DEF n
<1>6. DOMAIN Advanced = 1..n
  BY <1>5
<1> QED
  BY <1>2, <1>3, <1>5, <1>6 DEF n, top

\* It goes on as it should if the present dependency is obeyed.
LEMMA AdvancedGoesOn ==
  ASSUME SorterInv, Looping, request' = request, ToSet(path) \subseteq ToSet(path'),
         \A p \in ProductIds : ToSet(found[p]) \subseteq ToSet(found'[p]),
         \A p \in ProductIds : Real(p) => Real(p)',
         NEW d, d = Present,
         d.action = Top.action /\ d.on \in request.available =>
           Settled(request, d) \/ Real(d.on)',
         NEW c, c = [Top EXCEPT !.next = @ + 1]
  PROVE  GoesOn(c)'
<1> USE DEF SorterInv
<1>1. /\ Top \in SearchCall /\ GoesOn(Top) /\ Present \in Dependency
      /\ Top.next \in 1..Len(request.dependencies[Top.product])
  BY PresentOf
<1> PICK p, action, n : p = Top.product /\ action = Top.action /\ n = Top.next
  OBVIOUS
<1>2. p \in ProductIds /\ n \in Nat \ {0} /\ c.product = p /\ c.action = action /\ c.next = n + 1
  BY <1>1 DEF SearchCall
<1>3. request.dependencies[p] \in Seq(Dependency)
  BY <1>2, RequestOf DEF SorterTypeOK
<1>4. Len(request.dependencies[p]) \in Nat /\ n <= Len(request.dependencies[p])
  BY <1>1, <1>2, <1>3
<1>5. Obeys(p, action, n - 1)
  BY <1>1 DEF GoesOn
<1>6. Obeys(p, action, n - 1)'
  <2>1. n - 1 \in 0..Len(request.dependencies[p])
    BY <1>2, <1>4
  <2> QED
    BY <1>2, <1>5, <2>1, ObeysOn
<1>7. d = request.dependencies[p][n]
  BY DEF Present
<1>8. d.action = action => Obeyed(d)'
  BY DEF Obeyed, Settled, Fulfilled
<1>9. Obeys(p, action, n)'
  <2>1. ASSUME p \in request.available, NEW i \in 1..n, request.dependencies[p][i].action = action
        PROVE  Obeyed(request.dependencies[p][i])'
    <3>1. CASE i = n
      <4>1. request'.dependencies[p][i] = d
        BY <1>7, <3>1
      <4> QED
        BY <1>7, <1>8, <2>1, <3>1, <4>1
    <3>2. CASE i # n
      <4>1. i \in 1..(n - 1)
        BY <1>2, <3>2
      <4> QED
        BY <1>6, <2>1, <4>1 DEF Obeys
    <3> QED
      BY <3>1, <3>2
  <2> QED
    BY <2>1 DEF Obeys
<1>10. /\ action \in ToSet(found'[p]) /\ p \in ToSet(path')
       /\ n + 1 <= Len(request'.dependencies[p]) + 1
  <2>1. action \in ToSet(found[p]) /\ p \in ToSet(path)
    BY <1>1 DEF GoesOn
  <2>2. n + 1 <= Len(request.dependencies[p]) + 1
    BY <1>2, <1>4
  <2> QED
    BY <1>2, <2>1, <2>2
<1>11. n + 1 - 1 = n
  BY <1>2
<1> QED
  BY <1>2, <1>9, <1>10, <1>11 DEF GoesOn

\* A call that goes on without having found anything.
LEMMA AdvanceKeeps ==
  ASSUME SorterInv, Looping, stage' = stage, request' = request, found' = found, met' = met,
         todo' = todo, turn' = turn, path' = path, stack' = Advanced,
         Present.action = Top.action /\ Present.on \in request.available =>
           Settled(request, Present) \/ Real(Present.on)
  PROVE  CallsInv' /\ FoundInv' /\ stack' \in Seq(SearchCall)
<1> USE DEF SorterInv
<1> PICK n \in Nat \ {0} : n = Len(stack)
  BY AdvancedCalls
<1> PICK c : c = [Top EXCEPT !.next = @ + 1]
  OBVIOUS
<1>1. /\ stack' \in Seq(SearchCall) /\ Len(stack') = n /\ DOMAIN stack = 1..n
      /\ DOMAIN stack' = 1..n
      /\ \A j \in 1..n : stack'[j] = IF j = n THEN c ELSE stack[j]
      /\ c.product = Top.product /\ c.action = Top.action
  BY AdvancedCalls
<1>2. Top = stack[n] /\ stage = "search" /\ stack # <<>> /\ n \in 1..n
  BY PresentOf
<1>3. \A p : Real(p) <=> Real(p)'
  BY DEF Real
<1> PICK d : d = Present
  OBVIOUS
<1>4. CallsInv'
  <2>1. GoesOn(c)'
    BY <1>3, AdvancedGoesOn
  <2>2. ASSUME NEW b, GoesOn(b) PROVE GoesOn(b)'
    <3>1. \A p, action, i : Obeys(p, action, i) <=> Obeys(p, action, i)'
      BY <1>3 DEF Obeys, Obeyed, Settled, Fulfilled
    <3> QED
      BY <2>2, <3>1 DEF GoesOn
  <2>3. ASSUME NEW j \in 1..n PROVE GoesOn(stack[j])'
    <3> PICK b : b = stack[j]
      OBVIOUS
    <3>1. CASE j = n
      BY <1>1, <2>1, <3>1
    <3>2. CASE j # n
      <4>1. GoesOn(b) /\ b = stack'[j]
        BY <1>1, <3>2 DEF CallsInv
      <4> QED
        BY <2>2, <4>1
    <3> QED
      BY <3>1, <3>2
  <2>4. \A j \in 1..n : stack'[j].action = stack[j].action
    BY <1>1, <1>2
  <2>5. n > 1 => \A j \in 1..n : stack'[j].action # "none"
    BY <1>1, <2>4 DEF CallsInv
  <2>6. Top'.action = Top.action
    BY <1>1, <1>2, <2>4 DEF Top
  <2>7. Top'.action # "none" => \A x \in ToSet(path') : Real(x)'
    BY <1>2, <1>3, <2>6 DEF CallsInv
  <2> QED
    BY <1>1, <1>2, <2>3, <2>5, <2>7 DEF CallsInv
<1>5. FoundInv'
  <2>1. ASSUME NEW q \in ProductIds, NEW a, Searched(q, a) PROVE Searched(q, a)'
    BY <2>1 DEF Searched, Obeys, Obeyed, Real, Settled, Fulfilled
  <2>2. ASSUME NEW q \in ProductIds, NEW a, UnderWay(q, a) PROVE UnderWay(q, a)'
    <3>1. PICK j \in 1..n : stack[j].product = q /\ stack[j].action = a
      BY <1>1, <2>2 DEF UnderWay
    <3>2. stack'[j].product = q /\ stack'[j].action = a /\ j \in DOMAIN stack'
      BY <1>1, <1>2, <3>1
    <3> QED
      BY <3>2 DEF UnderWay
  <2>3. \A q, i : ToCome(q, i) => ToCome(q, i)'
    BY DEF ToCome
  <2>4. ASSUME NEW q \in ProductIds, NEW i \in DOMAIN found'[q]
        PROVE  Searched(q, found[q][i])' \/ UnderWay(q, found[q][i])' \/ ToCome(q, i)'
    <3> PICK a : a = found[q][i]
      OBVIOUS
    <3>1. Searched(q, a) \/ UnderWay(q, a) \/ ToCome(q, i)
      BY <1>2, <2>4 DEF FoundInv
    <3> QED
      BY <2>1, <2>2, <2>3, <3>1
  <2> QED
    BY <1>2, <2>4 DEF FoundInv
<1> QED
  BY <1>1, <1>4, <1>5

\* A dependency that does not apply asks nothing of the call.
LEMMA SkipDependencyKeeps ==
  ASSUME SorterInv, SkipDependency PROVE SorterInv'
<1> USE DEF SorterInv
<1>1. /\ stage' = stage /\ request' = request /\ todo' = todo
      /\ path' = path /\ hard' = hard /\ linked' = linked /\ turn' = turn
      /\ actions' = actions /\ copy' = copy /\ item' = item /\ next' = next /\ runs' = runs
      /\ moved' = moved /\ groups' = groups /\ found' = found /\ met' = met
      /\ stack' = Advanced /\ Looping /\ ~Applies(Present)
  BY DEF SkipDependency, collecting, sorting
<1>2. /\ stage = "search" /\ Top \in SearchCall /\ Present \in Dependency /\ stack # <<>>
  BY <1>1, PresentOf
<1>3. Present.action = Top.action /\ Present.on \in request.available => Real(Present.on)
  <2> SUFFICES ASSUME Present.action = Top.action, Present.on \in request.available
               PROVE  Real(Present.on)
    OBVIOUS
  <2>1. Present.on \in ToSet(path)
    BY <1>1 DEF Applies
  <2>2. Top.action # "none"
    BY <1>2 DEF Dependency, Actions
  <2> QED
    BY <1>2, <2>1, <2>2 DEF CallsInv
<1>4. CallsInv' /\ FoundInv' /\ stack' \in Seq(SearchCall)
  BY <1>1, <1>3, AdvanceKeeps
<1>5. SortInv' /\ GroupInv'
  BY <1>1, <1>2, NoGroups DEF SorterTypeOK
<1>6. SorterTypeOK'
  BY <1>1, <1>4 DEF SorterTypeOK
<1>7. LinkInv'
  BY <1>1 DEF LinkInv
<1> QED
  BY <1>4, <1>5, <1>6, <1>7

\* A dependency the inventory settles is recorded, if it orders, and asks for no
\* action.
LEMMA SettledDependencyKeeps ==
  ASSUME SorterInv, SettledDependency PROVE SorterInv'
<1> USE DEF SorterInv
<1>1. /\ stage' = stage /\ request' = request /\ todo' = todo
      /\ path' = path /\ turn' = turn /\ AddRequirement(Present)
      /\ actions' = actions /\ copy' = copy /\ item' = item /\ next' = next /\ runs' = runs
      /\ moved' = moved /\ groups' = groups /\ found' = found /\ met' = met
      /\ stack' = Advanced /\ Looping /\ Settled(request, Present)
  BY DEF SettledDependency, collecting, sorting
<1>2. /\ stage = "search" /\ Present \in Dependency
  BY <1>1, PresentOf
<1>3. CallsInv' /\ FoundInv' /\ stack' \in Seq(SearchCall)
  BY <1>1, AdvanceKeeps
<1>4. /\ hard' \in [ProductIds -> Seq(Dependency)] /\ linked' \in Seq(SUBSET ProductIds)
      /\ LinkInv'
  BY <1>1, <1>2, RequirementKeeps
<1>5. SortInv' /\ GroupInv'
  BY <1>1, <1>2, <1>4, NoGroups
<1>6. SorterTypeOK'
  BY <1>1, <1>3, <1>4 DEF SorterTypeOK
<1> QED
  BY <1>3, <1>4, <1>5, <1>6

\* A call that follows its dependency is under way with the next product.
LEMMA FollowDependencyKeeps ==
  ASSUME SorterInv, FollowDependency PROVE SorterInv'
<1> USE DEF SorterInv
<1> PICK d : d = Present
  OBVIOUS
<1> PICK c : c = [Top EXCEPT !.next = @ + 1]
  OBVIOUS
<1> PICK b : b = [product |-> d.on, action |-> Required(d), next |-> 1]
  OBVIOUS
<1>1. /\ stage' = stage /\ request' = request /\ todo' = todo /\ turn' = turn
      /\ AddRequirement(d) /\ Find(d.on, Required(d)) /\ path' = Append(path, d.on)
      /\ actions' = actions /\ copy' = copy /\ item' = item /\ next' = next /\ runs' = runs
      /\ moved' = moved /\ groups' = groups
      /\ stack' = Append(Advanced, b) /\ Looping /\ Applies(d)
  BY DEF FollowDependency, sorting
<1>2. /\ stage = "search" /\ d \in Dependency /\ Top \in SearchCall /\ GoesOn(Top)
  BY <1>1, PresentOf
<1>3. d.on \in ProductIds /\ Required(d) \in Actions /\ "none" \notin Actions
  BY <1>2 DEF Dependency, Required, Actions, Statuses
<1>4. /\ found' \in [ProductIds -> Seq(Actions \cup {"none"})] /\ met' \in Seq(ProductIds)
      /\ \A p \in ProductIds : found'[p] # <<>> <=> p \in ToSet(met')
      /\ Unrepeated(met')
      /\ \A p \in ProductIds : Real(p) => Real(p)'
      /\ Real(d.on)'
      /\ \A p \in ProductIds : p # d.on => found'[p] = found[p]
      /\ DOMAIN found'[d.on] = 1..(Len(found[d.on]) + 1)
      /\ found'[d.on][Len(found[d.on]) + 1] = Required(d)
      /\ \A i \in 1..Len(found[d.on]) : found'[d.on][i] = found[d.on][i]
      /\ \A p \in ProductIds : ToSet(found[p]) \subseteq ToSet(found'[p])
      /\ Required(d) \in ToSet(found'[d.on])
  <2> PICK a, q : a = Required(d) /\ q = d.on
    OBVIOUS
  <2>1. Find(q, a) /\ q \in ProductIds /\ a \in Actions \cup {"none"} /\ a # "none"
    BY <1>1, <1>3
  <2> QED
    BY <2>1, Finds
<1>5. path \in Seq(ProductIds) /\ path' \in Seq(ProductIds) /\ ToSet(path') = ToSet(path) \cup {d.on}
  <2>1. path \in Seq(ProductIds)
    BY DEF SorterTypeOK
  <2> PICK n \in Nat : n = Len(path)
    BY <2>1
  <2>2. /\ path' \in Seq(ProductIds) /\ Len(path') = n + 1
        /\ \A k \in 1..(n + 1) : path'[k] = IF k = n + 1 THEN d.on ELSE path[k]
    BY <1>1, <1>3, <2>1, Appended
  <2>3. DOMAIN path = 1..n /\ DOMAIN path' = 1..(n + 1) /\ n + 1 \in 1..(n + 1)
    BY <2>1, <2>2
  <2>4. \A k \in 1..(n + 1) : k = n + 1 \/ k \in 1..n
    OBVIOUS
  <2>5. ToSet(path') = {path'[k] : k \in 1..(n + 1)} /\ ToSet(path) = {path[k] : k \in 1..n}
    BY <2>3 DEF ToSet
  <2>6. path'[n + 1] = d.on /\ \A k \in 1..n : k \in 1..(n + 1) /\ path'[k] = path[k]
    BY <2>2, <2>3
  <2> QED
    BY <2>1, <2>2, <2>3, <2>4, <2>5, <2>6
<1> PICK n \in Nat \ {0} : n = Len(stack)
  BY <1>1, AdvancedCalls
<1>6. /\ stack' \in Seq(SearchCall) /\ Len(stack') = n + 1 /\ DOMAIN stack = 1..n
      /\ DOMAIN stack' = 1..(n + 1) /\ n + 1 \in 1..(n + 1)
      /\ \A j \in 1..n : j \in 1..(n + 1) /\ stack'[j] = IF j = n THEN c ELSE stack[j]
      /\ stack'[n + 1] = b
      /\ c.product = Top.product /\ c.action = Top.action
  <2>1. /\ Advanced \in Seq(SearchCall) /\ Len(Advanced) = n /\ DOMAIN stack = 1..n
        /\ \A j \in 1..n : Advanced[j] = IF j = n THEN c ELSE stack[j]
        /\ c.product = Top.product /\ c.action = Top.action
    BY <1>1, AdvancedCalls
  <2>2. b \in SearchCall
    BY <1>3 DEF SearchCall
  <2>3. /\ stack' \in Seq(SearchCall) /\ Len(stack') = n + 1
        /\ \A k \in 1..(n + 1) : stack'[k] = IF k = n + 1 THEN b ELSE Advanced[k]
    BY <1>1, <2>1, <2>2, Appended
  <2>4. DOMAIN stack' = 1..(n + 1)
    BY <2>3
  <2> QED
    BY <2>1, <2>3, <2>4
<1>7. Top = stack[n] /\ n \in 1..n /\ stack # <<>>
  BY <1>1, PresentOf
<1>8. Top.action # "none" /\ \A x \in ToSet(path) : Real(x)
  <2>1. Top.action # "none"
    BY <1>1, <1>2 DEF Dependency, Actions, Applies
  <2> QED
    BY <1>7, <2>1 DEF CallsInv
<1>9. CallsInv'
  <2>1. GoesOn(c)'
    <3>1. ToSet(path) \subseteq ToSet(path')
      BY <1>5
    <3> QED
      BY <1>1, <1>4, <3>1, AdvancedGoesOn
  <2>2. GoesOn(b)'
    <3>1. /\ b.product = d.on /\ b.action = Required(d) /\ b.next = 1
      OBVIOUS
    <3>2. request.dependencies[d.on] \in Seq(Dependency)
      BY <1>3, RequestOf DEF SorterTypeOK
    <3>3. Len(request.dependencies[d.on]) \in Nat
      BY <3>2
    <3> QED
      BY <1>1, <1>4, <1>5, <3>1, <3>3 DEF GoesOn, Obeys
  <2>3. ASSUME NEW e, GoesOn(e), e \in SearchCall PROVE GoesOn(e)'
    <3>1. e.product \in ProductIds /\ e.next \in Nat \ {0}
      BY <2>3 DEF SearchCall
    <3>2. request.dependencies[e.product] \in Seq(Dependency)
      BY <3>1, RequestOf DEF SorterTypeOK
    <3>3. e.next - 1 \in 0..Len(request.dependencies[e.product])
      BY <2>3, <3>1, <3>2 DEF GoesOn
    <3>4. Obeys(e.product, e.action, e.next - 1)'
      BY <1>1, <1>4, <2>3, <3>1, <3>3, ObeysOn DEF GoesOn
    <3> QED
      BY <1>1, <1>4, <1>5, <2>3, <3>1, <3>4 DEF GoesOn
  <2>4. ASSUME NEW j \in 1..(n + 1) PROVE GoesOn(stack[j])'
    <3>1. CASE j = n + 1
      BY <1>6, <2>2, <3>1
    <3>2. CASE j = n
      BY <1>6, <1>7, <2>1, <3>2
    <3>3. CASE j \in 1..n /\ j # n
      <4> PICK e : e = stack[j]
        OBVIOUS
      <4>1. GoesOn(e) /\ e = stack'[j] /\ e \in SearchCall
        BY <1>6, <3>3 DEF CallsInv, SorterTypeOK
      <4> QED
        BY <2>3, <4>1
    <3>4. j = n + 1 \/ j = n \/ (j \in 1..n /\ j # n)
      OBVIOUS
    <3> QED
      BY <3>1, <3>2, <3>3, <3>4
  <2>5. \A j \in 1..(n + 1) : stack'[j].action # "none"
    <3>1. \A j \in 1..n : stack[j].action # "none"
      <4>1. CASE n = 1
        BY <1>7, <1>8, <4>1
      <4>2. CASE n > 1
        BY <1>6, <4>2 DEF CallsInv
      <4> QED
        BY <4>1, <4>2
    <3>2. stack'[n + 1].action # "none"
      BY <1>3, <1>6
    <3>3. \A j \in 1..n : stack'[j].action = stack[j].action
      BY <1>6, <1>7
    <3>4. \A j \in 1..(n + 1) : j = n + 1 \/ j \in 1..n
      OBVIOUS
    <3> QED
      BY <3>1, <3>2, <3>3, <3>4
  <2>6. \A x \in ToSet(path') : Real(x)'
    <3>1. ToSet(path) \subseteq ProductIds
      BY <1>5, ToSetOf
    <3> QED
      BY <1>4, <1>5, <1>8, <3>1
  <2> QED
    BY <1>1, <1>2, <1>6, <2>4, <2>5, <2>6 DEF CallsInv
<1>10. FoundInv'
  <2>1. ASSUME NEW q \in ProductIds, NEW a, Searched(q, a) PROVE Searched(q, a)'
    <3>1. request.dependencies[q] \in Seq(Dependency)
      BY RequestOf DEF SorterTypeOK
    <3> PICK m \in Nat : m = Len(request.dependencies[q])
      BY <3>1
    <3>2. m \in 0..Len(request.dependencies[q]) /\ Obeys(q, a, m)
      BY <2>1 DEF Searched
    <3>3. Obeys(q, a, m)'
      BY <1>1, <1>4, <3>2, ObeysOn
    <3> QED
      BY <1>1, <3>3 DEF Searched
  <2>2. ASSUME NEW q \in ProductIds, NEW a, UnderWay(q, a) PROVE UnderWay(q, a)'
    <3>1. PICK j \in 1..n : stack[j].product = q /\ stack[j].action = a
      BY <1>6, <2>2 DEF UnderWay
    <3>2. stack'[j].product = q /\ stack'[j].action = a /\ j \in DOMAIN stack'
      BY <1>6, <1>7, <3>1
    <3> QED
      BY <3>2 DEF UnderWay
  <2>3. \A q, i : ToCome(q, i) => ToCome(q, i)'
    BY <1>1 DEF ToCome
  <2>4. ASSUME NEW q \in ProductIds, NEW i \in DOMAIN found'[q]
        PROVE  Searched(q, found[q][i])' \/ UnderWay(q, found[q][i])' \/ ToCome(q, i)'
    <3> PICK a : a = found'[q][i]
      OBVIOUS
    <3>1. found[q] \in Seq(Actions \cup {"none"})
      BY DEF SorterTypeOK
    <3>2. CASE i \in DOMAIN found[q] /\ found[q][i] = a
      <4>1. Searched(q, a) \/ UnderWay(q, a) \/ ToCome(q, i)
        BY <1>2, <3>2 DEF FoundInv
      <4> QED
        BY <2>1, <2>2, <2>3, <4>1
    <3>3. CASE q = d.on /\ i = Len(found[q]) + 1
      <4>1. a = Required(d)
        BY <1>4, <3>3
      <4>2. UnderWay(q, a)'
        BY <1>6, <3>3, <4>1 DEF UnderWay
      <4> QED
        BY <4>2
    <3>4. (i \in DOMAIN found[q] /\ found[q][i] = a) \/ (q = d.on /\ i = Len(found[q]) + 1)
      <4>1. CASE q # d.on
        BY <1>4, <2>4, <4>1
      <4>2. CASE q = d.on
        <5>1. i \in 1..(Len(found[q]) + 1) /\ Len(found[q]) \in Nat /\ DOMAIN found[q] = 1..Len(found[q])
          BY <1>4, <2>4, <3>1, <4>2
        <5>2. i = Len(found[q]) + 1 \/ i \in 1..Len(found[q])
          BY <5>1
        <5> QED
          BY <1>4, <4>2, <5>1, <5>2
      <4> QED
        BY <4>1, <4>2
    <3> QED
      BY <3>2, <3>3, <3>4
  <2> QED
    BY <1>1, <1>2, <1>4, <2>4 DEF FoundInv
<1>11. /\ hard' \in [ProductIds -> Seq(Dependency)] /\ linked' \in Seq(SUBSET ProductIds)
      /\ LinkInv'
  BY <1>1, <1>2, RequirementKeeps
<1>12. SortInv' /\ GroupInv'
  <2>1. stage \in {"add", "search"} /\ stage' \in {"add", "search", "group"} /\ groups' = groups
    BY <1>1, <1>2
  <2>2. linked' \in Seq(SUBSET ProductIds)
    BY <1>11
  <2> QED
    BY <2>1, <2>2, NoGroups
<1>13. SorterTypeOK'
  BY <1>1, <1>4, <1>5, <1>6, <1>11 DEF SorterTypeOK
<1> QED
  BY <1>9, <1>10, <1>11, <1>12, <1>13

\* Every step of the search for dependencies.
LEMMA SearchKeeps ==
  ASSUME SorterInv, Search PROVE SorterInv'
BY ProcessActionKeeps, NextProductKeeps, ReturnKeeps, SkipDependencyKeeps,
   SettledDependencyKeeps, FollowDependencyKeeps, AllSearchedKeeps DEF Search

-----------------------------------------------------------------------------
(* ActionGroups: sorting a group.                                          *)

\* The requirements recorded are among products that are linked.
LEMMA RecordedOf ==
  ASSUME SorterInv
  PROVE  /\ \A d \in Recorded :
              /\ d \in Dependency /\ d.from \in ProductIds /\ d.on \in ProductIds
              /\ \E i \in DOMAIN hard[d.from] : hard[d.from][i] = d
              /\ \E i \in DOMAIN linked : {d.from, d.on} \subseteq linked[i]
         /\ \A p \in ProductIds : \A i \in DOMAIN hard[p] :
              hard[p][i] \in Recorded /\ hard[p][i].from = p
<1>1. hard \in [ProductIds -> Seq(Dependency)]
  BY DEF SorterInv, SorterTypeOK
<1>2. ASSUME NEW d \in Recorded
      PROVE  /\ d \in Dependency /\ d.from \in ProductIds /\ d.on \in ProductIds
             /\ \E i \in DOMAIN hard[d.from] : hard[d.from][i] = d
             /\ \E i \in DOMAIN linked : {d.from, d.on} \subseteq linked[i]
  <2>1. PICK p \in ProductIds : d \in ToSet(hard[p])
    BY DEF Recorded
  <2>2. d.from = p /\ \E i \in DOMAIN linked : {p, d.on} \subseteq linked[i]
    BY <2>1 DEF SorterInv, LinkInv
  <2>3. ToSet(hard[p]) \subseteq Dependency
    BY <1>1, ToSetOf
  <2>4. d.on \in ProductIds
    BY <2>1, <2>3 DEF Dependency
  <2>5. \E i \in DOMAIN hard[p] : hard[p][i] = d
    BY <2>1 DEF ToSet
  <2> QED
    BY <2>1, <2>2, <2>3, <2>4, <2>5
<1>3. ASSUME NEW p \in ProductIds, NEW i \in DOMAIN hard[p]
      PROVE  hard[p][i] \in Recorded /\ hard[p][i].from = p
  <2>1. hard[p][i] \in ToSet(hard[p])
    BY DEF ToSet
  <2> QED
    BY <2>1 DEF Recorded, SorterInv, LinkInv
<1> QED
  BY <1>2, <1>3

\* The group that is sorted.
LEMMA GroupOf ==
  ASSUME SorterInv, Len(groups) < Len(linked)
  PROVE  LET products == linked[Len(groups) + 1]
         IN  /\ Len(groups) + 1 \in DOMAIN linked /\ products \in SUBSET ProductIds
             /\ ActionsOf(products) \subseteq Action /\ IsFiniteSet(ActionsOf(products))
             /\ IsFiniteSet(ProductIds)
             /\ \A list : ToSet(list) = ActionsOf(products) =>
                  Members(list) = {p \in products : found[p] # <<>>}
<1> USE DEF SorterInv
<1> PICK i, products : i = Len(groups) + 1 /\ products = linked[i]
  OBVIOUS
<1>1. linked \in Seq(SUBSET ProductIds) /\ Len(groups) \in Nat
  BY DEF SorterTypeOK
<1>2. i \in 1..Len(linked) /\ DOMAIN linked = 1..Len(linked)
  BY <1>1
<1>3. products \in SUBSET ProductIds
  BY <1>1, <1>2, ElementOfSeq
<1>4. found \in [ProductIds -> Seq(Actions \cup {"none"})] /\ IsFiniteSet(ProductIds)
  BY RequestOf DEF SorterTypeOK
<1>5. /\ ActionsOf(products) \subseteq Action /\ IsFiniteSet(ActionsOf(products))
      /\ \A a \in ActionsOf(products) : a.product \in products /\ found[a.product] # <<>>
      /\ \A p \in products : found[p] # <<>> => \E a \in ActionsOf(products) : a.product = p
  BY <1>3, <1>4, ActionsOfProducts
<1>6. ASSUME NEW list, ToSet(list) = ActionsOf(products)
      PROVE  Members(list) = {p \in products : found[p] # <<>>}
  <2>1. Members(list) = {a.product : a \in ToSet(list)}
    BY DEF Members, ToSet
  <2> QED
    BY <1>5, <1>6, <2>1
<1> QED
  BY <1>2, <1>3, <1>4, <1>5, <1>6

\* A run begins.
LEMMA RunBegins ==
  ASSUME SorterInv, hard' = hard, found' = found,
         NEW kind \in {"before", "after"}, OneKind(kind), actions' \in Seq(Action),
         copy' = actions', item' = 1, next' = 1, moved' = {},
         NEW fixed \in SUBSET Members(actions'),
         Cardinality(fixed) >= runs' - 1, Closed(fixed, Members(actions')),
         \A p \in fixed : HoldsFor(kind, actions', p)
  PROVE  RunInv(kind)' /\ MovedInv(kind)'
<1> USE DEF SorterInv
<1>1. Recorded' = Recorded
  BY DEF Recorded
<1>2. DOMAIN actions' = 1..Len(actions') /\ Len(actions') \in Nat
  OBVIOUS
<1> PICK members : members = Members(actions')
  OBVIOUS
<1>3. members \subseteq ProductIds
  <2>1. \A k \in DOMAIN actions' : actions'[k] \in Action
    BY <1>2
  <2> QED
    BY <2>1 DEF Members, Action
<1>4. ASSUME NEW p \in ProductIds PROVE Through(kind, p)'
  <2> SUFFICES ASSUME NEW i \in DOMAIN hard[p] PROVE ~Visited(p, i)'
    BY DEF Through
  <2>1. hard[p] \in Seq(Dependency)
    BY DEF SorterTypeOK
  <2>2. i \in Nat \ {0}
    BY <2>1
  <2>3. \A k \in DOMAIN copy' : ~(k < item' \/ (k = item' /\ i < next'))
    BY <1>2, <2>2
  <2> QED
    BY <2>3 DEF Visited
<1>5. RunInv(kind)'
  <2>1. \/ fixed = members
        \/ \E p \in members \ fixed : Closed(fixed \cup {p}, members)
    <3> SUFFICES ASSUME fixed # members PROVE \E p \in members \ fixed : Closed(fixed \cup {p}, members)
      OBVIOUS
    <3>1. IsFiniteSet(ProductIds)
      BY RequestOf DEF SorterTypeOK
    <3>2. members \ fixed \in SUBSET ProductIds /\ members \ fixed # {}
      BY <1>3
    <3>3. PICK p \in members \ fixed : \A d \in Recorded : d.on = p => d.from \notin members \ fixed
      BY <3>1, <3>2, NotNeeded
    <3>4. Closed(fixed \cup {p}, members)
      BY <3>3 DEF Closed
    <3> QED
      BY <3>4
  <2>2. \A set : Closed(set, members)' <=> Closed(set, members)
    BY <1>1 DEF Closed
  <2>3. \A p \in fixed : HoldsFor(kind, actions, p)'
    BY <1>1 DEF HoldsFor
  <2>4. Closed(fixed, Members(actions))'
    BY <1>1 DEF Closed
  <2>5. \/ fixed = Members(actions')
        \/ \E p \in Members(actions') \ fixed :
             Closed(fixed \cup {p}, Members(actions))' /\ Through(kind, p)'
    BY <1>1, <1>3, <1>4, <2>1 DEF Closed
  <2> QED
    BY <2>3, <2>4, <2>5 DEF RunInv
<1>6. MovedInv(kind)'
  BY <1>3, <1>4 DEF MovedInv
<1> QED
  BY <1>5, <1>6

\* What is said of the groups that are made does not change while one is sorted.
LEMMA GroupsStay ==
  ASSUME SorterInv, stage \in {"group", "sort"}, stage' = "sort", hard' = hard, linked' = linked,
         found' = found, met' = met, groups' = groups
  PROVE  GroupInv'
<1> USE DEF SorterInv
<1>1. Recorded' = Recorded
  BY DEF Recorded
<1>2. \A products : ActionsOf(products)' = ActionsOf(products)
  BY DEF ActionsOf, Acting
<1>3. \A i \in DOMAIN groups : ToSet(groups[i].actions) = ActionsOf(linked[i])
  BY DEF GroupInv
<1>4. /\ \A i \in DOMAIN groups' : ToSet(groups'[i].actions) = ActionsOf(linked[i])'
      /\ \A i \in DOMAIN groups' :
           ToSet(groups'[i].actions) \subseteq ActionsOf(ProductIds)' /\ Unique(groups'[i].actions)
  <2>1. ActionsOf(ProductIds)' = ActionsOf(ProductIds)
    BY <1>2
  <2>2. \A i : ActionsOf(linked[i])' = ActionsOf(linked[i])
    BY DEF ActionsOf, Acting
  <2> QED
    BY <1>3, <2>1, <2>2 DEF GroupInv
<1>5. /\ \A i, j \in DOMAIN groups' : \A p \in ProductIds :
           InGroup(p, i)' /\ InGroup(p, j)' => i = j
      /\ \A d \in Recorded' : \A i, j \in DOMAIN groups' :
           InGroup(d.from, i)' /\ InGroup(d.on, j)' => i = j
  BY <1>1 DEF GroupInv, InGroup
<1>6. ASSUME NEW kind \in {"before", "after"}, OneKind(kind)',
             NEW i \in DOMAIN groups', NEW p \in Members(groups'[i].actions)
      PROVE  HoldsFor(kind, groups[i].actions, p)'
  <2>1. OneKind(kind)
    BY <1>1, <1>6 DEF OneKind
  <2>2. HoldsFor(kind, groups[i].actions, p)
    BY <1>6, <2>1 DEF GroupInv
  <2> QED
    BY <1>1, <2>2 DEF HoldsFor
<1> QED
  BY <1>4, <1>5, <1>6 DEF GroupInv

\* The first run over a group starts with its actions by priority, each product
\* once.
LEMMA StartGroupKeeps ==
  ASSUME SorterInv, StartGroup PROVE SorterInv'
<1> USE DEF SorterInv
<1>1. /\ stage = "group" /\ stage' = "sort" /\ request' = request /\ todo' = todo
      /\ path' = path /\ hard' = hard /\ linked' = linked /\ turn' = turn /\ stack' = stack
      /\ groups' = groups /\ found' = found /\ met' = met
      /\ copy' = actions' /\ item' = 1 /\ next' = 1 /\ runs' = 1 /\ moved' = {}
      /\ Len(groups) < Len(linked)
      /\ actions' \in ByPriority(ActionsOf(linked[Len(groups) + 1]))
  BY DEF StartGroup, collecting, searching
<1>2. actions' \in Seq(Action) /\ Unique(actions') /\ Len(actions') \in Nat
      /\ ToSet(actions') = ActionsOf(linked[Len(groups) + 1])
  <2> PICK set, list : set = ActionsOf(linked[Len(groups) + 1]) /\ list = actions'
    OBVIOUS
  <2>1. set \in SUBSET Action /\ IsFiniteSet(set)
    BY <1>1, GroupOf
  <2>2. list \in ByPriority(set) /\ request \in SortRequests
    BY <1>1 DEF SorterTypeOK
  <2>3. list \in Seq(Action) /\ ToSet(list) = set /\ Unique(list)
    BY <2>1, <2>2, SortedActions
  <2> QED
    BY <2>3
<1>3. CallsInv' /\ FoundInv'
  BY <1>1, FoundStays
<1>4. SorterTypeOK'
  BY <1>1, <1>2 DEF SorterTypeOK, SorterStages
<1>5. SortInv'
  <2>1. ASSUME NEW kind \in {"before", "after"}, OneKind(kind)'
        PROVE  RunInv(kind)' /\ MovedInv(kind)'
    <3>1. OneKind(kind)
      BY <1>1, <2>1 DEF OneKind, Recorded
    <3>2. {} \in SUBSET Members(actions') /\ Cardinality({}) >= runs' - 1
      BY <1>1, FS_EmptySet
    <3>3. Closed({}, Members(actions'))
      BY DEF Closed
    <3> QED
      BY <1>1, <1>2, <3>1, <3>2, <3>3, RunBegins
  <2>2. ToSet(actions') = ActionsOf(linked[Len(groups) + 1])'
    BY <1>1, <1>2 DEF ActionsOf, Acting
  <2> QED
    BY <1>1, <1>2, <2>1, <2>2 DEF SortInv
<1>6. GroupInv'
  BY <1>1, GroupsStay
<1>7. LinkInv'
  BY <1>1 DEF LinkInv
<1> QED
  BY <1>3, <1>4, <1>5, <1>6, <1>7

\* The group that is sorted has all actions of what is linked to its products.
LEMMA SortedGroup ==
  ASSUME SorterInv, stage = "sort"
  PROVE  /\ actions \in Seq(Action) /\ copy \in Seq(Action) /\ Len(copy) = Len(actions)
         /\ Members(copy) = Members(actions) /\ Members(actions) \subseteq ProductIds
         /\ Unique(actions) /\ Unique(copy) /\ IsFiniteSet(ProductIds)
         /\ \A d \in Recorded :
              d.from \in Members(actions) /\ found[d.on] # <<>> => d.on \in Members(actions)
<1> USE DEF SorterInv
<1>1. /\ actions \in Seq(Action) /\ copy \in Seq(Action) /\ Len(copy) = Len(actions)
      /\ ToSet(copy) = ToSet(actions) /\ Unique(actions) /\ Unique(copy)
      /\ Len(groups) < Len(linked)
      /\ ToSet(actions) = ActionsOf(linked[Len(groups) + 1])
  BY DEF SorterTypeOK, SortInv
<1>2. Members(copy) = Members(actions)
  BY <1>1, MembersOf
<1> PICK i : i = Len(groups) + 1
  OBVIOUS
<1>3. /\ i \in DOMAIN linked /\ linked[i] \in SUBSET ProductIds /\ IsFiniteSet(ProductIds)
      /\ Members(actions) = {p \in linked[i] : found[p] # <<>>}
  BY <1>1, GroupOf
<1>4. ASSUME NEW d \in Recorded, d.from \in Members(actions), found[d.on] # <<>>
      PROVE  d.on \in Members(actions)
  <2>1. PICK j \in DOMAIN linked : {d.from, d.on} \subseteq linked[j]
    BY RecordedOf
  <2>2. d.from \in linked[i]
    BY <1>3, <1>4
  <2>3. i = j
    BY <1>3, <2>1, <2>2 DEF LinkInv, Apart
  <2> QED
    BY <1>3, <1>4, <2>1, <2>3
<1> QED
  BY <1>1, <1>2, <1>3, <1>4

\* The requirement the run is at, and what is done for it.
PresentRequirement == hard[copy[item].product][next]

\* The requirement the run is at, and what obeying it makes of the actions.
LEMMA RequirementAt ==
  ASSUME SorterInv, MoveRequired, NEW d, d = PresentRequirement
  PROVE  /\ stage = "sort" /\ d \in Recorded /\ d.from \in Members(actions)
         /\ actions' = Move(actions, d)
         /\ moved' = IF Violated(actions, d) THEN moved \cup {actions[Popped(actions, d)].product}
                     ELSE moved
         /\ actions' \in Seq(Action) /\ Len(actions') = Len(actions)
         /\ ToSet(actions') = ToSet(actions) /\ Unique(actions')
         /\ Members(actions') = Members(actions)
         /\ moved' \subseteq ProductIds /\ (moved \subseteq Members(actions) => moved' \subseteq Members(actions))
         /\ \A p \in ProductIds : \A i \in DOMAIN hard[p] :
              Visited(p, i)' => Visited(p, i) \/ hard[p][i] = d
<1> USE DEF SorterInv
<1>1. /\ stage = "sort" /\ item <= Len(copy) /\ next <= Len(hard[copy[item].product])
      /\ actions' = Move(actions, d)
      /\ moved' = IF Violated(actions, d) THEN moved \cup {actions[Popped(actions, d)].product}
                  ELSE moved
      /\ next' = next + 1 /\ item' = item /\ copy' = copy
  BY DEF MoveRequired, Walking, PresentRequirement
<1>2. /\ actions \in Seq(Action) /\ copy \in Seq(Action) /\ Len(copy) = Len(actions)
      /\ Members(copy) = Members(actions) /\ Members(actions) \subseteq ProductIds
      /\ Unique(actions) /\ Unique(copy)
  BY <1>1, SortedGroup
<1>3. item \in 1..Len(copy) /\ DOMAIN copy = 1..Len(copy)
  BY <1>1, <1>2 DEF SorterTypeOK
<1> PICK p : p = copy[item].product
  OBVIOUS
<1>4. p \in Members(actions) /\ p \in ProductIds
  BY <1>2, <1>3 DEF Members
<1>5. hard[p] \in Seq(Dependency) /\ next \in Nat \ {0}
  BY <1>4 DEF SorterTypeOK
<1>6. next \in DOMAIN hard[p] /\ d = hard[p][next]
  BY <1>1, <1>5 DEF PresentRequirement
<1>7. d \in Recorded /\ d.from = p
  BY <1>4, <1>6, RecordedOf
<1>8. /\ actions' \in Seq(Action) /\ Len(actions') = Len(actions)
      /\ ToSet(actions') = ToSet(actions) /\ Unique(actions')
      /\ Popped(actions, d) \in 1..Len(actions)
  BY <1>1, <1>2, <1>4, <1>7, MoveKeeps
<1>9. Members(actions') = Members(actions)
  BY <1>8, MembersOf
<1>10. actions[Popped(actions, d)].product \in Members(actions)
  BY <1>2, <1>8 DEF Members
<1>11. moved' \subseteq ProductIds /\ (moved \subseteq Members(actions) => moved' \subseteq Members(actions))
  BY <1>1, <1>2, <1>10 DEF SorterTypeOK
<1>12. ASSUME NEW q \in ProductIds, NEW i \in DOMAIN hard[q], Visited(q, i)'
       PROVE  Visited(q, i) \/ hard[q][i] = d
  <2>1. PICK k \in DOMAIN copy : copy[k].product = q /\ (k < item \/ (k = item /\ i < next + 1))
    BY <1>1, <1>12 DEF Visited
  <2>2. CASE k < item \/ i < next
    BY <2>1, <2>2 DEF Visited
  <2>3. CASE ~(k < item \/ i < next)
    <3>1. i \in Nat
      <4>1. hard[q] \in Seq(Dependency)
        BY DEF SorterTypeOK
      <4> QED
        BY <4>1
    <3>2. k = item /\ i = next
      BY <1>5, <2>1, <2>3, <3>1
    <3> QED
      BY <1>6, <2>1, <3>2
  <2> QED
    BY <2>2, <2>3
<1> QED
  BY <1>1, <1>4, <1>7, <1>8, <1>9, <1>11, <1>12

\* Of requirements of one kind: either it holds already and nothing is done, or
\* what it wants is moved to where it has to be.
Passes(kind, list, r, d) ==
  /\ d.on \in Members(list) /\ d.on # d.from
  /\ Leads(kind, list, d.from, d.on) /\ ~Leads(kind, list, d.on, d.from)
  /\ Leads(kind, r, d.on, d.from)
  /\ \A x : Leads(kind, list, d.on, x) => Leads(kind, r, d.on, x)
  /\ \A x, y : x # d.on /\ y # d.on => (Leads(kind, r, x, y) <=> Leads(kind, list, x, y))

\* Among requirements of one kind a step either finds its requirement met, or
\* moves the required product past the other and nothing else.
LEMMA MoveOfOneKind ==
  ASSUME SorterInv, MoveRequired, NEW kind \in {"before", "after"}, OneKind(kind),
         NEW d, d = PresentRequirement
  PROVE  \/ actions' = actions /\ moved' = moved /\ Holds(kind, actions, d)
         \/ Passes(kind, actions, actions', d) /\ moved' = moved \cup {d.on}
<1>1. /\ stage = "sort" /\ d \in Recorded /\ d.from \in Members(actions)
      /\ actions' = Move(actions, d)
      /\ moved' = IF Violated(actions, d) THEN moved \cup {actions[Popped(actions, d)].product}
                  ELSE moved
  BY RequirementAt
<1>2. actions \in Seq(Action) /\ Unique(actions) /\ Members(actions) \subseteq ProductIds
      /\ IsFiniteSet(ProductIds)
      /\ (found[d.on] # <<>> => d.on \in Members(actions))
  BY <1>1, SortedGroup
<1>3. d.type = kind /\ (kind = "after" => found[d.on] # <<>>)
  BY <1>1 DEF OneKind
<1>4. ~Violated(actions, d) => actions' = actions /\ moved' = moved
  BY <1>1 DEF Move
<1>5. CASE d.on \notin Members(actions)
  <2>1. kind = "before"
    BY <1>2, <1>3, <1>5
  <2>2. Position(actions, d.on) = 0 /\ Position(actions, d.from) \in Nat
    <3>1. DOMAIN actions = 1..Len(actions)
      BY <1>2
    <3> QED
      BY <1>1, <1>5, <3>1 DEF Position, Members
  <2>3. ~Violated(actions, d)
    BY <1>3, <2>1, <2>2 DEF Violated
  <2> QED
    BY <1>4, <1>5, <2>3 DEF Holds
<1>6. CASE d.on \in Members(actions)
  <2>1. d.on # d.from
    <3>1. {d.on} \in SUBSET ProductIds /\ {d.on} # {}
      BY <1>2, <1>6
    <3>2. PICK p \in {d.on} : \A e \in Recorded : e.on = p => e.from \notin {d.on}
      BY <1>2, <3>1, NotNeeded
    <3> QED
      BY <1>1, <3>2
  <2> PICK list, r : list = actions /\ r = actions'
    OBVIOUS
  <2>2. /\ list \in Seq(Action) /\ Unique(list) /\ d.from \in Members(list)
        /\ d.on \in Members(list) /\ r = Move(list, d)
    BY <1>1, <1>2, <1>6
  <2>3. /\ Violated(list, d) <=> ~Leads(kind, list, d.on, d.from)
        /\ Leads(kind, list, d.from, d.on) <=> ~Leads(kind, list, d.on, d.from)
        /\ Violated(list, d) =>
             /\ list[Popped(list, d)].product = d.on
             /\ Leads(kind, r, d.on, d.from)
             /\ \A x : Leads(kind, list, d.on, x) => Leads(kind, r, d.on, x)
             /\ \A x, y : x # d.on /\ y # d.on => (Leads(kind, r, x, y) <=> Leads(kind, list, x, y))
    BY <1>3, <2>1, <2>2, MoveLeads, SMTT(30)
  <2>4. CASE ~Violated(list, d)
    BY <1>4, <2>3, <2>4 DEF Holds
  <2>5. CASE Violated(list, d)
    <3>1. Passes(kind, list, r, d)
      BY <2>1, <2>2, <2>3, <2>5 DEF Passes
    <3>2. moved' = moved \cup {d.on}
      BY <1>1, <2>3, <2>5
    <3> QED
      BY <3>1, <3>2
  <2> QED
    BY <2>4, <2>5
<1> QED
  BY <1>5, <1>6

\* What is moved is none of the products that stay where they are.
LEMMA MoveKeepsRun ==
  ASSUME SorterInv, MoveRequired, NEW kind \in {"before", "after"}, OneKind(kind)
  PROVE  RunInv(kind)'
<1> USE DEF SorterInv
<1> PICK d : d = PresentRequirement
  OBVIOUS
<1> PICK list, r, members : list = actions /\ r = actions' /\ members = Members(actions)
  OBVIOUS
<1>1. /\ stage = "sort" /\ d \in Recorded /\ d.from \in members /\ Members(r) = members
      /\ \A p \in ProductIds : \A i \in DOMAIN hard[p] :
           Visited(p, i)' => Visited(p, i) \/ hard[p][i] = d
  BY RequirementAt
<1>2. members \subseteq ProductIds
  BY <1>1, SortedGroup
<1>3. (r = list /\ Holds(kind, r, d)) \/ Passes(kind, list, r, d)
  BY MoveOfOneKind
<1>4. hard' = hard /\ runs' = runs /\ Recorded' = Recorded
  BY DEF MoveRequired, searching, Recorded
<1>5. PICK fixed \in SUBSET members :
        /\ Cardinality(fixed) >= runs - 1
        /\ Closed(fixed, members)
        /\ \A p \in fixed : HoldsFor(kind, list, p)
        /\ \/ fixed = members
           \/ \E p \in members \ fixed : Closed(fixed \cup {p}, members) /\ Through(kind, p)
  BY <1>1 DEF SortInv, RunInv
<1>6. Passes(kind, list, r, d) => d.on \notin fixed
  <2> SUFFICES ASSUME Passes(kind, list, r, d), d.on \in fixed PROVE FALSE
    OBVIOUS
  <2>1. d.from \in fixed
    BY <1>1, <1>5 DEF Closed
  <2>2. Holds(kind, list, d)
    BY <1>1, <1>5, <2>1 DEF HoldsFor
  <2> QED
    BY <2>2 DEF Holds, Passes
<1>7. ASSUME NEW e \in Recorded, Holds(kind, list, e),
             Passes(kind, list, r, d) => e.from # d.on
      PROVE  Holds(kind, r, e)
  <2>1. CASE r = list
    BY <1>7, <2>1
  <2>2. CASE Passes(kind, list, r, d)
    <3> SUFFICES ASSUME e.on \in members PROVE Leads(kind, r, e.on, e.from)
      BY <1>1 DEF Holds
    <3>1. Leads(kind, list, e.on, e.from)
      BY <1>7 DEF Holds
    <3>2. e.from # d.on
      BY <1>7, <2>2
    <3> QED
      BY <2>2, <3>1, <3>2 DEF Passes
  <2> QED
    BY <1>3, <2>1, <2>2
<1>8. \A p \in fixed : HoldsFor(kind, r, p)
  BY <1>5, <1>6, <1>7 DEF HoldsFor
<1>9. ASSUME NEW p \in members \ fixed, Closed(fixed \cup {p}, members), Through(kind, p)
      PROVE  Through(kind, p)'
  <2>1. Passes(kind, list, r, d) => d.on # p
    <3> SUFFICES ASSUME Passes(kind, list, r, d), d.on = p PROVE FALSE
      OBVIOUS
    <3>1. d.from \in fixed /\ d.from # p
      BY <1>1, <1>9 DEF Closed, Passes
    <3>2. Holds(kind, list, d)
      BY <1>1, <1>5, <3>1 DEF HoldsFor
    <3> QED
      BY <3>2 DEF Holds, Passes
  <2>2. ASSUME NEW i \in DOMAIN hard[p], Visited(p, i)' PROVE Holds(kind, r, hard[p][i])
    <3>1. hard[p][i] \in Recorded /\ hard[p][i].from = p
      BY <1>2, RecordedOf
    <3>2. CASE Visited(p, i)
      <4>1. Holds(kind, list, hard[p][i])
        BY <1>9, <3>2 DEF Through
      <4> QED
        BY <1>7, <2>1, <3>1, <4>1
    <3>3. CASE hard[p][i] = d
      BY <1>3, <3>3 DEF Holds, Passes
    <3> QED
      BY <1>1, <1>2, <2>2, <3>2, <3>3
  <2> QED
    BY <1>4, <2>2 DEF Through
<1>10. \A set : Closed(set, members) => Closed(set, Members(actions))'
  BY <1>1, <1>4 DEF Closed
<1>11. \A p \in fixed : HoldsFor(kind, actions, p)'
  BY <1>4, <1>8 DEF HoldsFor
<1>12. \/ fixed = Members(actions')
       \/ \E p \in Members(actions') \ fixed :
            Closed(fixed \cup {p}, Members(actions))' /\ Through(kind, p)'
  BY <1>1, <1>5, <1>9, <1>10
<1> QED
  BY <1>1, <1>4, <1>5, <1>10, <1>11, <1>12 DEF RunInv

\* What is moved passes a product that needs it.
LEMMA MoveKeepsMoved ==
  ASSUME SorterInv, MoveRequired, NEW kind \in {"before", "after"}, OneKind(kind)
  PROVE  MovedInv(kind)'
<1> USE DEF SorterInv
<1> PICK d : d = PresentRequirement
  OBVIOUS
<1> PICK list, r, members, old : list = actions /\ r = actions' /\ members = Members(actions)
                                 /\ old = copy
  OBVIOUS
<1>1. /\ stage = "sort" /\ d \in Recorded /\ d.from \in members /\ Members(r) = members
      /\ (moved \subseteq members => moved' \subseteq members)
      /\ \A p \in ProductIds : \A i \in DOMAIN hard[p] :
           Visited(p, i)' => Visited(p, i) \/ hard[p][i] = d
  BY RequirementAt
<1>2. members \subseteq ProductIds
  BY <1>1, SortedGroup
<1>3. hard' = hard /\ copy' = old /\ Recorded' = Recorded
  BY DEF MoveRequired, searching, Recorded
<1>4. /\ moved \subseteq members
      /\ moved = {} => list = old /\ \A p \in members : Through(kind, p)
      /\ \A p, q \in members \ moved : Leads(kind, old, p, q) <=> Leads(kind, list, p, q)
      /\ \A p \in moved : \E e \in Recorded :
           /\ e.on = p /\ e.from \in members
           /\ e.from \in moved \/ (Leads(kind, old, e.from, p) /\ Leads(kind, list, p, e.from))
  BY <1>1 DEF SortInv, MovedInv
<1>5. CASE r = list /\ moved' = moved /\ Holds(kind, list, d)
  <2>1. ASSUME moved' = {}, NEW p \in members PROVE Through(kind, p)'
    <3>1. ASSUME NEW i \in DOMAIN hard[p], Visited(p, i)' PROVE Holds(kind, r, hard[p][i])
      BY <1>1, <1>2, <1>4, <1>5, <2>1, <3>1 DEF Through
    <3> QED
      BY <1>3, <3>1 DEF Through
  <2> QED
    BY <1>1, <1>3, <1>4, <1>5, <2>1 DEF MovedInv
<1>6. CASE Passes(kind, list, r, d) /\ moved' = moved \cup {d.on}
  <2>1. ASSUME NEW p \in members \ moved', NEW q \in members \ moved'
        PROVE  Leads(kind, old, p, q) <=> Leads(kind, r, p, q)
    BY <1>4, <1>6 DEF Passes
  <2>2. ASSUME NEW p \in moved'
        PROVE  \E e \in Recorded :
                 /\ e.on = p /\ e.from \in members
                 /\ e.from \in moved' \/ (Leads(kind, old, e.from, p) /\ Leads(kind, r, p, e.from))
    <3>1. CASE p \in moved
      <4>1. PICK e \in Recorded :
              /\ e.on = p /\ e.from \in members
              /\ e.from \in moved \/ (Leads(kind, old, e.from, p) /\ Leads(kind, list, p, e.from))
        BY <1>4, <3>1
      <4>2. CASE e.from \in moved \/ e.from = d.on
        BY <1>6, <4>1, <4>2
      <4>3. CASE ~(e.from \in moved \/ e.from = d.on)
        <5>1. Leads(kind, list, p, e.from)
          BY <4>1, <4>3
        <5>2. Leads(kind, r, p, e.from)
          BY <1>6, <4>3, <5>1 DEF Passes
        <5> QED
          BY <4>1, <4>3, <5>2
      <4> QED
        BY <4>2, <4>3
    <3>2. CASE p \notin moved
      <4>1. p = d.on
        BY <1>6, <3>2
      <4>2. CASE d.from \in moved
        BY <1>1, <1>6, <4>1, <4>2
      <4>3. CASE d.from \notin moved
        <5>1. Leads(kind, list, d.from, p) /\ p \in members /\ Leads(kind, r, p, d.from)
          BY <1>6, <4>1 DEF Passes
        <5>2. Leads(kind, old, d.from, p)
          BY <1>1, <1>4, <3>2, <4>3, <5>1
        <5> QED
          BY <1>1, <4>1, <5>1, <5>2
      <4> QED
        BY <4>2, <4>3
    <3> QED
      BY <3>1, <3>2
  <2>3. moved' # {} /\ moved' \subseteq members
    BY <1>1, <1>4, <1>6
  <2> QED
    BY <1>1, <1>3, <2>1, <2>2, <2>3 DEF MovedInv
<1> QED
  BY <1>5, <1>6, MoveOfOneKind

\* A requirement is looked at, and its product moved if it is not met.
LEMMA MoveRequiredKeeps ==
  ASSUME SorterInv, MoveRequired PROVE SorterInv'
<1> USE DEF SorterInv
<1>1. /\ stage = "sort" /\ stage' = "sort" /\ request' = request /\ todo' = todo
      /\ path' = path /\ hard' = hard /\ linked' = linked /\ turn' = turn /\ stack' = stack
      /\ groups' = groups /\ found' = found /\ met' = met
      /\ copy' = copy /\ item' = item /\ next' = next + 1 /\ runs' = runs
  BY DEF MoveRequired, Walking, collecting, searching
<1>2. /\ actions' \in Seq(Action) /\ Len(actions') = Len(actions) /\ moved' \subseteq ProductIds
      /\ ToSet(actions') = ToSet(actions) /\ Unique(actions')
  BY RequirementAt
<1>3. CallsInv' /\ FoundInv'
  BY <1>1, FoundStays
<1>4. SorterTypeOK'
  <2>1. next' \in Nat \ {0}
    BY <1>1 DEF SorterTypeOK
  <2> QED
    BY <1>1, <1>2, <2>1 DEF SorterTypeOK
<1>5. SortInv'
  <2>1. ASSUME NEW kind \in {"before", "after"}, OneKind(kind)'
        PROVE  RunInv(kind)' /\ MovedInv(kind)'
    <3>1. OneKind(kind)
      BY <1>1, <2>1 DEF OneKind, Recorded
    <3> QED
      BY <3>1, MoveKeepsRun, MoveKeepsMoved
  <2>2. ToSet(actions') = ActionsOf(linked[Len(groups) + 1])'
    <3>1. ActionsOf(linked[Len(groups) + 1])' = ActionsOf(linked[Len(groups) + 1])
      BY <1>1 DEF ActionsOf, Acting
    <3> QED
      BY <1>1, <1>2, <3>1 DEF SortInv
  <2> QED
    BY <1>1, <1>2, <2>1, <2>2 DEF SortInv
<1>6. GroupInv'
  BY <1>1, GroupsStay
<1>7. LinkInv'
  BY <1>1 DEF LinkInv
<1> QED
  BY <1>3, <1>4, <1>5, <1>6, <1>7

\* A list with one action for each product is as long as its set of products.
LEMMA LengthOf ==
  ASSUME NEW list \in Seq(Action), Unique(list)
  PROVE  /\ IsFiniteSet(Members(list)) /\ Cardinality(Members(list)) = Len(list)
         /\ Len(list) \in Nat
<1> DEFINE n == Len(list)
           f == [i \in 1..n |-> list[i].product]
<1>1. n \in Nat /\ DOMAIN list = 1..n
  OBVIOUS
<1>2. IsFiniteSet(1..n) /\ Cardinality(1..n) = n
  BY <1>1, FS_Interval
<1>3. f \in Surjection(1..n, Members(list))
  BY <1>1 DEF Surjection, Members
<1>4. f \in Injection(1..n, Members(list))
  BY <1>1, <1>3 DEF Injection, Surjection, Unique, IsInjective
<1> HIDE DEF f, n
<1>5. /\ IsFiniteSet(Members(list))
      /\ Cardinality(Members(list)) = Cardinality(1..n) <=> f \in Injection(1..n, Members(list))
  BY <1>2, <1>3, FS_Surjection
<1> QED
  BY <1>1, <1>2, <1>4, <1>5 DEF n

\* All requirements of an action have been looked at: its product is through.
LEMMA NextActionKeeps ==
  ASSUME SorterInv, NextAction PROVE SorterInv'
<1> USE DEF SorterInv
<1>1. /\ stage = "sort" /\ stage' = "sort" /\ request' = request /\ todo' = todo
      /\ path' = path /\ hard' = hard /\ linked' = linked /\ turn' = turn /\ stack' = stack
      /\ groups' = groups /\ found' = found /\ met' = met /\ actions' = actions
      /\ copy' = copy /\ item' = item + 1 /\ next' = 1 /\ runs' = runs /\ moved' = moved
      /\ item <= Len(copy) /\ next > Len(hard[copy[item].product])
  BY DEF NextAction, Walking, collecting, searching
<1>2. /\ copy \in Seq(Action) /\ item \in Nat \ {0} /\ next \in Nat \ {0}
      /\ Len(copy) \in Nat
  BY DEF SorterTypeOK
<1>3. CallsInv' /\ FoundInv'
  BY <1>1, FoundStays
<1>4. SorterTypeOK'
  BY <1>1, <1>2 DEF SorterTypeOK
<1>5. Recorded' = Recorded
  BY <1>1 DEF Recorded
<1>6. Members(actions) \subseteq ProductIds
  BY <1>1, SortedGroup
<1>7. ASSUME NEW kind \in {"before", "after"}, NEW p \in ProductIds, Through(kind, p)
      PROVE  Through(kind, p)'
  <2> SUFFICES ASSUME NEW i \in DOMAIN hard[p], Visited(p, i)' PROVE Visited(p, i)
    BY <1>1, <1>7 DEF Through
  <2>1. hard[p] \in Seq(Dependency)
    BY DEF SorterTypeOK
  <2>2. i \in 1..Len(hard[p]) /\ Len(hard[p]) \in Nat
    BY <2>1
  <2>3. PICK k \in DOMAIN copy : /\ copy[k].product = p
                                 /\ k < item + 1 \/ (k = item + 1 /\ i < 1)
    BY <1>1 DEF Visited
  <2>4. k \in Nat /\ (k < item \/ k = item)
    BY <1>2, <2>2, <2>3
  <2>5. k = item => i < next
    BY <1>1, <1>2, <2>2, <2>3
  <2> QED
    BY <2>3, <2>4, <2>5 DEF Visited
<1>8. SortInv'
  <2>1. ASSUME NEW kind \in {"before", "after"}, OneKind(kind)'
        PROVE  RunInv(kind)' /\ MovedInv(kind)'
    <3>1. OneKind(kind)
      BY <1>1, <2>1 DEF OneKind, Recorded
    <3>2. RunInv(kind) /\ MovedInv(kind)
      BY <1>1, <3>1 DEF SortInv
    <3>3. RunInv(kind)'
      BY <1>1, <1>5, <1>6, <1>7, <3>2 DEF RunInv, Closed, HoldsFor
    <3>4. MovedInv(kind)'
      BY <1>1, <1>5, <1>6, <1>7, <3>2 DEF MovedInv
    <3> QED
      BY <3>3, <3>4
  <2>2. ToSet(actions') = ActionsOf(linked[Len(groups) + 1])'
    <3>1. ActionsOf(linked[Len(groups) + 1])' = ActionsOf(linked[Len(groups) + 1])
      BY <1>1 DEF ActionsOf, Acting
    <3> QED
      BY <1>1, <3>1 DEF SortInv
  <2>3. item' <= Len(copy') + 1
    BY <1>1, <1>2
  <2> QED
    BY <1>1, <2>1, <2>2, <2>3 DEF SortInv
<1>9. GroupInv'
  BY <1>1, GroupsStay
<1>10. LinkInv'
  BY <1>1 DEF LinkInv
<1> QED
  BY <1>3, <1>4, <1>8, <1>9, <1>10

\* At the end of a run it has been through all requirements.
LEMMA RunEnds ==
  ASSUME SorterInv, stage = "sort", item > Len(copy), NEW kind, NEW p \in Members(actions),
         Through(kind, p)
  PROVE  HoldsFor(kind, actions, p)
<1> USE DEF SorterInv
<1>1. /\ copy \in Seq(Action) /\ Members(copy) = Members(actions)
      /\ Members(actions) \subseteq ProductIds
  BY SortedGroup
<1>2. PICK k \in DOMAIN copy : copy[k].product = p
  BY <1>1 DEF Members
<1>3. item \in Nat \ {0} /\ k \in 1..Len(copy) /\ Len(copy) \in Nat
  BY <1>1 DEF SorterTypeOK
<1>4. k < item
  BY <1>3
<1>5. \A i : Visited(p, i)
  BY <1>2, <1>4 DEF Visited
<1> SUFFICES ASSUME NEW d \in Recorded, d.from = p PROVE Holds(kind, actions, d)
  BY DEF HoldsFor
<1>6. \E i \in DOMAIN hard[p] : hard[p][i] = d
  BY RecordedOf
<1> QED
  BY <1>5, <1>6 DEF Through

\* A run that ends has settled one more product, so that as many runs as there
\* are actions settle all of them.
LEMMA NextRunKeeps ==
  ASSUME SorterInv, NextRun PROVE SorterInv'
<1> USE DEF SorterInv
<1>1. /\ stage = "sort" /\ stage' = "sort" /\ request' = request /\ todo' = todo
      /\ path' = path /\ hard' = hard /\ linked' = linked /\ turn' = turn /\ stack' = stack
      /\ groups' = groups /\ found' = found /\ met' = met /\ actions' = actions
      /\ copy' = actions /\ item' = 1 /\ next' = 1 /\ runs' = runs + 1 /\ moved' = {}
      /\ item > Len(copy) /\ runs < Len(actions)
  BY DEF NextRun, collecting, searching
<1>2. /\ actions \in Seq(Action) /\ Unique(actions) /\ Len(actions) \in Nat
      /\ IsFiniteSet(Members(actions)) /\ Cardinality(Members(actions)) = Len(actions)
  BY <1>1, SortedGroup, LengthOf
<1>3. CallsInv' /\ FoundInv'
  BY <1>1, FoundStays
<1>4. SorterTypeOK'
  BY <1>1 DEF SorterTypeOK
<1>5. SortInv'
  <2>1. ASSUME NEW kind \in {"before", "after"}, OneKind(kind)'
        PROVE  RunInv(kind)' /\ MovedInv(kind)'
    <3>1. OneKind(kind)
      BY <1>1, <2>1 DEF OneKind, Recorded
    <3> PICK members : members = Members(actions)
      OBVIOUS
    <3>2. PICK fixed \in SUBSET members :
            /\ Cardinality(fixed) >= runs - 1
            /\ Closed(fixed, members)
            /\ \A p \in fixed : HoldsFor(kind, actions, p)
            /\ \/ fixed = members
               \/ \E p \in members \ fixed : Closed(fixed \cup {p}, members) /\ Through(kind, p)
      BY <1>1, <3>1 DEF SortInv, RunInv
    <3>3. runs \in Nat
      BY DEF SorterTypeOK
    <3>4. PICK more \in SUBSET members :
            /\ Cardinality(more) >= runs
            /\ Closed(more, members)
            /\ \A p \in more : HoldsFor(kind, actions, p)
      <4>1. CASE fixed = members
        BY <1>1, <1>2, <3>2, <3>3, <4>1
      <4>2. CASE fixed # members
        <5>1. PICK p \in members \ fixed : Closed(fixed \cup {p}, members) /\ Through(kind, p)
          BY <3>2, <4>2
        <5>2. HoldsFor(kind, actions, p)
          BY <1>1, <5>1, RunEnds
        <5>3. Cardinality(fixed \cup {p}) = Cardinality(fixed) + 1 /\ Cardinality(fixed) \in Nat
          <6>1. IsFiniteSet(fixed)
            BY <1>2, FS_Subset
          <6> QED
            BY <6>1, FS_AddElement, FS_CardinalityType
        <5>4. Cardinality(fixed \cup {p}) >= runs
          BY <3>2, <3>3, <5>3
        <5> QED
          BY <3>2, <5>1, <5>2, <5>4
      <4> QED
        BY <4>1, <4>2
    <3>5. Cardinality(more) >= runs' - 1 /\ Members(actions') = members
      BY <1>1, <3>3, <3>4
    <3>6. \A p \in more : HoldsFor(kind, actions', p)
      BY <1>1, <3>4
    <3>7. actions' \in Seq(Action) /\ copy' = actions'
      BY <1>1, <1>2
    <3> QED
      BY <1>1, <3>1, <3>4, <3>5, <3>6, <3>7, RunBegins
  <2>2. ToSet(actions') = ActionsOf(linked[Len(groups) + 1])'
    <3>1. ActionsOf(linked[Len(groups) + 1])' = ActionsOf(linked[Len(groups) + 1])
      BY <1>1 DEF ActionsOf, Acting
    <3> QED
      BY <1>1, <3>1 DEF SortInv
  <2>3. runs' >= 1 /\ item' <= Len(copy') + 1
    BY <1>1, <1>2 DEF SorterTypeOK
  <2> QED
    BY <1>1, <1>2, <2>1, <2>2, <2>3 DEF SortInv
<1>6. GroupInv'
  BY <1>1, GroupsStay
<1>7. LinkInv'
  BY <1>1 DEF LinkInv
<1> QED
  BY <1>3, <1>4, <1>5, <1>6, <1>7

\* A run that changes nothing has moved nothing, and all requirements hold; so
\* they do when there have been as many runs as there are actions.
LEMMA SortedHolds ==
  ASSUME SorterInv, stage = "sort", item > Len(copy), copy = actions \/ runs >= Len(actions),
         NEW kind \in {"before", "after"}, OneKind(kind), NEW p \in Members(actions)
  PROVE  HoldsFor(kind, actions, p)
<1> USE DEF SorterInv
<1> PICK members : members = Members(actions)
  OBVIOUS
<1>1. /\ actions \in Seq(Action) /\ Unique(actions) /\ IsFiniteSet(ProductIds)
      /\ members \subseteq ProductIds
  BY SortedGroup
<1>2. IsFiniteSet(members) /\ Cardinality(members) = Len(actions) /\ Len(actions) \in Nat
  BY <1>1, LengthOf
<1>3. CASE copy = actions
  <2>1. /\ moved \subseteq members
        /\ moved = {} => \A q \in members : Through(kind, q)
        /\ \A q \in moved : \E d \in Recorded :
             /\ d.on = q /\ d.from \in members
             /\ d.from \in moved \/ (Leads(kind, actions, d.from, q) /\ Leads(kind, actions, q, d.from))
    BY <1>3 DEF SortInv, MovedInv
  <2>2. moved = {}
    <3> SUFFICES ASSUME moved # {} PROVE FALSE
      OBVIOUS
    <3>1. PICK q \in moved : \A d \in Recorded : d.on = q => d.from \notin moved
      BY <1>1, <2>1, NotNeeded
    <3>2. PICK d \in Recorded : /\ d.on = q /\ d.from \in members
                                /\ Leads(kind, actions, d.from, q) /\ Leads(kind, actions, q, d.from)
      BY <2>1, <3>1
    <3>3. d.from # q
      BY <3>1, <3>2
    <3>4. Precedes(actions, d.from, q) <=> ~Precedes(actions, q, d.from)
      BY <1>1, <2>1, <3>2, <3>3, OrderOf
    <3> QED
      BY <3>2, <3>4 DEF Leads
  <2> QED
    BY <2>1, <2>2, RunEnds
<1>4. CASE runs >= Len(actions)
  <2>1. PICK fixed \in SUBSET members :
          /\ Cardinality(fixed) >= runs - 1
          /\ \A q \in fixed : HoldsFor(kind, actions, q)
          /\ fixed = members \/ \E q \in members \ fixed : Through(kind, q)
    BY DEF SortInv, RunInv
  <2>2. CASE fixed = members
    BY <2>1, <2>2
  <2>3. CASE fixed # members
    <3>1. PICK q \in members \ fixed : Through(kind, q)
      BY <2>1, <2>3
    <3>2. HoldsFor(kind, actions, q)
      BY <3>1, RunEnds
    <3>3. IsFiniteSet(fixed)
      BY <1>2, FS_Subset
    <3>4. fixed \cup {q} = members
      <4>1. Cardinality(fixed \cup {q}) = Cardinality(fixed) + 1 /\ Cardinality(fixed) \in Nat
        BY <3>3, FS_AddElement, FS_CardinalityType
      <4>2. Cardinality(fixed \cup {q}) <= Cardinality(members)
        BY <1>2, FS_Subset
      <4>3. runs \in Nat
        BY DEF SorterTypeOK
      <4>4. Cardinality(fixed \cup {q}) = Cardinality(members)
        BY <1>2, <1>4, <2>1, <4>1, <4>2, <4>3
      <4> QED
        BY <1>2, <4>4, FS_Subset
    <3> QED
      BY <2>1, <3>2, <3>4
  <2> QED
    BY <2>2, <2>3
<1> QED
  BY <1>3, <1>4

\* After the last run the requirements among the group's products are met, and
\* stay met in the groups.
LEMMA GroupSortedKeeps ==
  ASSUME SorterInv, GroupSorted PROVE SorterInv'
<1> USE DEF SorterInv
<1> DEFINE group == [priority |-> GroupPriority(actions), actions |-> actions]
           n == Len(groups)
<1>1. /\ stage = "sort" /\ stage' = "group" /\ request' = request /\ todo' = todo
      /\ path' = path /\ hard' = hard /\ linked' = linked /\ turn' = turn /\ stack' = stack
      /\ found' = found /\ met' = met /\ actions' = actions /\ copy' = copy /\ item' = item
      /\ next' = next /\ runs' = runs /\ moved' = moved
      /\ item > Len(copy) /\ (copy = actions \/ runs >= Len(actions))
      /\ groups' = Append(groups, group)
  BY DEF GroupSorted, collecting, searching, sorting
<1>2. actions \in Seq(Action) /\ Unique(actions) /\ Members(actions) \subseteq ProductIds
  BY <1>1, SortedGroup
<1>3. groups \in Seq([priority: Int, actions: Seq(Action)])
  BY DEF SorterTypeOK
<1>4. /\ groups' \in Seq([priority: Int, actions: Seq(Action)]) /\ Len(groups') = n + 1
      /\ \A k \in 1..(n + 1) : groups'[k] = IF k = n + 1 THEN group ELSE groups[k]
  <2>1. GroupPriority(actions) \in Int
    BY <1>2, PriorityType DEF SorterTypeOK
  <2>2. group \in [priority: Int, actions: Seq(Action)]
    BY <1>2, <2>1
  <2> HIDE DEF group
  <2> QED
    BY <1>1, <1>3, <2>2, Appended
<1>5. n \in Nat /\ DOMAIN groups = 1..n /\ DOMAIN groups' = 1..(n + 1) /\ n < Len(linked)
      /\ group.actions = actions
  BY <1>1, <1>3, <1>4 DEF SortInv
<1> HIDE DEF group, n
<1>6. /\ \A k \in 1..n : k \in 1..(n + 1) /\ groups'[k] = groups[k]
      /\ n + 1 \in 1..(n + 1) /\ groups'[n + 1].actions = actions
      /\ \A k \in 1..(n + 1) : k \in 1..n \/ k = n + 1
  BY <1>4, <1>5
<1>7. CallsInv' /\ FoundInv'
  BY <1>1, FoundStays
<1>8. SorterTypeOK'
  BY <1>1, <1>4 DEF SorterTypeOK, SorterStages
<1>9. SortInv'
  BY <1>1 DEF SortInv
<1>10. LinkInv'
  BY <1>1 DEF LinkInv
<1>11. Recorded' = Recorded /\ ActionsOf(ProductIds)' = ActionsOf(ProductIds)
       /\ \A i : ActionsOf(linked[i])' = ActionsOf(linked[i])
  BY <1>1 DEF Recorded, ActionsOf, Acting
<1>12. linked \in Seq(SUBSET ProductIds) /\ Len(linked) \in Nat /\ DOMAIN linked = 1..Len(linked)
  BY DEF SorterTypeOK
<1>13. ASSUME NEW i \in 1..(n + 1)
       PROVE  ToSet(groups'[i].actions) = ActionsOf(linked[i]) /\ i \in DOMAIN linked
  <2>1. i \in DOMAIN linked
    BY <1>5, <1>12
  <2>2. ToSet(actions) = ActionsOf(linked[n + 1])
    BY <1>1 DEF SortInv, n
  <2>3. i \in 1..n => ToSet(groups[i].actions) = ActionsOf(linked[i])
    BY <1>1, <1>5 DEF GroupInv
  <2> QED
    BY <1>6, <2>1, <2>2, <2>3
<1>14. found \in [ProductIds -> Seq(Actions \cup {"none"})]
  BY DEF SorterTypeOK
<1>15. ASSUME NEW i \in 1..(n + 1), NEW p, InGroup(p, i)' PROVE p \in linked[i]
  <2>1. linked[i] \in SUBSET ProductIds
    BY <1>12, <1>13
  <2>2. \A a \in ActionsOf(linked[i]) : a.product \in linked[i]
    BY <1>14, <2>1, ActionsOfProducts
  <2>3. p \in Members(groups'[i].actions)
    BY <1>15 DEF InGroup
  <2> QED
    BY <1>13, <2>2, <2>3 DEF Members, ToSet
<1>16. \A i, j \in 1..(n + 1) : \A p : InGroup(p, i)' /\ InGroup(p, j)' => i = j
  BY <1>13, <1>15 DEF LinkInv, Apart
<1>17. ASSUME NEW d \in Recorded, NEW i \in 1..(n + 1), NEW j \in 1..(n + 1),
              InGroup(d.from, i)', InGroup(d.on, j)'
       PROVE  i = j
  <2>1. PICK k \in DOMAIN linked : {d.from, d.on} \subseteq linked[k]
    BY RecordedOf
  <2>2. d.from \in linked[i] /\ d.on \in linked[j]
    BY <1>15, <1>17
  <2>3. i = k /\ j = k
    BY <1>13, <2>1, <2>2 DEF LinkInv, Apart
  <2> QED
    BY <2>3
<1>18. ASSUME NEW i \in 1..(n + 1)
       PROVE  /\ ToSet(groups'[i].actions) \subseteq ActionsOf(ProductIds)
              /\ Unique(groups'[i].actions)
  <2>1. CASE i \in 1..n
    BY <1>5, <1>6, <2>1 DEF GroupInv
  <2>2. CASE i = n + 1
    <3>1. linked[i] \in SUBSET ProductIds
      BY <1>12, <1>13
    <3>2. ActionsOf(linked[i]) \subseteq ActionsOf(ProductIds)
      BY <3>1 DEF ActionsOf, Acting
    <3> QED
      BY <1>2, <1>6, <1>13, <2>2, <3>2
  <2> QED
    BY <1>6, <2>1, <2>2
<1>19. ASSUME NEW kind \in {"before", "after"}, OneKind(kind)',
              NEW i \in 1..(n + 1), NEW p \in Members(groups'[i].actions)
       PROVE  HoldsFor(kind, groups[i].actions, p)'
  <2>1. OneKind(kind)
    BY <1>1, <1>11, <1>19 DEF OneKind
  <2>2. HoldsFor(kind, groups'[i].actions, p)
    <3>1. CASE i \in 1..n
      BY <1>5, <1>6, <1>19, <2>1, <3>1 DEF GroupInv
    <3>2. CASE i = n + 1
      BY <1>1, <1>6, <1>19, <2>1, <3>2, SortedHolds
    <3> QED
      BY <1>6, <3>1, <3>2
  <2> QED
    BY <1>11, <2>2 DEF HoldsFor
<1>20. Len(groups') <= Len(linked')
  BY <1>1, <1>4, <1>5, <1>12
<1>21. /\ \A i \in DOMAIN groups' : ToSet(groups'[i].actions) = ActionsOf(linked[i])'
       /\ \A i \in DOMAIN groups' :
            /\ ToSet(groups'[i].actions) \subseteq ActionsOf(ProductIds)'
            /\ Unique(groups'[i].actions)
  BY <1>5, <1>11, <1>13, <1>18
<1>22. GroupInv'
  <2>1. /\ \A i, j \in DOMAIN groups' : \A p \in ProductIds :
             InGroup(p, i)' /\ InGroup(p, j)' => i = j
        /\ \A d \in Recorded' : \A i, j \in DOMAIN groups' :
             InGroup(d.from, i)' /\ InGroup(d.on, j)' => i = j
    BY <1>5, <1>11, <1>16, <1>17
  <2>2. ASSUME NEW kind \in {"before", "after"}, OneKind(kind)',
               NEW i \in DOMAIN groups', NEW p \in Members(groups'[i].actions)
        PROVE  HoldsFor(kind, groups[i].actions, p)'
    BY <1>5, <1>19, <2>2
  <2> QED
    BY <1>1, <1>20, <1>21, <2>1, <2>2 DEF GroupInv
<1> QED
  BY <1>7, <1>8, <1>9, <1>10, <1>22

\* Every step of the sorting of a group (ActionGroup.sort).
LEMMA SortGroupKeeps ==
  ASSUME SorterInv, SortGroup PROVE SorterInv'
BY StartGroupKeeps, MoveRequiredKeeps, NextActionKeeps, NextRunKeeps, GroupSortedKeeps
   DEF SortGroup

-----------------------------------------------------------------------------
(* ActionGroups: the result.                                               *)

\* Before the groups are put in order a product is in at most one.
LEMMA AllGroupedKeeps ==
  ASSUME SorterInv, AllGrouped PROVE SorterInv'
<1> USE DEF SorterInv
<1>1. /\ stage = "group" /\ stage' = "rest" /\ request' = request /\ todo' = met
      /\ path' = path /\ hard' = hard /\ linked' = linked /\ turn' = turn /\ stack' = stack
      /\ found' = found /\ met' = met /\ actions' = actions /\ copy' = copy /\ item' = item
      /\ next' = next /\ runs' = runs /\ moved' = moved /\ groups' = groups
      /\ Len(groups) = Len(linked)
  BY DEF AllGrouped, searching, sorting
<1>2. CallsInv' /\ FoundInv'
  BY <1>1, FoundStays
<1>3. SorterTypeOK'
  BY <1>1 DEF SorterTypeOK, SorterStages
<1>4. SortInv'
  BY <1>1 DEF SortInv
<1>5. LinkInv'
  BY <1>1 DEF LinkInv
<1>6. /\ linked \in Seq(SUBSET ProductIds) /\ DOMAIN linked = DOMAIN groups
      /\ found \in [ProductIds -> Seq(Actions \cup {"none"})]
  BY <1>1 DEF SorterTypeOK
<1>7. ASSUME NEW i \in DOMAIN groups, NEW p \in ProductIds
      PROVE  InGroup(p, i) <=> p \in linked[i] /\ found[p] # <<>>
  <2>1. linked[i] \in SUBSET ProductIds /\ ToSet(groups[i].actions) = ActionsOf(linked[i])
    BY <1>1, <1>6 DEF GroupInv
  <2>2. /\ \A a \in ActionsOf(linked[i]) : a.product \in linked[i] /\ found[a.product] # <<>>
        /\ \A q \in linked[i] : found[q] # <<>> => \E a \in ActionsOf(linked[i]) : a.product = q
    BY <1>6, <2>1, ActionsOfProducts
  <2>3. InGroup(p, i) <=> \E a \in ToSet(groups[i].actions) : a.product = p
    BY DEF InGroup, Members, ToSet
  <2> QED
    BY <2>1, <2>2, <2>3
<1>8. ASSUME NEW i \in DOMAIN linked, NEW p \in linked[i], found[p] # <<>>
      PROVE  \E j \in DOMAIN groups : InGroup(p, j)
  <2>1. p \in ProductIds
    BY <1>6
  <2> QED
    BY <1>6, <1>7, <1>8, <2>1
<1>9. ToSet(met) \subseteq ProductIds
  BY ToSetOf DEF SorterTypeOK
<1>10. Recorded' = Recorded /\ ActionsOf(ProductIds)' = ActionsOf(ProductIds)
  BY <1>1 DEF Recorded, ActionsOf, Acting
<1>11. GroupInv'
  <2>1. \A p, i : InGroup(p, i)' <=> InGroup(p, i)
    BY <1>1 DEF InGroup
  <2>2. /\ \A i \in DOMAIN linked' : \A p \in linked'[i] : found'[p] # <<>> =>
             \E j \in DOMAIN groups' : InGroup(p, j)'
        /\ \A p \in ToSet(met') : p \in ToSet(todo')
        /\ Unrepeated(todo') /\ ToSet(todo') \subseteq ToSet(met')
        /\ \A p \in ToSet(todo') : \A j \in DOMAIN groups' :
             InGroup(p, j)' => \E i \in DOMAIN linked' : p \in linked'[i]
    BY <1>1, <1>6, <1>7, <1>8, <1>9, <2>1 DEF FoundInv
  <2>3. ASSUME NEW kind \in {"before", "after"}, OneKind(kind)',
               NEW i \in DOMAIN groups', NEW p \in Members(groups'[i].actions)
        PROVE  HoldsFor(kind, groups[i].actions, p)'
    <3>1. OneKind(kind)
      BY <1>1, <1>10, <2>3 DEF OneKind
    <3>2. HoldsFor(kind, groups[i].actions, p)
      BY <1>1, <2>3, <3>1 DEF GroupInv
    <3> QED
      BY <1>1, <1>10, <3>2 DEF HoldsFor
  <2>4. /\ \A i \in DOMAIN groups' :
             /\ ToSet(groups'[i].actions) \subseteq ActionsOf(ProductIds)'
             /\ Unique(groups'[i].actions)
        /\ \A i, j \in DOMAIN groups' : \A p \in ProductIds :
             InGroup(p, i)' /\ InGroup(p, j)' => i = j
        /\ \A d \in Recorded' : \A i, j \in DOMAIN groups' :
             InGroup(d.from, i)' /\ InGroup(d.on, j)' => i = j
    BY <1>1, <1>10, <2>1 DEF GroupInv
  <2> QED
    BY <1>1, <2>2, <2>3, <2>4 DEF GroupInv
<1> QED
  BY <1>2, <1>3, <1>4, <1>5, <1>11

\* A product that nothing links gets a group of its own.
LEMMA AddIndependentKeeps ==
  ASSUME SorterInv, AddIndependent PROVE SorterInv'
<1> USE DEF SorterInv
<1> PICK p, alone : p = Head(todo) /\ alone = <<[product |-> p, action |-> Merged(found[p])]>>
  OBVIOUS
<1> DEFINE Joined == \E i \in DOMAIN linked : p \in linked[i]
           group == [priority |-> GroupPriority(alone), actions |-> alone]
           n == Len(groups)
<1>1. /\ stage = "rest" /\ stage' = "rest" /\ request' = request /\ todo' = Tail(todo)
      /\ path' = path /\ hard' = hard /\ linked' = linked /\ turn' = turn /\ stack' = stack
      /\ found' = found /\ met' = met /\ actions' = actions /\ copy' = copy /\ item' = item
      /\ next' = next /\ runs' = runs /\ moved' = moved /\ todo # <<>>
      /\ groups' = IF Joined THEN groups ELSE Append(groups, group)
  BY DEF AddIndependent, searching, sorting
<1>2. todo \in Seq(ProductIds) /\ p = todo[1] /\ p \in ProductIds /\ todo' \in Seq(ProductIds)
      /\ Len(todo) \in Nat \ {0} /\ Len(todo') = Len(todo) - 1
      /\ \A k \in 1..(Len(todo) - 1) : todo'[k] = todo[k + 1]
      /\ DOMAIN todo = 1..Len(todo) /\ DOMAIN todo' = 1..(Len(todo) - 1)
  <2>1. todo \in Seq(ProductIds)
    BY DEF SorterTypeOK
  <2> QED
    BY <1>1, <2>1, Tailed
<1>3. /\ Unrepeated(todo) /\ ToSet(todo) \subseteq ToSet(met) /\ p \in ToSet(todo)
      /\ found[p] # <<>>
  <2>1. p \in ToSet(todo)
    BY <1>2 DEF ToSet
  <2> QED
    BY <1>1, <1>2, <2>1 DEF GroupInv, FoundInv
<1>4. Unrepeated(todo') /\ ToSet(todo') = ToSet(todo) \ {p}
  <2>1. ASSUME NEW i \in DOMAIN todo', NEW j \in DOMAIN todo', todo'[i] = todo'[j] PROVE i = j
    <3>1. i + 1 \in DOMAIN todo /\ j + 1 \in DOMAIN todo /\ todo[i + 1] = todo[j + 1]
      BY <1>2, <2>1
    <3>2. i + 1 = j + 1
      BY <1>3, <3>1 DEF Unrepeated
    <3> QED
      BY <1>2, <3>2
  <2>2. ASSUME NEW x \in ToSet(todo') PROVE x \in ToSet(todo) \ {p}
    <3>1. PICK k \in 1..(Len(todo) - 1) : x = todo'[k]
      BY <1>2 DEF ToSet
    <3>2. k + 1 \in DOMAIN todo /\ x = todo[k + 1] /\ k + 1 # 1 /\ 1 \in DOMAIN todo
      BY <1>2, <3>1
    <3>3. x # p
      BY <1>2, <1>3, <3>2 DEF Unrepeated
    <3> QED
      BY <3>2, <3>3 DEF ToSet
  <2>3. ASSUME NEW x \in ToSet(todo) \ {p} PROVE x \in ToSet(todo')
    <3>1. PICK k \in 1..Len(todo) : x = todo[k]
      BY <1>2 DEF ToSet
    <3>2. k # 1
      BY <1>2, <3>1
    <3>3. k - 1 \in 1..(Len(todo) - 1) /\ k - 1 + 1 = k
      BY <1>2, <3>2
    <3>4. x = todo'[k - 1] /\ k - 1 \in DOMAIN todo'
      BY <1>2, <3>1, <3>3
    <3> QED
      BY <3>4 DEF ToSet
  <2> QED
    BY <2>1, <2>2, <2>3 DEF Unrepeated
<1>5. groups \in Seq([priority: Int, actions: Seq(Action)]) /\ n \in Nat /\ DOMAIN groups = 1..n
  BY DEF SorterTypeOK
<1>6. /\ alone \in Seq(Action) /\ DOMAIN alone = 1..1 /\ Members(alone) = {p}
      /\ alone[1] = [product |-> p, action |-> Merged(found[p])]
      /\ ToSet(alone) \subseteq ActionsOf(ProductIds) /\ Unique(alone)
  <2>1. found[p] \in Seq(Actions \cup {"none"})
    BY <1>2 DEF SorterTypeOK
  <2>2. Merged(found[p]) \in Actions \cup {"none"}
    BY <2>1, MergedOf
  <2>3. [product |-> p, action |-> Merged(found[p])] \in Action
    BY <1>2, <2>2 DEF Action
  <2>4. alone \in Seq(Action) /\ DOMAIN alone = 1..1
        /\ alone[1] = [product |-> p, action |-> Merged(found[p])]
    BY <2>3
  <2>5. alone[1] \in ActionsOf(ProductIds)
    BY <1>2, <1>3, <2>4 DEF ActionsOf, Acting
  <2> QED
    BY <2>4, <2>5 DEF Members, ToSet, Unique
<1>7. CallsInv' /\ FoundInv'
  BY <1>1, FoundStays
<1>8. SortInv'
  BY <1>1 DEF SortInv
<1>9. LinkInv'
  BY <1>1 DEF LinkInv
<1>10. Recorded' = Recorded /\ ActionsOf(ProductIds)' = ActionsOf(ProductIds)
  BY <1>1 DEF Recorded, ActionsOf, Acting
<1>11. /\ \A i \in DOMAIN linked : \A q \in linked[i] : found[q] # <<>> =>
            \E j \in 1..n : InGroup(q, j)
       /\ \A q \in ToSet(met) : q \in ToSet(todo) \/ \E j \in 1..n : InGroup(q, j)
  BY <1>1, <1>5 DEF GroupInv
<1>12. \A q \in ToSet(todo) : \A j \in 1..n :
         InGroup(q, j) => \E i \in DOMAIN linked : q \in linked[i]
  BY <1>1, <1>5 DEF GroupInv
<1>13. \A i \in 1..n :
         ToSet(groups[i].actions) \subseteq ActionsOf(ProductIds) /\ Unique(groups[i].actions)
  BY <1>1, <1>5 DEF GroupInv
<1>14. \A i, j \in 1..n : \A q \in ProductIds : InGroup(q, i) /\ InGroup(q, j) => i = j
  BY <1>1, <1>5 DEF GroupInv
<1>15. \A d \in Recorded : \A i, j \in 1..n : InGroup(d.from, i) /\ InGroup(d.on, j) => i = j
  BY <1>1, <1>5 DEF GroupInv
<1>16. ASSUME NEW kind \in {"before", "after"}, OneKind(kind)',
              NEW i \in 1..n, NEW q \in Members(groups[i].actions)
       PROVE  HoldsFor(kind, groups[i].actions, q)
  <2>1. OneKind(kind)
    BY <1>1, <1>10, <1>16 DEF OneKind
  <2> QED
    BY <1>1, <1>5, <1>16, <2>1 DEF GroupInv
<1>17. ToSet(todo') \subseteq ToSet(met')
  BY <1>1, <1>3, <1>4
<1>18. CASE Joined
  <2>1. groups' = groups
    BY <1>1, <1>18
  <2>2. SorterTypeOK'
    BY <1>1, <1>2, <2>1 DEF SorterTypeOK
  <2>3. \A q, i : InGroup(q, i)' <=> InGroup(q, i)
    BY <2>1 DEF InGroup
  <2>4. \E j \in 1..n : InGroup(p, j)
    BY <1>3, <1>11, <1>18
  <2> HIDE DEF group, n, Joined
  <2>5. ASSUME NEW kind \in {"before", "after"}, OneKind(kind)',
               NEW i \in DOMAIN groups', NEW q \in Members(groups'[i].actions)
        PROVE  HoldsFor(kind, groups[i].actions, q)'
    <3>1. HoldsFor(kind, groups[i].actions, q)
      BY <1>5, <1>16, <2>1, <2>5
    <3> QED
      BY <1>10, <2>1, <3>1 DEF HoldsFor
  <2>6. /\ \A i \in DOMAIN linked' : \A q \in linked'[i] : found'[q] # <<>> =>
             \E j \in DOMAIN groups' : InGroup(q, j)'
        /\ \A q \in ToSet(met') :
             q \in ToSet(todo') \/ \E j \in DOMAIN groups' : InGroup(q, j)'
    BY <1>1, <1>4, <1>5, <1>11, <2>1, <2>3, <2>4
  <2>7. \A q \in ToSet(todo') : \A j \in DOMAIN groups' :
          InGroup(q, j)' => \E i \in DOMAIN linked' : q \in linked'[i]
    BY <1>1, <1>4, <1>5, <1>12, <2>1, <2>3
  <2>8. \A i \in DOMAIN groups' :
          ToSet(groups'[i].actions) \subseteq ActionsOf(ProductIds)' /\ Unique(groups'[i].actions)
    BY <1>5, <1>10, <1>13, <2>1
  <2>9. /\ \A i, j \in DOMAIN groups' : \A q \in ProductIds :
             InGroup(q, i)' /\ InGroup(q, j)' => i = j
        /\ \A d \in Recorded' : \A i, j \in DOMAIN groups' :
             InGroup(d.from, i)' /\ InGroup(d.on, j)' => i = j
    BY <1>5, <1>10, <1>14, <1>15, <2>1, <2>3
  <2>10. GroupInv'
    BY <1>1, <1>4, <1>17, <2>5, <2>6, <2>7, <2>8, <2>9 DEF GroupInv
  <2> QED
    BY <1>7, <1>8, <1>9, <2>2, <2>10
<1>19. CASE ~Joined
  <2>1. /\ groups' \in Seq([priority: Int, actions: Seq(Action)]) /\ Len(groups') = n + 1
        /\ \A k \in 1..(n + 1) : groups'[k] = IF k = n + 1 THEN group ELSE groups[k]
    <3>1. GroupPriority(alone) \in Int
      BY <1>6, PriorityType DEF SorterTypeOK
    <3>2. group \in [priority: Int, actions: Seq(Action)]
      BY <1>6, <3>1
    <3>3. groups' = Append(groups, group)
      BY <1>1, <1>19
    <3> HIDE DEF group
    <3> QED
      BY <1>5, <3>2, <3>3, Appended, SMTT(30)
  <2>2. group.actions = alone
    OBVIOUS
  <2>3. \A i \in DOMAIN linked : p \notin linked[i]
    BY <1>19
  <2> PICK m \in Nat : m = n
    BY <1>5
  <2> HIDE DEF group, n, Joined
  <2>4. DOMAIN groups' = 1..(m + 1) /\ DOMAIN groups = 1..m /\ m + 1 \in 1..(m + 1)
    BY <1>5, <2>1
  <2>5. groups'[m + 1].actions = alone
    BY <2>1, <2>2
  <2>6. ASSUME NEW k \in 1..m PROVE k \in 1..(m + 1) /\ groups'[k] = groups[k]
    BY <2>1
  <2>7. \A k \in 1..(m + 1) : k \in 1..m \/ k = m + 1
    OBVIOUS
  <2>8. SorterTypeOK'
    BY <1>1, <1>2, <2>1 DEF SorterTypeOK
  <2>9. \A q : \A i \in 1..m : InGroup(q, i)' <=> InGroup(q, i)
    BY <2>6 DEF InGroup
  <2>10. \A q : InGroup(q, m + 1)' <=> q = p
    BY <1>6, <2>5 DEF InGroup
  <2>11. \A j \in 1..m : ~InGroup(p, j)
    BY <1>3, <1>12, <2>3
  <2>12. \A d \in Recorded : d.from # p /\ d.on # p
    BY <2>3, RecordedOf
  <2>13. ASSUME NEW i \in DOMAIN linked, NEW q \in linked[i], found[q] # <<>>
         PROVE  \E j \in 1..(m + 1) : InGroup(q, j)'
    BY <1>11, <2>6, <2>9, <2>13
  <2>14. ASSUME NEW q \in ToSet(met), q \notin ToSet(todo')
         PROVE  \E j \in 1..(m + 1) : InGroup(q, j)'
    <3>1. CASE q = p
      BY <2>4, <2>10, <3>1
    <3>2. CASE q # p
      BY <1>4, <1>11, <2>6, <2>9, <2>14, <3>2
    <3> QED
      BY <3>1, <3>2
  <2>15. ASSUME NEW q \in ToSet(todo'), NEW j \in 1..(m + 1), InGroup(q, j)'
         PROVE  \E i \in DOMAIN linked : q \in linked[i]
    <3>1. q # p /\ q \in ToSet(todo)
      BY <1>4
    <3>2. j \in 1..m
      BY <2>7, <2>10, <2>15, <3>1
    <3> QED
      BY <1>12, <2>9, <2>15, <3>1, <3>2
  <2>16. ASSUME NEW i \in 1..(m + 1)
         PROVE  ToSet(groups'[i].actions) \subseteq ActionsOf(ProductIds) /\ Unique(groups'[i].actions)
    <3>1. CASE i \in 1..m
      BY <1>13, <2>6, <3>1
    <3>2. CASE i = m + 1
      BY <1>6, <2>5, <3>2
    <3> QED
      BY <2>7, <3>1, <3>2
  <2>17. ASSUME NEW i \in 1..(m + 1), NEW j \in 1..(m + 1), NEW q \in ProductIds,
                InGroup(q, i)', InGroup(q, j)'
         PROVE  i = j
    <3>1. CASE i \in 1..m /\ j \in 1..m
      BY <1>14, <2>9, <2>17, <3>1
    <3>2. CASE i = m + 1
      BY <2>7, <2>9, <2>10, <2>11, <2>17, <3>2
    <3>3. CASE j = m + 1
      BY <2>7, <2>9, <2>10, <2>11, <2>17, <3>3
    <3> QED
      BY <2>7, <3>1, <3>2, <3>3
  <2>18. ASSUME NEW d \in Recorded, NEW i \in 1..(m + 1), NEW j \in 1..(m + 1),
                InGroup(d.from, i)', InGroup(d.on, j)'
         PROVE  i = j
    <3>1. i # m + 1 /\ j # m + 1
      BY <2>10, <2>12, <2>18
    <3>2. i \in 1..m /\ j \in 1..m
      BY <2>7, <3>1
    <3> QED
      BY <1>15, <2>9, <2>18, <3>2
  <2>19. ASSUME NEW kind \in {"before", "after"}, OneKind(kind)',
                NEW i \in 1..(m + 1), NEW q \in Members(groups'[i].actions)
         PROVE  HoldsFor(kind, groups[i].actions, q)'
    <3>1. CASE i \in 1..m
      <4>1. HoldsFor(kind, groups[i].actions, q)
        BY <1>16, <2>6, <2>19, <3>1
      <4> QED
        BY <1>10, <2>6, <3>1, <4>1 DEF HoldsFor
    <3>2. CASE i = m + 1
      <4>1. q = p
        BY <1>6, <2>5, <2>19, <3>2
      <4> QED
        BY <1>10, <2>12, <4>1 DEF HoldsFor
    <3> QED
      BY <2>7, <3>1, <3>2
  <2>20. /\ \A i \in DOMAIN linked' : \A q \in linked'[i] : found'[q] # <<>> =>
              \E j \in DOMAIN groups' : InGroup(q, j)'
         /\ \A q \in ToSet(met') :
              q \in ToSet(todo') \/ \E j \in DOMAIN groups' : InGroup(q, j)'
    BY <1>1, <2>4, <2>13, <2>14
  <2>21. \A q \in ToSet(todo') : \A j \in DOMAIN groups' :
           InGroup(q, j)' => \E i \in DOMAIN linked' : q \in linked'[i]
    BY <1>1, <2>4, <2>15
  <2>22. \A i \in DOMAIN groups' :
           ToSet(groups'[i].actions) \subseteq ActionsOf(ProductIds)' /\ Unique(groups'[i].actions)
    BY <1>10, <2>4, <2>16
  <2>23. /\ \A i, j \in DOMAIN groups' : \A q \in ProductIds :
              InGroup(q, i)' /\ InGroup(q, j)' => i = j
         /\ \A d \in Recorded' : \A i, j \in DOMAIN groups' :
              InGroup(d.from, i)' /\ InGroup(d.on, j)' => i = j
    BY <1>10, <2>4, <2>17, <2>18
  <2>24. \A kind \in {"before", "after"} : OneKind(kind)' =>
           \A i \in DOMAIN groups' : \A q \in Members(groups'[i].actions) :
             HoldsFor(kind, groups[i].actions, q)'
    BY <2>4, <2>19
  <2>25. GroupInv'
    BY <1>1, <1>4, <1>17, <2>20, <2>21, <2>22, <2>23, <2>24 DEF GroupInv
  <2> QED
    BY <1>7, <1>8, <1>9, <2>8, <2>25
<1> QED
  BY <1>18, <1>19

\* Groups are put into another order, and nothing else is done to them.
LEMMA ReorderedOf ==
  ASSUME NEW list \in Seq([priority: Int, actions: Seq(Action)]), NEW r \in Reordered(list)
  PROVE  /\ r \in Seq([priority: Int, actions: Seq(Action)]) /\ DOMAIN r = DOMAIN list
         /\ \E f \in [DOMAIN list -> DOMAIN list] :
              /\ \A k \in DOMAIN list : r[k] = list[f[k]]
              /\ \A k \in DOMAIN list : \E i \in DOMAIN list : f[i] = k
              /\ \A i, j \in DOMAIN list : f[i] = f[j] => i = j
<1> PICK n : n = Len(list)
  OBVIOUS
<1> PICK D : D = DOMAIN list
  OBVIOUS
<1>0. n \in Nat /\ D = 1..n
  OBVIOUS
<1>1. PICK f \in [D -> D] :
        /\ r = [k \in D |-> list[f[k]]]
        /\ \A k \in D : \E i \in D : f[i] = k
        /\ \A i, j \in D : i < j =>
             \/ list[f[i]].priority > list[f[j]].priority
             \/ list[f[i]].priority = list[f[j]].priority /\ f[i] < f[j]
  BY DEF Reordered
<1>2. \A k \in D : list[f[k]] \in [priority: Int, actions: Seq(Action)]
  <2>1. \A k \in D : list[k] \in [priority: Int, actions: Seq(Action)]
    BY <1>0, ElementOfSeq
  <2> QED
    BY <2>1
<1>3. r \in Seq([priority: Int, actions: Seq(Action)]) /\ DOMAIN r = D
  <2> PICK T : T = [priority: Int, actions: Seq(Action)]
    OBVIOUS
  <2>1. r \in [1..n -> T] /\ DOMAIN r = D
    BY <1>0, <1>1, <1>2
  <2>2. r \in Seq(T)
    BY <1>0, <2>1, ListOf
  <2> QED
    BY <2>1, <2>2
<1>4. \A i, j \in D : i < j => f[i] # f[j]
  <2> SUFFICES ASSUME NEW i \in D, NEW j \in D, i < j, f[i] = f[j] PROVE FALSE
    OBVIOUS
  <2>1. list[f[i]].priority = list[f[j]].priority /\ list[f[i]].priority \in Int
    BY <1>2
  <2>2. \/ list[f[i]].priority > list[f[j]].priority
        \/ list[f[i]].priority = list[f[j]].priority /\ f[i] < f[j]
    BY <1>1
  <2> PICK x, y : x = list[f[j]].priority /\ y = f[j]
    OBVIOUS
  <2>3. x \in Int /\ y \in Int /\ (x > x \/ y < y)
    BY <1>0, <2>1, <2>2
  <2> QED
    BY <2>3
<1>5. \A i, j \in D : f[i] = f[j] => i = j
  <2>1. \A i, j \in D : i < j \/ i = j \/ j < i
    BY <1>0
  <2> QED
    BY <1>4, <2>1
<1>6. /\ f \in [DOMAIN list -> DOMAIN list] /\ DOMAIN r = DOMAIN list
      /\ \A k \in DOMAIN list : r[k] = list[f[k]]
      /\ \A k \in DOMAIN list : \E i \in DOMAIN list : f[i] = k
      /\ \A i, j \in DOMAIN list : f[i] = f[j] => i = j
  BY <1>1, <1>3, <1>5
<1> QED
  BY <1>3, <1>6, Zenon

\* What is said of the groups does not depend on their order.
LEMMA SortGroupsKeeps ==
  ASSUME SorterInv, SortGroups PROVE SorterInv'
<1> USE DEF SorterInv
<1>1. /\ stage = "rest" /\ stage' = "done" /\ request' = request /\ todo' = todo /\ todo = <<>>
      /\ path' = path /\ hard' = hard /\ linked' = linked /\ turn' = turn /\ stack' = stack
      /\ found' = found /\ met' = met /\ actions' = actions /\ copy' = copy /\ item' = item
      /\ next' = next /\ runs' = runs /\ moved' = moved
      /\ groups' \in Reordered(groups)
  BY DEF SortGroups, collecting, searching, sorting
<1>2. CallsInv' /\ FoundInv'
  BY <1>1, FoundStays
<1>3. SortInv'
  BY <1>1 DEF SortInv
<1>4. LinkInv'
  BY <1>1 DEF LinkInv
<1>5. Recorded' = Recorded /\ ActionsOf(ProductIds)' = ActionsOf(ProductIds)
  BY <1>1 DEF Recorded, ActionsOf, Acting
<1>6. /\ groups' \in Seq([priority: Int, actions: Seq(Action)]) /\ DOMAIN groups' = DOMAIN groups
      /\ \E f \in [DOMAIN groups -> DOMAIN groups] :
           /\ \A k \in DOMAIN groups : groups'[k] = groups[f[k]]
           /\ \A k \in DOMAIN groups : \E i \in DOMAIN groups : f[i] = k
           /\ \A i, j \in DOMAIN groups : f[i] = f[j] => i = j
  <2>1. groups \in Seq([priority: Int, actions: Seq(Action)])
    BY DEF SorterTypeOK
  <2> QED
    BY <1>1, <2>1, ReorderedOf, ZenonT(30)
<1> PICK f \in [DOMAIN groups -> DOMAIN groups] :
       /\ \A k \in DOMAIN groups : groups'[k] = groups[f[k]]
       /\ \A k \in DOMAIN groups : \E i \in DOMAIN groups : f[i] = k
       /\ \A i, j \in DOMAIN groups : f[i] = f[j] => i = j
  BY <1>6
<1> PICK D : D = DOMAIN groups
  OBVIOUS
<1>7. /\ f \in [D -> D]
      /\ \A k \in D : groups'[k] = groups[f[k]]
      /\ \A k \in D : \E i \in D : f[i] = k
      /\ \A i, j \in D : f[i] = f[j] => i = j
  OBVIOUS
<1>8. SorterTypeOK'
  BY <1>1, <1>6 DEF SorterTypeOK, SorterStages
<1>9. \A p : \A k \in D : InGroup(p, k)' <=> InGroup(p, f[k])
  BY <1>7 DEF InGroup
<1>10. \A p : (\E j \in D : InGroup(p, j)) => \E j \in D : InGroup(p, j)'
  BY <1>7, <1>9
<1>11. /\ \A i \in DOMAIN linked' : \A p \in linked'[i] : found'[p] # <<>> =>
            \E j \in DOMAIN groups' : InGroup(p, j)'
       /\ \A p \in ToSet(met') : \E j \in DOMAIN groups' : InGroup(p, j)'
  <2>1. /\ \A i \in DOMAIN linked : \A p \in linked[i] : found[p] # <<>> =>
             \E j \in D : InGroup(p, j)
        /\ \A p \in ToSet(met) : p \in ToSet(todo) \/ \E j \in D : InGroup(p, j)
    BY <1>1 DEF GroupInv
  <2>2. ToSet(todo) = {}
    BY <1>1 DEF ToSet
  <2>3. DOMAIN groups' = D
    BY <1>6
  <2> QED
    BY <1>1, <1>10, <2>1, <2>2, <2>3
<1>12. \A i \in DOMAIN groups' :
         ToSet(groups'[i].actions) \subseteq ActionsOf(ProductIds)' /\ Unique(groups'[i].actions)
  <2>1. \A i \in D : ToSet(groups[i].actions) \subseteq ActionsOf(ProductIds)
                     /\ Unique(groups[i].actions)
    BY DEF GroupInv
  <2>2. DOMAIN groups' = D /\ \A i \in D : f[i] \in D
    BY <1>6, <1>7
  <2> QED
    BY <1>5, <1>7, <2>1, <2>2
<1>13. \A i, j \in DOMAIN groups' : \A p \in ProductIds :
         InGroup(p, i)' /\ InGroup(p, j)' => i = j
  <2>1. \A i, j \in D : \A p \in ProductIds : InGroup(p, i) /\ InGroup(p, j) => i = j
    BY DEF GroupInv
  <2> QED
    BY <1>6, <1>7, <1>9, <2>1
<1>14. \A d \in Recorded' : \A i, j \in DOMAIN groups' :
         InGroup(d.from, i)' /\ InGroup(d.on, j)' => i = j
  <2>1. \A d \in Recorded : \A i, j \in D : InGroup(d.from, i) /\ InGroup(d.on, j) => i = j
    BY DEF GroupInv
  <2> QED
    BY <1>5, <1>6, <1>7, <1>9, <2>1
<1>15. ASSUME NEW kind \in {"before", "after"}, OneKind(kind)',
              NEW i \in DOMAIN groups', NEW p \in Members(groups'[i].actions)
       PROVE  HoldsFor(kind, groups[i].actions, p)'
  <2>1. OneKind(kind)
    BY <1>1, <1>5, <1>15 DEF OneKind
  <2>2. i \in D /\ f[i] \in D /\ groups'[i] = groups[f[i]]
    BY <1>6, <1>7
  <2>3. HoldsFor(kind, groups[f[i]].actions, p)
    BY <1>15, <2>1, <2>2 DEF GroupInv
  <2> QED
    BY <1>5, <2>2, <2>3 DEF HoldsFor
<1>16. GroupInv'
  BY <1>1, <1>11, <1>12, <1>13, <1>14, <1>15 DEF GroupInv
<1> QED
  BY <1>2, <1>3, <1>4, <1>8, <1>16

\* A step that changes nothing of the sorter.
LEMMA SorterStutters ==
  ASSUME SorterInv, UNCHANGED sorterVars PROVE SorterInv'
<1> USE DEF SorterInv
<1>1. /\ request' = request /\ stage' = stage /\ found' = found /\ met' = met /\ todo' = todo
      /\ turn' = turn /\ path' = path /\ stack' = stack /\ hard' = hard /\ linked' = linked
      /\ actions' = actions /\ copy' = copy /\ item' = item /\ next' = next /\ runs' = runs
      /\ moved' = moved /\ groups' = groups
  BY DEF sorterVars, collecting, searching, sorting
<1>2. SorterTypeOK'
  BY <1>1 DEF SorterTypeOK
<1>3. Recorded' = Recorded
  BY <1>1 DEF Recorded
<1>4. \A p : Real(p)' <=> Real(p)
  BY <1>1 DEF Real
<1>5. \A p, action, n : Obeys(p, action, n)' <=> Obeys(p, action, n)
  BY <1>1, <1>4 DEF Obeys, Obeyed, Settled, Fulfilled
<1>6. CallsInv'
  <2>3. \A c : GoesOn(c)' <=> GoesOn(c)
    BY <1>1, <1>5 DEF GoesOn
  <2>4. Top' = Top /\ DOMAIN stack' = DOMAIN stack /\ \A j : stack'[j] = stack[j]
    BY <1>1 DEF Top
  <2>5. ASSUME NEW j \in DOMAIN stack PROVE GoesOn(stack[j])'
    <3> PICK c : c = stack[j]
      OBVIOUS
    <3>1. GoesOn(c) /\ c = stack'[j]
      BY <2>4, SMTT(30) DEF CallsInv
    <3> QED
      BY <2>3, <3>1
  <2> QED
    BY <1>1, <1>4, <2>4, <2>5 DEF CallsInv
<1>7. FoundInv'
  <2>1. \A p, action : Searched(p, action)' <=> Searched(p, action)
    BY <1>1, <1>5 DEF Searched
  <2>2. \A p, action : UnderWay(p, action)' <=> UnderWay(p, action)
    BY <1>1 DEF UnderWay
  <2>3. \A p, i : ToCome(p, i)' <=> ToCome(p, i)
    BY <1>1 DEF ToCome
  <2> QED
    BY <1>1, <2>1, <2>2, <2>3 DEF FoundInv
<1>8. LinkInv'
  BY <1>1 DEF LinkInv
<1>9. SortInv'
  <2> SUFFICES ASSUME stage = "sort" PROVE SortInv'
    BY <1>1 DEF SortInv
  <2>1. ASSUME NEW kind \in {"before", "after"}, OneKind(kind)'
        PROVE  RunInv(kind)' /\ MovedInv(kind)'
    <3>1. RunInv(kind) /\ MovedInv(kind)
      BY <1>1, <1>3, <2>1 DEF OneKind, SortInv
    <3> QED
      BY <1>1, <1>3, <3>1 DEF RunInv, MovedInv, Closed, HoldsFor, Through, Visited
  <2>2. ActionsOf(linked[Len(groups) + 1])' = ActionsOf(linked[Len(groups) + 1])
    BY <1>1 DEF ActionsOf, Acting
  <2> QED
    BY <1>1, <2>1, <2>2 DEF SortInv
<1>10. GroupInv'
  <2>1. \A i : ActionsOf(linked[i])' = ActionsOf(linked[i])
    BY <1>1 DEF ActionsOf, Acting
  <2>2. ActionsOf(ProductIds)' = ActionsOf(ProductIds)
    BY <1>1 DEF ActionsOf, Acting
  <2> QED
    BY <1>1, <1>3, <2>1, <2>2 DEF GroupInv, InGroup, OneKind, HoldsFor
<1> QED
  BY <1>2, <1>6, <1>7, <1>8, <1>9, <1>10

\* What the sorter works on stays in shape, from the actions asked for to the
\* groups that come out.
THEOREM SorterInvariant == SorterSpec => []SorterInv
<1>1. SorterInit => SorterInv
  BY SorterInitial
<1>2. SorterInv /\ [SorterNext]_sorterVars => SorterInv'
  <2> SUFFICES ASSUME SorterInv, [SorterNext]_sorterVars PROVE SorterInv'
    OBVIOUS
  <2>1. CASE Collect
    BY <2>1, CollectKeeps
  <2>2. CASE Search
    BY <2>2, SearchKeeps
  <2>3. CASE SortGroup
    BY <2>3, SortGroupKeeps
  <2>4. CASE Finish
    BY <2>4, AllGroupedKeeps, AddIndependentKeeps, SortGroupsKeeps DEF Finish
  <2>5. CASE UNCHANGED sorterVars
    BY <2>5, SorterStutters
  <2> QED
    BY <2>1, <2>2, <2>3, <2>4, <2>5 DEF SorterNext
<1> QED
  BY <1>1, <1>2, PTL DEF SorterSpec

\* What comes out for a product is what counts of the actions found for it.
LEMMA ProcessedIs ==
  ASSUME SorterInv
  PROVE  /\ \A p, action : Processed(p, action) =>
              /\ p \in ProductIds /\ found[p] # <<>> /\ action = Merged(found[p])
              /\ \E i \in DOMAIN groups : InGroup(p, i)
         /\ \A p : \A i \in DOMAIN groups : InGroup(p, i) =>
              p \in ProductIds /\ found[p] # <<>> /\ Processed(p, Merged(found[p]))
<1>1. found \in [ProductIds -> Seq(Actions \cup {"none"})]
  BY DEF SorterInv, SorterTypeOK
<1>2. ASSUME NEW i \in DOMAIN groups, NEW k \in DOMAIN groups[i].actions, NEW a,
             a = groups[i].actions[k]
      PROVE  /\ a.product \in ProductIds /\ found[a.product] # <<>>
             /\ a = [product |-> a.product, action |-> Merged(found[a.product])]
             /\ InGroup(a.product, i)
  <2>1. a \in ToSet(groups[i].actions)
    BY <1>2 DEF ToSet
  <2>2. a \in ActionsOf(ProductIds)
    BY <2>1 DEF SorterInv, GroupInv
  <2>3. /\ a.product \in ProductIds /\ found[a.product] # <<>>
        /\ a.action = Merged(found[a.product])
    BY <1>1, <2>2, ActionsOfProducts
  <2>4. a = [product |-> a.product, action |-> Merged(found[a.product])]
    BY <2>2, <2>3 DEF ActionsOf
  <2>5. InGroup(a.product, i)
    BY <1>2 DEF InGroup, Members
  <2> QED
    BY <2>3, <2>4, <2>5
<1>3. ASSUME NEW p, NEW action, Processed(p, action)
      PROVE  /\ p \in ProductIds /\ found[p] # <<>> /\ action = Merged(found[p])
             /\ \E i \in DOMAIN groups : InGroup(p, i)
  <2>1. PICK i \in DOMAIN groups : \E k \in DOMAIN groups[i].actions :
          groups[i].actions[k] = [product |-> p, action |-> action]
    BY <1>3 DEF Processed
  <2>2. PICK k \in DOMAIN groups[i].actions :
          groups[i].actions[k] = [product |-> p, action |-> action]
    BY <2>1
  <2> PICK a : a = groups[i].actions[k]
    OBVIOUS
  <2>3. a.product = p /\ a.action = action
    BY <2>2
  <2>4. /\ a.product \in ProductIds /\ found[a.product] # <<>>
        /\ a = [product |-> a.product, action |-> Merged(found[a.product])]
        /\ InGroup(a.product, i)
    BY <1>2
  <2>5. a.action = Merged(found[a.product])
    BY <2>4
  <2> QED
    BY <2>3, <2>4, <2>5
<1>4. ASSUME NEW p, NEW i \in DOMAIN groups, InGroup(p, i)
      PROVE  p \in ProductIds /\ found[p] # <<>> /\ Processed(p, Merged(found[p]))
  <2>1. PICK k \in DOMAIN groups[i].actions : groups[i].actions[k].product = p
    BY <1>4 DEF InGroup, Members
  <2> PICK a : a = groups[i].actions[k]
    OBVIOUS
  <2>2. /\ p \in ProductIds /\ found[p] # <<>>
        /\ a = [product |-> p, action |-> Merged(found[p])]
    BY <1>2, <2>1
  <2>3. Processed(p, Merged(found[p]))
    BY <2>2 DEF Processed
  <2> QED
    BY <2>2, <2>3
<1> QED
  BY <1>3, <1>4

\* In the end each product found has an action, which is "none" only if nothing
\* else was found for it.
LEMMA RealHasAction ==
  ASSUME SorterInv, stage = "done", NEW p \in ProductIds
  PROVE  /\ found[p] # <<>> => \E i \in DOMAIN groups : InGroup(p, i)
         /\ Real(p) => HasAction(p)
<1> USE DEF SorterInv
<1>1. found[p] \in Seq(Actions \cup {"none"})
  BY DEF SorterTypeOK
<1>2. ASSUME found[p] # <<>> PROVE \E i \in DOMAIN groups : InGroup(p, i)
  <2>1. p \in ToSet(met) /\ todo = <<>>
    BY <1>2 DEF FoundInv, GroupInv
  <2>2. ToSet(todo) = {}
    BY <2>1 DEF ToSet
  <2>3. p \in ToSet(todo) \/ \E i \in DOMAIN groups : InGroup(p, i)
    BY <2>1 DEF GroupInv
  <2> QED
    BY <2>2, <2>3
<1>3. ASSUME Real(p) PROVE HasAction(p)
  <2>1. Merged(found[p]) # "none" /\ Merged(found[p]) \in Actions \cup {"none"}
    BY <1>1, <1>3, MergedOf DEF Real
  <2>2. found[p] # <<>>
    BY <1>3 DEF Real
  <2>3. PICK i \in DOMAIN groups : InGroup(p, i)
    BY <1>2, <2>2
  <2>4. Processed(p, Merged(found[p]))
    BY <2>3, ProcessedIs
  <2> QED
    BY <2>1, <2>4 DEF HasAction
<1> QED
  BY <1>2, <1>3

\* When all is done, what was found is in the groups, and what it requires too.
LEMMA ActionsFollow ==
  ASSUME SorterInv PROVE RequirementsHaveActions
<1> USE DEF SorterInv
<1> SUFFICES ASSUME stage = "done", NEW d \in Obliging
             PROVE  Settled(request, d) \/ HasAction(d.on)
  BY DEF RequirementsHaveActions
<1>1. PICK p \in request.available : d \in ToSet(request.dependencies[p])
  BY DEF Obliging
<1>2. Processed(d.from, d.action) /\ d.on \in request.available
  BY DEF Obliging
<1>3. /\ request.dependencies \in [ProductIds -> Seq(Dependency)]
      /\ request.available \in SUBSET ProductIds
      /\ \A i \in DOMAIN request.dependencies[p] : request.dependencies[p][i].from = p
  <2>1. request \in SortRequests
    BY DEF SorterTypeOK
  <2>2. IsRequest(request)
    BY <2>1, SorterAssumption
  <2> QED
    BY <1>1, <2>2 DEF IsRequest
<1>4. PICK i \in DOMAIN request.dependencies[p] : request.dependencies[p][i] = d
  BY <1>1 DEF ToSet
<1>5. p \in ProductIds /\ d.from = p /\ d \in Dependency /\ i \in 1..Len(request.dependencies[p])
  <2>1. p \in ProductIds /\ d.from = p
    BY <1>3, <1>4
  <2>2. request.dependencies[p] \in Seq(Dependency)
    BY <1>3, <2>1
  <2> QED
    BY <1>4, <2>1, <2>2
<1>6. d.action = Merged(found[p]) /\ d.action # "none"
  <2>1. d.action \in Actions
    BY <1>5 DEF Dependency
  <2>2. d.action = Merged(found[p])
    BY <1>2, <1>5, ProcessedIs
  <2> QED
    BY <2>1, <2>2 DEF Actions
<1>7. PICK k \in DOMAIN found[p] : found[p][k] = d.action
  <2>1. found[p] \in Seq(Actions \cup {"none"})
    BY <1>5 DEF SorterTypeOK
  <2> QED
    BY <1>6, <2>1, MergedOf
<1>8. Searched(p, d.action)
  BY <1>5, <1>7 DEF FoundInv
<1>9. Obeyed(d)
  BY <1>1, <1>4, <1>5, <1>8 DEF Searched, Obeys
<1>10. Settled(request, d) \/ Real(d.on)
  BY <1>2, <1>9 DEF Obeyed
<1>11. d.on \in ProductIds
  BY <1>5 DEF Dependency
<1> QED
  BY <1>10, <1>11, RealHasAction

\* When all is done, a requirement is met in the group of its two products, and
\* no product is in two groups.
LEMMA GroupsInOrder ==
  ASSUME SorterInv PROVE OneKindIsMet
<1> USE DEF SorterInv
<1> SUFFICES ASSUME stage = "done", NEW kind \in {"before", "after"},
                    \A d \in Recorded : d.type = kind, Acyclic(Before(Recorded)),
                    kind = "after" => \A d \in Recorded : HasAction(d.on)
             PROVE  InOrder(Before(Recorded))
  BY DEF OneKindIsMet, Recorded
<1>1. OneKind(kind)
  <2>1. ASSUME NEW d \in Recorded, HasAction(d.on) PROVE found[d.on] # <<>>
    BY <2>1, ProcessedIs DEF HasAction
  <2> QED
    BY <2>1 DEF OneKind
<1> SUFFICES ASSUME NEW i \in DOMAIN groups, NEW j \in DOMAIN groups,
                    NEW k \in DOMAIN groups[i].actions, NEW l \in DOMAIN groups[j].actions,
                    <<groups[i].actions[k].product, groups[j].actions[l].product>>
                      \in Before(Recorded)
             PROVE  i < j \/ (i = j /\ k < l)
  BY DEF InOrder
<1> PICK p, q, list : /\ p = groups[i].actions[k].product /\ q = groups[j].actions[l].product
                      /\ list = groups[i].actions
  OBVIOUS
<1>2. InGroup(p, i) /\ InGroup(q, j) /\ p \in Members(list)
  BY DEF InGroup, Members
<1>3. PICK d \in Recorded :
        \/ kind = "before" /\ d.on = p /\ d.from = q
        \/ kind = "after" /\ d.from = p /\ d.on = q
  BY DEF Before
<1>4. i = j
  <2>1. \A x \in Recorded : \A m, n \in DOMAIN groups :
          InGroup(x.from, m) /\ InGroup(x.on, n) => m = n
    BY DEF GroupInv
  <2> QED
    BY <1>2, <1>3, <2>1
<1>5. Unique(list) /\ p \in Members(list) /\ q \in Members(list)
  BY <1>2, <1>4 DEF GroupInv, InGroup
<1>6. Holds(kind, list, d)
  BY <1>1, <1>3, <1>5 DEF GroupInv, HoldsFor
<1>7. Precedes(list, p, q)
  BY <1>3, <1>5, <1>6 DEF Holds, Leads
<1>8. PICK m, n \in DOMAIN list : m < n /\ list[m].product = p /\ list[n].product = q
  BY <1>7 DEF Precedes
<1>9. m = k /\ n = l
  BY <1>4, <1>5, <1>8 DEF Unique
<1> QED
  BY <1>4, <1>8, <1>9

\* What the sorter holds is of the types its code expects: products are ids,
\* calls are at a dependency, groups are lists of actions.
THEOREM SorterTypeCorrect == SorterSpec => []SorterTypeOK
<1>1. SorterInv => SorterTypeOK
  BY DEF SorterInv
<1> QED
  BY <1>1, SorterInvariant, PTL

\* The result is closed: what an action of it requires and is not fulfilled
\* gets an action too, for any number of products and whatever their
\* dependencies, circles included (get_product_action_groups,
\* process_dependencies).
THEOREM RequiredAreActed == SorterSpec => []RequirementsHaveActions
<1>1. SorterInv => RequirementsHaveActions
  BY ActionsFollow
<1> QED
  BY <1>1, SorterInvariant, PTL

\* As many runs as a group has actions put it in an order that meets all
\* recorded requirements, if they are of one kind and no circle (ActionGroup.sort),
\* for any number of products.
THEOREM OneKindIsOrdered == SorterSpec => []OneKindIsMet
<1>1. SorterInv => OneKindIsMet
  BY GroupsInOrder
<1> QED
  BY <1>1, SorterInvariant, PTL
=============================================================================
