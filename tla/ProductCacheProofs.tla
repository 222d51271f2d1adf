------------------------- MODULE ProductCacheProofs -------------------------
(***************************************************************************)
(* Proofs about ProductCache, for any products, sizes and limit.           *)
(***************************************************************************)
EXTENDS ProductCache, SequenceTheorems, Induction

\* Stages of _cacheProduct after the state of the product has been reset.
Copying == {"content", "check", "measure", "evict", "transfer", "record"}

\* The product that is being copied is not called completed, so that whatever
\* the worker does to its directory harms no copy that is; once it is about to
\* be recorded it is whole.
CopyInv ==
  /\ DOMAIN content = Products
  /\ job \in Copying => current \notin completed
  /\ job = "record" => \A p \in Products : p = current => Whole(p) \/ p \in torn
  /\ CompletedIsWhole

LEMMA CopyInit == Init => CopyInv
BY DEF Init, CopyInv, CompletedIsWhole, Copying

LEMMA CopyStep == CopyInv /\ [Next]_vars => CopyInv'
<1> SUFFICES ASSUME CopyInv, [Next]_vars PROVE CopyInv'
  OBVIOUS
<1> USE DEF CopyInv, CompletedIsWhole, Copying, Whole, Step, current,
            plan, eviction, disk, state, clear, history
<1>1. CASE Connect \/ Dies \/ SlotRefused \/ Begin \/ Release \/ Finish \/ PlanFails
  BY <1>1 DEF Connect, Dies, SlotRefused, Begin, Release, Finish, PlanFails
<1>2. CASE Plan \/ DropTurn \/ Dropped
  <2>1. job' \in {"release", "next", "drop"} /\ UNCHANGED <<disk, state, torn>>
    BY <1>2 DEF Plan, DropTurn, Dropped
  <2> QED BY <2>1
<1>3. CASE StartProduct
  BY <1>3 DEF StartProduct
<1>4. CASE FetchContentFile
  BY <1>4 DEF FetchContentFile
<1>5. CASE CheckSpace
  <2>1. job' \in {"measure", "transfer"} /\ job = "check"
        /\ UNCHANGED <<todo, disk, state, torn>>
    BY <1>5 DEF CheckSpace
  <2> QED BY <2>1
<1>6. CASE Measure
  <2>1. job = "measure" /\ job' = "evict" /\ UNCHANGED <<todo, disk, state, torn>>
    BY <1>6 DEF Measure
  <2> QED BY <2>1
<1>7. ASSUME NEW p \in Products, Evict(p) PROVE CopyInv'
  <2>1. /\ job = "evict" /\ job' = "evict"
        /\ content' = [content EXCEPT ![p] = -1]
        /\ completed' = completed \ {p}
        /\ UNCHANGED <<todo, torn>>
    BY <1>7 DEF Evict
  <2> QED BY <2>1
<1>8. CASE Evicted
  BY <1>8 DEF Evicted
<1>9. CASE Transfer
  BY <1>9 DEF Transfer
<1>10. CASE Transferred
  BY <1>10 DEF Transferred
<1>11. CASE Record
  BY <1>11 DEF Record
<1>12. CASE ProductFails
  <2>1. /\ job \in Copying /\ job' \in {"next", "release"}
        /\ completed' = completed \/ (job = "record" /\ completed' = completed \cup {current})
        /\ content' = content \/ (job = "content"
                                   /\ content' = [content EXCEPT ![current] = Held(current)])
        /\ torn' = torn
    BY <1>12 DEF ProductFails
  <2> QED BY <2>1
<1>13. CASE Summary \/ Fire
  BY <1>13 DEF Summary, Fire
<1>14. CASE RequestCaching \/ ClearBegin \/ ClearState
  BY <1>14 DEF RequestCaching, ClearBegin, ClearState
<1>15. ASSUME NEW p \in Products, ClearDirectory(p) PROVE CopyInv'
  BY <1>15 DEF ClearDirectory
<1>16. CASE ClearFails
  <2>1. PICK p \in toClear :
          /\ \E size : content' = [content EXCEPT ![p] = size]
          /\ torn' = torn \cup {p}
          /\ UNCHANGED <<job, todo, completed>>
    BY <1>16 DEF ClearFails
  <2> QED BY <2>1
<1>17. CASE Restart
  BY <1>17 DEF Restart
<1>18. CASE UNCHANGED vars
  BY <1>18 DEF vars
<1> QED
  BY <1>1, <1>2, <1>3, <1>4, <1>5, <1>6, <1>7, <1>8, <1>9, <1>10, <1>11, <1>12, <1>13,
     <1>14, <1>15, <1>16, <1>17, <1>18 DEF Next, Worker

\* A copy the state calls completed is whole, whatever fails, crashes or is
\* evicted, unless clear_cache has deleted it since its copying began.
THEOREM CompletedWhole == Spec => []CompletedIsWhole
<1>1. CopyInv => CompletedIsWhole
  BY DEF CopyInv
<1> QED BY <1>1, CopyInit, CopyStep, PTL DEF Spec

-----------------------------------------------------------------------------
(* The types                                                               *)

\* While a product is cached there is one.
TypeInv ==
  /\ TypeOK
  /\ job \in Copying => todo # <<>>

LEMMA RemoveAtType ==
  ASSUME NEW S, NEW s \in Seq(S), NEW i \in 1..Len(s)
  PROVE  RemoveAt(s, i) \in Seq(S)
<1>1. SubSeq(s, 1, i - 1) \in Seq(S) /\ SubSeq(s, i + 1, Len(s)) \in Seq(S)
  BY SubSeqProperties
<1> QED BY <1>1, ConcatProperties DEF RemoveAt

LEMMA WithoutType ==
  ASSUME NEW s \in Seq(Products), NEW p
  PROVE  Without(s, p) \in Seq(Products)
<1>1. CASE p \in ToSet(s)
  <2>1. (CHOOSE i \in DOMAIN s : s[i] = p) \in 1..Len(s)
    BY <1>1 DEF ToSet
  <2> QED BY <1>1, <2>1, RemoveAtType DEF Without
<1>2. CASE p \notin ToSet(s)
  BY <1>2 DEF Without
<1> QED BY <1>1, <1>2

\* The requested products, in any order, are a list of products.
LEMMA PlannedList ==
  ASSUME NEW asked \in SUBSET Products, NEW ids \in SetToSeqs(asked)
  PROVE  ids \in Seq(Products)
<1>1. Cardinality(asked) \in Nat
  BY ProductAssumption, FS_Subset, FS_CardinalityType
<1>2. ASSUME NEW n \in Nat, NEW s \in [1 .. n -> Products]
      PROVE  s \in Seq(Products)
  BY SeqDef
<1>3. ids \in [1 .. Cardinality(asked) -> Products]
  BY DEF SetToSeqs
<1> QED BY <1>1, <1>2, <1>3

LEMMA TypeInit == Init => TypeInv
<1> SUFFICES ASSUME Init PROVE TypeInv
  OBVIOUS
<1>1. content \in [Products -> Int] /\ \A p \in Products : content[p] \in -1 .. Size[p]
  BY ProductAssumption DEF Init
<1>2. DOMAIN victims = {}
  BY DEF Init
<1>3. job \notin Copying /\ job \in Jobs
  BY DEF Init, Copying, Jobs
<1>4. todo \in Seq(Products) /\ age \in Seq(Products)
  BY DEF Init
<1>5. {requested, errors, productsCached, clearing, cleared} \subseteq BOOLEAN
  BY DEF Init
<1>6. {missing, needed, completed, toClear, offered, torn} \subseteq SUBSET Products
  BY DEF Init
<1>7. turn \in Nat /\ turn > 0 /\ last \in Nat
  BY DEF Init
<1> QED BY <1>1, <1>2, <1>3, <1>4, <1>5, <1>6, <1>7 DEF TypeInv, TypeOK

LEMMA TypeStep == TypeInv /\ [Next]_vars => TypeInv'
<1> SUFFICES ASSUME TypeInv, [Next]_vars PROVE TypeInv'
  OBVIOUS
<1> USE ProductAssumption
        DEF TypeInv, TypeOK, Copying, Jobs, Step, plan, dropping, eviction, disk, state,
            clear, history
<1>0. job \in Copying => /\ current \in Products /\ Tail(todo) \in Seq(Products)
                         /\ Held(current) \in 0 .. Size[current]
  BY HeadTailProperties DEF current, Held
<1>00. <<>> \in Seq(Products)
  OBVIOUS
<1>1. CASE Connect \/ Dies \/ SlotRefused \/ Begin \/ Finish \/ PlanFails
  <2>1. CASE Connect
    BY <2>1 DEF Connect
  <2>2. CASE Dies
    BY <2>2 DEF Dies
  <2>3. CASE SlotRefused
    BY <2>3 DEF SlotRefused
  <2>4. CASE Begin
    BY <2>4 DEF Begin
  <2>5. CASE Finish
    BY <2>5 DEF Finish
  <2>6. CASE PlanFails
    BY <2>6 DEF PlanFails
  <2> QED BY <1>1, <2>1, <2>2, <2>3, <2>4, <2>5, <2>6
<1>2. CASE Release
  <2>1. todo' \in Seq(Products) /\ turn' \in Nat /\ turn' > 0 /\ last' \in Nat
    BY <1>2, <1>00 DEF Release
  <2>2. {missing', needed'} \subseteq SUBSET Products /\ errors' = FALSE
    BY <1>2 DEF Release
  <2> QED BY <1>2, <2>1, <2>2 DEF Release
<1>3. CASE Plan
  <2>1. PICK asked \in SUBSET (Products \ {ActionProcessor}) :
          \E absent \in SUBSET asked, ids \in SetToSeqs(asked) :
            /\ missing' = absent /\ turn' = 1 /\ last' = Len(ids)
            /\ offered' = ToSet(ids) \ absent
            /\ todo' = Append(ids, ActionProcessor)
            /\ needed' = ToSet(todo')
            /\ job' \in {"release", "next", "drop"}
    BY <1>3 DEF Plan
  <2>2. \A ids \in SetToSeqs(asked) : ids \in Seq(Products)
    BY PlannedList
  <2>3. /\ missing' \subseteq Products /\ turn' \in Nat /\ turn' > 0 /\ last' \in Nat
        /\ offered' \subseteq Products /\ todo' \in Seq(Products)
    BY <2>1, <2>2 DEF ToSet
  <2>4. needed' \subseteq Products
    BY <2>1, <2>3 DEF ToSet
  <2> QED BY <1>3, <2>1, <2>3, <2>4 DEF Plan
<1>4. CASE DropTurn
  <2>1. todo' \in Seq(Products)
    BY <1>4, RemoveAtType DEF DropTurn
  <2>2. needed' \subseteq Products
    BY <1>4, <2>1 DEF DropTurn, ToSet
  <2>3. job' \in {"drop", "release"}
    BY <1>4 DEF DropTurn
  <2> QED BY <1>4, <2>1, <2>2, <2>3 DEF DropTurn
<1>5. CASE Dropped
  BY <1>5 DEF Dropped
<1>6. CASE StartProduct
  BY <1>6 DEF StartProduct
<1>7. CASE FetchContentFile
  <2>1. age' \in Seq(Products)
    BY <1>7, <1>0, WithoutType DEF FetchContentFile
  <2> QED BY <1>7, <1>0, <2>1 DEF FetchContentFile
<1>8. CASE CheckSpace
  BY <1>8 DEF CheckSpace
<1>9. CASE Measure
  <2>1. /\ DOMAIN victims' \subseteq Products
        /\ \A p \in DOMAIN victims' : victims'[p] \in 0 .. Size[p]
    BY <1>9 DEF Measure
  <2> QED BY <1>9, <2>1 DEF Measure
<1>10. ASSUME NEW p \in Products, Evict(p) PROVE TypeInv'
  <2>1. age' \in Seq(Products)
    BY <1>10, WithoutType DEF Evict
  <2>2. victims' = [q \in DOMAIN victims \ {p} |-> victims[q]]
    BY <1>10 DEF Evict, Restrict
  <2>3. /\ DOMAIN victims' \subseteq Products
        /\ \A q \in DOMAIN victims' : victims'[q] \in 0 .. Size[q]
    BY <2>2
  <2>4. /\ content' \in [Products -> Int]
        /\ \A q \in Products : content'[q] \in -1 .. Size[q]
    BY <1>10 DEF Evict
  <2>5. /\ UNCHANGED <<requested, job, plan, productsCached, clear, history>>
        /\ completed' \subseteq Products
    BY <1>10 DEF Evict
  <2> QED BY <2>1, <2>3, <2>4, <2>5
<1>11. CASE Evicted
  BY <1>11 DEF Evicted
<1>12. CASE Transfer
  BY <1>12, <1>0 DEF Transfer
<1>13. CASE Transferred
  BY <1>13 DEF Transferred
<1>14. CASE Record
  BY <1>14, <1>0 DEF Record
<1>15. CASE ProductFails
  <2>1. todo' \in Seq(Products) /\ completed' \subseteq Products
    BY <1>15, <1>0, <1>00 DEF ProductFails
  <2>2. /\ content' \in [Products -> Int]
        /\ \A p \in Products : content'[p] \in -1 .. Size[p]
    <3>1. CASE content' = content
      BY <3>1
    <3>2. CASE job = "content" /\ content' = [content EXCEPT ![current] = Held(current)]
      BY <3>2, <1>0
    <3> QED BY <3>1, <3>2, <1>15 DEF ProductFails
  <2>3. DOMAIN victims' = {} /\ job' \in {"next", "release"} /\ errors' = TRUE
    BY <1>15 DEF ProductFails
  <2> QED BY <1>15, <2>1, <2>2, <2>3 DEF ProductFails
<1>16. CASE Summary \/ Fire
  BY <1>16 DEF Summary, Fire
<1>17. CASE RequestCaching \/ ClearBegin \/ ClearState
  BY <1>17 DEF RequestCaching, ClearBegin, ClearState
<1>18. ASSUME NEW p \in Products, ClearDirectory(p) PROVE TypeInv'
  <2>1. age' \in Seq(Products)
    BY <1>18, WithoutType DEF ClearDirectory
  <2> QED BY <1>18, <2>1 DEF ClearDirectory
<1>19. CASE ClearFails
  <2>1. PICK p \in toClear :
          /\ content' \in {[content EXCEPT ![p] = n] : n \in {content[p]} \cup 0 .. content[p]}
          /\ age' \in {age, Without(age, p)}
          /\ torn' = torn \cup {p}
    BY <1>19 DEF ClearFails
  <2>2. age' \in Seq(Products)
    BY <2>1, WithoutType
  <2>3. /\ content' \in [Products -> Int]
        /\ \A q \in Products : content'[q] \in -1 .. Size[q]
    BY <2>1
  <2> QED BY <1>19, <2>1, <2>2, <2>3 DEF ClearFails
<1>20. CASE Restart
  <2>1. DOMAIN victims' = {}
    BY <1>20 DEF Restart
  <2>2. todo' \in Seq(Products) /\ turn' \in Nat /\ turn' > 0 /\ last' \in Nat
    BY <1>20, <1>00 DEF Restart
  <2>3. /\ {missing', needed', toClear'} \subseteq SUBSET Products
        /\ {requested', errors', clearing'} \subseteq BOOLEAN
    BY <1>20 DEF Restart
  <2> QED BY <1>20, <2>1, <2>2, <2>3 DEF Restart
<1>21. CASE UNCHANGED vars
  BY <1>21 DEF vars
<1> QED
  BY <1>1, <1>2, <1>3, <1>4, <1>5, <1>6, <1>7, <1>8, <1>9, <1>10, <1>11, <1>12, <1>13,
     <1>14, <1>15, <1>16, <1>17, <1>18, <1>19, <1>20, <1>21 DEF Next, Worker

\* The variables keep their types: a copy never has more pieces than the product,
\* the lists of the plan and of the copies hold products only.
THEOREM TypeCorrect == Spec => []TypeOK
<1>1. TypeInv => TypeOK
  BY DEF TypeInv
<1> QED BY <1>1, TypeInit, TypeStep, PTL DEF Spec

-----------------------------------------------------------------------------
(* cache_ready                                                             *)

\* What the plan is made for, as far as the depot has it.
Wanted == offered \cup {ActionProcessor}

Here(p) == p \in completed /\ Whole(p)

\* Only copies that are not planned may be evicted, and only by the eviction.
VictimInv ==
  /\ DOMAIN victims \cap needed = {}
  /\ job # "evict" => DOMAIN victims = {}

\* While the missing products are dropped the wanted ones stay in the list.
DropInv ==
  job = "drop" => /\ missing \cap Wanted = {}
                  /\ Wanted \subseteq ToSet(todo)
                  /\ needed = ToSet(todo)

\* Until an error or clear_cache, a wanted product is planned, and still to be
\* cached or there.
ProgressInv ==
  job \in {"next"} \cup Copying /\ ~errors /\ ~cleared =>
    \A p \in Wanted : p \in needed /\ (p \in ToSet(todo) \/ Here(p))

ReadyInv ==
  /\ VictimInv
  /\ DropInv
  /\ ProgressInv
  /\ torn # {} => cleared
  /\ job \in {"plan", "drop", "next"} \cup Copying => ~productsCached
  /\ ReadyMeansCompleted

LEMMA ReadyInit == Init => ReadyInv
<1> SUFFICES ASSUME Init PROVE ReadyInv
  OBVIOUS
<1>1. job = "idle" /\ DOMAIN victims = {} /\ torn = {} /\ productsCached = FALSE
  BY DEF Init
<1> QED
  BY <1>1 DEF ReadyInv, VictimInv, DropInv, ProgressInv, ReadyMeansCompleted, Copying

LEMMA ConcatHolds ==
  ASSUME NEW S, NEW s \in Seq(S), NEW t \in Seq(S)
  PROVE  ToSet(s) \cup ToSet(t) \subseteq ToSet(s \o t)
<1>1. /\ s \o t \in Seq(S) /\ Len(s \o t) = Len(s) + Len(t)
      /\ \A i \in 1 .. Len(s) + Len(t) :
           (s \o t)[i] = IF i <= Len(s) THEN s[i] ELSE t[i - Len(s)]
  BY ConcatProperties
<1>2. /\ Len(s) \in Nat /\ DOMAIN s = 1 .. Len(s)
      /\ Len(t) \in Nat /\ DOMAIN t = 1 .. Len(t)
      /\ DOMAIN (s \o t) = 1 .. Len(s) + Len(t)
  BY <1>1, LenProperties
<1>3. ASSUME NEW k \in 1 .. Len(s) PROVE s[k] = (s \o t)[k] /\ k \in DOMAIN (s \o t)
  BY <1>1, <1>2
<1>4. ASSUME NEW k \in 1 .. Len(t)
      PROVE  t[k] = (s \o t)[Len(s) + k] /\ Len(s) + k \in DOMAIN (s \o t)
  BY <1>1, <1>2
<1> QED BY <1>2, <1>3, <1>4 DEF ToSet

\* The list without one entry holds the others.
LEMMA RemoveAtKeeps ==
  ASSUME NEW s \in Seq(Products), NEW i \in 1 .. Len(s), NEW p \in ToSet(s), s[i] # p
  PROVE  p \in ToSet(RemoveAt(s, i))
<1>1. /\ SubSeq(s, 1, i - 1) \in Seq(Products)
      /\ SubSeq(s, i + 1, Len(s)) \in Seq(Products)
  BY SubSeqProperties
<1>2. PICK j \in 1 .. Len(s) : s[j] = p /\ j # i
  BY DEF ToSet
<1>3. CASE j < i
  <2>1. /\ j \in DOMAIN SubSeq(s, 1, i - 1)
        /\ SubSeq(s, 1, i - 1)[j] = p
    BY <1>2, <1>3, SubSeqProperties
  <2>2. \E k \in DOMAIN SubSeq(s, 1, i - 1) : SubSeq(s, 1, i - 1)[k] = p
    BY <2>1
  <2>3. p \in ToSet(SubSeq(s, 1, i - 1))
    BY <2>2, Zenon DEF ToSet
  <2> QED BY <2>3, <1>1, ConcatHolds DEF RemoveAt
<1>4. CASE j > i
  <2>1. /\ j - i \in DOMAIN SubSeq(s, i + 1, Len(s))
        /\ SubSeq(s, i + 1, Len(s))[j - i] = p
    BY <1>2, <1>4, SubSeqProperties
  <2>2. \E k \in DOMAIN SubSeq(s, i + 1, Len(s)) : SubSeq(s, i + 1, Len(s))[k] = p
    BY <2>1
  <2>3. p \in ToSet(SubSeq(s, i + 1, Len(s)))
    BY <2>2, Zenon DEF ToSet
  <2> QED BY <2>3, <1>1, ConcatHolds DEF RemoveAt
<1> QED BY <1>2, <1>3, <1>4

LEMMA AppendHolds ==
  ASSUME NEW s \in Seq(Products), NEW p \in Products
  PROVE  ToSet(s) \cup {p} \subseteq ToSet(Append(s, p))
<1>1. /\ Len(s) \in Nat /\ DOMAIN s = 1 .. Len(s)
      /\ DOMAIN Append(s, p) = 1 .. Len(s) + 1
      /\ Append(s, p)[Len(s) + 1] = p
      /\ \A i \in 1 .. Len(s) : Append(s, p)[i] = s[i]
  BY AppendProperties, LenProperties
<1>2. ASSUME NEW i \in DOMAIN s
      PROVE  i \in DOMAIN Append(s, p) /\ Append(s, p)[i] = s[i]
  BY <1>1
<1>3. Len(s) + 1 \in DOMAIN Append(s, p)
  BY <1>1
<1> QED BY <1>1, <1>2, <1>3 DEF ToSet

LEMMA ReadyStep == TypeInv /\ CopyInv /\ ReadyInv /\ [Next]_vars => ReadyInv'
<1> SUFFICES ASSUME TypeInv, CopyInv, ReadyInv, [Next]_vars PROVE ReadyInv'
  OBVIOUS
<1> USE DEF ReadyInv, VictimInv, DropInv, ProgressInv, ReadyMeansCompleted, Wanted, Here,
            Whole, Copying, Step, plan, dropping, eviction, disk, state, clear, history
<1>0. job \in Copying =>
        /\ current \in Products
        /\ \A p \in ToSet(todo) : p = current \/ p \in ToSet(Tail(todo))
  <2> SUFFICES ASSUME job \in Copying
               PROVE  /\ current \in Products
                      /\ \A p \in ToSet(todo) : p = current \/ p \in ToSet(Tail(todo))
    OBVIOUS
  <2>1. todo \in Seq(Products) /\ todo # <<>>
    BY DEF TypeInv, TypeOK
  <2>2. /\ current = todo[1] /\ current \in Products
        /\ Tail(todo) \in Seq(Products)
        /\ DOMAIN Tail(todo) = 1 .. Len(todo) - 1
        /\ \A i \in 1 .. Len(todo) - 1 : Tail(todo)[i] = todo[i + 1]
    BY <2>1, HeadTailProperties DEF current
  <2>3. ASSUME NEW i \in 1 .. Len(todo), i # 1
        PROVE  todo[i] = Tail(todo)[i - 1] /\ i - 1 \in DOMAIN Tail(todo)
    <3> DEFINE rest == Tail(todo)
    <3>1. DOMAIN rest = 1 .. Len(todo) - 1 /\ \A k \in 1 .. Len(todo) - 1 : rest[k] = todo[k + 1]
      BY <2>2
    <3> HIDE DEF rest
    <3>2. i - 1 \in 1 .. Len(todo) - 1 /\ (i - 1) + 1 = i
      BY <2>1, <2>3
    <3>3. todo[i] = rest[i - 1] /\ i - 1 \in DOMAIN rest
      BY <3>1, <3>2
    <3> QED BY <3>3 DEF rest
  <2>4. DOMAIN todo = 1 .. Len(todo)
    BY <2>1
  <2> QED BY <2>2, <2>3, <2>4 DEF ToSet
<1>00. /\ DOMAIN content = Products /\ Wanted \subseteq Products
       /\ \A p \in Products : content[p] \in Int
  BY ProductAssumption DEF TypeInv, TypeOK
<1>1. CASE Connect \/ Dies \/ SlotRefused \/ Begin \/ Release \/ Finish \/ PlanFails
  BY <1>1 DEF Connect, Dies, SlotRefused, Begin, Release, Finish, PlanFails
<1>2. CASE Plan
  <2>1. PICK asked \in SUBSET (Products \ {ActionProcessor}) :
          \E absent \in SUBSET asked, ids \in SetToSeqs(asked) :
            /\ offered' = ToSet(ids) \ absent
            /\ missing' = absent
            /\ todo' = Append(ids, ActionProcessor)
            /\ needed' = ToSet(todo')
            /\ job' \in {"release", "next", "drop"}
    BY <1>2 DEF Plan
  <2>2. PICK absent \in SUBSET asked, ids \in SetToSeqs(asked) :
            /\ offered' = ToSet(ids) \ absent
            /\ missing' = absent
            /\ todo' = Append(ids, ActionProcessor)
            /\ needed' = ToSet(todo')
            /\ job' \in {"release", "next", "drop"}
    BY <2>1
  <2>3. ids \in Seq(Products)
    BY PlannedList
  <2>4. ToSet(ids) \cup {ActionProcessor} \subseteq ToSet(todo')
    BY <2>2, <2>3, AppendHolds, ProductAssumption
  <2>5. Wanted' \subseteq ToSet(todo') /\ missing' \cap Wanted' = {}
    BY <2>2, <2>4
  <2>6. DOMAIN victims' = {} /\ ~productsCached' /\ UNCHANGED <<torn, cleared>>
    BY <1>2 DEF Plan
  <2> QED BY <2>2, <2>5, <2>6
<1>3. CASE DropTurn
  <2>1. /\ job = "drop" /\ job' \in {"drop", "release"}
        /\ needed' = ToSet(todo')
        /\ DOMAIN victims' = {}
        /\ UNCHANGED <<missing, disk, state, history>>
    BY <1>3 DEF DropTurn
  <2>2. Wanted \subseteq ToSet(todo')
    <3> SUFFICES ASSUME NEW p \in Wanted PROVE p \in ToSet(todo')
      OBVIOUS
    <3>1. p \in ToSet(todo) /\ p \notin missing
      BY <2>1
    <3>2. todo \in Seq(Products) /\ turn \in Nat /\ turn > 0
      BY DEF TypeInv, TypeOK
    <3>3. \/ todo' = todo
          \/ turn <= Len(todo) /\ todo[turn] \in missing /\ todo' = RemoveAt(todo, turn)
      BY <1>3, <3>2 DEF DropTurn
    <3> QED BY <3>1, <3>2, <3>3, RemoveAtKeeps
  <2> QED BY <2>1, <2>2
<1>4. CASE Dropped
  BY <1>4 DEF Dropped
<1>5. CASE StartProduct
  <2>1. current \in ToSet(todo)
    BY <1>5, HeadTailProperties DEF StartProduct, current, ToSet, TypeInv, TypeOK
  <2>2. /\ completed' = completed \ {current} /\ torn' = torn \ {current}
        /\ job = "next" /\ job' = "content"
        /\ UNCHANGED <<plan, eviction, disk, productsCached, offered, cleared>>
    BY <1>5 DEF StartProduct
  <2> QED BY <2>1, <2>2
<1>6. CASE FetchContentFile
  <2>1. /\ content' = [content EXCEPT ![current] = Held(current)]
        /\ job = "content" /\ job' = "check"
        /\ UNCHANGED <<plan, eviction, state, history>>
    BY <1>6 DEF FetchContentFile
  <2>2. \A p \in Products : Whole(p) => content'[p] = Size[p]
    BY <2>1, <1>00, ProductAssumption DEF Held
  <2> QED BY <2>1, <2>2, <1>00
<1>7. CASE CheckSpace
  BY <1>7 DEF CheckSpace
<1>8. CASE Measure
  BY <1>8 DEF Measure
<1>9. ASSUME NEW p \in Products, Evict(p) PROVE ReadyInv'
  <2>1. /\ p \in DOMAIN victims /\ p \notin needed /\ job = "evict"
        /\ completed' = completed \ {p}
        /\ content' = [content EXCEPT ![p] = -1]
        /\ UNCHANGED <<job, plan, productsCached, history>>
    BY <1>9 DEF Evict
  <2>2. DOMAIN victims' \subseteq DOMAIN victims
    BY <1>9 DEF Evict, Restrict
  <2> QED BY <2>1, <2>2, <1>00
<1>10. CASE Evicted
  BY <1>10 DEF Evicted
<1>11. CASE Transfer
  <2>1. /\ job = "transfer" /\ Held(current) < Size[current]
        /\ content' = [content EXCEPT ![current] = Held(current) + 1]
        /\ UNCHANGED <<job, plan, eviction, state, history>>
    BY <1>11 DEF Transfer
  <2>2. ~Whole(current)
    BY <2>1, <1>0, <1>00, ProductAssumption DEF Held
  <2>3. \A p \in Products : Whole(p) => content'[p] = Size[p]
    BY <2>1, <2>2
  <2> QED BY <2>1, <2>3, <1>00
<1>12. CASE Transferred
  BY <1>12 DEF Transferred
<1>13. CASE Record
  <2>1. /\ job = "record" /\ job' = "next"
        /\ completed' = completed \cup {current}
        /\ todo' = Tail(todo)
        /\ UNCHANGED <<needed, errors, eviction, disk, productsCached, history>>
    BY <1>13 DEF Record
  <2>2. Whole(current) \/ current \in torn
    BY <2>1, <1>0 DEF CopyInv
  <2> QED BY <2>1, <2>2, <1>0
<1>14. CASE ProductFails
  BY <1>14, <1>0 DEF ProductFails
<1>15. CASE Summary
  <2>1. todo = <<>> => ToSet(todo) = {}
    BY DEF ToSet
  <2>2. /\ job = "next" /\ todo = <<>> /\ job' \in {"release", "fire"}
        /\ productsCached' = productsCached \/ (~errors /\ job' = "fire")
        /\ UNCHANGED <<plan, eviction, disk, completed, history>>
    BY <1>15 DEF Summary
  <2> QED BY <2>1, <2>2, <1>00
<1>16. CASE RequestCaching \/ ClearBegin \/ ClearState
  BY <1>16 DEF RequestCaching, ClearBegin, ClearState
<1>17. ASSUME NEW p \in Products, ClearDirectory(p) PROVE ReadyInv'
  BY <1>17 DEF ClearDirectory
<1>18. CASE ClearFails
  BY <1>18 DEF ClearFails
<1>19. CASE Restart
  BY <1>19 DEF Restart
<1>20. CASE Fire
  BY <1>20 DEF Fire
<1>21. CASE UNCHANGED vars
  BY <1>21 DEF vars
<1> QED
  BY <1>1, <1>2, <1>3, <1>4, <1>5, <1>6, <1>7, <1>8, <1>9, <1>10, <1>11, <1>12, <1>13,
     <1>14, <1>15, <1>16, <1>17, <1>18, <1>19, <1>20, <1>21 DEF Next, Worker

\* cache_ready says that every product that was asked for and that the depot has,
\* and the action processor, is completed and whole, unless clear_cache came
\* between, for any list of requests, any sizes, and whatever fails.
THEOREM ReadyIsComplete == Spec => []ReadyMeansCompleted
<1>1. ReadyInv => ReadyMeansCompleted
  BY DEF ReadyInv
<1> QED
  BY <1>1, TypeInit, TypeStep, CopyInit, CopyStep, ReadyInit, ReadyStep, PTL DEF Spec

-----------------------------------------------------------------------------
(* The limit of the cache's size                                           *)

\* What is there, and the same with the sizes read of the copies that may be
\* evicted: clear_cache may have taken something of these meanwhile, and then
\* an eviction frees less than the worker counts.
Taken == [p \in Products |-> Held(p)]
Counted == [p \in Products |-> IF p \in DOMAIN victims THEN victims[p] ELSE Held(p)]

\* What has still to be freed is what there is too much, counted with the
\* sizes read; while a copy is made, there is room for all that it lacks.
SizeInv ==
  /\ ToSet(todo) \subseteq needed
  /\ space \in Int
  /\ job # "evict" => DOMAIN victims = {}
  /\ DOMAIN victims \cap needed = {}
  /\ \A p \in DOMAIN victims : Held(p) <= victims[p]
  /\ SumFunction(Taken) <= MaxSize
  /\ job \in {"measure", "evict"} => SumFunction(Counted) + Size[current] <= MaxSize + space
  /\ job = "transfer" => SumFunction(Taken) + Size[current] - Held(current) <= MaxSize

SizesTyped ==
  /\ \A p \in Products : Held(p) \in Int /\ Held(p) \in 0..Size[p]
  /\ Taken \in [Products -> Int] /\ Counted \in [Products -> Int]
  /\ SumFunction(Taken) \in Int /\ SumFunction(Counted) \in Int
  /\ DirectorySize = SumFunction(Taken)

LEMMA SizeTypes == TypeInv => SizesTyped
<1> SUFFICES ASSUME TypeInv PROVE SizesTyped
  OBVIOUS
<1>1. \A p \in Products : Held(p) \in Int /\ Held(p) \in 0..Size[p]
  BY ProductAssumption DEF TypeInv, TypeOK, Held
<1>2. Taken \in [Products -> Int]
  BY <1>1 DEF Taken
<1>3. Counted \in [Products -> Int]
  BY <1>1, ProductAssumption DEF Counted, TypeInv, TypeOK
<1>4. SumFunction(Taken) \in Int /\ SumFunction(Counted) \in Int
  BY <1>2, <1>3, SumType, ProductAssumption
<1> QED
  BY <1>1, <1>2, <1>3, <1>4 DEF SizesTyped, DirectorySize, Taken

LEMMA SizeInit == Init => SizeInv
<1> SUFFICES ASSUME Init PROVE SizeInv
  OBVIOUS
<1>1. TypeInv
  BY TypeInit
<1>2. \A p \in Products : Taken[p] = 0
  BY DEF Init, Taken, Held
<1>3. SumFunction(Taken) = 0
  BY <1>1, <1>2, SizeTypes, SumOfZeros, ProductAssumption DEF SizesTyped
<1>4. ToSet(todo) = {}
  BY DEF Init, ToSet
<1>5. DOMAIN victims = {}
  BY DEF Init
<1> QED
  BY <1>3, <1>4, <1>5, ProductAssumption DEF Init, SizeInv

\* Nothing changes for the sizes.
LEMMA SizeUnchanged ==
  ASSUME TypeInv, SizeInv, UNCHANGED <<todo, needed, eviction>>,
         \A p \in Products : Held(p)' = Held(p),
         job' = job \/ (job' \notin {"measure", "evict", "transfer"} /\ job # "evict")
  PROVE  SizeInv'
<1>1. Taken' = Taken /\ Counted' = Counted
  BY DEF Taken, Counted, eviction
<1>2. job' \in {"measure", "evict", "transfer"} => todo # <<>>
  BY DEF TypeInv, Copying
<1>3. job' = "transfer" => current \in Products
  BY <1>2 DEF TypeInv, TypeOK, current
<1>4. \A p \in DOMAIN victims : p \in Products
  BY DEF TypeInv, TypeOK
<1> QED
  BY <1>1, <1>3, <1>4 DEF SizeInv, current, eviction

\* Something of a copy is deleted while the worker is at anything.
LEMMA SizeShrinks ==
  ASSUME TypeInv, TypeInv', SizeInv, UNCHANGED <<job, todo, needed, eviction>>,
         NEW q \in Products, Held(q)' <= Held(q),
         \A p \in Products \ {q} : Held(p)' = Held(p)
  PROVE  SizeInv'
<1>1. /\ \A p \in Products : Held(p) \in Int /\ Held(p)' \in Int
      /\ Taken \in [Products -> Int] /\ Counted \in [Products -> Int]
      /\ Taken' \in [Products -> Int] /\ Counted' \in [Products -> Int]
      /\ SumFunction(Taken) \in Int /\ SumFunction(Counted) \in Int
      /\ SumFunction(Taken') \in Int /\ SumFunction(Counted') \in Int
  <2>1. TypeInv' => SizesTyped'
    BY SizeTypes, PTL
  <2> QED
    BY <2>1, SizeTypes DEF SizesTyped
<1>2. DOMAIN victims' = DOMAIN victims /\ victims' = victims
  BY DEF eviction
<1>3. /\ \A p \in Products \ {q} : Taken'[p] = Taken[p]
      /\ Taken'[q] = Held(q)' /\ Taken[q] = Held(q)
  BY DEF Taken
<1>4. SumFunction(Taken') = SumFunction(Taken) + Held(q)' - Held(q)
  <2> HIDE DEF Taken
  <2> QED
    BY <1>1, <1>3, SumChanges, ProductAssumption
<1>5. SumFunction(Counted') <= SumFunction(Counted)
  <2>1. \A p \in Products : Counted'[p] <= Counted[p]
    BY <1>1, <1>2 DEF Counted
  <2> QED
    BY <1>1, <2>1, SumGrows, ProductAssumption
<1>6. job \in Copying => current \in Products /\ current' = current
  BY DEF TypeInv, TypeOK, current
<1>7. job = "transfer" =>
        SumFunction(Taken') + Size[current] - Held(current)' <= MaxSize
  <2> SUFFICES ASSUME job = "transfer" PROVE
        SumFunction(Taken') + Size[current] - Held(current)' <= MaxSize
    OBVIOUS
  <2>1. current \in Products
    BY <1>6 DEF Copying
  <2>2. SumFunction(Taken) + Size[current] - Held(current) <= MaxSize
    BY DEF SizeInv
  <2>3. CASE current = q
    BY <1>1, <1>4, <1>6, <2>1, <2>2, <2>3, ProductAssumption DEF Copying
  <2>4. CASE current # q
    <3>1. Held(current)' = Held(current)
      <4>1. PICK c \in Products : c = current /\ c = current'
        BY <1>6 DEF Copying
      <4>2. Held(c)' = Held(c)
        BY <2>4, <4>1
      <4> QED
        BY <4>1, <4>2
    <3> QED
      BY <1>1, <1>4, <2>1, <2>2, <3>1, ProductAssumption
  <2> QED
    BY <2>3, <2>4
<1>8. job \in {"measure", "evict"} =>
        SumFunction(Counted') + Size[current] <= MaxSize + space
  <2> SUFFICES ASSUME job \in {"measure", "evict"}
               PROVE  SumFunction(Counted') + Size[current] <= MaxSize + space
    OBVIOUS
  <2>1. SumFunction(Counted) + Size[current] <= MaxSize + space /\ space \in Int
    BY DEF SizeInv
  <2>2. Size[current] \in Int /\ MaxSize \in Int
    BY <1>6, ProductAssumption DEF Copying
  <2> QED
    BY <1>1, <1>5, <2>1, <2>2
<1>9. SumFunction(Taken') <= MaxSize
  <2>1. SumFunction(Taken) <= MaxSize /\ MaxSize \in Int
    BY ProductAssumption DEF SizeInv
  <2> QED
    BY <1>1, <1>4, <2>1
<1>10. \A p \in DOMAIN victims : Held(p)' <= victims[p]
  <2> SUFFICES ASSUME NEW p \in DOMAIN victims PROVE Held(p)' <= victims[p]
    OBVIOUS
  <2>1. Held(p) <= victims[p] /\ p \in Products /\ victims[p] \in Int
    BY ProductAssumption DEF SizeInv, TypeInv, TypeOK
  <2>2. Held(p)' <= Held(p)
    BY <1>1, <2>1
  <2> QED
    BY <1>1, <2>1, <2>2
<1> QED
  BY <1>2, <1>6, <1>7, <1>8, <1>9, <1>10 DEF SizeInv, current, Copying, eviction

LEMMA SizeStep == TypeInv /\ TypeInv' /\ SizeInv /\ [Next]_vars => SizeInv'
<1> SUFFICES ASSUME TypeInv, TypeInv', SizeInv, [Next]_vars PROVE SizeInv'
  OBVIOUS
<1> USE DEF Step, plan, dropping, disk, state, clear, history, Copying
<1>0. job \in Copying => todo # <<>> /\ current \in Products /\ current \in needed
                         /\ Size[current] \in Int
  <2>1. todo \in Seq(Products) /\ ToSet(todo) \subseteq needed
    BY DEF TypeInv, TypeOK, SizeInv
  <2>2. todo # <<>> => current \in Products /\ current \in ToSet(todo)
    BY <2>1 DEF current, ToSet
  <2> QED
    BY <2>1, <2>2, ProductAssumption DEF TypeInv
<1>00. SizesTyped /\ SizesTyped' /\ MaxSize \in Int /\ Margin \in Nat /\ space \in Int
  <2>1. TypeInv' => SizesTyped'
    BY SizeTypes, PTL
  <2> QED
    BY <2>1, SizeTypes, ProductAssumption DEF SizeInv
<1>1. CASE Connect \/ Dies \/ SlotRefused \/ Begin \/ PlanFails \/ Fire \/ Finish
           \/ StartProduct \/ Summary \/ RequestCaching \/ ClearBegin \/ ClearState
  <2> DEFINE Quiet == /\ UNCHANGED <<todo, needed, eviction, content>>
                      /\ \/ job' = job
                         \/ job' \notin {"measure", "evict", "transfer"} /\ job # "evict"
  <2>1. Connect => Quiet
    BY DEF Connect
  <2>2. Dies => Quiet
    BY DEF Dies
  <2>3. SlotRefused => Quiet
    BY DEF SlotRefused
  <2>4. Begin => Quiet
    BY DEF Begin
  <2>5. PlanFails => Quiet
    BY DEF PlanFails
  <2>6. Fire => Quiet
    BY DEF Fire
  <2>7. Finish => Quiet
    BY DEF Finish
  <2>8. StartProduct => Quiet
    BY DEF StartProduct
  <2>9. Summary => Quiet
    BY DEF Summary
  <2>10. RequestCaching => Quiet
    BY DEF RequestCaching
  <2>11. ClearBegin => Quiet
    BY DEF ClearBegin
  <2>12. ClearState => Quiet
    BY DEF ClearState
  <2>13. Quiet
    BY <1>1, <2>1, <2>2, <2>3, <2>4, <2>5, <2>6, <2>7, <2>8, <2>9, <2>10, <2>11, <2>12
  <2> QED
    BY <2>13, SizeUnchanged DEF Held
<1>2. CASE UNCHANGED vars
  <2>1. UNCHANGED <<job, todo, needed, eviction, content>>
    BY <1>2 DEF vars
  <2> QED
    BY <2>1, SizeUnchanged DEF Held
<1>3. CASE Plan \/ DropTurn
  <2>1. /\ needed' = ToSet(todo')
        /\ job' \notin {"measure", "evict", "transfer"} /\ job # "evict"
        /\ UNCHANGED <<eviction, content>>
    BY <1>3 DEF Plan, DropTurn
  <2>2. UNCHANGED Taken /\ DOMAIN victims = {} /\ victims' = victims /\ space' = space
    BY <2>1 DEF Taken, Held, SizeInv, eviction
  <2> QED
    BY <2>1, <2>2 DEF SizeInv
<1>4. CASE Release \/ Restart
  <2>1. /\ todo' = <<>> /\ needed' = {} /\ job' \notin {"measure", "evict", "transfer"}
        /\ content' = content
        /\ \/ victims' = << >> /\ space' = 0
           \/ UNCHANGED eviction /\ job # "evict"
    <3>1. CASE Release
      BY <3>1 DEF Release
    <3>2. CASE Restart
      BY <3>2 DEF Restart
    <3> QED
      BY <1>4, <3>1, <3>2
  <2>2. DOMAIN victims' = {} /\ space' \in Int
    BY <2>1 DEF SizeInv, eviction
  <2>3. UNCHANGED Taken /\ ToSet(todo') = {}
    BY <2>1 DEF Taken, Held, ToSet
  <2> QED
    BY <2>1, <2>2, <2>3 DEF SizeInv
<1>5. CASE Dropped
  <2>1. /\ UNCHANGED <<todo, needed, eviction, content>>
        /\ job' \notin {"measure", "evict", "transfer"} /\ job # "evict"
    BY <1>5 DEF Dropped
  <2> QED
    BY <2>1, SizeUnchanged DEF Held
<1>6. CASE FetchContentFile
  <2>1. /\ UNCHANGED <<todo, needed, eviction>> /\ job = "content" /\ job' = "check"
        /\ content' = [content EXCEPT ![current] = Held(current)]
    BY <1>6 DEF FetchContentFile
  <2>2. \A p \in Products : Held(p)' = Held(p)
    BY <1>0, <1>00, <2>1 DEF Held, SizesTyped
  <2> QED
    BY <2>1, <2>2, SizeUnchanged
<1>7. CASE CheckSpace
  <2>1. /\ job = "check" /\ UNCHANGED <<todo, needed, victims, content>>
        /\ \/ /\ DirectorySize + Size[current] - Held(current) > MaxSize
              /\ space' = Size[current] - (MaxSize - DirectorySize) + Margin
              /\ job' = "measure"
           \/ /\ ~(DirectorySize + Size[current] - Held(current) > MaxSize)
              /\ job' = "transfer" /\ space' = space
    BY <1>7 DEF CheckSpace
  <2>2. DOMAIN victims = {} /\ UNCHANGED Taken /\ current' = current
    BY <2>1 DEF SizeInv, Taken, Held, current
  <2>3. Counted' = Taken
    BY <2>1, <2>2 DEF Counted, Taken, Held
  <2>4. Held(current)' = Held(current) /\ Held(current) \in Int
    BY <1>0, <1>00, <2>1, <2>2 DEF Held, SizesTyped
  <2>5. SumFunction(Taken) \in Int /\ DirectorySize = SumFunction(Taken)
        /\ Size[current] \in Int
    BY <1>0, <1>00, <2>1 DEF SizesTyped
  <2>6. CASE job' = "measure"
    <3>1. space' \in Int /\ SumFunction(Taken) + Size[current] <= MaxSize + space'
      BY <1>00, <2>1, <2>5, <2>6
    <3> QED
      BY <2>1, <2>2, <2>3, <2>6, <3>1 DEF SizeInv
  <2>7. CASE job' = "transfer"
    <3>1. SumFunction(Taken) + Size[current] - Held(current) <= MaxSize
      BY <1>00, <2>1, <2>4, <2>5, <2>7
    <3> QED
      BY <1>00, <2>1, <2>2, <2>4, <2>7, <3>1 DEF SizeInv
  <2> QED
    BY <2>1, <2>6, <2>7
<1>8. CASE Measure
  <2>1. /\ job = "measure" /\ job' = "evict"
        /\ victims' = [p \in {q \in Products \ needed : content[q] # -1} |-> content[p]]
        /\ UNCHANGED <<todo, needed, space, content>>
    BY <1>8 DEF Measure
  <2>2. UNCHANGED <<Taken, current>>
    BY <2>1 DEF Taken, Held, current
  <2>3. /\ \A p \in DOMAIN victims' : p \notin needed /\ victims'[p] = Held(p)
        /\ Counted' = Taken
    BY <2>1 DEF Counted, Taken, Held
  <2>4. Counted = Taken
    BY <2>1 DEF SizeInv, Counted, Taken
  <2>5. \A p \in DOMAIN victims' : Held(p)' <= victims'[p]
    BY <1>00, <2>1, <2>3 DEF Held, SizesTyped
  <2> QED
    BY <2>1, <2>2, <2>3, <2>4, <2>5 DEF SizeInv
<1>9. ASSUME NEW p \in Products, Evict(p) PROVE SizeInv'
  <2>1. /\ job = "evict" /\ job' = "evict" /\ p \in DOMAIN victims
        /\ space' = space - victims[p]
        /\ content' = [content EXCEPT ![p] = -1]
        /\ UNCHANGED <<todo, needed>>
    BY <1>9 DEF Evict
  <2>2. victims' = [q \in DOMAIN victims \ {p} |-> victims[q]]
    BY <1>9 DEF Evict, Restrict
  <2>3. /\ DOMAIN victims' = DOMAIN victims \ {p}
        /\ \A q \in DOMAIN victims' : victims'[q] = victims[q]
    BY <2>2
  <2>4. victims[p] \in Int /\ \A q \in DOMAIN victims : q \in Products
    BY <2>1, ProductAssumption DEF TypeInv, TypeOK
  <2>5. /\ \A q \in Products \ {p} : Held(q)' = Held(q)
        /\ Held(p)' = 0
    BY <2>1 DEF Held, TypeInv, TypeOK
  <2>6. SumFunction(Counted') = SumFunction(Counted) - victims[p]
    <3>1. /\ \A q \in Products \ {p} : Counted'[q] = Counted[q]
          /\ Counted'[p] = 0 /\ Counted[p] = victims[p]
      BY <2>1, <2>3, <2>5 DEF Counted
    <3>2. SumFunction(Counted') = SumFunction(Counted) + Counted'[p] - Counted[p]
      BY <1>00, <3>1, SumChanges, ProductAssumption DEF SizesTyped
    <3> QED
      BY <1>00, <2>4, <3>1, <3>2 DEF SizesTyped
  <2>7. SumFunction(Taken') <= SumFunction(Taken)
    <3>1. \A q \in Products : Taken'[q] <= Taken[q]
      BY <1>00, <2>5 DEF Taken, SizesTyped
    <3> QED
      BY <1>00, <3>1, SumGrows, ProductAssumption DEF SizesTyped
  <2>8. SumFunction(Taken') <= MaxSize
    <3>1. SumFunction(Taken) <= MaxSize
      BY DEF SizeInv
    <3> QED
      BY <1>00, <2>7, <3>1 DEF SizesTyped
  <2>9. current' = current /\ SumFunction(Counted') + Size[current] <= MaxSize + space'
        /\ space' \in Int
    <3>1. SumFunction(Counted) + Size[current] <= MaxSize + space
      BY <2>1 DEF SizeInv
    <3>2. Size[current] \in Int
      BY <1>0, <2>1
    <3> QED
      BY <1>00, <2>1, <2>4, <2>6, <3>1, <3>2 DEF SizesTyped, current
  <2>10. \A q \in DOMAIN victims' : Held(q)' <= victims'[q]
    BY <2>3, <2>4, <2>5 DEF SizeInv
  <2> QED
    BY <2>1, <2>3, <2>8, <2>9, <2>10 DEF SizeInv
<1>10. CASE Evicted
  <2>1. /\ job = "evict" /\ job' = "transfer" /\ space <= 0
        /\ victims' = << >> /\ space' = 0
        /\ UNCHANGED <<todo, needed, content>>
    BY <1>10 DEF Evicted
  <2>2. UNCHANGED <<Taken, current>> /\ DOMAIN victims' = {}
    BY <2>1 DEF Taken, Held, current
  <2>3. SumFunction(Taken) <= SumFunction(Counted)
    <3>1. \A q \in Products : Taken[q] <= Counted[q]
      BY <1>00 DEF Taken, Counted, SizesTyped, SizeInv
    <3> QED
      BY <1>00, <3>1, SumGrows, ProductAssumption DEF SizesTyped
  <2>4. SumFunction(Counted) + Size[current] <= MaxSize + space
    BY <2>1 DEF SizeInv
  <2>5. Held(current)' = Held(current) /\ Held(current) \in 0..Size[current]
    BY <1>0, <1>00, <2>1, <2>2 DEF Held, SizesTyped
  <2>6. SumFunction(Taken) + Size[current] - Held(current) <= MaxSize
    BY <1>0, <1>00, <2>1, <2>3, <2>4, <2>5 DEF SizesTyped
  <2> QED
    BY <2>1, <2>2, <2>5, <2>6 DEF SizeInv
<1>11. CASE Transfer
  <2>1. /\ job = "transfer" /\ job' = "transfer" /\ Held(current) < Size[current]
        /\ content' = [content EXCEPT ![current] = Held(current) + 1]
        /\ UNCHANGED <<todo, needed, victims, space>>
    BY <1>11 DEF Transfer, eviction
  <2>2. current' = current /\ DOMAIN victims = {}
    BY <2>1 DEF current, SizeInv
  <2>3. PICK c \in Products : c = current
    BY <1>0, <2>1
  <2>4. /\ Held(c) \in Int /\ Held(c) \in 0..Size[c] /\ Size[c] \in Int
        /\ \A q \in Products \ {c} : Held(q)' = Held(q)
        /\ Held(c)' = Held(c) + 1
    <3>1. Held(c) \in Int /\ Held(c) \in 0..Size[c] /\ Size[c] \in Int
      BY <1>0, <1>00, <2>1, <2>3 DEF SizesTyped
    <3>2. content' = [content EXCEPT ![c] = Held(c) + 1] /\ c \in DOMAIN content
      BY <2>1, <2>3 DEF TypeInv, TypeOK
    <3>3. content'[c] = Held(c) + 1 /\ \A q \in Products \ {c} : content'[q] = content[q]
      BY <3>2 DEF TypeInv, TypeOK
    <3>4. Held(c) + 1 # -1
      BY <3>1
    <3> QED
      BY <3>1, <3>3, <3>4 DEF Held
  <2>5. SumFunction(Taken') = SumFunction(Taken) + 1
    <3>1. /\ \A q \in Products \ {c} : Taken'[q] = Taken[q]
          /\ Taken'[c] = Held(c) + 1 /\ Taken[c] = Held(c)
      BY <2>4 DEF Taken
    <3>2. SumFunction(Taken') = SumFunction(Taken) + Taken'[c] - Taken[c]
      BY <1>00, <3>1, SumChanges, ProductAssumption DEF SizesTyped
    <3> QED
      BY <1>00, <2>4, <3>1, <3>2 DEF SizesTyped
  <2>6. SumFunction(Taken) + Size[c] - Held(c) <= MaxSize
    BY <2>1, <2>3 DEF SizeInv
  <2>7. /\ SumFunction(Taken') + Size[c] - (Held(c) + 1) <= MaxSize
        /\ SumFunction(Taken') <= MaxSize
    BY <1>00, <2>1, <2>3, <2>4, <2>5, <2>6 DEF SizesTyped
  <2>8. Held(current)' = Held(c) + 1
    BY <2>2, <2>3, <2>4
  <2> QED
    BY <2>1, <2>2, <2>3, <2>7, <2>8 DEF SizeInv
<1>12. CASE Transferred
  <2>1. /\ UNCHANGED <<todo, needed, eviction, content>>
        /\ job' = "record" /\ job # "evict"
    BY <1>12 DEF Transferred
  <2> QED
    BY <2>1, SizeUnchanged DEF Held
<1>13. CASE Record \/ ProductFails
  <2>1. /\ job \in Copying /\ job' \in {"next", "release"}
        /\ todo' \in {Tail(todo), <<>>} /\ needed' = needed
        /\ \/ victims' = << >> /\ space' = 0
           \/ UNCHANGED eviction /\ job # "evict"
        /\ \/ content' = content
           \/ /\ job = "content"
              /\ content' = [content EXCEPT ![current] = Held(current)]
    <3>1. CASE Record
      BY <3>1 DEF Record
    <3>2. CASE ProductFails
      BY <3>2 DEF ProductFails
    <3> QED
      BY <1>13, <3>1, <3>2
  <2>2. ToSet(todo') \subseteq ToSet(todo)
    <3>1. todo \in Seq(Products) /\ todo # <<>>
      BY <1>0, <2>1 DEF TypeInv, TypeOK
    <3>2. \A i \in DOMAIN Tail(todo) : i + 1 \in DOMAIN todo /\ Tail(todo)[i] = todo[i + 1]
      BY <3>1
    <3>3. CASE todo' = Tail(todo)
      BY <3>2, <3>3 DEF ToSet
    <3>4. CASE todo' = <<>>
      BY <3>4 DEF ToSet
    <3> QED
      BY <2>1, <3>3, <3>4
  <2>3. \A p \in Products : Held(p)' = Held(p)
    <3>1. CASE content' = content
      BY <3>1 DEF Held
    <3>2. CASE job = "content" /\ content' = [content EXCEPT ![current] = Held(current)]
      BY <1>0, <1>00, <3>2 DEF Held, SizesTyped
    <3> QED
      BY <2>1, <3>1, <3>2
  <2>4. UNCHANGED Taken
    BY <2>3 DEF Taken
  <2>5. DOMAIN victims' = {} /\ space' \in Int
    BY <2>1 DEF SizeInv, eviction
  <2> QED
    BY <2>1, <2>2, <2>4, <2>5 DEF SizeInv
<1>14. ASSUME NEW p \in Products, ClearDirectory(p) PROVE SizeInv'
  <2>1. /\ UNCHANGED <<job, todo, needed, eviction>>
        /\ content' = [content EXCEPT ![p] = -1]
    BY <1>14 DEF ClearDirectory
  <2>2. Held(p)' <= Held(p) /\ \A q \in Products \ {p} : Held(q)' = Held(q)
    BY <1>00, <2>1 DEF Held, SizesTyped, TypeInv, TypeOK
  <2> QED
    BY <2>1, <2>2, SizeShrinks
<1>15. CASE ClearFails
  <2>1. /\ UNCHANGED <<job, todo, needed, eviction>>
        /\ \E p \in toClear :
             content' \in {[content EXCEPT ![p] = n] : n \in {content[p]} \cup 0 .. content[p]}
    BY <1>15 DEF ClearFails
  <2>2. PICK p \in Products, n \in Int :
          /\ n = content[p] \/ n \in 0..content[p]
          /\ content' = [content EXCEPT ![p] = n]
    BY <2>1 DEF TypeInv, TypeOK
  <2>3. Held(p)' <= Held(p) /\ \A q \in Products \ {p} : Held(q)' = Held(q)
    <3>1. content'[p] = n /\ \A q \in Products \ {p} : content'[q] = content[q]
      BY <2>2 DEF TypeInv, TypeOK
    <3>2. content[p] \in Int /\ content[p] >= -1 /\ n <= content[p] /\ n >= -1
      BY <2>2, ProductAssumption DEF TypeInv, TypeOK
    <3> QED
      BY <3>1, <3>2 DEF Held
  <2> QED
    BY <2>1, <2>3, SizeShrinks
<1> QED
  BY <1>1, <1>2, <1>3, <1>4, <1>5, <1>6, <1>7, <1>8, <1>9, <1>10, <1>11, <1>12, <1>13,
     <1>14, <1>15 DEF Next, Worker

\* The copies never take more than the limit, for any products, sizes and limit,
\* whatever is evicted, fails or is deleted by clear_cache meanwhile.
THEOREM SizeIsLimited == Spec => []SizeLimitKept
<1>1. TypeInv /\ SizeInv => SizeLimitKept
  BY SizeTypes DEF SizeInv, SizesTyped, SizeLimitKept
<1> QED
  BY <1>1, TypeInit, TypeStep, SizeInit, SizeStep, PTL DEF Spec
=============================================================================
