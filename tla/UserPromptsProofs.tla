------------------------- MODULE UserPromptsProofs -------------------------
(***************************************************************************)
(* Proofs about UserPrompts: whatever the user clicks and in whatever      *)
(* order the calls of a click take effect, for any events and limits.      *)
(***************************************************************************)
EXTENDS UserPrompts, TLAPS

-----------------------------------------------------------------------------
(* What the choices are                                                    *)

\* The smaller of two numbers.
LEMMA MinOfTwo ==
  ASSUME NEW a \in Nat, NEW b \in Nat
  PROVE  Min({a, b}) \in Nat /\ Min({a, b}) <= a /\ Min({a, b}) <= b
         /\ Min({a, b}) \in {a, b}
<1>1. \E x \in {a, b} : \A y \in {a, b} : x <= y
  BY SMT
<1> QED
  BY <1>1 DEF Min

LEMMA MinOfLess ==
  ASSUME NEW a \in Nat, NEW b \in Nat, a < b PROVE Min({a, b}) = a
<1>1. Min({a, b}) \in {a, b} /\ Min({a, b}) <= a
  BY MinOfTwo
<1> QED
  BY <1>1

\* Hours and the four other labels.
LEMMA LabelTypes ==
  /\ Start \in Labels /\ Later \in Labels /\ Abort \in Labels
  /\ 0 .. Hours - 1 \subseteq Labels
  /\ Start # Abort
BY PromptAssumption DEF PromptAssumption, Start, Later, Abort, Labels

\* A remainder is a label of an hour.
LEMMA HourOfDay ==
  ASSUME NEW i \in Int PROVE i % Hours \in 0 .. Hours - 1
BY PromptAssumption DEF PromptAssumption

\* What a single choice offers.
LEMMA OneChoice ==
  <<Start>> \in Seq(Labels) /\ \A i \in DOMAIN <<Start>> : <<Start>>[i] = Start
BY LabelTypes

\* The actions may be aborted as long as they have not been too often.
LEMMA ActionChoicesType ==
  ASSUME NEW n \in Nat
  PROVE  /\ ActionChoices(n) \in Seq(Labels)
         /\ \A i \in DOMAIN ActionChoices(n) :
              ActionChoices(n)[i] # Start => n < ActionCancelable
BY LabelTypes DEF ActionChoices

\* The hours on offer, whatever the latest selectable one.
LEMMA HourChoicesType ==
  ASSUME NEW h \in 0 .. Hours - 1
  PROVE  HourChoices(h) \in Seq(Labels)
<1> DEFINE rest == ((LatestHour - h - 1) % Hours) + 1
           most == IF LatestHour = -1 THEN Hours - 1 ELSE Min({Hours - 1, rest})
<1>1. Hours \in Nat \ {0} /\ LatestHour \in Int /\ h \in Nat
  BY PromptAssumption DEF PromptAssumption
<1>2. rest \in Nat
  BY <1>1, HourOfDay
<1>3. most \in Nat
  BY <1>1, <1>2, MinOfTwo
<1>4. \A i \in 1 .. most : (h + i) % Hours \in Labels
  BY <1>1, <1>3, HourOfDay, LabelTypes
<1>5. HourChoices(h) = [i \in 1 .. most |-> (h + i) % Hours]
  BY DEF HourChoices
<1> HIDE DEF most
<1> QED
  BY <1>3, <1>4, <1>5

\* Once the shutdown may not be put off any more, nothing but it is offered.
LEMMA ShutdownChoicesType ==
  ASSUME NEW n \in Nat, NEW h \in 0 .. Hours - 1
  PROVE  /\ ShutdownChoices(n, h) \in Seq(Labels)
         /\ \A i \in DOMAIN ShutdownChoices(n, h) :
              ShutdownChoices(n, h)[i] # Start => n < ShutdownCancelable
<1>1. CASE n >= ShutdownCancelable
  <2>1. ShutdownChoices(n, h) = <<Start>>
    BY <1>1 DEF ShutdownChoices
  <2> QED
    BY <2>1, LabelTypes, OneChoice
<1>2. CASE ~(n >= ShutdownCancelable)
  <2>1. n < ShutdownCancelable
    BY <1>2, PromptAssumption DEF PromptAssumption
  <2>2. ShutdownChoices(n, h) \in {<<Start>> \o HourChoices(h), <<Start>> \o <<Later>>}
    BY <1>2 DEF ShutdownChoices
  <2>3. <<Start>> \in Seq(Labels) /\ <<Later>> \in Seq(Labels)
    BY LabelTypes
  <2>4. ASSUME NEW s \in Seq(Labels) PROVE <<Start>> \o s \in Seq(Labels)
    BY <2>3
  <2> HIDE DEF Start, Later
  <2> QED
    BY <2>1, <2>2, <2>3, <2>4, HourChoicesType
<1> QED
  BY <1>1, <1>2

-----------------------------------------------------------------------------
(* The invariant                                                           *)

LEMMA PromptInitial == Init => PromptInv
<1> SUFFICES ASSUME Init PROVE PromptInv
  OBVIOUS
<1> USE PromptAssumption, LabelTypes DEF Init
<1>1. hour \in 0 .. Hours - 1
  BY DEF PromptAssumption
<1>2. TypeOK
  BY <1>1 DEF TypeOK, Stages, PromptAssumption
<1>3. OneAsks /\ \A p \in EPTs : Shows(p) /\ Counts(p) /\ Keeps(p)
  BY DEF OneAsks, Shows, Counts, Keeps, AskingStages, OfferStages
<1>4. HistoryInv
  BY DEF HistoryInv, PromptAssumption
<1> QED
  BY <1>2, <1>3, <1>4 DEF PromptInv

\* A new question, of the actions or of the shutdown, resets what the last one
\* has left; a closed one leaves its flags.
LEMMA ShowTypes ==
  ASSUME TypeOK, NEW p \in EPTs, NEW n \in Nat, NEW s \in Seq(Labels), Show(p, n, s)
  PROVE  /\ seen' \in [EPTs -> Nat] /\ choices' \in [EPTs -> Seq(Labels)]
         /\ selected' \in [EPTs -> Nat] /\ shown' \in [EPTs -> BOOLEAN]
         /\ putOff' \in [EPTs -> BOOLEAN] /\ goOn' \in [EPTs -> BOOLEAN]
         /\ answered' \in [EPTs -> BOOLEAN]
         /\ rpcs' = rpcs /\ clicked' = clicked
BY LabelTypes DEF TypeOK, Show

LEMMA HideTypes ==
  ASSUME TypeOK, NEW p \in EPTs, Hide(p)
  PROVE  /\ choices' \in [EPTs -> Seq(Labels)]
         /\ selected' \in [EPTs -> Nat] /\ shown' \in [EPTs -> BOOLEAN]
         /\ UNCHANGED <<seen, rpcs, clicked, putOff, goOn, answered>>
         /\ ~shown'[p]
         /\ \A q \in EPTs \ {p} : shown'[q] = shown[q] /\ choices'[q] = choices[q]
BY DEF TypeOK, Hide

-----------------------------------------------------------------------------
(* Types                                                                   *)

LEMMA GotoTypes ==
  ASSUME TypeOK, NEW p \in EPTs, NEW s \in Stages, Goto(p, s)
  PROVE  /\ stage' \in [EPTs -> Stages] /\ stage'[p] = s
         /\ \A q \in EPTs \ {p} : stage'[q] = stage[q]
BY DEF TypeOK, Goto

\* Every step but those of the user keeps the types.
LEMMA AskingTypes ==
  ASSUME TypeOK, NEW p \in EPTs, Asking(p) PROVE TypeOK'
<1> USE DEF Stages, Over, dialog, timing, counters, machine
<1>0. EventName[p] \in Names /\ ActionCancelable \in Nat
  BY PromptAssumption DEF PromptAssumption
<1>1. CASE BeginPassive(p) \/ ActionAsked(p) \/ RunActions(p)
  BY <1>1, GotoTypes DEF BeginPassive, ActionAsked, RunActions, TypeOK
<1>2. CASE AskAction(p)
  <2> DEFINE n == actionCounter[EventName[p]]
  <2>1. n \in Nat /\ Show(p, n, ActionChoices(n)) /\ Goto(p, "ask")
    BY <1>0, <1>2 DEF AskAction, TypeOK
  <2>2. ActionChoices(n) \in Seq(Labels)
    BY <2>1, ActionChoicesType
  <2>3. stage' \in [EPTs -> Stages]
    BY <2>1, GotoTypes
  <2>4. UNCHANGED <<timing, shouldCancel, counters, machine>>
    BY <1>2 DEF AskAction
  <2> HIDE DEF n
  <2>5. /\ seen' \in [EPTs -> Nat] /\ choices' \in [EPTs -> Seq(Labels)]
        /\ selected' \in [EPTs -> Nat] /\ shown' \in [EPTs -> BOOLEAN]
        /\ putOff' \in [EPTs -> BOOLEAN] /\ goOn' \in [EPTs -> BOOLEAN]
        /\ answered' \in [EPTs -> BOOLEAN]
        /\ rpcs' = rpcs /\ clicked' = clicked
    BY <2>1, <2>2, ShowTypes
  <2> QED
    BY <2>3, <2>4, <2>5 DEF TypeOK
<1>3. CASE ActionAborted(p) \/ ActionAccepted(p)
  <2>1. stage' \in [EPTs -> Stages]
    BY <1>3, GotoTypes DEF ActionAborted, ActionAccepted
  <2>2. aborts \in [Names -> Nat] /\ actionCounter \in [Names -> Nat] /\ seen[p] \in Nat
    BY DEF TypeOK
  <2>3. Min({aborts[EventName[p]], ActionCancelable}) \in Nat
    BY <1>0, <2>2, MinOfTwo
  <2>4. PICK n \in Nat : actionCounter' = [actionCounter EXCEPT ![EventName[p]] = n]
    BY <1>3, <2>2 DEF ActionAborted, ActionAccepted
  <2>5. PICK m \in Nat : aborts' = [aborts EXCEPT ![EventName[p]] = m]
    BY <1>3, <2>3 DEF ActionAborted, ActionAccepted
  <2>6. actionCounter' \in [Names -> Nat] /\ aborts' \in [Names -> Nat]
    BY <2>2, <2>4, <2>5
  <2>7. UNCHANGED <<timing, shouldCancel, shutdownCounter, delays, machine>> /\ Hide(p)
    BY <1>3 DEF ActionAborted, ActionAccepted
  <2>8. /\ choices' \in [EPTs -> Seq(Labels)]
        /\ selected' \in [EPTs -> Nat] /\ shown' \in [EPTs -> BOOLEAN]
        /\ UNCHANGED <<seen, rpcs, clicked, putOff, goOn, answered>>
    BY <2>7, HideTypes
  <2> QED
    BY <2>1, <2>6, <2>7, <2>8 DEF TypeOK
<1> QED
  BY <1>1, <1>2, <1>3 DEF Asking

LEMMA ShuttingDownTypes ==
  ASSUME TypeOK, NEW p \in EPTs, ShuttingDown(p) PROVE TypeOK'
<1> USE DEF Stages, Over, dialog, timing, counters, machine
<1>0. ShutdownCancelable \in Nat /\ {Repeats, NotifierFails} \subseteq BOOLEAN
  BY PromptAssumption DEF PromptAssumption
<1>1. CASE Request(p) \/ PollEnded(p) \/ DecideCanceled(p) \/ DecideNotNotified(p)
           \/ DecideGoOn(p) \/ Wake(p)
  BY <1>1, GotoTypes DEF Request, PollEnded, DecideCanceled, DecideNotNotified,
     AfterPutOff, DecideGoOn, Wake, TypeOK
<1>2. CASE Offer(p)
  <2> DEFINE s == ShutdownChoices(shutdownCounter, hour)
  <2>1. shutdownCounter \in Nat /\ Show(p, shutdownCounter, s) /\ Goto(p, "notify")
    BY <1>2 DEF Offer, TypeOK
  <2>2. s \in Seq(Labels)
    BY ShutdownChoicesType DEF TypeOK
  <2>3. stage' \in [EPTs -> Stages]
    BY <2>1, GotoTypes
  <2>4. UNCHANGED <<timing, shouldCancel, counters, machine>>
    BY <1>2 DEF Offer
  <2> HIDE DEF s
  <2>5. /\ seen' \in [EPTs -> Nat] /\ choices' \in [EPTs -> Seq(Labels)]
        /\ selected' \in [EPTs -> Nat] /\ shown' \in [EPTs -> BOOLEAN]
        /\ putOff' \in [EPTs -> BOOLEAN] /\ goOn' \in [EPTs -> BOOLEAN]
        /\ answered' \in [EPTs -> BOOLEAN]
        /\ rpcs' = rpcs /\ clicked' = clicked
    BY <2>1, <2>2, ShowTypes
  <2> QED
    BY <2>3, <2>4, <2>5 DEF TypeOK
<1>3. CASE StartNotifier(p)
  <2>1. failed' \in [EPTs -> BOOLEAN]
    BY <1>0, <1>3 DEF StartNotifier, TypeOK
  <2> QED
    BY <1>3, <2>1, GotoTypes DEF StartNotifier, TypeOK
<1>4. CASE Canceled(p) \/ CloseNotifiers(p)
  <2>1. stage' \in [EPTs -> Stages]
    BY <1>4, GotoTypes DEF Canceled, CloseNotifiers
  <2>2. UNCHANGED <<timing, shouldCancel, counters, machine>> /\ Hide(p)
    BY <1>4 DEF Canceled, CloseNotifiers
  <2>3. /\ choices' \in [EPTs -> Seq(Labels)]
        /\ selected' \in [EPTs -> Nat] /\ shown' \in [EPTs -> BOOLEAN]
        /\ UNCHANGED <<seen, rpcs, clicked, putOff, goOn, answered>>
    BY <2>2, HideTypes
  <2> QED
    BY <2>1, <2>2, <2>3 DEF TypeOK
<1>5. CASE DecidePutOff(p)
  <2>1. stage' \in [EPTs -> Stages]
    BY <1>5, GotoTypes DEF DecidePutOff, AfterPutOff
  <2>2. delays \in Nat /\ seen[p] \in Nat
    BY DEF TypeOK
  <2>3. Min({delays, ShutdownCancelable}) \in Nat
    BY <1>0, <2>2, MinOfTwo
  <2>4. shutdownCounter' \in Nat /\ delays' \in Nat
    BY <1>5, <2>2, <2>3 DEF DecidePutOff
  <2> QED
    BY <1>5, <2>1, <2>4 DEF DecidePutOff, TypeOK
<1>6. CASE Execute(p)
  BY <1>6, GotoTypes DEF Execute, TypeOK
<1> QED
  BY <1>1, <1>2, <1>3, <1>4, <1>5, <1>6 DEF ShuttingDown

LEMMA ChoiceTypes ==
  ASSUME TypeOK, NEW p \in EPTs, RemovePastChoices(p) PROVE TypeOK'
<1> DEFINE s == ShutdownChoices(seen[p], hour)
<1>1. s \in Seq(Labels)
  BY ShutdownChoicesType DEF TypeOK
<1>2. choices' = [choices EXCEPT ![p] = s]
  BY DEF RemovePastChoices
<1> HIDE DEF s
<1>3. choices' \in [EPTs -> Seq(Labels)] /\ selected' \in [EPTs -> Nat]
  BY <1>1, <1>2 DEF RemovePastChoices, TypeOK
<1> QED
  BY <1>3 DEF RemovePastChoices, TypeOK, timing, counters, machine

LEMMA ClickTypes ==
  ASSUME TypeOK, NEW p \in EPTs, NEW i \in DOMAIN choices[p], Click(p, i) PROVE TypeOK'
<1>1. choices[p] \in Seq(Labels)
  BY DEF TypeOK
<1>2. choices[p][i] \in Labels /\ i \in Nat
  BY <1>1
<1>3. answered' \in [EPTs -> BOOLEAN] /\ clicked' \in [EPTs -> Nat]
      /\ rpcs' \in [EPTs -> SUBSET {"setSelectedIndexes", "selectChoice"}]
  BY <1>2 DEF Click, TypeOK
<1> QED
  BY <1>3 DEF Click, TypeOK, timing, counters, machine

LEMMA SetSelectedTypes ==
  ASSUME TypeOK, NEW p \in EPTs, SetSelectedIndexes(p) PROVE TypeOK'
<1>1. /\ selected' \in [EPTs -> Nat] /\ clicked' \in [EPTs -> Nat]
      /\ rpcs' \in [EPTs -> SUBSET {"setSelectedIndexes", "selectChoice"}]
  BY DEF SetSelectedIndexes, TypeOK
<1> QED
  BY <1>1 DEF SetSelectedIndexes, TypeOK, timing, counters, machine

\* The time until the selected hour is less than a day.
LEMMA SelectTimeTypes ==
  ASSUME TypeOK, NEW p \in EPTs, NEW label \in Labels, SelectTime(p, label)
  PROVE  wait' \in [EPTs -> 0 .. Hours - 1] /\ repeats' \in [EPTs -> BOOLEAN]
<1>1. Repeats \in BOOLEAN /\ Hours \in Nat \ {0}
  BY PromptAssumption DEF PromptAssumption
<1>2. label \in Int /\ hour \in Int
  BY <1>1 DEF TypeOK, Labels, Abort
<1>3. (label - hour) % Hours \in 0 .. Hours - 1 /\ 0 \in 0 .. Hours - 1
  BY <1>1, <1>2, HourOfDay
<1>4. wait' \in [EPTs -> 0 .. Hours - 1]
  BY <1>3 DEF SelectTime, TypeOK
<1>5. PICK r \in BOOLEAN : repeats' = [repeats EXCEPT ![p] = r]
  BY <1>1 DEF SelectTime
<1>6. repeats' \in [EPTs -> BOOLEAN]
  BY <1>5 DEF TypeOK
<1> QED
  BY <1>4, <1>6

LEMMA SelectChoiceTypes ==
  ASSUME TypeOK, NEW p \in EPTs, SelectChoice(p) PROVE TypeOK'
<1>1. rpcs' \in [EPTs -> SUBSET {"setSelectedIndexes", "selectChoice"}]
  BY DEF SelectChoice, TypeOK
<1>2. /\ putOff' \in [EPTs -> BOOLEAN] /\ goOn' \in [EPTs -> BOOLEAN]
      /\ wait' \in [EPTs -> 0 .. Hours - 1] /\ repeats' \in [EPTs -> BOOLEAN]
  <2>1. CASE ~shown[p] \/ selected[p] \notin DOMAIN choices[p]
    BY <2>1 DEF SelectChoice, TypeOK
  <2>2. CASE ~(~shown[p] \/ selected[p] \notin DOMAIN choices[p])
    <3> DEFINE label == choices[p][selected[p]]
    <3>1. choices[p] \in Seq(Labels) /\ selected[p] \in DOMAIN choices[p]
      BY <2>2 DEF TypeOK
    <3>2. label \in Labels
      BY <3>1
    <3>3. \/ goOn' = [goOn EXCEPT ![p] = TRUE] /\ UNCHANGED <<putOff, wait, repeats>>
          \/ putOff' = [putOff EXCEPT ![p] = TRUE] /\ UNCHANGED <<goOn, wait, repeats>>
          \/ putOff' = [putOff EXCEPT ![p] = TRUE] /\ SelectTime(p, label) /\ UNCHANGED goOn
      BY <2>2 DEF SelectChoice
    <3> HIDE DEF label
    <3> QED
      BY <3>2, <3>3, SelectTimeTypes DEF TypeOK
  <2> QED
    BY <2>1, <2>2
<1> QED
  BY <1>1, <1>2 DEF SelectChoice, TypeOK, counters, machine

LEMMA TickTypes == ASSUME TypeOK, Tick PROVE TypeOK'
<1>1. Hours \in Nat \ {0} /\ hour \in Int
  BY PromptAssumption DEF PromptAssumption, TypeOK
<1>2. hour' \in 0 .. Hours - 1
  BY <1>1, HourOfDay DEF Tick
<1>3. wait' \in [EPTs -> 0 .. Hours - 1]
  BY <1>1 DEF Tick, TypeOK
<1> QED
  BY <1>2, <1>3 DEF Tick, TypeOK, dialog, counters, machine

LEMMA OtherTypes ==
  ASSUME TypeOK, Restart \/ \E p \in EPTs : Again(p) \/ Cancel(p)
  PROVE  TypeOK'
<1> USE LabelTypes
<1>0. Repeats \in BOOLEAN /\ 0 \in 0 .. Hours - 1
  BY PromptAssumption DEF PromptAssumption
<1>1. CASE Restart
  BY <1>0, <1>1 DEF Restart, TypeOK, Stages, Over
<1>2. ASSUME NEW p \in EPTs, Again(p) PROVE TypeOK'
  <2>1. stage' \in [EPTs -> Stages]
    BY <1>2, GotoTypes DEF Again, Stages
  <2> QED
    BY <1>0, <1>2, <2>1 DEF Again, TypeOK, counters
<1>3. ASSUME NEW p \in EPTs, Cancel(p) PROVE TypeOK'
  BY <1>3 DEF Cancel, TypeOK, dialog, timing, counters, machine
<1> QED
  BY <1>1, <1>2, <1>3

LEMMA StepTypes == TypeOK /\ [Next]_vars => TypeOK'
<1> SUFFICES ASSUME TypeOK, [Next]_vars PROVE TypeOK'
  OBVIOUS
<1>1. CASE UNCHANGED vars
  BY <1>1 DEF vars, TypeOK, dialog, timing, counters, machine
<1>2. CASE Next
  BY <1>2, AskingTypes, ShuttingDownTypes, ChoiceTypes, ClickTypes,
     SetSelectedTypes, SelectChoiceTypes, TickTypes, OtherTypes DEF Next
<1> QED
  BY <1>1, <1>2

\* Every variable keeps its type.
THEOREM TypeCorrect == Spec => []TypeOK
<1>1. Init => TypeOK
  BY PromptInitial DEF PromptInv
<1> QED
  BY <1>1, StepTypes, PTL DEF Spec

-----------------------------------------------------------------------------
(* Counting                                                                *)

\* While one EPT is in a question or a shutdown, the others have not begun.
LEMMA OneAtATime ==
  ASSUME PromptInv, TypeOK', NEW p \in EPTs, stage[p] # "idle" \/ MayBegin(p),
         \A q \in EPTs \ {p} : stage'[q] = stage[q] /\ shown'[q] = shown[q],
         Shows(p)', Counts(p)', Keeps(p)', HistoryInv'
  PROVE  PromptInv'
<1>1. \A q \in EPTs \ {p} : stage'[q] = "idle" /\ ~shown'[q]
  BY DEF PromptInv, OneAsks, MayBegin, Shows, AskingStages, OfferStages
<1>2. OneAsks'
  BY <1>1 DEF OneAsks
<1>3. \A q \in EPTs \ {p} : Shows(q)' /\ Counts(q)' /\ Keeps(q)'
  BY <1>1 DEF Shows, Counts, Keeps, AskingStages, OfferStages
<1> QED
  BY <1>2, <1>3 DEF PromptInv

\* A step that asks nothing new and counts nothing.
LEMMA GoesOn ==
  ASSUME PromptInv, TypeOK', NEW p \in EPTs, NEW s \in Stages,
         stage[p] # "idle", Goto(p, s), UNCHANGED <<dialog, counters>>,
         shown[p] => s \in AskingStages \cup OfferStages,
         s \in AskingStages => stage[p] \in AskingStages,
         s \in OfferStages => stage[p] \in OfferStages,
         s # "decide",
         s = "execute" /\ (putOff[p] \/ failed[p]) => ~repeats[p],
         UNCHANGED <<failed, repeats>> \/ s # "execute"
  PROVE  PromptInv'
<1>1. stage'[p] = s /\ \A q \in EPTs \ {p} : stage'[q] = stage[q]
  BY GotoTypes DEF PromptInv
<1>2. Shows(p)'
  BY <1>1 DEF PromptInv, Shows, dialog
<1>3. Counts(p)'
  BY <1>1 DEF PromptInv, Counts, dialog, counters, OfferStages
<1>4. Keeps(p)'
  BY <1>1 DEF Keeps, dialog
<1>5. HistoryInv'
  BY DEF PromptInv, HistoryInv, counters
<1> QED
  BY <1>1, <1>2, <1>3, <1>4, <1>5, OneAtATime DEF dialog

LEMMA AskingKeeps ==
  ASSUME PromptInv, TypeOK', NEW p \in EPTs, Asking(p) PROVE PromptInv'
<1> USE DEF AskingStages, OfferStages
<1>0. TypeOK /\ Shows(p) /\ Counts(p) /\ Keeps(p) /\ HistoryInv
  BY DEF PromptInv
<1>1. CASE BeginPassive(p)
  <2>1. stage'[p] = "request" /\ \A q \in EPTs \ {p} : stage'[q] = stage[q]
    BY <1>0, <1>1, GotoTypes DEF BeginPassive, Stages
  <2>2. Shows(p)' /\ Counts(p)' /\ Keeps(p)'
    BY <1>0, <1>1, <2>1 DEF BeginPassive, MayBegin, Shows, Counts, Keeps, dialog
  <2>3. HistoryInv'
    BY <1>0, <1>1 DEF BeginPassive, HistoryInv, counters
  <2> QED
    BY <1>1, <2>1, <2>2, <2>3, OneAtATime DEF BeginPassive, dialog
<1>2. CASE AskAction(p)
  <2> DEFINE n == actionCounter[EventName[p]]
  <2>1. n \in Nat /\ Show(p, n, ActionChoices(n)) /\ Goto(p, "ask")
    BY <1>0, <1>2, PromptAssumption DEF AskAction, TypeOK, PromptAssumption
  <2>2. stage'[p] = "ask" /\ \A q \in EPTs \ {p} : stage'[q] = stage[q]
    BY <1>0, <2>1, GotoTypes DEF Stages
  <2>3. /\ seen'[p] = n /\ choices'[p] = ActionChoices(n) /\ putOff'[p] = FALSE
        /\ \A q \in EPTs \ {p} : shown'[q] = shown[q]
    BY <1>0, <2>1 DEF Show, TypeOK
  <2>4. \A i \in DOMAIN ActionChoices(n) : ActionChoices(n)[i] # Start => n < ActionCancelable
    BY <2>1, ActionChoicesType
  <2>5. Shows(p)'
    BY <2>2, <2>3, <2>4 DEF Shows
  <2>6. UNCHANGED counters
    BY <1>2 DEF AskAction
  <2>7. Counts(p)' /\ Keeps(p)' /\ HistoryInv'
    BY <1>0, <2>2, <2>3, <2>6 DEF Counts, Keeps, HistoryInv, counters
  <2> QED
    BY <1>2, <2>2, <2>3, <2>5, <2>7, OneAtATime DEF AskAction
<1>3. CASE ActionAsked(p)
  BY <1>3, GoesOn DEF ActionAsked, Stages
<1>4. CASE ActionAborted(p)
  <2> DEFINE name == EventName[p]
  <2>1. /\ name \in Names /\ ActionCancelable \in Nat
        /\ aborts \in [Names -> Nat] /\ actionCounter \in [Names -> Nat]
    BY <1>0, PromptAssumption DEF PromptAssumption, TypeOK
  <2>2. seen[p] = actionCounter[name] /\ seen[p] < ActionCancelable
        /\ aborts[name] = actionCounter[name] /\ aborts[name] \in Nat
    BY <1>0, <1>4, <2>1 DEF ActionAborted, Counts, HistoryInv
  <2>3. Min({aborts[name], ActionCancelable}) = aborts[name]
    BY <2>1, <2>2, MinOfLess
  <2>4. /\ aborts' = [aborts EXCEPT ![name] = seen[p] + 1]
        /\ actionCounter' = [actionCounter EXCEPT ![name] = seen[p] + 1]
        /\ UNCHANGED <<shutdownCounter, delays>>
    BY <1>4, <2>2, <2>3 DEF ActionAborted
  <2> HIDE DEF name
  <2>5. HistoryInv'
    BY <1>0, <2>1, <2>2, <2>4 DEF HistoryInv
  <2>6. stage'[p] = "request" /\ \A q \in EPTs \ {p} : stage'[q] = stage[q]
    BY <1>0, <1>4, GotoTypes DEF ActionAborted, Stages
  <2>7. ~shown'[p] /\ \A q \in EPTs \ {p} : shown'[q] = shown[q]
    BY <1>0, <1>4, HideTypes DEF ActionAborted
  <2>8. Shows(p)' /\ Counts(p)' /\ Keeps(p)'
    BY <2>6, <2>7 DEF Shows, Counts, Keeps
  <2> QED
    BY <1>4, <2>5, <2>6, <2>7, <2>8, OneAtATime DEF ActionAborted
<1>5. CASE ActionAccepted(p)
  <2>1. EventName[p] \in Names /\ ActionCancelable \in Nat
    BY PromptAssumption DEF PromptAssumption
  <2>2. HistoryInv'
    BY <1>0, <1>5, <2>1 DEF ActionAccepted, HistoryInv, TypeOK
  <2>3. stage'[p] = "actions" /\ \A q \in EPTs \ {p} : stage'[q] = stage[q]
    BY <1>0, <1>5, GotoTypes DEF ActionAccepted, Stages
  <2>4. ~shown'[p] /\ \A q \in EPTs \ {p} : shown'[q] = shown[q]
    BY <1>0, <1>5, HideTypes DEF ActionAccepted
  <2>5. Shows(p)' /\ Counts(p)' /\ Keeps(p)'
    BY <2>3, <2>4 DEF Shows, Counts, Keeps
  <2> QED
    BY <1>5, <2>2, <2>3, <2>4, <2>5, OneAtATime DEF ActionAccepted
<1>6. CASE RunActions(p)
  <2>1. ~shown[p]
    BY <1>0, <1>6 DEF RunActions, Shows
  <2> QED
    BY <1>6, <2>1, GoesOn DEF RunActions, Stages
<1> QED
  BY <1>1, <1>2, <1>3, <1>4, <1>5, <1>6 DEF Asking

LEMMA ShuttingDownKeeps ==
  ASSUME PromptInv, TypeOK', NEW p \in EPTs, ShuttingDown(p) PROVE PromptInv'
<1> USE DEF AskingStages, OfferStages
<1>0. TypeOK /\ Shows(p) /\ Counts(p) /\ Keeps(p) /\ HistoryInv
  BY DEF PromptInv
<1>1. CASE Request(p) \/ PollEnded(p)
  <2>1. Request(p) => ~shown[p]
    BY <1>0 DEF Request, Shows
  <2> QED
    BY <1>1, <2>1, GoesOn DEF Request, PollEnded, Stages, Over, timing
<1>2. CASE DecideCanceled(p) \/ DecideNotNotified(p) \/ DecideGoOn(p) \/ Wake(p)
  <2>1. ~shown[p] /\ stage[p] # "idle"
    BY <1>0, <1>2 DEF DecideCanceled, DecideNotNotified, DecideGoOn, Wake, Shows
  <2> QED
    BY <1>2, <2>1, GoesOn DEF DecideCanceled, DecideNotNotified, AfterPutOff, DecideGoOn, Wake, Stages, Over, timing
<1>3. CASE Offer(p)
  <2> DEFINE n == shutdownCounter
             s == ShutdownChoices(n, hour)
  <2>1. n \in Nat /\ Show(p, n, s) /\ Goto(p, "notify")
    BY <1>0, <1>3 DEF Offer, TypeOK
  <2>2. stage'[p] = "notify" /\ \A q \in EPTs \ {p} : stage'[q] = stage[q]
    BY <1>0, <2>1, GotoTypes DEF Stages
  <2>3. /\ seen'[p] = n /\ choices'[p] = s /\ putOff'[p] = FALSE
        /\ \A q \in EPTs \ {p} : shown'[q] = shown[q]
    BY <1>0, <2>1 DEF Show, TypeOK
  <2>4. \A i \in DOMAIN s : s[i] # Start => n < ShutdownCancelable
    BY <1>0, ShutdownChoicesType DEF TypeOK
  <2> HIDE DEF s
  <2>5. Shows(p)'
    BY <2>2, <2>3, <2>4 DEF Shows
  <2>6. UNCHANGED counters
    BY <1>3 DEF Offer
  <2>7. Counts(p)' /\ Keeps(p)' /\ HistoryInv'
    BY <1>0, <2>2, <2>3, <2>6 DEF Counts, Keeps, HistoryInv, counters
  <2> QED
    BY <1>3, <2>2, <2>3, <2>5, <2>7, OneAtATime DEF Offer
<1>4. CASE StartNotifier(p)
  BY <1>4, GoesOn DEF StartNotifier, Stages
<1>5. CASE Canceled(p) \/ CloseNotifiers(p)
  <2>1. PICK s \in {"canceled", "decide"} : Goto(p, s) /\ (s = "decide" => stage[p] = "close")
    BY <1>5 DEF Canceled, CloseNotifiers
  <2>2. stage'[p] = s /\ \A q \in EPTs \ {p} : stage'[q] = stage[q]
    BY <1>0, <2>1, GotoTypes DEF Stages, Over
  <2>3. /\ ~shown'[p] /\ \A q \in EPTs \ {p} : shown'[q] = shown[q]
        /\ seen' = seen /\ putOff' = putOff
    BY <1>0, <1>5, HideTypes DEF Canceled, CloseNotifiers
  <2>4. UNCHANGED counters /\ stage[p] # "idle"
    BY <1>5 DEF Canceled, CloseNotifiers
  <2>5. Shows(p)' /\ Keeps(p)'
    BY <2>1, <2>2, <2>3 DEF Shows, Keeps
  <2>6. Counts(p)' /\ HistoryInv'
    BY <1>0, <2>1, <2>2, <2>3, <2>4 DEF Counts, HistoryInv, counters
  <2> QED
    BY <2>2, <2>3, <2>4, <2>5, <2>6, OneAtATime
<1>6. CASE DecidePutOff(p)
  <2>1. delays \in Nat /\ ShutdownCancelable \in Nat
    BY <1>0, PromptAssumption DEF PromptAssumption, TypeOK
  <2>2. seen[p] = shutdownCounter /\ seen[p] < ShutdownCancelable /\ delays = seen[p]
    BY <1>0, <1>6 DEF DecidePutOff, Counts, HistoryInv
  <2>3. Min({delays, ShutdownCancelable}) = delays
    BY <2>1, <2>2, MinOfLess
  <2>4. shutdownCounter' = delays + 1 /\ delays' = delays + 1 /\ UNCHANGED <<actionCounter, aborts>>
    BY <1>6, <2>2, <2>3 DEF DecidePutOff
  <2>5. HistoryInv'
    BY <1>0, <2>1, <2>2, <2>4 DEF HistoryInv
  <2>6. stage'[p] = AfterPutOff(p) /\ \A q \in EPTs \ {p} : stage'[q] = stage[q]
    BY <1>0, <1>6, GotoTypes DEF DecidePutOff, AfterPutOff, Stages
  <2>7. ~shown[p] /\ UNCHANGED <<shown, repeats>>
    BY <1>0, <1>6 DEF DecidePutOff, Shows, dialog, timing
  <2>8. Shows(p)' /\ Counts(p)' /\ Keeps(p)'
    BY <2>6, <2>7 DEF Shows, Counts, Keeps, AfterPutOff
  <2> QED
    BY <1>6, <2>5, <2>6, <2>7, <2>8, OneAtATime DEF DecidePutOff
<1>7. CASE Execute(p)
  <2>1. ~shown[p]
    BY <1>0, <1>7 DEF Execute, Shows
  <2> QED
    BY <1>7, <2>1, GoesOn DEF Execute, Stages, Over
<1> QED
  BY <1>1, <1>2, <1>3, <1>4, <1>5, <1>6, <1>7 DEF ShuttingDown

\* The clock has moved on: what is offered now is what the counter allows.
LEMMA ChoiceKeeps ==
  ASSUME PromptInv, TypeOK', NEW p \in EPTs, RemovePastChoices(p) PROVE PromptInv'
<1> USE DEF AskingStages, OfferStages
<1>0. TypeOK /\ Shows(p) /\ Counts(p) /\ Keeps(p) /\ HistoryInv
  BY DEF PromptInv
<1> DEFINE s == ShutdownChoices(seen[p], hour)
<1>1. \A i \in DOMAIN s : s[i] # Start => seen[p] < ShutdownCancelable
  BY <1>0, ShutdownChoicesType DEF TypeOK
<1>2. choices' = [choices EXCEPT ![p] = s] /\ stage[p] = "poll"
  BY DEF RemovePastChoices
<1> HIDE DEF s
<1>3. choices'[p] = s
  BY <1>0, <1>2 DEF TypeOK
<1>4. /\ UNCHANGED <<stage, seen, shown, putOff, failed, repeats, actionCounter,
                     shutdownCounter, counters>>
  BY DEF RemovePastChoices, timing, counters
<1>5. Shows(p)'
  BY <1>0, <1>1, <1>2, <1>3, <1>4 DEF Shows
<1>6. Counts(p)' /\ Keeps(p)' /\ HistoryInv'
  BY <1>0, <1>4 DEF Counts, Keeps, HistoryInv, counters
<1> QED
  BY <1>2, <1>4, <1>5, <1>6, OneAtATime

\* selectChoice puts off only what is offered.
LEMMA SelectChoiceKeeps ==
  ASSUME PromptInv, TypeOK', NEW p \in EPTs, SelectChoice(p) PROVE PromptInv'
<1> USE DEF AskingStages, OfferStages
<1>0. TypeOK /\ Shows(p) /\ Counts(p) /\ Keeps(p) /\ HistoryInv
  BY DEF PromptInv
<1>1. UNCHANGED <<stage, seen, choices, shown, failed, actionCounter, shutdownCounter, counters>>
  BY DEF SelectChoice, counters
<1>2. CASE ~shown[p] \/ selected[p] \notin DOMAIN choices[p]
  <2>1. UNCHANGED <<putOff, repeats>>
    BY <1>2 DEF SelectChoice
  <2> QED
    BY <1>1, <2>1 DEF PromptInv, OneAsks, Shows, Counts, Keeps, HistoryInv, counters
<1>3. CASE shown[p] /\ selected[p] \in DOMAIN choices[p]
  <2> DEFINE label == choices[p][selected[p]]
  <2>1. putOff'[p] => putOff[p] \/ label # Start
    <3>1. label = Start => putOff' = putOff
      BY <1>3, LabelTypes DEF SelectChoice
    <3> QED
      BY <3>1
  <2>2. \A q \in EPTs \ {p} : putOff'[q] = putOff[q]
    <3>1. putOff' = putOff \/ putOff' = [putOff EXCEPT ![p] = TRUE]
      BY <1>3 DEF SelectChoice
    <3> QED
      BY <1>0, <3>1 DEF TypeOK
  <2>3. stage[p] \in AskingStages \cup OfferStages
    BY <1>0, <1>3 DEF Shows
  <2>4. Shows(p)'
    BY <1>0, <1>1 DEF Shows
  <2>5. Counts(p)'
    BY <1>0, <1>1, <1>3, <2>1 DEF Counts, Shows
  <2>6. Keeps(p)' /\ HistoryInv'
    BY <1>0, <1>1, <2>3 DEF Keeps, HistoryInv, counters
  <2> QED
    BY <1>1, <2>3, <2>4, <2>5, <2>6, OneAtATime
<1> QED
  BY <1>2, <1>3

\* Steps that touch nothing the invariant is about.
LEMMA QuietKeeps ==
  ASSUME PromptInv, TypeOK',
         UNCHANGED <<stage, seen, choices, shown, putOff, failed, repeats, counters>>
  PROVE  PromptInv'
BY DEF PromptInv, OneAsks, Shows, Counts, Keeps, HistoryInv, counters

LEMMA AgainKeeps ==
  ASSUME PromptInv, TypeOK', NEW p \in EPTs, Again(p) PROVE PromptInv'
<1>0. TypeOK /\ Shows(p) /\ HistoryInv
  BY DEF PromptInv
<1>1. stage[p] \in Over /\ stage'[p] = "idle" /\ \A q \in EPTs \ {p} : stage'[q] = stage[q]
  BY <1>0, GotoTypes DEF Again, Stages
<1>2. UNCHANGED <<shown, counters>>
  BY DEF Again
<1>3. Shows(p)' /\ Counts(p)' /\ Keeps(p)'
  BY <1>0, <1>1, <1>2 DEF Shows, Counts, Keeps, AskingStages, OfferStages, Over
<1>4. HistoryInv'
  BY <1>0, <1>2 DEF HistoryInv, counters
<1> QED
  BY <1>1, <1>2, <1>3, <1>4, OneAtATime DEF Over

\* A restart leaves no question open; the delays are counted anew.
LEMMA RestartKeeps ==
  ASSUME PromptInv, TypeOK', Restart PROVE PromptInv'
<1>0. TypeOK /\ OneAsks /\ HistoryInv
  BY DEF PromptInv
<1>1. HistoryInv'
  BY <1>0, PromptAssumption DEF Restart, HistoryInv, PromptAssumption
<1>2. \A p \in EPTs :
        stage'[p] = IF stage[p] \in {"idle"} \cup Over THEN stage[p] ELSE "canceled"
  BY DEF Restart
<1>3. OneAsks'
  BY <1>0, <1>2 DEF OneAsks
<1>4. \A p \in EPTs : stage'[p] \in {"idle"} \cup Over /\ ~shown'[p]
  BY <1>2 DEF Restart, Over
<1>5. \A p \in EPTs : Shows(p)' /\ Counts(p)' /\ Keeps(p)'
  BY <1>4 DEF Shows, Counts, Keeps, AskingStages, OfferStages, Over
<1> QED
  BY <1>1, <1>3, <1>5 DEF PromptInv

\* Every step keeps the invariant.
LEMMA PromptStep == PromptInv /\ [Next]_vars => PromptInv'
<1> SUFFICES ASSUME PromptInv, [Next]_vars PROVE PromptInv'
  OBVIOUS
<1> USE StepTypes DEF PromptInv
<1>1. TypeOK'
  OBVIOUS
<1>2. CASE UNCHANGED vars
  BY <1>1, <1>2, QuietKeeps DEF vars, dialog, timing
<1>3. CASE Tick
  BY <1>1, <1>3, QuietKeeps DEF Tick, dialog
<1>4. ASSUME NEW p \in EPTs,
             Cancel(p) \/ SetSelectedIndexes(p) \/ \E i \in DOMAIN choices[p] : Click(p, i)
      PROVE  PromptInv'
  BY <1>1, <1>4, QuietKeeps DEF Cancel, SetSelectedIndexes, Click, dialog, timing
<1> QED
  BY <1>1, <1>2, <1>3, <1>4, AskingKeeps, ShuttingDownKeeps, ChoiceKeeps,
     SelectChoiceKeeps, AgainKeeps, RestartKeeps DEF Next

THEOREM PromptInvariant == Spec => []PromptInv
  BY PromptInitial, PromptStep, PTL DEF Spec

\* However the calls of a click are ordered and whoever asks, the user puts the
\* shutdown off at most ShutdownCancelable times.
THEOREM DelaysAreLimited == Spec => []ShutdownDelayLimit
<1>1. PromptInv => ShutdownDelayLimit
  BY DEF PromptInv, HistoryInv, ShutdownDelayLimit
<1> QED
  BY <1>1, PromptInvariant, PTL

\* The user aborts the actions of an event at most ActionCancelable times in a
\* row, over restarts of the daemon.
THEOREM AbortsAreLimited == Spec => []ActionAbortLimit
<1>1. PromptInv => ActionAbortLimit
  BY DEF PromptInv, HistoryInv, ActionAbortLimit
<1> QED
  BY <1>1, PromptInvariant, PTL

\* Only Execute shuts the machine down.
LEMMA OnlyExecuteTriggers ==
  ASSUME PromptInv, [Next]_vars, NEW p \in EPTs, p \in triggered' \ triggered
  PROVE  stage[p] = "execute"
<1> USE DEF machine
<1>1. CASE UNCHANGED vars \/ Tick \/ Restart
  BY <1>1 DEF vars, Tick, Restart
<1>2. ASSUME NEW q \in EPTs, Asking(q) PROVE UNCHANGED triggered
  BY <1>2 DEF Asking, BeginPassive, AskAction, ActionAsked, ActionAborted,
     ActionAccepted, RunActions
<1>3. ASSUME NEW q \in EPTs, ShuttingDown(q) PROVE UNCHANGED triggered \/ Execute(q)
  BY <1>3 DEF ShuttingDown, Request, Offer, StartNotifier, PollEnded, Canceled,
     CloseNotifiers, DecideCanceled, DecideNotNotified, DecidePutOff, DecideGoOn, Wake
<1>4. ASSUME NEW q \in EPTs, Execute(q) PROVE stage[p] = "execute"
  BY <1>4 DEF Execute
<1>5. ASSUME NEW q \in EPTs,
             \/ RemovePastChoices(q) \/ SetSelectedIndexes(q) \/ SelectChoice(q) \/ Cancel(q)
             \/ \E i \in DOMAIN choices[q] : Click(q, i)
      PROVE  UNCHANGED triggered
  BY <1>5 DEF RemovePastChoices, SetSelectedIndexes, SelectChoice, Cancel, Click
<1>6. ASSUME NEW q \in EPTs, Again(q) PROVE triggered' \subseteq triggered
  BY <1>6 DEF Again
<1> QED
  BY <1>1, <1>2, <1>3, <1>4, <1>5, <1>6 DEF Next

\* A shutdown that was put off or could not be announced does not take place in
\* that round, unless no round follows.
THEOREM PutOffsAreKept == Spec => PutOffIsKept
<1>1. PromptInv /\ [Next]_vars =>
        [\A p \in triggered' \ triggered : (putOff[p] \/ failed[p]) => ~repeats[p]]_vars
  <2> SUFFICES ASSUME PromptInv, [Next]_vars, NEW p \in triggered' \ triggered
               PROVE  (putOff[p] \/ failed[p]) => ~repeats[p]
    OBVIOUS
  <2>1. p \in EPTs
    BY StepTypes DEF PromptInv, TypeOK
  <2>2. stage[p] = "execute"
    BY <2>1, OnlyExecuteTriggers
  <2> QED
    BY <2>1, <2>2 DEF PromptInv, Keeps
<1> QED
  BY <1>1, PromptInvariant, PTL DEF Spec, PutOffIsKept
=============================================================================
