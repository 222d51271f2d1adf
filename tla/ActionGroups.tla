---------------------------- MODULE ActionGroups ----------------------------
(***************************************************************************)
(* The order in which the actions of a client are processed: actions that  *)
(* hard requirements link form a group, which is sorted by priority and    *)
(* then rearranged until its requirements are met; groups are sorted by    *)
(* priority (RPCProductDependencyMixin.py, used by the config cache).      *)
(* One step is one turn of a loop. Product ids are numbers. Versions are   *)
(* left out: what is required is there, or it is not.                      *)
(***************************************************************************)
EXTENDS Integers, Sequences, FiniteSets, SequencesExt

CONSTANTS ProductIds,
          SortRequests    \* the requests considered, see IsRequest

\* The log of get_product_action_groups: what one call works on and has found.
VARIABLES
  request,   \* what is asked for, and what depot and client have
  stage,     \* which loop the sorter is at
  found,     \* unsorted_actions: the actions found for each product
  met,       \* its keys: the products in the order in which they were found
  todo,      \* products the present loop has still to go through
  turn,      \* actions of the first of these it has gone through
  path,      \* dependency_path
  stack,     \* calls of process_dependencies: product, action, next dependency
  hard,      \* dependencies: the hard requirements found for each product
  linked,    \* product_id_groups: the sets of products these link
  actions,   \* the actions of the group that is sorted
  copy,      \* the actions in the order they had before the present run
  item,      \* the action of `copy` the run is at
  next,      \* the requirement of its product the run is at
  runs,      \* run_number
  moved,     \* history: products moved by the present run
  groups     \* the groups made so far, in the end the result

collecting == <<found, met, todo, turn>>
searching == <<path, stack, hard, linked>>
sorting == <<actions, copy, item, next, runs, moved>>
sorterVars == <<request, stage, collecting, searching, sorting, groups>>

Actions == {"setup", "uninstall"}
Statuses == {"installed", "not_installed"}

\* Dependencies of a product: they apply to one of its actions and want an
\* action or a status of another product, before, after, or in any order.
Dependency ==
  [from: ProductIds, action: Actions, on: ProductIds,
   wants: Actions \cup Statuses, type: {"before", "after", "any"}]

IsRequest(r) ==
  /\ r \in [wanted: Seq([product: ProductIds, action: Actions \cup {"none"}]),
            dependencies: [ProductIds -> Seq(Dependency)],
            priority: [ProductIds -> Int],
            available: SUBSET ProductIds,     \* on the depot
            scripts: [ProductIds -> SUBSET Actions],
            installed: SUBSET ProductIds]
  /\ \A p \in ProductIds: \A i \in DOMAIN r.dependencies[p]:
       r.dependencies[p][i].from = p

ASSUME SorterAssumption ==
  /\ ProductIds \subseteq Nat /\ IsFiniteSet(ProductIds)
  /\ \A r \in SortRequests: IsRequest(r)

SorterInit ==
  /\ request \in SortRequests
  /\ stage = "add"
  /\ found = [p \in ProductIds |-> <<>>] /\ met = <<>> /\ todo = <<>> /\ turn = 0
  /\ path = <<>> /\ stack = <<>>
  /\ hard = [p \in ProductIds |-> <<>>] /\ linked = <<>>
  /\ actions = <<>> /\ copy = <<>> /\ item = 1 /\ next = 1 /\ runs = 0 /\ moved = {}
  /\ groups = <<>>

-----------------------------------------------------------------------------
(* Collecting actions and requirements.                                    *)

Find(p, action) ==
  /\ found' = [found EXCEPT ![p] = Append(@, action)]
  /\ met' = IF found[p] = <<>> THEN Append(met, p) ELSE met

\* An action that is asked for is left out if the depot lacks its product.
AddProductOnClient ==
  /\ stage = "add" /\ turn < Len(request.wanted)
  /\ LET poc == request.wanted[turn + 1]
     IN  IF poc.product \in request.available
         THEN Find(poc.product, poc.action)
         ELSE UNCHANGED <<found, met>>
  /\ turn' = turn + 1
  /\ UNCHANGED <<request, stage, todo, searching, sorting, groups>>

AllAdded ==
  /\ stage = "add" /\ turn = Len(request.wanted)
  /\ stage' = "search" /\ todo' = met /\ turn' = 0
  /\ UNCHANGED <<request, found, met, searching, sorting, groups>>

\* The list of a product's actions may grow while it is walked.
ProcessAction ==
  /\ stage = "search" /\ stack = <<>> /\ todo # <<>>
  /\ turn < Len(found[Head(todo)])
  /\ stack' = <<[product |-> Head(todo), action |-> found[Head(todo)][turn + 1],
                 next |-> 1]>>
  /\ path' = <<Head(todo)>>
  /\ turn' = turn + 1
  /\ UNCHANGED <<request, stage, found, met, todo, hard, linked, sorting, groups>>

NextProduct ==
  /\ stage = "search" /\ stack = <<>> /\ todo # <<>>
  /\ turn = Len(found[Head(todo)])
  /\ todo' = Tail(todo) /\ turn' = 0
  /\ UNCHANGED <<request, stage, found, met, searching, sorting, groups>>

\* The call that is running, and the rest of its loop.
Top == stack[Len(stack)]
Looping ==
  /\ stage = "search" /\ stack # <<>>
  /\ Top.product \in request.available
  /\ Top.next <= Len(request.dependencies[Top.product])
Present == request.dependencies[Top.product][Top.next]
Advanced == [stack EXCEPT ![Len(stack)].next = @ + 1]

Return ==
  /\ stage = "search" /\ stack # <<>> /\ ~Looping
  /\ stack' = SubSeq(stack, 1, Len(stack) - 1)
  /\ UNCHANGED <<request, stage, collecting, path, hard, linked, sorting, groups>>

Applies(d) ==
  /\ d.action = Top.action
  /\ d.on \notin ToSet(path)
  /\ d.on \in request.available

SkipDependency ==
  /\ Looping /\ ~Applies(Present)
  /\ stack' = Advanced
  /\ UNCHANGED <<request, stage, collecting, path, hard, linked, sorting, groups>>

\* The sets of products linked so far, with p and q in one of them; the later
\* set of two is moved into the earlier.
LinkProducts(sets, p, q) ==
  LET with == {i \in DOMAIN sets: sets[i] \cap {p, q} # {}}
      first == CHOOSE i \in with: \A j \in with: i <= j
      last == CHOOSE i \in with: \A j \in with: i >= j
      joined == [sets EXCEPT ![first] = @ \cup sets[last] \cup {p, q}]
  IN  IF with = {} THEN Append(sets, {p, q})
      ELSE IF first = last THEN joined ELSE RemoveAt(joined, last)

AddRequirement(d) ==
  IF d.type = "any" \/ d \in ToSet(hard[d.from])
  THEN UNCHANGED <<hard, linked>>
  ELSE /\ hard' = [hard EXCEPT ![d.from] = Append(@, d)]
       /\ linked' = LinkProducts(linked, d.from, d.on)

Fulfilled(r, d) ==
  \/ d.wants = "installed" /\ d.on \in r.installed
  \/ d.wants = "not_installed" /\ d.on \notin r.installed

Required(d) ==
  CASE d.wants = "installed" -> "setup"
    [] d.wants = "not_installed" -> "uninstall"
    [] OTHER -> d.wants

\* Nothing is to be done for d, or nothing can be.
Settled(r, d) == Fulfilled(r, d) \/ Required(d) \notin r.scripts[d.on]

SettledDependency ==
  /\ Looping /\ Applies(Present) /\ Settled(request, Present)
  /\ AddRequirement(Present)
  /\ stack' = Advanced
  /\ UNCHANGED <<request, stage, collecting, path, sorting, groups>>

\* The path is one list for the whole search: what one branch has passed stays
\* in it for the next.
FollowDependency ==
  /\ Looping /\ Applies(Present) /\ ~Settled(request, Present)
  /\ AddRequirement(Present)
  /\ Find(Present.on, Required(Present))
  /\ path' = Append(path, Present.on)
  /\ stack' = Append(Advanced, [product |-> Present.on, action |-> Required(Present),
                                next |-> 1])
  /\ UNCHANGED <<request, stage, todo, turn, sorting, groups>>

AllSearched ==
  /\ stage = "search" /\ stack = <<>> /\ todo = <<>>
  /\ stage' = "group"
  /\ UNCHANGED <<request, collecting, searching, sorting, groups>>

-----------------------------------------------------------------------------
(* Groups.                                                                 *)

\* A mutant: of several actions the first counts, "none" included.
MergedFirst(list) == list[1]

\* Of several actions for one product the last counts.
Merged(list) ==
  LET real == {i \in DOMAIN list: list[i] # "none"}
  IN  IF real = {} THEN "none" ELSE list[CHOOSE i \in real: \A j \in real: j <= i]

Acting(products) == {p \in products: found[p] # <<>>}
ActionsOf(products) ==
  {[product |-> p, action |-> Merged(found[p])]: p \in Acting(products)}

\* The highest priority above 0, or else the lowest one.
GroupPriority(list) ==
  LET all == {request.priority[list[i].product]: i \in DOMAIN list} \cup {0}
      highest == CHOOSE x \in all: \A y \in all: y <= x
      lowest == CHOOSE x \in all: \A y \in all: x <= y
  IN  IF highest > 0 THEN highest ELSE lowest

\* Actions by descending priority, and by product id.
ComesFirst(a, b) ==
  LET rank == request.priority
  IN  \/ rank[a.product] > rank[b.product]
      \/ rank[a.product] = rank[b.product] /\ a.product < b.product
ByPriority(set) ==
  {s \in [1..Cardinality(set) -> set]:
     /\ ToSet(s) = set
     /\ \A i, j \in DOMAIN s: i < j => ComesFirst(s[i], s[j])}

\* Sets of linked products do not overlap (LinkInv in CacheBackendProofs), so that none
\* has lost an action to an earlier group.
StartGroup ==
  /\ stage = "group" /\ Len(groups) < Len(linked)
  /\ actions' \in ByPriority(ActionsOf(linked[Len(groups) + 1]))
  /\ stage' = "sort"
  /\ copy' = actions' /\ item' = 1 /\ next' = 1 /\ runs' = 1 /\ moved' = {}
  /\ UNCHANGED <<request, collecting, searching, groups>>

\* Where p is, and 0 if it has no action in the group (-1 in the code).
Position(list, p) ==
  IF \E i \in DOMAIN list: list[i].product = p
  THEN CHOOSE i \in DOMAIN list: list[i].product = p
  ELSE 0

\* pop(-1) takes the last action.
Popped(list, d) ==
  IF Position(list, d.on) = 0 THEN Len(list) ELSE Position(list, d.on)

Violated(list, d) ==
  \/ d.type = "before" /\ Position(list, d.on) > Position(list, d.from)
  \/ d.type = "after" /\ Position(list, d.on) < Position(list, d.from)

\* A mutant: what is required before is put behind.
MoveBehind(list, d) ==
  LET from == Popped(list, d)
      at == Position(list, d.from) + IF d.type = "before" THEN 1 ELSE 0
  IN  IF Violated(list, d) THEN InsertAt(RemoveAt(list, from), at, list[from]) ELSE list

\* What d requires is taken out and put where the product of d is.
Move(list, d) ==
  LET from == Popped(list, d)
      at == Position(list, d.from)
  IN  IF Violated(list, d) THEN InsertAt(RemoveAt(list, from), at, list[from]) ELSE list

Walking == stage = "sort" /\ item <= Len(copy)

MoveRequired ==
  /\ Walking /\ next <= Len(hard[copy[item].product])
  /\ LET d == hard[copy[item].product][next]
     IN  /\ actions' = Move(actions, d)
         /\ moved' = IF Violated(actions, d)
                     THEN moved \cup {actions[Popped(actions, d)].product}
                     ELSE moved
  /\ next' = next + 1
  /\ UNCHANGED <<request, stage, collecting, searching, copy, item, runs, groups>>

NextAction ==
  /\ Walking /\ next > Len(hard[copy[item].product])
  /\ item' = item + 1 /\ next' = 1
  /\ UNCHANGED <<request, stage, collecting, searching, actions, copy, runs, moved, groups>>

NextRun ==
  /\ stage = "sort" /\ item > Len(copy)
  /\ copy # actions /\ runs < Len(actions)
  /\ copy' = actions /\ item' = 1 /\ next' = 1 /\ runs' = runs + 1 /\ moved' = {}
  /\ UNCHANGED <<request, stage, collecting, searching, actions, groups>>

\* As many runs as there are actions; one that changes nothing is the last.
GroupSorted ==
  /\ stage = "sort" /\ item > Len(copy)
  /\ copy = actions \/ runs >= Len(actions)
  /\ groups' = Append(groups, [priority |-> GroupPriority(actions), actions |-> actions])
  /\ stage' = "group"
  /\ UNCHANGED <<request, collecting, searching, sorting>>

AllGrouped ==
  /\ stage = "group" /\ Len(groups) = Len(linked)
  /\ stage' = "rest" /\ todo' = met
  /\ UNCHANGED <<request, found, met, turn, searching, sorting, groups>>

\* Products that are in no group yet get one each.
AddIndependent ==
  /\ stage = "rest" /\ todo # <<>>
  /\ LET p == Head(todo)
         alone == <<[product |-> p, action |-> Merged(found[p])]>>
     IN  groups' = IF \E i \in DOMAIN linked: p \in linked[i] THEN groups
                   ELSE Append(groups, [priority |-> GroupPriority(alone),
                                        actions |-> alone])
  /\ todo' = Tail(todo)
  /\ UNCHANGED <<request, stage, found, met, turn, searching, sorting>>

\* Groups by descending priority; those of one priority stay in their order.
Reordered(list) ==
  {[k \in DOMAIN list |-> list[f[k]]]:
     f \in {f \in [DOMAIN list -> DOMAIN list]:
              /\ \A k \in DOMAIN list: \E i \in DOMAIN list: f[i] = k
              /\ \A i, j \in DOMAIN list: i < j =>
                   \/ list[f[i]].priority > list[f[j]].priority
                   \/ list[f[i]].priority = list[f[j]].priority /\ f[i] < f[j]}}

SortGroups ==
  /\ stage = "rest" /\ todo = <<>>
  /\ groups' \in Reordered(groups)
  /\ stage' = "done"
  /\ UNCHANGED <<request, collecting, searching, sorting>>

Collect == AddProductOnClient \/ AllAdded
Search ==
  \/ ProcessAction \/ NextProduct \/ Return \/ SkipDependency
  \/ SettledDependency \/ FollowDependency \/ AllSearched
SortGroup == StartGroup \/ MoveRequired \/ NextAction \/ NextRun \/ GroupSorted
Finish == AllGrouped \/ AddIndependent \/ SortGroups

SorterNext == Collect \/ Search \/ SortGroup \/ Finish
SorterSpec == SorterInit /\ [][SorterNext]_sorterVars

-----------------------------------------------------------------------------
(* Properties of the result.                                               *)

SorterStages == {"add", "search", "group", "sort", "rest", "done"}
Action == [product: ProductIds, action: Actions \cup {"none"}]
SearchCall == [product: ProductIds, action: Actions \cup {"none"}, next: Nat \ {0}]

SorterTypeOK ==
  /\ request \in SortRequests /\ stage \in SorterStages
  /\ found \in [ProductIds -> Seq(Actions \cup {"none"})]
  /\ {met, todo, path} \subseteq Seq(ProductIds) /\ turn \in Nat
  /\ stack \in Seq(SearchCall)
  /\ hard \in [ProductIds -> Seq(Dependency)]
  /\ linked \in Seq(SUBSET ProductIds)
  /\ {actions, copy} \subseteq Seq(Action)
  /\ {item, next} \subseteq Nat \ {0} /\ runs \in Nat /\ moved \subseteq ProductIds
  /\ groups \in Seq([priority: Int, actions: Seq(Action)])

\* The action a at k of the group i is carried out, which "none" is not.
Processed(p, action) ==
  \E i \in DOMAIN groups: \E k \in DOMAIN groups[i].actions:
    groups[i].actions[k] = [product |-> p, action |-> action]

HasAction(p) == \E action \in Actions: Processed(p, action)

\* The dependencies that a search from the actions of the result has to obey.
Obliging ==
  {d \in UNION {ToSet(request.dependencies[p]): p \in request.available}:
     Processed(d.from, d.action) /\ d.on \in request.available}

\* The result is closed: what an action of it requires and is not fulfilled
\* gets an action too, although the search keeps off every product that any
\* branch has passed, and off those it has entered with another action.
RequirementsHaveActions ==
  stage = "done" => \A d \in Obliging: Settled(request, d) \/ HasAction(d.on)

\* Pairs <<p, q>> of products of which p must come first.
Before(dependencies) ==
  {<<d.on, d.from>>: d \in {x \in dependencies: x.type = "before"}}
    \cup {<<d.from, d.on>>: d \in {x \in dependencies: x.type = "after"}}

Acyclic(pairs) ==
  \A S \in SUBSET ProductIds \ {{}}:
    \E q \in S: \A p \in S: <<p, q>> \notin pairs

\* Actions come in the order of the groups, and in a group in that of its list.
InOrder(pairs) ==
  \A i, j \in DOMAIN groups:
    \A k \in DOMAIN groups[i].actions, l \in DOMAIN groups[j].actions:
      LET a == groups[i].actions[k]
          b == groups[j].actions[l]
      IN  "none" \notin {a.action, b.action} /\ <<a.product, b.product>> \in pairs =>
            i < j \/ (i = j /\ k < l)

\* Repeated moves end in an order that meets all requirements the search has
\* recorded, if they are of one kind, are no circle, and what is to come after
\* has an action: the moves made for one requirement do not undo another, and
\* as many runs as there are actions are enough.
OneKindIsMet ==
  stage = "done" =>
    LET recorded == UNION {ToSet(hard[p]): p \in ProductIds}
    IN  \A kind \in {"before", "after"}:
          /\ \A d \in recorded: d.type = kind
          /\ Acyclic(Before(recorded))
          /\ kind = "after" => \A d \in recorded: HasAction(d.on)
          => InOrder(Before(recorded))

\* What generateSequence promises (CacheService.py:425): actions come in the
\* order in which they must be processed, if there is one. It does not hold.
RequirementsAreMet ==
  stage = "done" =>
    LET obeyed == {d \in Obliging: d.type # "any" /\ HasAction(d.on)}
    IN  Acyclic(Before(obeyed)) => InOrder(Before(obeyed))
=============================================================================
