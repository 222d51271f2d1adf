--------------------------- MODULE MCActionGroups ---------------------------
(* Requests for ActionGroups: three products of which each may depend on   *)
(* both others.                                                            *)
EXTENDS ActionGroups

\* Lists of up to n dependencies of p on different products.
DependenciesOf(p, n, kinds, needs) ==
  UNION {[1..k -> [from: {p}, action: {"setup"}, on: ProductIds \ {p},
                   wants: needs, type: kinds]]: k \in 0..n}

Distinct(ds) == \A i, j \in DOMAIN ds: ds[i].on = ds[j].on => i = j

\* Dependencies of all products.
Depending(n, kinds, needs) ==
  {f \in [ProductIds -> UNION {{ds \in DependenciesOf(p, n, kinds, needs):
                                Distinct(ds)}: p \in ProductIds}]:
     \A p \in ProductIds: \A i \in DOMAIN f[p]: f[p][i].from = p}

Descending == [p \in ProductIds |-> 10 - 10 * p]
Equal == [p \in ProductIds |-> 0]
AllScripts == [p \in ProductIds |-> Actions]
Poc(p, action) == [product |-> p, action |-> action]
SetupOf(n) == [p \in 1..n |-> Poc(p, "setup")]

Orders(wanted, dependencies, priority) ==
  [wanted: {wanted}, dependencies: dependencies, priority: priority,
   available: {ProductIds}, scripts: {AllScripts},
   installed: {IF Len(wanted) = 1 THEN {3} ELSE {}}]

\* What orders differ in: the kinds of hard requirements, and priorities that
\* agree with them or not.
OrderRequests ==
  LET OfKinds(n, kinds) == Depending(n, kinds, {"installed"})
      dependencies == OfKinds(2, {"before"}) \cup OfKinds(2, {"after"})
                        \cup OfKinds(1, {"before", "after"})
  IN  Orders(SetupOf(1), dependencies, {Descending})
        \cup Orders(SetupOf(3), dependencies, {Descending, Equal})

\* Requirements of mixed kinds, two of each product.
MixedRequests ==
  Orders(SetupOf(3), Depending(2, {"before", "after"}, {"installed"}), {Equal})

\* What is added to the actions: products that are installed, missing on the
\* depot or without a script, and actions that were asked for otherwise.
Needs(wanted, needs, available) ==
  [wanted: wanted, dependencies: Depending(1, {"before", "any"}, needs),
   priority: {Descending}, available: {available},
   scripts: {[AllScripts EXCEPT ![3] = {"setup"}]}, installed: {{2}}]
NeedRequests ==
  LET wanted == {SetupOf(1), <<Poc(2, "none"), Poc(1, "setup")>>,
                 <<Poc(1, "setup"), Poc(3, "uninstall")>>}
  IN  Needs(wanted, {"installed", "setup"}, ProductIds)
        \cup Needs(wanted, {"not_installed"}, ProductIds)
        \cup Needs({SetupOf(1)}, {"installed"}, {1, 2})

AllRequests == OrderRequests \cup NeedRequests
=============================================================================
