---------------------------- MODULE ProductCache ----------------------------
(***************************************************************************)
(* The local copies of product files (ProductCacheService).                *)
(*                                                                         *)
(* A worker thread polls one request flag.  Once it is connected and the   *)
(* depot has granted a transfer slot it makes a plan: the products with an *)
(* action request, and the action processor.  It copies them one after the *)
(* other, and evicts copies the plan does not need if the cache would grow *)
(* too large.  What has been copied is kept in the state file; events with *)
(* use_cached_products, and the precondition cache_ready, rely on it.      *)
(* cacheService_deleteCache clears the cache from an RPC thread of its     *)
(* own, also while the worker is at work; no lock is taken.                *)
(*                                                                         *)
(* Abstracted: a copy is as many units as it has got so far, and the       *)
(* versions of products are left out; so are bandwidth, progress and the   *)
(* heartbeat of the transfer slot.  The synchronizer of the depot files is *)
(* not part of this code: it completes a copy piece by piece, or fails.    *)
(***************************************************************************)
EXTENDS Integers, Sequences, FiniteSets, Functions, SequencesExt, FiniteSetsExt

CONSTANTS
  Products,
  ActionProcessor, \* config.action_processor_name
  Size,            \* Size[p]: the files of p, in units
  MaxSize,         \* product_cache_max_size
  Margin           \* freed beyond what is needed (1000 bytes)

ASSUME ProductAssumption ==
  /\ IsFiniteSet(Products)
  /\ ActionProcessor \in Products
  /\ Size \in [Products -> Nat \ {0}]
  /\ MaxSize \in Nat \ {0}
  /\ Margin \in Nat

VARIABLES
  requested,  \* _cacheProductsRequested
  job,        \* what the worker is at; "dead" once its thread has ended
  todo,       \* productIds; then those still to cache, the current one first
  missing,    \* errorProductIds: requested products the depot lacks
  turn,       \* index: the next turn of the loop that drops them
  last,       \* the last turn, len(productIds) - 1 as the loop begins
  needed,     \* neededProducts: the products of the plan
  victims,    \* copies that may be evicted, with the sizes read
  space,      \* how much has still to be freed
  errors,     \* errorsOccured is not empty
  content,    \* content[p]: units of p in the cache, -1 without a directory
  age,        \* products with a package content file, by its time, eldest first
  completed,  \* products whose copies the state calls completed
  productsCached, \* state products_cached
  clearing,   \* clear_cache is running
  toClear,    \* directories it has still to delete
  offered,    \* history: requested products of the plan that the depot has
  torn,       \* history: copies deleted by clear_cache since they were begun
  cleared     \* history: clear_cache has deleted something since the worker began

dropping == <<missing, turn, last>>
plan == <<todo, needed, errors, dropping>>
eviction == <<victims, space>>
disk == <<content, age>>
state == <<completed, productsCached>>
clear == <<clearing, toClear>>
history == <<offered, torn, cleared>>
vars == <<requested, job, plan, eviction, disk, state, clear, history>>

Jobs == {"idle", "slot", "plan", "drop", "next", "content", "check", "measure", "evict",
         "transfer", "record", "fire", "release", "finish", "dead"}

Init ==
  /\ requested = FALSE
  /\ job = "idle"
  /\ todo = <<>>
  /\ missing = {} /\ turn = 1 /\ last = 0
  /\ needed = {}
  /\ victims = << >>
  /\ space = 0
  /\ errors = FALSE
  /\ content = [p \in Products |-> -1]
  /\ age = <<>>
  /\ completed = {}
  /\ productsCached = FALSE
  /\ clearing = FALSE
  /\ toClear = {}
  /\ offered = {}
  /\ torn = {}
  /\ cleared = FALSE

Held(p) == IF content[p] = -1 THEN 0 ELSE content[p]
\* System.getDirectorySize of the cache.
DirectorySize == SumFunction([p \in Products |-> Held(p)])
Whole(p) == content[p] = Size[p]
\* A list that names nothing twice, without p.
Without(s, p) ==
  IF p \in ToSet(s) THEN RemoveAt(s, CHOOSE i \in DOMAIN s : s[i] = p) ELSE s
Step(from, to) == job = from /\ job' = to

-----------------------------------------------------------------------------
(* Calls of other threads                                                  *)

\* CacheService.cacheProducts, from a caller that has found the worker not
\* working at some earlier moment.
RequestCaching ==
  /\ requested' = TRUE
  /\ UNCHANGED <<job, plan, eviction, disk, state, clear, history>>

ClearBegin ==
  /\ ~clearing
  /\ clearing' = TRUE
  /\ toClear' = {p \in Products : content[p] # -1}
  /\ UNCHANGED <<requested, job, plan, eviction, disk, state, history>>

ClearDirectory(p) ==
  /\ clearing
  /\ p \in toClear
  /\ content[p] # -1
  /\ toClear' = toClear \ {p}
  /\ content' = [content EXCEPT ![p] = -1]
  /\ age' = Without(age, p)
  /\ torn' = torn \cup {p}
  /\ cleared' = TRUE
  /\ UNCHANGED <<requested, job, plan, eviction, state, clearing, offered>>

\* rmtree raises (a file in use, a directory that is gone): the exception leaves
\* clear_cache, the state is not touched.
ClearFails ==
  /\ clearing
  /\ \E p \in toClear :
       /\ content' \in {[content EXCEPT ![p] = n] : n \in {content[p]} \cup 0 .. content[p]}
       /\ age' \in {age, Without(age, p)}
       /\ torn' = torn \cup {p}
  /\ clearing' = FALSE
  /\ toClear' = {}
  /\ cleared' = TRUE
  /\ UNCHANGED <<requested, job, plan, eviction, state, offered>>

ClearState ==
  /\ clearing
  /\ toClear = {}
  /\ clearing' = FALSE
  /\ completed' = {}
  /\ productsCached' = FALSE
  /\ cleared' = TRUE
  /\ UNCHANGED <<requested, job, plan, eviction, disk, toClear, offered, torn>>

-----------------------------------------------------------------------------
(* The worker: run, start_caching_or_get_waiting_time                      *)

Connect ==
  /\ Step("idle", "slot")
  /\ requested
  /\ UNCHANGED <<requested, plan, eviction, disk, state, clear, history>>

\* No connection, no license, or an error of the server, or of closing the
\* repository: an exception leaves the loop of run, and the thread ends.
Dies ==
  /\ \/ job = "idle" /\ requested
     \/ job \in {"slot", "finish"}
  /\ job' = "dead"
  /\ UNCHANGED <<requested, plan, eviction, disk, state, clear, history>>

\* retry_after: the request stays.
SlotRefused ==
  /\ Step("slot", "idle")
  /\ UNCHANGED <<requested, plan, eviction, disk, state, clear, history>>

Begin ==
  /\ Step("slot", "plan")
  /\ productsCached' = FALSE
  /\ completed' = {}
  /\ errors' = FALSE
  /\ offered' = {} /\ torn' = {} /\ cleared' = FALSE
  /\ UNCHANGED <<requested, todo, needed, dropping, eviction, disk, clear>>

Release ==
  /\ Step("release", "finish")
  /\ todo' = <<>>
  /\ needed' = {}
  /\ errors' = FALSE
  /\ missing' = {} /\ turn' = 1 /\ last' = 0
  /\ UNCHANGED <<requested, eviction, disk, state, clear, history>>

Finish ==
  /\ Step("finish", "idle")
  /\ requested' = FALSE
  /\ UNCHANGED <<plan, eviction, disk, state, clear, history>>

-----------------------------------------------------------------------------
(* The plan: _cacheProducts                                                *)

\* What is asked for, and the action processor; nothing, if nothing is asked for.
Plan ==
  /\ job = "plan"
  /\ \E asked \in SUBSET (Products \ {ActionProcessor}) :
     \E absent \in SUBSET asked, ids \in SetToSeqs(asked) :
       /\ offered' = ToSet(ids) \ absent
       /\ missing' = absent
       /\ turn' = 1
       /\ last' = Len(ids)
       /\ todo' = Append(ids, ActionProcessor)
       /\ needed' = ToSet(todo')
       /\ job' = IF asked = {} THEN "release" ELSE IF absent = {} THEN "next" ELSE "drop"
  /\ UNCHANGED <<requested, errors, eviction, disk, state, clear, torn, cleared>>

\* One turn of the loop that deletes the missing products.  It counts to the
\* original length: each deletion makes it skip a product, and after two of them
\* it may run past the end (IndexError, which ends the run).
DropTurn ==
  /\ job = "drop"
  /\ turn <= last
  /\ turn' = turn + 1
  /\ IF turn > Len(todo)
     THEN job' = "release" /\ UNCHANGED todo
     ELSE /\ todo' = IF todo[turn] \in missing THEN RemoveAt(todo, turn) ELSE todo
          /\ UNCHANGED job
  /\ needed' = ToSet(todo')
  /\ UNCHANGED <<requested, missing, last, errors, eviction, disk, state, clear, history>>

\* If only the action processor is left, nothing is done.
Dropped ==
  /\ job = "drop"
  /\ turn > last
  /\ job' = IF todo = <<ActionProcessor>> THEN "release" ELSE "next"
  /\ missing' = {} /\ turn' = 1 /\ last' = 0
  /\ UNCHANGED <<requested, todo, needed, errors, eviction, disk, state, clear, history>>

\* An error of the server: logged, the run is over.
PlanFails ==
  /\ Step("plan", "release")
  /\ UNCHANGED <<requested, plan, eviction, disk, state, clear, history>>

-----------------------------------------------------------------------------
(* One product: _cacheProduct                                              *)

current == Head(todo)

StartProduct ==
  /\ Step("next", "content")
  /\ todo # <<>>
  /\ completed' = completed \ {current}
  /\ torn' = torn \ {current}
  /\ UNCHANGED <<requested, plan, eviction, disk, productsCached, clear, offered, cleared>>

\* The directory is made and the package content file is fetched.
FetchContentFile ==
  /\ Step("content", "check")
  /\ content' = [content EXCEPT ![current] = Held(current)]
  /\ age' = Append(Without(age, current), current)
  /\ UNCHANGED <<requested, plan, eviction, state, clear, history>>

\* A mutant: the limit is tested before the product is counted.
CheckSpaceBefore ==
  /\ job = "check"
  /\ LET total == DirectorySize IN
       IF total > MaxSize
       THEN /\ space' = Size[current] - (MaxSize - total) + Margin
            /\ job' = "measure"
       ELSE job' = "transfer" /\ UNCHANGED space
  /\ UNCHANGED <<requested, plan, victims, disk, state, clear, history>>

\* The size of the whole cache with this product, and what has to be freed for it.
\* (The part of the product that is there is counted again in the latter.)
CheckSpace ==
  /\ job = "check"
  /\ LET total == DirectorySize IN
       IF total + Size[current] - Held(current) > MaxSize
       THEN /\ space' = Size[current] - (MaxSize - total) + Margin
            /\ job' = "measure"
       ELSE job' = "transfer" /\ UNCHANGED space
  /\ UNCHANGED <<requested, plan, victims, disk, state, clear, history>>

\* A mutant: products of the plan are evicted too.
MeasureAll ==
  /\ Step("measure", "evict")
  /\ victims' = [p \in {q \in Products \ {current} : content[q] # -1} |-> content[p]]
  /\ SumFunction(victims') >= space
  /\ UNCHANGED <<requested, plan, space, disk, state, clear, history>>

\* _freeProductCacheSpace: only copies the plan does not need.
Measure ==
  /\ Step("measure", "evict")
  /\ victims' = [p \in {q \in Products \ needed : content[q] # -1} |-> content[p]]
  /\ SumFunction(victims') >= space
  /\ UNCHANGED <<requested, plan, space, disk, state, clear, history>>

\* First a copy without content file, else the one whose file is the eldest.
Eldest(p) ==
  IF DOMAIN victims \subseteq ToSet(age)
  THEN \E i \in DOMAIN age :
         age[i] = p /\ \A j \in 1 .. i - 1 : age[j] \notin DOMAIN victims
  ELSE p \notin ToSet(age)

Evict(p) ==
  /\ job = "evict"
  /\ space > 0
  /\ p \in DOMAIN victims
  /\ Eldest(p)
  /\ content[p] # -1
  /\ space' = space - victims[p]
  /\ victims' = Restrict(victims, DOMAIN victims \ {p})
  /\ content' = [content EXCEPT ![p] = -1]
  /\ age' = Without(age, p)
  /\ completed' = completed \ {p}
  /\ UNCHANGED <<requested, job, plan, productsCached, clear, history>>

Evicted ==
  /\ Step("evict", "transfer")
  /\ space <= 0
  /\ victims' = << >>
  /\ space' = 0
  /\ UNCHANGED <<requested, plan, disk, state, clear, history>>

\* A mutant: pieces that are there are fetched once more.
TransferAgain ==
  /\ job = "transfer"
  /\ content' = [content EXCEPT ![current] = Held(current) + 1]
  /\ UNCHANGED <<requested, job, plan, eviction, age, state, clear, history>>

\* The synchronizer has got another piece.
Transfer ==
  /\ job = "transfer"
  /\ Held(current) < Size[current]
  /\ content' = [content EXCEPT ![current] = Held(current) + 1]
  /\ UNCHANGED <<requested, job, plan, eviction, age, state, clear, history>>

\* It has got them all; what clear_cache has deleted meanwhile it does not miss.
Transferred ==
  /\ Step("transfer", "record")
  /\ Whole(current) \/ current \in torn
  /\ UNCHANGED <<requested, plan, eviction, disk, state, clear, history>>

\* A mutant: the copy is recorded before the synchronizer has done its work.
RecordEarly ==
  /\ job = "transfer"
  /\ job' = "next"
  /\ completed' = completed \cup {current}
  /\ todo' = Tail(todo)
  /\ UNCHANGED <<requested, needed, dropping, errors, eviction, disk, productsCached, clear, history>>

Record ==
  /\ Step("record", "next")
  /\ completed' = completed \cup {current}
  /\ todo' = Tail(todo)
  /\ UNCHANGED <<requested, needed, dropping, errors, eviction, disk, productsCached, clear, history>>

\* An exception at any point: the depot lacks the product, not enough space, no
\* connection.  A failure that cannot be reported to the server ends the run.
\* A copy that has been recorded and could not be reported stays recorded.
ProductFails ==
  /\ job \in {"content", "check", "measure", "evict", "transfer", "record"}
  /\ errors' = TRUE
  /\ completed' \in {completed, IF job = "record" THEN completed \cup {current} ELSE completed}
  /\ \/ job' = "next" /\ todo' = Tail(todo)
     \/ job' = "release" /\ todo' = <<>>
  /\ content' \in {content, IF job = "content"
                              THEN [content EXCEPT ![current] = Held(current)] ELSE content}
  /\ victims' = << >> /\ space' = 0
  /\ UNCHANGED <<requested, needed, dropping, age, productsCached, clear, history>>

\* Every product has been dealt with.
Summary ==
  /\ job = "next"
  /\ todo = <<>>
  /\ IF errors THEN job' = "release" /\ UNCHANGED productsCached
               ELSE job' = "fire" /\ productsCached' = TRUE
  /\ UNCHANGED <<requested, plan, eviction, disk, completed, clear, history>>

\* The sync completed events are fired; one that is refused changes nothing here.
Fire ==
  /\ Step("fire", "release")
  /\ UNCHANGED <<requested, plan, eviction, disk, state, clear, history>>

-----------------------------------------------------------------------------

\* The daemon is restarted: the directories and the state file survive.
Restart ==
  /\ requested' = FALSE
  /\ job' = "idle"
  /\ todo' = <<>>
  /\ needed' = {}
  /\ errors' = FALSE
  /\ missing' = {} /\ turn' = 1 /\ last' = 0
  /\ victims' = << >>
  /\ space' = 0
  /\ clearing' = FALSE
  /\ toClear' = {}
  /\ UNCHANGED <<disk, state, history>>

Worker ==
  \/ Connect \/ Dies \/ SlotRefused \/ Begin \/ Release \/ Finish
  \/ Plan \/ DropTurn \/ Dropped \/ PlanFails
  \/ StartProduct \/ FetchContentFile \/ CheckSpace \/ Measure
  \/ \E p \in Products : Evict(p)
  \/ Evicted \/ Transfer \/ Transferred \/ Record \/ ProductFails \/ Summary \/ Fire

Next ==
  \/ Worker \/ RequestCaching \/ Restart
  \/ ClearBegin \/ ClearFails \/ ClearState \/ \E p \in Products : ClearDirectory(p)

Spec == Init /\ [][Next]_vars

-----------------------------------------------------------------------------

TypeOK ==
  /\ {requested, errors, productsCached, clearing, cleared} \subseteq BOOLEAN
  /\ job \in Jobs
  /\ todo \in Seq(Products)
  /\ {missing, needed, completed, toClear, offered, torn, DOMAIN victims} \subseteq SUBSET Products
  /\ \A p \in DOMAIN victims : victims[p] \in 0 .. Size[p]
  /\ turn \in Nat /\ turn > 0 /\ last \in Nat
  /\ content \in [Products -> Int]
  /\ \A p \in Products : content[p] \in -1 .. Size[p]
  /\ age \in Seq(Products)

\* A copy the state calls completed, and events work with, is whole: failures
\* and crashes at any point and evictions for later products do not change that.
\* Only clear_cache can delete it, while it is being made or between its
\* directory and the state.
CompletedIsWhole ==
  \A p \in Products : p \in completed => Whole(p) \/ p \in torn

\* products_cached ("cache_ready") says that everything the plan was made for is
\* there, the products the depot lacks aside, unless clear_cache came between.
ReadyMeansCompleted ==
  productsCached /\ ~cleared =>
    \A p \in offered \cup {ActionProcessor} : p \in completed /\ Whole(p)

\* "Maximum product cache size" (windows/opsiclientd.conf:105): the copies never
\* take more, also while one of them is made and after failures and restarts.
SizeLimitKept == DirectorySize <= MaxSize
=============================================================================
