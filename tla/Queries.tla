------------------------------ MODULE Queries ------------------------------
(***************************************************************************)
(* What the user interface of a client shows: a chain of live queries      *)
(* (cfds/client/graph/query.ts) over the graph (graph-manager.ts).  Query  *)
(* 1 filters the vertices of the graph, query q the results of query       *)
(* q - 1, as SharedQueriesManager and the views build them.  A query scans *)
(* its source when it is opened and follows the source's events from then  *)
(* on; components that show it are notified when its results change.       *)
(*                                                                         *)
(* All of it runs on one thread, in pieces: the cycles of                  *)
(* NextEventLoopCycleTimer (base/timer.ts), in which emitters deliver what *)
(* they delayed (base/emitter.ts) and every third cycle the scheduler runs *)
(* coroutines (base/coroutine.ts).  Whatever else changes the graph, the   *)
(* user, the network and ends of asynchronous calls, comes between cycles. *)
(*                                                                         *)
(* What a vertex contains is reduced to the queries whose predicate it     *)
(* satisfies.  A key is never moved from one group of a query to another.  *)
(***************************************************************************)
EXTENDS Naturals, Sequences, SequencesExt

CONSTANTS
  Key,
  Depth,      (* how many queries are chained                              *)
  Value,      (* what a vertex may contain: the queries it satisfies       *)
  MaxChanges  (* bound: edits, creations and commits from elsewhere        *)

ASSUME QueriesConstantsOK ==
  /\ Depth \in Nat \ {0}
  /\ Value \subseteq SUBSET (1..Depth) /\ {} \in Value
  /\ MaxChanges \in Nat

Query == 1..Depth
Graph == 0       (* the source of query 1                                  *)
Scheduler == 0   (* among the timers: the one that runs coroutines; timer  *)
                 (* q delivers the pending emissions of query q            *)
MaxTicks == 3    (* the scheduler skips two cycles of three                *)

VARIABLES
  (* the graph *)
  stored,    (* keys of the repositories, which are the graph's keys()     *)
  vertices,  (* keys that have a vertex                                    *)
  match,     (* match[k]: the queries the vertex of k satisfies, or will   *)
             (* when it is created                                         *)
  arriving,  (* keys whose NewCommit is yet to be emitted in the background*)
  initial,   (* new vertices that have not reported their fields           *)
  touched,   (* vertices whose touch is under way                          *)
  mutated,   (* _pendingMutations                                          *)
  (* the queries *)
  phase,     (* closed, scheduled (its scan), scanning or loaded           *)
  todo,      (* keys the scan of a query has yet to visit                  *)
  results,   (* _results                                                   *)
  pending,   (* _pendingEmissions of a query                               *)
  late,      (* history: keys a query looked at after its source lost them *)
  (* the event loop *)
  cycle,     (* timers that fire in this cycle, one after the other        *)
  next,      (* timers scheduled for the next one                          *)
  tickCount, (* _tickCount                                                 *)
  stage,     (* what a tick has run so far: nothing, normal or background  *)
  changes    (* counts up to MaxChanges                                    *)

graphVars == <<stored, vertices, match, arriving, initial, touched, mutated>>
queryVars == <<phase, todo, results, pending, late>>
loopVars == <<cycle, next, tickCount, stage>>
qvars == <<graphVars, queryVars, loopVars, changes>>

Phase == {"closed", "scheduled", "scanning", "loaded"}
Event == [type : {"changed", "deleted"}, keys : (SUBSET Key) \ {{}}]

TypeOK ==
  /\ {stored, vertices, arriving, initial, touched, mutated} \subseteq SUBSET Key
  /\ match \in [Key -> Value]
  /\ phase \in [Query -> Phase]
  /\ todo \in [Query -> SUBSET Key]
  /\ results \in [Query -> SUBSET Key]
  /\ \A q \in Query : ToSet(pending[q]) \subseteq Event
  /\ late \in [Query -> SUBSET Key]
  /\ ToSet(cycle) \cup ToSet(next) \subseteq {Scheduler} \cup Query
  /\ tickCount \in 0..(MaxTicks - 1)
  /\ stage \in {"nothing", "normal", "background"}
  /\ changes \in 0..MaxChanges

(* The shared queries are resumed in the first cycle; the commits of the   *)
(* last session may be loaded from the browser's database by then.         *)
Init ==
  /\ stored \in SUBSET Key
  /\ match \in [Key -> Value]
  /\ \A k \in Key \ stored : match[k] = {}
  /\ arriving = stored
  /\ vertices = {} /\ initial = {} /\ touched = {} /\ mutated = {}
  /\ phase = [q \in Query |-> IF q = 1 THEN "scheduled" ELSE "closed"]
  /\ todo = [q \in Query |-> {}]
  /\ results = [q \in Query |-> {}]
  /\ late = [q \in Query |-> {}]
  /\ pending = [q \in Query |-> <<>>]
  /\ cycle = <<>>
  /\ next = <<Scheduler>>
  /\ tickCount = 0
  /\ stage = "nothing"
  /\ changes = 0
------------------------------------------------------------------------------
(* NextEventLoopCycleTimer.schedule: a timer is scheduled once.            *)
Scheduled(timer) == IF Contains(next, timer) THEN next ELSE Append(next, timer)

(* Emitter.emit of query q after the emissions in queue, delayed to the    *)
(* next cycle.                                                             *)
Emit(queue, q, events) ==
  /\ pending' = [queue EXCEPT ![q] = @ \o events]
  /\ next' = IF events = <<>> THEN next ELSE Scheduled(q)

EventOf(type, keys) ==
  IF keys = {} THEN <<>> ELSE <<[type |-> type, keys |-> keys]>>

(* The keys k for which source.hasVertex(k), which asks the whole chain.   *)
SourceHas(q) == {k \in Key : \A p \in 1..(q - 1) : k \in results[p]}

(* The keys a query's scan takes from its source.  The graph's are taken   *)
(* one by one while the scan runs: see Arrive.                             *)
SourceKeys(q) == IF q - 1 = Graph THEN stored ELSE results[q - 1]

(* The definitions named Mut... are bugs this code could have; each breaks *)
(* a property below when it stands in for the definition that follows it.  *)
MutVertexChanged(queue, q, keys) ==
  LET in == {k \in keys : q \in match[k]}
      gone == {k \in keys \ in : k \notin results[q]} \cap SourceHas(q)
  IN /\ results' = [results EXCEPT ![q] = (@ \ keys) \cup in]
     /\ Emit(queue, q, EventOf("changed", in) \o EventOf("deleted", gone))
     /\ late' = [late EXCEPT ![q] = @ \cup (keys \ SourceHas(q))]

(* vertexChanged of query q for some keys, whose order does not matter:    *)
(* they enter the results or leave them.  Whoever filters the results is   *)
(* told that a key left only if the source still has it.                   *)
VertexChanged(queue, q, keys) ==
  LET in == {k \in keys : q \in match[k]}
      gone == (keys \ in) \cap results[q] \cap SourceHas(q)
  IN /\ results' = [results EXCEPT ![q] = (@ \ keys) \cup in]
     /\ Emit(queue, q, EventOf("changed", in) \o EventOf("deleted", gone))
     /\ late' = [late EXCEPT ![q] = @ \cup (keys \ SourceHas(q))]

(* vertexDeleted.                                                          *)
VertexDeleted(queue, q, keys) ==
  /\ results' = [results EXCEPT ![q] = @ \ keys]
  /\ Emit(queue, q, EventOf("deleted", keys \cap results[q]))
  /\ UNCHANGED late
------------------------------------------------------------------------------
(* A tick of the scheduler.                                                *)

InTick == cycle # <<>> /\ Head(cycle) = Scheduler /\ tickCount = 0

(* _processPendingMutations: the graph emits at once, not with a delay.    *)
ProcessMutations ==
  /\ mutated # {}
  /\ mutated' = {}
  /\ VertexChanged(pending, 1, mutated)
  /\ UNCHANGED <<stored, vertices, match, arriving, initial, touched,
                 phase, todo>>

(* _createVertIfNeeded: a new vertex has the record of the head.           *)
CreateVertex(k) ==
  /\ vertices' = vertices \cup {k}
  /\ initial' = initial \cup ({k} \ vertices)

(* One step of loadKeysFromSource, the first of which asks for the keys.   *)
Scan(q) ==
  /\ phase[q] \in {"scheduled", "scanning"}
  /\ LET left == IF phase[q] = "scheduled" THEN SourceKeys(q) ELSE todo[q]
     IN \/ /\ left = {}
           /\ phase' = [phase EXCEPT ![q] = "loaded"]
           /\ next' = Scheduled(q)   (* to deliver 'loading-finished'      *)
           /\ UNCHANGED <<vertices, initial, todo, results, pending, late>>
        \/ \E k \in left :
             /\ phase' = [phase EXCEPT ![q] = "scanning"]
             /\ todo' = [todo EXCEPT ![q] = left \ {k}]
             /\ CreateVertex(k)
             /\ VertexChanged(pending, q, {k})
  /\ UNCHANGED <<stored, match, arriving, touched, mutated>>

(* The NewCommit event of a commit from elsewhere: it makes a vertex of    *)
(* the key, or touches the one there is.                                   *)
EmitNewCommit(k) ==
  /\ k \in arriving
  /\ arriving' = arriving \ {k}
  /\ CreateVertex(k)
  /\ touched' = touched \cup ({k} \cap vertices)
  /\ UNCHANGED <<stored, match, mutated, next,
                 phase, todo, results, pending, late>>

NormalWork == mutated # {} \/ \E q \in Query : phase[q] \in {"scheduled", "scanning"}
Work == NormalWork \/ arriving # {}

(* _executeFromQueue runs coroutines in an order and for a time that       *)
(* depends on how long they take, but at least one; those of background    *)
(* priority once no other is left.                                         *)
RunCoroutine ==
  /\ InTick
  /\ \/ /\ stage \in {"nothing", "normal"}
        /\ stage' = "normal"
        /\ ProcessMutations \/ \E q \in Query : Scan(q)
     \/ /\ stage = "background" \/ ~NormalWork
        /\ stage' = "background"
        /\ \E k \in Key : EmitNewCommit(k)
  /\ UNCHANGED <<cycle, tickCount, changes>>

MutForgetsBackground ==
  /\ InTick
  /\ stage # "nothing" \/ ~Work
  /\ stage' = "nothing"
  /\ tickCount' = 1
  /\ cycle' = Tail(cycle)
  /\ next' = IF NormalWork THEN Scheduled(Scheduler) ELSE next
  /\ UNCHANGED <<graphVars, queryVars, changes>>

MutTicksForever ==
  /\ InTick
  /\ stage # "nothing" \/ ~Work
  /\ stage' = "nothing"
  /\ tickCount' = 1
  /\ cycle' = Tail(cycle)
  /\ next' = Scheduled(Scheduler)
  /\ UNCHANGED <<graphVars, queryVars, changes>>

(* The tick is over, and the timer scheduled again if there is more to do. *)
EndTick ==
  /\ InTick
  /\ stage # "nothing" \/ ~Work
  /\ stage' = "nothing"
  /\ tickCount' = 1
  /\ cycle' = Tail(cycle)
  /\ next' = IF Work THEN Scheduled(Scheduler) ELSE next
  /\ UNCHANGED <<graphVars, queryVars, changes>>

MutSkipTick ==
  /\ cycle # <<>> /\ Head(cycle) = Scheduler
  /\ tickCount # 0
  /\ tickCount' = tickCount + 1
  /\ cycle' = Tail(cycle)
  /\ next' = Scheduled(Scheduler)
  /\ UNCHANGED <<graphVars, queryVars, stage, changes>>

SkipTick ==
  /\ cycle # <<>> /\ Head(cycle) = Scheduler
  /\ tickCount # 0
  /\ tickCount' = (tickCount + 1) % MaxTicks
  /\ cycle' = Tail(cycle)
  /\ next' = Scheduled(Scheduler)
  /\ UNCHANGED <<graphVars, queryVars, stage, changes>>
------------------------------------------------------------------------------
(* The other timers of a cycle, and what happens between two cycles.       *)

(* The emitter's timer fires: the emissions are delivered one by one.      *)
Deliver ==
  /\ cycle # <<>> /\ Head(cycle) # Scheduler /\ pending[Head(cycle)] # <<>>
  /\ LET q == Head(cycle)
         event == Head(pending[q])
         queue == [pending EXCEPT ![q] = Tail(@)]
         heard == q < Depth /\ phase[q + 1] # "closed"
     IN \/ /\ event.type = "changed" /\ heard
           /\ VertexChanged(queue, q + 1, event.keys)
        \/ /\ event.type = "deleted" /\ heard
           /\ VertexDeleted(queue, q + 1, event.keys)
        \/ /\ ~heard
           /\ pending' = queue
           /\ UNCHANGED <<results, late, next>>
  /\ UNCHANGED <<graphVars, phase, todo, cycle, tickCount, stage, changes>>

(* It is done; it may find nothing, if what it was scheduled for was       *)
(* delivered in the cycle before.                                          *)
Delivered ==
  /\ cycle # <<>> /\ Head(cycle) # Scheduler /\ pending[Head(cycle)] = <<>>
  /\ cycle' = Tail(cycle)
  /\ UNCHANGED <<graphVars, queryVars, next, tickCount, stage, changes>>

(* The microtasks at the end of a cycle, or of what created a vertex.      *)
ReportInitialFields ==
  /\ cycle = <<>> /\ initial # {}
  /\ mutated' = mutated \cup initial
  /\ initial' = {}
  /\ next' = Scheduled(Scheduler)
  /\ UNCHANGED <<stored, vertices, match, arriving, touched, queryVars,
                 cycle, tickCount, stage, changes>>

Between == cycle = <<>> /\ initial = {}

BeginCycle ==
  /\ Between /\ next # <<>>
  /\ cycle' = next
  /\ next' = <<>>
  /\ UNCHANGED <<graphVars, queryVars, tickCount, stage, changes>>

(* The vertex of k has a new value: the graph is told by the coroutine of  *)
(* its CoroutineTimer.                                                     *)
Mutate(k, value) ==
  /\ match' = [match EXCEPT ![k] = value]
  /\ IF value = match[k]
     THEN UNCHANGED <<mutated, next>>
     ELSE mutated' = mutated \cup {k} /\ next' = Scheduled(Scheduler)

(* A touch is over: the vertex shows what was committed elsewhere, or its  *)
(* own changes over it.                                                    *)
Touched(k) ==
  /\ Between /\ k \in touched
  /\ touched' = touched \ {k}
  /\ \E value \in Value : Mutate(k, value)
  /\ UNCHANGED <<stored, vertices, arriving, initial, queryVars,
                 cycle, tickCount, stage, changes>>

Change == Between /\ changes < MaxChanges /\ changes' = changes + 1

Edit(k) ==
  /\ Change /\ k \in vertices
  /\ \E value \in Value : Mutate(k, value)
  /\ UNCHANGED <<stored, vertices, arriving, initial, touched, queryVars,
                 cycle, tickCount, stage>>

(* createVertex; its key is stored with its first commit.                  *)
Create(k) ==
  /\ Change /\ k \notin vertices \cup stored
  /\ \E value \in Value : match' = [match EXCEPT ![k] = value]
  /\ CreateVertex(k)
  /\ UNCHANGED <<stored, arriving, touched, mutated, queryVars, loopVars>>

(* persistVerifiedCommits: a commit from elsewhere is stored at once, a    *)
(* new key is seen by a scan of the graph, and a background coroutine will *)
(* emit the NewCommit event.                                               *)
Arrive(k) ==
  /\ Change
  /\ stored' = stored \cup {k}
  /\ \/ k \in vertices /\ UNCHANGED match
     \/ /\ k \notin vertices
        /\ \E value \in Value : match' = [match EXCEPT ![k] = value]
  /\ todo' = IF phase[1] = "scanning" /\ k \notin stored
             THEN [todo EXCEPT ![1] = @ \cup {k}] ELSE todo
  /\ arriving' = arriving \cup {k}
  /\ next' = Scheduled(Scheduler)
  /\ UNCHANGED <<vertices, initial, touched, mutated, phase, results, pending,
                 late, cycle, tickCount, stage>>

(* Somebody attaches to a query, which resumes it and its source.          *)
Open(q) ==
  /\ Between
  /\ phase[q] = "closed" /\ phase[q - 1] # "closed"
  /\ phase' = [phase EXCEPT ![q] = "scheduled"]
  /\ next' = Scheduled(Scheduler)
  /\ UNCHANGED <<graphVars, todo, results, pending, late,
                 cycle, tickCount, stage, changes>>

Loop ==
  \/ BeginCycle \/ RunCoroutine \/ EndTick \/ SkipTick
  \/ Deliver \/ Delivered \/ ReportInitialFields

Next ==
  \/ Loop
  \/ \E q \in Query : Open(q)
  \/ \E k \in Key : Touched(k) \/ Edit(k) \/ Create(k) \/ Arrive(k)

Spec == Init /\ [][Next]_qvars

(* The browser runs scheduled timers and ends asynchronous calls.          *)
FairSpec ==
  /\ Spec
  /\ WF_qvars(Loop)
  /\ WF_qvars(\E k \in Key : Touched(k))
------------------------------------------------------------------------------
(* Nothing is scheduled or under way.                                      *)
Quiet == Between /\ next = <<>> /\ touched = {}

(* No wakeup is lost: whoever leaves something to do, at whatever point of *)
(* a cycle, a timer that fires in it or in the next one will come to it.   *)
WorkIsScheduled ==
  LET scheduled == ToSet(cycle) \cup ToSet(next)
  IN /\ \A q \in Query : pending[q] # <<>> => q \in scheduled
     /\ Work => Scheduler \in scheduled

(* The keys query q is meant to contain, by its predicate and those above. *)
Meant(q) == {k \in stored \cup vertices : 1..q \subseteq match[k]}

(* Whatever the order in which commits arrive, vertices are created and    *)
(* changed, and queries are opened and scan, once the loop has come to     *)
(* rest every key that satisfies the predicates is in the results, of a    *)
(* query that had to be told through a chain of others as well.            *)
NothingMissing ==
  Quiet => \A q \in Query : phase[q] # "closed" => Meant(q) \subseteq results[q]

(* And no other key is, unless a query along the chain looked at it when   *)
(* its source no longer had it: in a scan, which visits the keys of a list *)
(* taken when it began, or because two events reached it in one cycle.     *)
NothingStale ==
  Quiet => \A q \in Query :
    \A k \in results[q] \ Meant(q) : \E p \in 1..q : k \in late[p]

(* When the changes end the loop comes to rest with every query loaded.    *)
ComesToRest ==
  <>[](Quiet /\ \A q \in Query : phase[q] \in {"closed", "loaded"})
=============================================================================
