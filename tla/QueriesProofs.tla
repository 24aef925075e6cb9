--------------------------- MODULE QueriesProofs ---------------------------
(***************************************************************************)
(* That the event loop of Queries loses no wakeup, and that the results of *)
(* a query are what they are meant to be when the loop has come to rest,   *)
(* for every chain of queries and every graph.                             *)
(***************************************************************************)
EXTENDS Queries, SequenceTheorems, WellFoundedInduction, TLAPS

Timer == {Scheduler} \cup Query
Queues == [Query -> Seq(Event)]

(* TypeOK, and that the queues are sequences.                              *)
TypeInv ==
  /\ {stored, vertices, arriving, initial, touched, mutated} \subseteq SUBSET Key
  /\ match \in [Key -> Value]
  /\ phase \in [Query -> Phase]
  /\ todo \in [Query -> SUBSET Key]
  /\ results \in [Query -> SUBSET Key]
  /\ pending \in Queues
  /\ late \in [Query -> SUBSET Key]
  /\ cycle \in Seq(Timer) /\ next \in Seq(Timer)
  /\ tickCount \in 0..(MaxTicks - 1)
  /\ stage \in {"nothing", "normal", "background"}
  /\ changes \in 0..MaxChanges

WakeupInv == TypeInv /\ WorkIsScheduled
------------------------------------------------------------------------------
(* Sequences and their elements.                                           *)

LEMMA ToSetAppend ==
  ASSUME NEW S, NEW s \in Seq(S), NEW e \in S
  PROVE  Append(s, e) \in Seq(S) /\ ToSet(Append(s, e)) = ToSet(s) \cup {e}
<1>1. Append(s, e) \in Seq(S)
  OBVIOUS
<1>2. ToSet(Append(s, e)) \subseteq ToSet(s) \cup {e}
  BY DEF ToSet
<1>3. ASSUME NEW i \in DOMAIN s PROVE s[i] \in ToSet(Append(s, e))
  <2>1. i \in DOMAIN Append(s, e) /\ Append(s, e)[i] = s[i]
    OBVIOUS
  <2> QED BY <2>1 DEF ToSet
<1>4. e \in ToSet(Append(s, e))
  <2>1. Len(s) + 1 \in DOMAIN Append(s, e) /\ Append(s, e)[Len(s) + 1] = e
    OBVIOUS
  <2> QED BY <2>1 DEF ToSet
<1>5. ToSet(s) \subseteq ToSet(Append(s, e))
  BY <1>3 DEF ToSet
<1> QED BY <1>1, <1>2, <1>4, <1>5

LEMMA ToSetTail ==
  ASSUME NEW S, NEW s \in Seq(S), s # <<>>
  PROVE  /\ Tail(s) \in Seq(S)
         /\ Head(s) \in S
         /\ ToSet(s) = {Head(s)} \cup ToSet(Tail(s))
<1>1. Tail(s) \in Seq(S) /\ Head(s) \in S
  OBVIOUS
<1>2. ASSUME NEW i \in DOMAIN s PROVE s[i] \in {Head(s)} \cup ToSet(Tail(s))
  <2>1. CASE i = 1
    BY <2>1
  <2>2. CASE i # 1
    <3>1. i - 1 \in DOMAIN Tail(s) /\ Tail(s)[i - 1] = s[i]
      BY <2>2
    <3> QED BY <3>1 DEF ToSet
  <2> QED BY <2>1, <2>2
<1>3. ASSUME NEW i \in DOMAIN Tail(s) PROVE Tail(s)[i] \in ToSet(s)
  <2>1. i + 1 \in DOMAIN s /\ s[i + 1] = Tail(s)[i]
    OBVIOUS
  <2> QED BY <2>1 DEF ToSet
<1>4. Head(s) \in ToSet(s)
  <2>1. 1 \in DOMAIN s /\ s[1] = Head(s)
    OBVIOUS
  <2> QED BY <2>1 DEF ToSet
<1> QED BY <1>1, <1>2, <1>3, <1>4 DEF ToSet

LEMMA ToSetType ==
  ASSUME NEW S, NEW s \in Seq(S)
  PROVE  ToSet(s) \subseteq S
BY DEF ToSet

LEMMA ToSetEmpty == ToSet(<<>>) = {}
BY DEF ToSet

LEMMA ScheduledType ==
  ASSUME NEW timer \in Timer, next \in Seq(Timer)
  PROVE  /\ Scheduled(timer) \in Seq(Timer)
         /\ ToSet(Scheduled(timer)) = ToSet(next) \cup {timer}
<1>1. CASE Contains(next, timer)
  BY <1>1 DEF Scheduled, Contains, ToSet
<1>2. CASE ~Contains(next, timer)
  BY <1>2, ToSetAppend DEF Scheduled
<1> QED BY <1>1, <1>2
------------------------------------------------------------------------------
(* Emissions.                                                              *)

LEMMA TimersDiffer == Scheduler \in Timer /\ Query \subseteq Timer /\ Scheduler \notin Query
BY DEF Timer, Scheduler, Query

LEMMA EventOfType ==
  ASSUME NEW type \in {"changed", "deleted"}, NEW keys \in SUBSET Key
  PROVE  EventOf(type, keys) \in Seq(Event)
<1>1. CASE keys = {}
  BY <1>1 DEF EventOf
<1>2. CASE keys # {}
  <2>1. [type |-> type, keys |-> keys] \in Event
    BY <1>2 DEF Event
  <2> QED BY <1>2, <2>1 DEF EventOf
<1> QED BY <1>1, <1>2

(* Timers that have something to deliver after an emission had it before,  *)
(* or are scheduled now.                                                   *)
Woken(queue) ==
  /\ pending' \in Queues
  /\ next' \in Seq(Timer)
  /\ ToSet(next) \subseteq ToSet(next')
  /\ \A p \in Query : pending'[p] # <<>> => queue[p] # <<>> \/ p \in ToSet(next')

LEMMA EmitWakes ==
  ASSUME next \in Seq(Timer), NEW queue \in Queues, NEW q \in Query,
         NEW events \in Seq(Event), Emit(queue, q, events)
  PROVE  Woken(queue)
<1>1. pending' = [queue EXCEPT ![q] = @ \o events] /\ pending' \in Queues
  BY DEF Emit, Queues
<1>2. CASE events = <<>>
  <2>1. next' = next
    BY <1>2 DEF Emit
  <2>2. pending'[q] = queue[q]
    BY <1>1, <1>2 DEF Queues
  <2> QED BY <1>1, <2>1, <2>2 DEF Woken, Queues
<1>3. CASE events # <<>>
  <2>1. next' = Scheduled(q)
    BY <1>3 DEF Emit
  <2>2. next' \in Seq(Timer) /\ ToSet(next') = ToSet(next) \cup {q}
    BY <2>1, ScheduledType, TimersDiffer
  <2> QED BY <1>1, <2>2 DEF Woken, Queues
<1> QED BY <1>2, <1>3

LEMMA VertexChangedWakes ==
  ASSUME TypeInv, NEW queue \in Queues, NEW q \in Query, NEW keys \in SUBSET Key,
         VertexChanged(queue, q, keys)
  PROVE  /\ Woken(queue)
         /\ results' \in [Query -> SUBSET Key] /\ late' \in [Query -> SUBSET Key]
<1> DEFINE in == {k \in keys : q \in match[k]}
           gone == (keys \ in) \cap results[q] \cap SourceHas(q)
           events == EventOf("changed", in) \o EventOf("deleted", gone)
<1>1. in \in SUBSET Key /\ gone \in SUBSET Key
  OBVIOUS
<1>2. results' = [results EXCEPT ![q] = (@ \ keys) \cup in]
  BY DEF VertexChanged
<1>3. late' = [late EXCEPT ![q] = @ \cup (keys \ SourceHas(q))]
  BY DEF VertexChanged
<1>4. Emit(queue, q, events)
  BY DEF VertexChanged
<1>5. events \in Seq(Event)
  <2> HIDE DEF in, gone
  <2> QED BY <1>1, EventOfType
<1>6. Woken(queue)
  <2> HIDE DEF events
  <2> QED BY <1>4, <1>5, EmitWakes DEF TypeInv
<1> QED
  <2> HIDE DEF in
  <2> QED BY <1>1, <1>2, <1>3, <1>6 DEF TypeInv

LEMMA VertexDeletedWakes ==
  ASSUME TypeInv, NEW queue \in Queues, NEW q \in Query, NEW keys \in SUBSET Key,
         VertexDeleted(queue, q, keys)
  PROVE  /\ Woken(queue)
         /\ results' \in [Query -> SUBSET Key] /\ late' = late
<1>1. EventOf("deleted", keys \cap results[q]) \in Seq(Event)
  BY EventOfType
<1>2. Woken(queue)
  BY <1>1, EmitWakes DEF VertexDeleted, TypeInv
<1> QED BY <1>2 DEF VertexDeleted, TypeInv
------------------------------------------------------------------------------
(* The steps, each from WakeupInv to WakeupInv.                            *)

(* A step that lets the cycle go on loses no wakeup if it takes no timer   *)
(* out of the next one.                                                    *)
LEMMA StillScheduled ==
  ASSUME WakeupInv, NEW queue \in Queues, Woken(queue), cycle' = cycle,
         \A p \in Query : queue[p] # <<>> => pending[p] # <<>>,
         Work' => Work \/ Scheduler \in ToSet(cycle') \cup ToSet(next')
  PROVE  WorkIsScheduled'
BY DEF WakeupInv, WorkIsScheduled, Woken

LEMMA NothingEmitted ==
  ASSUME WakeupInv, UNCHANGED pending, next' \in Seq(Timer),
         ToSet(next) \subseteq ToSet(next')
  PROVE  Woken(pending)
BY DEF WakeupInv, TypeInv, Woken

LEMMA SchedulerFires ==
  ASSUME WakeupInv, cycle # <<>>, Head(cycle) = Scheduler
  PROVE  Scheduler \in ToSet(cycle)
BY ToSetTail DEF WakeupInv, TypeInv

LEMMA WakeupInit == Init => WakeupInv
<1> SUFFICES ASSUME Init PROVE WakeupInv
  OBVIOUS
<1>1. cycle \in Seq(Timer) /\ next \in Seq(Timer) /\ ToSet(next) = {Scheduler}
  <2>1. cycle = <<>> /\ next = <<Scheduler>>
    BY DEF Init
  <2>2. ToSet(<<Scheduler>>) = {Scheduler}
    BY DEF ToSet
  <2> QED BY <2>1, <2>2, TimersDiffer
<1>2. \A q \in Query : pending[q] = <<>>
  BY DEF Init
<1>3. pending \in Queues
  BY DEF Init, Queues
<1>4. TypeInv
  BY <1>1, <1>3, QueriesConstantsOK DEF Init, TypeInv, Phase, MaxTicks
<1>5. WorkIsScheduled
  BY <1>1, <1>2 DEF WorkIsScheduled
<1> QED BY <1>4, <1>5 DEF WakeupInv

LEMMA WakeupRunCoroutine ==
  ASSUME WakeupInv, RunCoroutine
  PROVE  WakeupInv'
<1> USE DEF WakeupInv
<1>1. cycle' = cycle /\ tickCount' = tickCount /\ changes' = changes
  BY DEF RunCoroutine
<1>2. stage' \in {"nothing", "normal", "background"}
  BY DEF RunCoroutine
<1>3. Scheduler \in ToSet(cycle')
  BY <1>1, SchedulerFires DEF RunCoroutine, InTick
<1>4. ASSUME Woken(pending) PROVE WorkIsScheduled'
  BY <1>1, <1>3, <1>4, StillScheduled DEF TypeInv
<1>5. CASE ProcessMutations
  <2>1. 1 \in Query
    BY QueriesConstantsOK DEF Query
  <2>2. /\ Woken(pending)
        /\ results' \in [Query -> SUBSET Key] /\ late' \in [Query -> SUBSET Key]
    BY <1>5, <2>1, VertexChangedWakes DEF ProcessMutations, TypeInv
  <2>3. TypeInv'
    BY <1>1, <1>2, <1>5, <2>2 DEF ProcessMutations, TypeInv, Woken
  <2> QED BY <1>4, <2>2, <2>3
<1>6. ASSUME NEW q \in Query, Scan(q) PROVE WakeupInv'
  <2> DEFINE left == IF phase[q] = "scheduled" THEN SourceKeys(q) ELSE todo[q]
  <2>1. left \in SUBSET Key
    <3>1. q - 1 # Graph => q - 1 \in Query
      BY QueriesConstantsOK DEF Graph, Query
    <3>2. SourceKeys(q) \in SUBSET Key
      BY <3>1 DEF SourceKeys, TypeInv
    <3> QED BY <3>2 DEF TypeInv
  <2>2. UNCHANGED <<stored, match, arriving, touched, mutated>>
    BY <1>6 DEF Scan
  <2>3. CASE /\ phase' = [phase EXCEPT ![q] = "loaded"]
             /\ next' = Scheduled(q)
             /\ UNCHANGED <<vertices, initial, todo, results, pending, late>>
    <3>1. Woken(pending)
      BY <2>3, NothingEmitted, ScheduledType, TimersDiffer DEF TypeInv
    <3>2. TypeInv'
      BY <1>1, <1>2, <2>2, <2>3, <3>1 DEF TypeInv, Woken, Phase
    <3> QED BY <1>4, <3>1, <3>2
  <2>4. ASSUME NEW k \in left,
               phase' = [phase EXCEPT ![q] = "scanning"],
               todo' = [todo EXCEPT ![q] = left \ {k}],
               CreateVertex(k), VertexChanged(pending, q, {k})
        PROVE  WakeupInv'
    <3>1. {k} \in SUBSET Key /\ left \ {k} \in SUBSET Key
      BY <2>1
    <3>2. /\ Woken(pending)
          /\ results' \in [Query -> SUBSET Key] /\ late' \in [Query -> SUBSET Key]
      BY <2>4, <3>1, VertexChangedWakes DEF TypeInv
    <3>3. TypeInv'
      <4> HIDE DEF left
      <4>1. phase' \in [Query -> Phase] /\ todo' \in [Query -> SUBSET Key]
        BY <2>4, <3>1 DEF TypeInv, Phase
      <4>2. vertices' \in SUBSET Key /\ initial' \in SUBSET Key
        BY <2>4, <3>1 DEF TypeInv, CreateVertex
      <4> QED BY <1>1, <1>2, <2>2, <3>2, <4>1, <4>2 DEF TypeInv, Woken
    <3> QED BY <1>4, <3>2, <3>3
  <2> QED BY <1>6, <2>3, <2>4 DEF Scan
<1>7. ASSUME NEW k \in Key, EmitNewCommit(k) PROVE WakeupInv'
  <2>1. Woken(pending)
    BY <1>7, NothingEmitted DEF EmitNewCommit, TypeInv
  <2>2. TypeInv'
    BY <1>1, <1>2, <1>7 DEF EmitNewCommit, CreateVertex, TypeInv
  <2> QED BY <1>4, <2>1, <2>2
<1> QED BY <1>5, <1>6, <1>7 DEF RunCoroutine

(* A timer fires and is done, and what it leaves undone is scheduled.      *)
LEMMA TimerIsDone ==
  ASSUME WakeupInv, cycle # <<>>, cycle' = Tail(cycle),
         UNCHANGED <<graphVars, queryVars>>,
         next' \in Seq(Timer), ToSet(next) \subseteq ToSet(next'),
         Head(cycle) \in Query => pending[Head(cycle)] = <<>>,
         Head(cycle) = Scheduler /\ Work => Scheduler \in ToSet(next')
  PROVE  WorkIsScheduled'
<1>1. ToSet(cycle) = {Head(cycle)} \cup ToSet(cycle')
  BY ToSetTail DEF WakeupInv, TypeInv
<1>2. Work' = Work /\ pending' = pending
  BY DEF Work, NormalWork, graphVars, queryVars
<1>3. \A q \in Query : pending'[q] # <<>> => q \in ToSet(cycle') \cup ToSet(next')
  BY <1>1, <1>2, TimersDiffer DEF WakeupInv, WorkIsScheduled
<1>4. Work' => Scheduler \in ToSet(cycle') \cup ToSet(next')
  BY <1>1, <1>2 DEF WakeupInv, WorkIsScheduled
<1> QED BY <1>3, <1>4 DEF WorkIsScheduled

LEMMA WakeupEndTick ==
  ASSUME WakeupInv, EndTick
  PROVE  WakeupInv'
<1>1. /\ next' \in Seq(Timer) /\ ToSet(next) \subseteq ToSet(next')
      /\ Work => Scheduler \in ToSet(next')
  BY ScheduledType, TimersDiffer DEF EndTick, WakeupInv, TypeInv
<1>2. WorkIsScheduled'
  BY <1>1, TimerIsDone, TimersDiffer DEF EndTick, InTick
<1>3. TypeInv'
  BY <1>1, ToSetTail DEF EndTick, InTick, WakeupInv, TypeInv, MaxTicks, graphVars, queryVars
<1> QED BY <1>2, <1>3 DEF WakeupInv

LEMMA WakeupSkipTick ==
  ASSUME WakeupInv, SkipTick
  PROVE  WakeupInv'
<1>1. /\ next' \in Seq(Timer) /\ ToSet(next) \subseteq ToSet(next')
      /\ Scheduler \in ToSet(next')
  BY ScheduledType, TimersDiffer DEF SkipTick, WakeupInv, TypeInv
<1>2. WorkIsScheduled'
  BY <1>1, TimerIsDone, TimersDiffer DEF SkipTick
<1>3. TypeInv'
  BY <1>1, ToSetTail DEF SkipTick, WakeupInv, TypeInv, MaxTicks, graphVars, queryVars
<1> QED BY <1>2, <1>3 DEF WakeupInv

LEMMA WakeupDelivered ==
  ASSUME WakeupInv, Delivered
  PROVE  WakeupInv'
<1>1. WorkIsScheduled'
  BY TimerIsDone DEF Delivered, WakeupInv, TypeInv
<1>2. TypeInv'
  BY ToSetTail DEF Delivered, WakeupInv, TypeInv, graphVars, queryVars
<1> QED BY <1>1, <1>2 DEF WakeupInv

LEMMA WakeupDeliver ==
  ASSUME WakeupInv, Deliver
  PROVE  WakeupInv'
<1> USE DEF WakeupInv
<1> DEFINE q == Head(cycle)
           event == Head(pending[q])
           queue == [pending EXCEPT ![q] = Tail(@)]
           heard == q < Depth /\ phase[q + 1] # "closed"
<1>1. q \in Query
  BY ToSetTail DEF Deliver, TypeInv, Timer
<1>2. pending[q] \in Seq(Event) /\ pending[q] # <<>>
  BY <1>1 DEF Deliver, TypeInv, Queues
<1>3. event.keys \in SUBSET Key
  <2>1. event \in Event
    BY <1>2
  <2> QED BY <2>1 DEF Event
<1>4. queue \in Queues /\ \A p \in Query : queue[p] # <<>> => pending[p] # <<>>
  BY <1>1, <1>2 DEF TypeInv, Queues
<1>5. heard => q + 1 \in Query
  BY <1>1, QueriesConstantsOK DEF Query
<1>6. UNCHANGED <<graphVars, phase, todo, cycle, tickCount, stage, changes>>
  BY DEF Deliver
<1>7. Work' = Work
  BY <1>6 DEF Work, NormalWork, graphVars
<1>8. /\ Woken(queue)
      /\ results' \in [Query -> SUBSET Key] /\ late' \in [Query -> SUBSET Key]
  <2> HIDE DEF event, queue, q
  <2>1. CASE heard /\ VertexChanged(queue, q + 1, event.keys)
    BY <1>3, <1>4, <1>5, <2>1, VertexChangedWakes
  <2>2. CASE heard /\ VertexDeleted(queue, q + 1, event.keys)
    BY <1>3, <1>4, <1>5, <2>2, VertexDeletedWakes DEF TypeInv
  <2>3. CASE pending' = queue /\ UNCHANGED <<results, late, next>>
    BY <1>4, <2>3 DEF TypeInv, Woken
  <2> QED BY <2>1, <2>2, <2>3 DEF Deliver, event, queue, q
<1>9. WorkIsScheduled'
  <2> HIDE DEF queue
  <2> QED BY <1>4, <1>6, <1>7, <1>8, StillScheduled
<1>10. TypeInv'
  BY <1>6, <1>8 DEF TypeInv, Woken, graphVars
<1> QED BY <1>9, <1>10

LEMMA WakeupReport ==
  ASSUME WakeupInv, ReportInitialFields
  PROVE  WakeupInv'
<1>1. /\ next' \in Seq(Timer) /\ ToSet(next) \subseteq ToSet(next')
      /\ Scheduler \in ToSet(next')
  BY ScheduledType, TimersDiffer DEF ReportInitialFields, WakeupInv, TypeInv
<1>2. WorkIsScheduled'
  BY <1>1 DEF ReportInitialFields, WakeupInv, WorkIsScheduled, queryVars
<1>3. TypeInv'
  BY <1>1 DEF ReportInitialFields, WakeupInv, TypeInv, queryVars
<1> QED BY <1>2, <1>3 DEF WakeupInv

LEMMA WakeupBeginCycle ==
  ASSUME WakeupInv, BeginCycle
  PROVE  WakeupInv'
<1>1. ToSet(cycle') = ToSet(next) /\ ToSet(cycle) = {}
  BY ToSetEmpty DEF BeginCycle, Between
<1>2. WorkIsScheduled'
  BY <1>1 DEF BeginCycle, WakeupInv, WorkIsScheduled, Work, NormalWork, graphVars, queryVars
<1>3. TypeInv'
  BY DEF BeginCycle, WakeupInv, TypeInv, graphVars, queryVars
<1> QED BY <1>2, <1>3 DEF WakeupInv

(* Between two cycles.                                                     *)
LEMMA WakeupMutate ==
  ASSUME WakeupInv, NEW k \in Key, NEW value \in Value, Mutate(k, value),
         UNCHANGED <<stored, vertices, arriving, initial, queryVars,
                     cycle, tickCount, stage>>,
         touched' \in SUBSET Key, changes' \in 0..MaxChanges
  PROVE  WakeupInv'
<1>1. match' \in [Key -> Value]
  BY DEF Mutate, WakeupInv, TypeInv
<1>2. CASE UNCHANGED <<mutated, next>>
  <2>1. Work' = Work
    BY <1>2 DEF Work, NormalWork, queryVars
  <2>2. WorkIsScheduled'
    BY <1>2, <2>1 DEF WakeupInv, WorkIsScheduled, queryVars
  <2>3. TypeInv'
    BY <1>1, <1>2 DEF WakeupInv, TypeInv, queryVars
  <2> QED BY <2>2, <2>3 DEF WakeupInv
<1>3. CASE mutated' = mutated \cup {k} /\ next' = Scheduled(Scheduler)
  <2>1. /\ next' \in Seq(Timer) /\ ToSet(next) \subseteq ToSet(next')
        /\ Scheduler \in ToSet(next')
    BY <1>3, ScheduledType, TimersDiffer DEF WakeupInv, TypeInv
  <2>2. WorkIsScheduled'
    BY <2>1 DEF WakeupInv, WorkIsScheduled, queryVars
  <2>3. TypeInv'
    BY <1>1, <1>3, <2>1 DEF WakeupInv, TypeInv, queryVars
  <2> QED BY <2>2, <2>3 DEF WakeupInv
<1> QED BY <1>2, <1>3 DEF Mutate

LEMMA ChangeType ==
  ASSUME TypeInv, Change
  PROVE  changes' \in 0..MaxChanges
BY QueriesConstantsOK DEF TypeInv, Change

LEMMA WakeupTouched ==
  ASSUME WakeupInv, NEW k \in Key, Touched(k)
  PROVE  WakeupInv'
<1>1. PICK value \in Value : Mutate(k, value)
  BY DEF Touched
<1>2. touched' \in SUBSET Key /\ changes' \in 0..MaxChanges
  BY DEF Touched, WakeupInv, TypeInv
<1> QED BY <1>1, <1>2, WakeupMutate DEF Touched

LEMMA WakeupEdit ==
  ASSUME WakeupInv, NEW k \in Key, Edit(k)
  PROVE  WakeupInv'
<1>1. PICK value \in Value : Mutate(k, value)
  BY DEF Edit
<1>2. touched' \in SUBSET Key /\ changes' \in 0..MaxChanges
  BY ChangeType DEF Edit, WakeupInv, TypeInv
<1> QED BY <1>1, <1>2, WakeupMutate DEF Edit

LEMMA WakeupCreate ==
  ASSUME WakeupInv, NEW k \in Key, Create(k)
  PROVE  WakeupInv'
<1>1. Work' = Work
  BY DEF Create, Work, NormalWork, queryVars
<1>2. WorkIsScheduled'
  BY <1>1 DEF Create, WakeupInv, WorkIsScheduled, queryVars, loopVars
<1>3. TypeInv'
  BY ChangeType DEF Create, CreateVertex, WakeupInv, TypeInv, queryVars, loopVars
<1> QED BY <1>2, <1>3 DEF WakeupInv

LEMMA WakeupArrive ==
  ASSUME WakeupInv, NEW k \in Key, Arrive(k)
  PROVE  WakeupInv'
<1>1. /\ next' \in Seq(Timer) /\ ToSet(next) \subseteq ToSet(next')
      /\ Scheduler \in ToSet(next')
  BY ScheduledType, TimersDiffer DEF Arrive, WakeupInv, TypeInv
<1>2. WorkIsScheduled'
  BY <1>1 DEF Arrive, WakeupInv, WorkIsScheduled
<1>3. match' \in [Key -> Value] /\ todo' \in [Query -> SUBSET Key]
  <2>1. match' \in [Key -> Value]
    BY DEF Arrive, WakeupInv, TypeInv
  <2>2. todo' = todo \/ todo' = [todo EXCEPT ![1] = @ \cup {k}]
    BY DEF Arrive
  <2>3. [todo EXCEPT ![1] = @ \cup {k}] \in [Query -> SUBSET Key]
    BY DEF WakeupInv, TypeInv
  <2> QED BY <2>1, <2>2, <2>3 DEF WakeupInv, TypeInv
<1>4. TypeInv'
  BY <1>1, <1>3, ChangeType DEF Arrive, WakeupInv, TypeInv
<1> QED BY <1>2, <1>4 DEF WakeupInv

LEMMA WakeupOpen ==
  ASSUME WakeupInv, NEW q \in Query, Open(q)
  PROVE  WakeupInv'
<1>1. /\ next' \in Seq(Timer) /\ ToSet(next) \subseteq ToSet(next')
      /\ Scheduler \in ToSet(next')
  BY ScheduledType, TimersDiffer DEF Open, WakeupInv, TypeInv
<1>2. WorkIsScheduled'
  BY <1>1 DEF Open, WakeupInv, WorkIsScheduled
<1>3. TypeInv'
  BY <1>1 DEF Open, WakeupInv, TypeInv, Phase, graphVars
<1> QED BY <1>2, <1>3 DEF WakeupInv

LEMMA WakeupNext ==
  ASSUME WakeupInv, [Next]_qvars
  PROVE  WakeupInv'
<1>1. CASE UNCHANGED qvars
  <2>1. UNCHANGED <<graphVars, queryVars, loopVars, changes>>
    BY <1>1 DEF qvars
  <2>2. Work' = Work
    BY <2>1 DEF Work, NormalWork, graphVars, queryVars
  <2>3. WorkIsScheduled'
    BY <2>1, <2>2 DEF WakeupInv, WorkIsScheduled, queryVars, loopVars
  <2>4. TypeInv'
    BY <2>1 DEF WakeupInv, TypeInv, graphVars, queryVars, loopVars
  <2> QED BY <2>3, <2>4 DEF WakeupInv
<1>2. CASE Loop
  BY <1>2, WakeupBeginCycle, WakeupRunCoroutine, WakeupEndTick, WakeupSkipTick,
     WakeupDeliver, WakeupDelivered, WakeupReport DEF Loop
<1>3. ASSUME NEW q \in Query, Open(q) PROVE WakeupInv'
  BY <1>3, WakeupOpen
<1>4. ASSUME NEW k \in Key, Touched(k) \/ Edit(k) \/ Create(k) \/ Arrive(k)
      PROVE  WakeupInv'
  BY <1>4, WakeupTouched, WakeupEdit, WakeupCreate, WakeupArrive
<1> QED BY <1>1, <1>2, <1>3, <1>4 DEF Next
------------------------------------------------------------------------------
(* The loop of a client wakes for everything that is left to do: a query   *)
(* that has to tell others, a scan, changed vertices and commits from      *)
(* elsewhere, whenever a callback or a coroutine left it.                  *)
THEOREM NoWakeupLost == Spec => []WorkIsScheduled
<1>1. Init => WakeupInv
  BY WakeupInit
<1>2. WakeupInv /\ [Next]_qvars => WakeupInv'
  BY WakeupNext
<1>3. WakeupInv => WorkIsScheduled
  BY DEF WakeupInv
<1> QED BY <1>1, <1>2, <1>3, PTL DEF Spec

(* Every variable of Queries keeps its type.                               *)
THEOREM QueriesTypeCorrect == Spec => []TypeOK
<1>1. Init => WakeupInv
  BY WakeupInit
<1>2. WakeupInv /\ [Next]_qvars => WakeupInv'
  BY WakeupNext
<1>3. ASSUME WakeupInv PROVE TypeOK
  <2>1. ToSet(cycle) \cup ToSet(next) \subseteq {Scheduler} \cup Query
    BY <1>3, ToSetType DEF WakeupInv, TypeInv, Timer
  <2>2. ASSUME NEW q \in Query PROVE ToSet(pending[q]) \subseteq Event
    <3>1. pending[q] \in Seq(Event)
      BY <1>3 DEF WakeupInv, TypeInv, Queues
    <3> QED BY <3>1, ToSetType
  <2> QED BY <1>3, <2>1, <2>2 DEF WakeupInv, TypeInv, TypeOK
<1> QED BY <1>1, <1>2, <1>3, PTL DEF Spec
------------------------------------------------------------------------------
(* What a query has told of a key.                                         *)

(* The last event about k in the queue s is of a type.                     *)
LastIs(type, s, k) ==
  \E i \in DOMAIN s :
    /\ s[i].type = type /\ k \in s[i].keys
    /\ \A j \in DOMAIN s : k \in s[j].keys /\ s[j].type # type => j < i

Changed(q, k) == LastIs("changed", pending[q], k)
Deleted(q, k) == LastIs("deleted", pending[q], k)

(* Where some event is about a key, one of them is the last.               *)
LEMMA LastMention ==
  ASSUME NEW s \in Seq(Event), NEW k, NEW i \in DOMAIN s, k \in s[i].keys
  PROVE  LastIs("changed", s, k) \/ LastIs("deleted", s, k)
<1> DEFINE R == {ss \in Nat \X Nat : ss[1] < ss[2]}
           About == {j \in DOMAIN s : k \in s[j].keys}
           Behind == {Len(s) - j : j \in About}
<1>1. IsWellFoundedOn(R, Nat)
  BY NatLessThanWellFounded DEF OpToRel
<1>2. Behind \subseteq Nat /\ Behind # {}
  <2>1. \A j \in About : Len(s) - j \in Nat
    OBVIOUS
  <2> QED BY <2>1
<1> HIDE DEF R, Behind
<1>3. PICK x \in Behind : \A y \in Behind : <<y, x>> \notin R
  BY <1>1, <1>2, WFMin
<1>4. PICK m \in About : x = Len(s) - m
  BY <1>3 DEF Behind
<1>5. ASSUME NEW j \in About PROVE j <= m
  <2>1. Len(s) - j \in Behind /\ Len(s) - j \in Nat /\ x \in Nat
    BY <1>2 DEF Behind
  <2>2. ~(Len(s) - j < x)
    BY <1>3, <2>1 DEF R
  <2> QED BY <1>4, <2>2
<1>6. s[m] \in Event /\ k \in s[m].keys
  BY <1>4
<1>7. s[m].type \in {"changed", "deleted"}
  BY <1>6 DEF Event
<1>8. \A j \in DOMAIN s : k \in s[j].keys /\ s[j].type # s[m].type => j < m
  <2>1. \A j \in DOMAIN s : k \in s[j].keys => j <= m
    BY <1>5
  <2> QED BY <1>4, <2>1
<1> QED BY <1>4, <1>6, <1>7, <1>8 DEF LastIs

LEMMA OneLast ==
  ASSUME NEW s \in Seq(Event), NEW k, LastIs("changed", s, k)
  PROVE  ~LastIs("deleted", s, k)
BY DEF LastIs

LEMMA LastOfAppend ==
  ASSUME NEW s \in Seq(Event), NEW e \in Event, NEW k
  PROVE  /\ k \in e.keys => LastIs(e.type, Append(s, e), k)
         /\ k \notin e.keys =>
              \A type : LastIs(type, Append(s, e), k) <=> LastIs(type, s, k)
<1> DEFINE t == Append(s, e)
<1>1. /\ DOMAIN t = 1..(Len(s) + 1) /\ DOMAIN s = 1..Len(s) /\ Len(s) \in Nat
      /\ t[Len(s) + 1] = e /\ \A i \in DOMAIN s : t[i] = s[i]
  OBVIOUS
<1> HIDE DEF t
<1>2. ASSUME k \in e.keys PROVE LastIs(e.type, t, k)
  <2>1. Len(s) + 1 \in DOMAIN t
    BY <1>1
  <2>2. \A j \in DOMAIN t : j # Len(s) + 1 => j < Len(s) + 1
    BY <1>1
  <2> QED BY <1>1, <1>2, <2>1, <2>2 DEF LastIs
<1>3. ASSUME k \notin e.keys, NEW type PROVE LastIs(type, t, k) <=> LastIs(type, s, k)
  <2>1. \A i \in DOMAIN t : k \in t[i].keys => i \in DOMAIN s /\ s[i] = t[i]
    BY <1>1, <1>3
  <2>2. \A i \in DOMAIN s : i \in DOMAIN t /\ s[i] = t[i]
    BY <1>1
  <2> QED BY <2>1, <2>2 DEF LastIs
<1> QED BY <1>2, <1>3 DEF t

LEMMA LastOfTail ==
  ASSUME NEW s \in Seq(Event), s # <<>>, NEW type, NEW k
  PROVE  /\ LastIs(type, Tail(s), k) => LastIs(type, s, k)
         /\ LastIs(type, s, k) =>
              \/ LastIs(type, Tail(s), k)
              \/ k \in Head(s).keys /\ Head(s).type = type
<1> DEFINE t == Tail(s)
<1>1. /\ DOMAIN s = 1..Len(s) /\ Len(s) \in Nat \ {0} /\ DOMAIN t = 1..(Len(s) - 1)
      /\ s[1] = Head(s) /\ \A i \in DOMAIN t : t[i] = s[i + 1]
  OBVIOUS
<1> HIDE DEF t
<1>2. ASSUME LastIs(type, t, k) PROVE LastIs(type, s, k)
  <2>1. PICK i \in DOMAIN t :
           /\ t[i].type = type /\ k \in t[i].keys
           /\ \A j \in DOMAIN t : k \in t[j].keys /\ t[j].type # type => j < i
    BY <1>2 DEF LastIs
  <2>2. i + 1 \in DOMAIN s /\ s[i + 1] = t[i]
    BY <1>1
  <2>3. ASSUME NEW j \in DOMAIN s, k \in s[j].keys, s[j].type # type PROVE j < i + 1
    <3>1. CASE j = 1
      BY <1>1, <3>1
    <3>2. CASE j # 1
      <4>1. j - 1 \in DOMAIN t /\ t[j - 1] = s[j]
        BY <1>1, <3>2
      <4>2. j - 1 < i
        BY <2>1, <2>3, <4>1
      <4> QED BY <1>1, <4>2
    <3> QED BY <3>1, <3>2
  <2> QED BY <2>1, <2>2, <2>3 DEF LastIs
<1>3. ASSUME LastIs(type, s, k), ~(k \in Head(s).keys /\ Head(s).type = type)
      PROVE  LastIs(type, t, k)
  <2>1. PICK i \in DOMAIN s :
           /\ s[i].type = type /\ k \in s[i].keys
           /\ \A j \in DOMAIN s : k \in s[j].keys /\ s[j].type # type => j < i
    BY <1>3 DEF LastIs
  <2>2. i - 1 \in DOMAIN t /\ t[i - 1] = s[i]
    BY <1>1, <1>3, <2>1
  <2>3. ASSUME NEW j \in DOMAIN t, k \in t[j].keys, t[j].type # type PROVE j < i - 1
    <3>1. j + 1 \in DOMAIN s /\ s[j + 1] = t[j]
      BY <1>1
    <3>2. j + 1 < i
      BY <2>1, <2>3, <3>1
    <3> QED BY <1>1, <3>2
  <2> QED BY <2>1, <2>2, <2>3 DEF LastIs
<1> QED BY <1>2, <1>3 DEF t

LEMMA LastOfEmit ==
  ASSUME NEW s \in Seq(Event), NEW type \in {"changed", "deleted"},
         NEW keys \in SUBSET Key, NEW k
  PROVE  LET t == s \o EventOf(type, keys)
         IN /\ t \in Seq(Event)
            /\ k \in keys => LastIs(type, t, k)
            /\ k \notin keys => \A any : LastIs(any, t, k) <=> LastIs(any, s, k)
<1> DEFINE t == s \o EventOf(type, keys)
           e == [type |-> type, keys |-> keys]
<1>1. CASE keys = {}
  <2>1. EventOf(type, keys) = <<>>
    BY <1>1 DEF EventOf
  <2>2. t = s
    BY <2>1
  <2> QED BY <1>1, <2>2
<1>2. CASE keys # {}
  <2>1. e \in Event /\ e.keys = keys /\ e.type = type
    BY <1>2 DEF Event
  <2>2. EventOf(type, keys) = <<e>>
    BY <1>2 DEF EventOf
  <2> HIDE DEF e
  <2>3. t = Append(s, e)
    BY <2>1, <2>2, AppendIsConcat
  <2>4. t \in Seq(Event)
    BY <2>1, <2>3
  <2> QED BY <2>1, <2>3, <2>4, LastOfAppend
<1> QED BY <1>1, <1>2
------------------------------------------------------------------------------
(* What a step makes of one key in one query.                              *)

SameResults(q, k) ==
  /\ k \in results'[q] <=> k \in results[q]
  /\ k \in late'[q] <=> k \in late[q]

SameAt(q, k) ==
  /\ SameResults(q, k)
  /\ Changed(q, k)' <=> Changed(q, k)
  /\ Deleted(q, k)' <=> Deleted(q, k)

Enters(q, k) ==
  /\ q \in match[k] /\ k \in results'[q]
  /\ Changed(q, k)' /\ ~Deleted(q, k)'
  /\ k \in late'[q] \/ \A p \in 1..(q - 1) : k \in results[p]

Leaves(q, k) ==
  /\ k \notin results'[q]
  /\ k \in results[q] /\ k \notin late'[q] => Deleted(q, k)'
  /\ k \notin results[q] => (Deleted(q, k)' <=> Deleted(q, k))

LEMMA LooksAt ==
  ASSUME TypeInv, NEW queue \in Queues, NEW q \in Query, NEW keys \in SUBSET Key,
         queue[q] = pending[q], VertexChanged(queue, q, keys), NEW k \in Key
  PROVE  /\ pending' \in Queues
         /\ \A p \in Query \ {q} : SameResults(p, k) /\ pending'[p] = queue[p]
         /\ k \notin keys => SameAt(q, k)
         /\ k \in late[q] => k \in late'[q]
         /\ k \in keys => \/ Enters(q, k)
                          \/ Leaves(q, k) /\ q \notin match[k]
<1> DEFINE in == {x \in keys : q \in match[x]}
           gone == (keys \ in) \cap results[q] \cap SourceHas(q)
           one == EventOf("changed", in)
           two == EventOf("deleted", gone)
           s == pending[q] \o one
           t == pending[q] \o (one \o two)
<1>1. /\ results' = [results EXCEPT ![q] = (@ \ keys) \cup in]
      /\ late' = [late EXCEPT ![q] = @ \cup (keys \ SourceHas(q))]
      /\ Emit(queue, q, one \o two)
  BY DEF VertexChanged
<1>2. in \in SUBSET Key /\ gone \in SUBSET Key /\ in \cap gone = {}
  OBVIOUS
<1>3. k \in SourceHas(q) <=> \A p \in 1..(q - 1) : k \in results[p]
  BY DEF SourceHas
<1>4. k \in keys => (k \in in <=> q \in match[k])
  OBVIOUS
<1>5. k \in gone <=> k \in keys /\ k \notin in /\ k \in results[q] /\ k \in SourceHas(q)
  OBVIOUS
<1>6. in \subseteq keys
  OBVIOUS
<1> HIDE DEF in, gone
<1>7. pending[q] \in Seq(Event) /\ one \in Seq(Event) /\ two \in Seq(Event)
  BY <1>2, EventOfType DEF TypeInv, Queues
<1>8. /\ s \in Seq(Event)
      /\ k \in in => LastIs("changed", s, k)
      /\ k \notin in => \A any : LastIs(any, s, k) <=> LastIs(any, pending[q], k)
  BY <1>2, <1>7, LastOfEmit
<1>9. /\ s \o two \in Seq(Event)
      /\ k \in gone => LastIs("deleted", s \o two, k)
      /\ k \notin gone => \A any : LastIs(any, s \o two, k) <=> LastIs(any, s, k)
  <2> HIDE DEF s
  <2> QED BY <1>2, <1>8, LastOfEmit
<1>10. s \o two = t
  <2> HIDE DEF one, two
  <2> DEFINE u == pending[q]
  <2>1. u \in Seq(Event)
    BY <1>7
  <2> HIDE DEF u
  <2>2. (u \o one) \o two = u \o (one \o two)
    BY <1>7, <2>1
  <2> QED BY <2>2 DEF u
<1>11. pending' = [queue EXCEPT ![q] = t]
  BY <1>1 DEF Emit
<1> HIDE DEF s, t, one, two
<1>12. /\ pending' \in Queues /\ pending'[q] = t
       /\ \A p \in Query \ {q} : pending'[p] = queue[p]
  BY <1>9, <1>10, <1>11 DEF Queues
<1>13. /\ k \in in => LastIs("changed", t, k)
       /\ k \in gone => LastIs("deleted", t, k)
       /\ k \notin in /\ k \notin gone =>
            \A any : LastIs(any, t, k) <=> LastIs(any, pending[q], k)
  BY <1>2, <1>8, <1>9, <1>10
<1>14. /\ Changed(q, k)' <=> LastIs("changed", t, k)
       /\ Deleted(q, k)' <=> LastIs("deleted", t, k)
  BY <1>12 DEF Changed, Deleted, LastIs
<1>15. /\ Changed(q, k) <=> LastIs("changed", pending[q], k)
       /\ Deleted(q, k) <=> LastIs("deleted", pending[q], k)
  BY DEF Changed, Deleted
<1>16. /\ \A p \in Query \ {q} : results'[p] = results[p] /\ late'[p] = late[p]
       /\ results'[q] = (results[q] \ keys) \cup in
       /\ late'[q] = late[q] \cup (keys \ SourceHas(q))
  BY <1>1 DEF TypeInv
<1>17. k \in in => Changed(q, k)' /\ ~Deleted(q, k)'
  BY <1>9, <1>10, <1>13, <1>14, OneLast
<1>18. k \notin keys => SameAt(q, k)
  BY <1>5, <1>6, <1>13, <1>14, <1>15, <1>16 DEF SameAt, SameResults
<1>19. k \in in => Enters(q, k)
  BY <1>3, <1>4, <1>6, <1>16, <1>17 DEF Enters
<1>20. k \in keys /\ k \notin in => Leaves(q, k) /\ q \notin match[k]
  BY <1>4, <1>5, <1>13, <1>14, <1>15, <1>16 DEF Leaves
<1> QED BY <1>12, <1>16, <1>18, <1>19, <1>20 DEF SameResults

LEMMA IsToldOfLoss ==
  ASSUME TypeInv, NEW queue \in Queues, NEW q \in Query, NEW keys \in SUBSET Key,
         queue[q] = pending[q], VertexDeleted(queue, q, keys), NEW k \in Key
  PROVE  /\ pending' \in Queues
         /\ \A p \in Query \ {q} : SameResults(p, k) /\ pending'[p] = queue[p]
         /\ k \notin keys => SameAt(q, k)
         /\ k \in late[q] => k \in late'[q]
         /\ k \in keys => Leaves(q, k)
<1> DEFINE gone == keys \cap results[q]
           t == pending[q] \o EventOf("deleted", gone)
<1>1. /\ results' = [results EXCEPT ![q] = @ \ keys] /\ late' = late
      /\ pending' = [queue EXCEPT ![q] = t]
  BY DEF VertexDeleted, Emit
<1>2. gone \in SUBSET Key /\ pending[q] \in Seq(Event)
  BY DEF TypeInv, Queues
<1>3. k \in gone <=> k \in keys /\ k \in results[q]
  OBVIOUS
<1> HIDE DEF gone
<1>4. /\ t \in Seq(Event)
      /\ k \in gone => LastIs("deleted", t, k)
      /\ k \notin gone => \A any : LastIs(any, t, k) <=> LastIs(any, pending[q], k)
  BY <1>2, LastOfEmit
<1> HIDE DEF t
<1>5. /\ pending' \in Queues /\ pending'[q] = t
      /\ \A p \in Query \ {q} : pending'[p] = queue[p]
  BY <1>1, <1>4 DEF Queues
<1>6. /\ Changed(q, k)' <=> LastIs("changed", t, k)
      /\ Deleted(q, k)' <=> LastIs("deleted", t, k)
  BY <1>5 DEF Changed, Deleted, LastIs
<1>7. /\ Changed(q, k) <=> LastIs("changed", pending[q], k)
      /\ Deleted(q, k) <=> LastIs("deleted", pending[q], k)
  BY DEF Changed, Deleted
<1>8. /\ \A p \in Query \ {q} : results'[p] = results[p] /\ late'[p] = late[p]
      /\ results'[q] = results[q] \ keys /\ late'[q] = late[q]
  BY <1>1 DEF TypeInv
<1>9. k \notin keys => SameAt(q, k)
  BY <1>3, <1>4, <1>6, <1>7, <1>8 DEF SameAt, SameResults
<1>10. k \in keys => Leaves(q, k)
  BY <1>3, <1>4, <1>6, <1>7, <1>8 DEF Leaves
<1> QED BY <1>5, <1>8, <1>9, <1>10 DEF SameResults
------------------------------------------------------------------------------
(* What the results of the queries have to do with each other, key by key. *)

Fresh == initial \cup mutated \cup (arriving \ vertices)

ToScan(q) ==
  IF phase[q] = "scheduled" THEN SourceKeys(q)
  ELSE IF phase[q] = "scanning" THEN todo[q] ELSE {}

IsLate(q, k) == \E p \in 1..q : k \in late[p]

(* Something that is under way will make query q look at k, and those      *)
(* above it before.                                                        *)
IsComing(q, k) ==
  \/ k \in Fresh
  \/ \E p \in 1..q : k \in ToScan(p)
  \/ \E p \in 1..(q - 1) : Changed(p, k)

(* Something that is under way will make query q look at k or lose it.     *)
IsNews(q, k) ==
  \/ k \in Fresh
  \/ \E p \in 1..(q - 1) : Changed(p, k) \/ Deleted(p, k)

Known(k) ==
  k \notin vertices =>
    /\ k \notin initial \cup mutated \cup touched
    /\ \A q \in Query : k \notin results[q] /\ ~Changed(q, k) /\ ~Deleted(q, k)

DeletedIsGone(k) == \A q \in Query : Deleted(q, k) => k \notin results[q]

NotMissed(k) ==
  \A q \in Query : phase[q] # "closed" /\ k \in Meant(q) =>
    k \in results[q] \/ IsComing(q, k)

FollowsSource(k) ==
  \A q \in Query : k \in results[q] /\ ~IsLate(q, k) =>
    \A p \in 1..(q - 1) : k \in results[p] \/ \E r \in p..(q - 1) : Deleted(r, k)

Satisfies(k) ==
  \A q \in Query : k \in results[q] /\ ~IsLate(q, k) =>
    1..q \subseteq match[k] \/ IsNews(q, k)

KeyInv(k) ==
  Known(k) /\ DeletedIsGone(k) /\ NotMissed(k) /\ FollowsSource(k) /\ Satisfies(k)

(* A query is opened after its source.                                     *)
Opened ==
  /\ phase[1] # "closed"
  /\ \A q \in Query : phase[q] = "closed" => results[q] = {}
  /\ \A p, q \in Query : p < q /\ phase[q] # "closed" => phase[p] # "closed"

ResultsInv == TypeInv /\ Opened /\ \A k \in Key : KeyInv(k)

(* No query looks at k: what is under way stays so, or its vertex has a    *)
(* new value that the graph will look at.                                  *)
LEMMA NobodyLooks ==
  ASSUME NEW k \in Key, KeyInv(k),
         \A q \in Query : SameAt(q, k),
         k \notin vertices' => k \notin vertices /\ k \notin initial' \cup mutated' \cup touched',
         \/ k \in Fresh'
         \/ /\ k \notin Fresh /\ match'[k] = match[k]
            /\ k \in stored' \cup vertices' => k \in stored \cup vertices
            /\ \A q \in Query : /\ phase'[q] # "closed" => phase[q] # "closed"
                                /\ k \in ToScan(q) => k \in ToScan(q)'
  PROVE  KeyInv(k)'
<1> USE DEF SameAt, SameResults
<1>0. \A q \in Query, p \in Nat : p \in 1..q => p \in Query
  BY QueriesConstantsOK DEF Query
<1>1. Known(k)'
  BY DEF KeyInv, Known
<1>2. DeletedIsGone(k)'
  BY DEF KeyInv, DeletedIsGone
<1>3. \A q \in Query : IsLate(q, k)' <=> IsLate(q, k)
  BY <1>0 DEF IsLate
<1>4. FollowsSource(k)'
  <2> SUFFICES ASSUME NEW q \in Query, k \in results'[q], ~IsLate(q, k)',
                      NEW p \in 1..(q - 1), k \notin results'[p]
               PROVE  \E r \in p..(q - 1) : Deleted(r, k)'
    BY DEF FollowsSource
  <2>1. p \in Query
    BY QueriesConstantsOK DEF Query
  <2>2. PICK r \in p..(q - 1) : Deleted(r, k)
    BY <1>3, <2>1 DEF KeyInv, FollowsSource
  <2>3. r \in Query
    BY QueriesConstantsOK DEF Query
  <2> QED BY <2>2, <2>3
<1>5. NotMissed(k)'
  <2> SUFFICES ASSUME NEW q \in Query, phase'[q] # "closed", k \in Meant(q)',
                      k \notin results'[q], k \notin Fresh'
               PROVE  IsComing(q, k)'
    BY DEF NotMissed, IsComing
  <2>1. k \in Meant(q) /\ phase[q] # "closed" /\ k \notin results[q] /\ k \notin Fresh
    BY DEF Meant
  <2>2. IsComing(q, k)
    BY <2>1 DEF KeyInv, NotMissed
  <2>3. CASE \E p \in 1..q : k \in ToScan(p)
    BY <1>0, <2>3 DEF IsComing
  <2>4. CASE \E p \in 1..(q - 1) : Changed(p, k)
    <3>1. PICK p \in 1..(q - 1) : Changed(p, k)
      BY <2>4
    <3>2. p \in Query
      BY QueriesConstantsOK DEF Query
    <3> QED BY <3>1, <3>2 DEF IsComing
  <2> QED BY <2>1, <2>2, <2>3, <2>4 DEF IsComing
<1>6. Satisfies(k)'
  <2> SUFFICES ASSUME NEW q \in Query, k \in results'[q], ~IsLate(q, k)',
                      ~(1..q \subseteq match'[k]), k \notin Fresh'
               PROVE  IsNews(q, k)'
    BY DEF Satisfies, IsNews
  <2>1. IsNews(q, k) /\ k \notin Fresh
    BY <1>3 DEF KeyInv, Satisfies
  <2>2. PICK p \in 1..(q - 1) : Changed(p, k) \/ Deleted(p, k)
    BY <2>1 DEF IsNews
  <2>3. p \in Query
    BY QueriesConstantsOK DEF Query
  <2> QED BY <2>2, <2>3 DEF IsNews
<1> QED BY <1>1, <1>2, <1>4, <1>5, <1>6 DEF KeyInv

(* Query q looks at k, or hears that its source has lost k.                *)
LEMMA OneLooks ==
  ASSUME NEW k \in Key, KeyInv(k), Opened, NEW q \in Query,
         k \in vertices', match'[k] = match[k],
         k \in Fresh' \/ (k \in stored \cup vertices /\ (k \in Fresh => q = 1)),
         \A p \in Query : phase'[p] # "closed" <=> phase[p] # "closed",
         \A p \in Query : p # q => SameResults(p, k),
         \A p \in Query : p # q /\ p # q - 1 => SameAt(p, k),
         q > 1 => (Deleted(q - 1, k)' => Deleted(q - 1, k)),
         \A p \in 1..(q - 1) : k \in ToScan(p) => k \in ToScan(p)',
         k \in late[q] => k \in late'[q],
         \/ Enters(q, k)
         \/ /\ Leaves(q, k)
            /\ \/ q \notin match[k]
               \/ /\ q > 1 /\ phase[q] # "closed"
                  /\ Changed(q - 1, k)' \/ Deleted(q - 1, k)
  PROVE  KeyInv(k)'
<1>0. /\ Query = 1..Depth /\ Depth \in Nat
      /\ q > 1 => q - 1 \in Query
  BY QueriesConstantsOK DEF Query
<1>1. Known(k)'
  BY DEF Known
<1>2. DeletedIsGone(k)'
  <2> SUFFICES ASSUME NEW p \in Query, Deleted(p, k)' PROVE k \notin results'[p]
    BY DEF DeletedIsGone
  <2>1. CASE p = q
    BY <2>1 DEF Enters, Leaves
  <2>2. CASE p # q
    <3>1. Deleted(p, k)
      BY <1>0, <2>2 DEF SameAt
    <3> QED BY <2>2, <3>1 DEF SameResults, KeyInv, DeletedIsGone
  <2> QED BY <2>1, <2>2
<1>3. \A t \in Query : /\ IsLate(t, k) => IsLate(t, k)'
                       /\ t < q => (IsLate(t, k)' => IsLate(t, k))
  BY <1>0 DEF IsLate, SameResults
<1>4. \A t \in Query : t >= q /\ ~IsLate(t, k)' => k \notin late'[q]
  BY <1>0 DEF IsLate
(* Above q: when q drops k, so does everybody who has it, in the end.      *)
<1>5. ASSUME NEW t \in Query, t > q, k \in results'[t], ~IsLate(t, k)',
             ~Enters(q, k)
      PROVE  \E r \in q..(t - 1) : Deleted(r, k)'
  <2>1. Leaves(q, k) /\ k \notin late'[q]
    BY <1>4, <1>5, <1>0
  <2>2. k \in results[t] /\ ~IsLate(t, k)
    BY <1>3, <1>5, <1>0 DEF SameResults
  <2>3. CASE k \in results[q]
    <3>1. Deleted(q, k)' /\ q \in q..(t - 1)
      BY <1>0, <1>5, <2>1, <2>3 DEF Leaves
    <3> QED BY <3>1
  <2>4. CASE k \notin results[q]
    <3>1. q \in 1..(t - 1)
      BY <1>0, <1>5
    <3>2. PICK r \in q..(t - 1) : Deleted(r, k)
      BY <2>2, <2>4, <3>1 DEF KeyInv, FollowsSource
    <3>3. r \in Query /\ r # q - 1
      BY <1>0, <3>2
    <3>4. Deleted(r, k)'
      BY <2>1, <2>4, <3>2, <3>3 DEF Leaves, SameAt
    <3> QED BY <3>2, <3>4
  <2> QED BY <2>3, <2>4
<1>6. FollowsSource(k)'
  <2> SUFFICES ASSUME NEW t \in Query, k \in results'[t], ~IsLate(t, k)',
                      NEW p \in 1..(t - 1), k \notin results'[p]
               PROVE  \E r \in p..(t - 1) : Deleted(r, k)'
    BY DEF FollowsSource
  <2>0. p \in Query /\ p < t
    BY <1>0
  <2>1. CASE t < q
    <3>1. k \in results[t] /\ ~IsLate(t, k) /\ k \notin results[p]
      BY <1>0, <1>3, <2>0, <2>1 DEF SameResults
    <3>2. PICK r \in p..(t - 1) : Deleted(r, k)
      BY <3>1 DEF KeyInv, FollowsSource
    <3>3. r \in Query /\ r # q /\ r # q - 1
      BY <1>0, <2>1, <3>2
    <3> QED BY <3>2, <3>3 DEF SameAt
  <2>2. CASE t = q
    <3>1. Enters(q, k) /\ k \notin late'[q]
      BY <1>0, <1>4, <2>2 DEF Leaves
    <3>2. k \in results[p]
      BY <2>2, <3>1 DEF Enters
    <3> QED BY <1>0, <2>0, <2>2, <3>2 DEF SameResults
  <2>3. CASE t > q
    <3>1. CASE p > q
      <4>1. k \in results[t] /\ ~IsLate(t, k) /\ k \notin results[p]
        BY <1>0, <1>3, <2>0, <2>3, <3>1 DEF SameResults
      <4>2. PICK r \in p..(t - 1) : Deleted(r, k)
        BY <4>1 DEF KeyInv, FollowsSource
      <4>3. r \in Query /\ r # q /\ r # q - 1
        BY <1>0, <3>1, <4>2
      <4> QED BY <4>2, <4>3 DEF SameAt
    <3>2. CASE p <= q
      <4>1. CASE Enters(q, k)
        <5>1. k \in results'[q] /\ k \notin late'[q]
          BY <1>0, <1>4, <2>3, <4>1 DEF Enters
        <5>2. p # q /\ k \in results[p]
          BY <1>0, <2>0, <3>2, <4>1, <5>1 DEF Enters
        <5> QED BY <2>0, <5>2 DEF SameResults
      <4>2. CASE ~Enters(q, k)
        <5>1. PICK r \in q..(t - 1) : Deleted(r, k)'
          BY <1>5, <2>3, <4>2
        <5>2. r \in p..(t - 1)
          BY <1>0, <3>2, <5>1
        <5> QED BY <5>1, <5>2
      <4> QED BY <4>1, <4>2
    <3> QED BY <1>0, <2>0, <3>1, <3>2
  <2> QED BY <1>0, <2>1, <2>2, <2>3
<1>7. Satisfies(k)'
  <2> SUFFICES ASSUME NEW t \in Query, k \in results'[t], ~IsLate(t, k)',
                      ~(1..t \subseteq match[k]), k \notin Fresh'
               PROVE  IsNews(t, k)'
    BY DEF Satisfies, IsNews
  (* Below q nothing changes. *)
  <2>1. ASSUME NEW u \in Query, u < q, k \in results[u], ~IsLate(u, k),
               ~(1..u \subseteq match[k])
        PROVE  \E p \in 1..(u - 1) : Changed(p, k)' \/ Deleted(p, k)'
    <3>1. k \notin Fresh
      BY <1>0, <2>1
    <3>2. PICK p \in 1..(u - 1) : Changed(p, k) \/ Deleted(p, k)
      BY <2>1, <3>1 DEF KeyInv, Satisfies, IsNews
    <3>3. p \in Query /\ p # q /\ p # q - 1
      BY <1>0, <2>1, <3>2
    <3> QED BY <3>2, <3>3 DEF SameAt
  <2>2. CASE t < q
    <3>1. k \in results[t] /\ ~IsLate(t, k)
      BY <1>0, <1>3, <2>2 DEF SameResults
    <3> QED BY <2>1, <2>2, <3>1 DEF IsNews
  <2>3. CASE t = q
    <3>1. q \in match[k] /\ k \notin late'[q] /\ \A p \in 1..(q - 1) : k \in results[p]
      BY <1>0, <1>4, <2>3 DEF Enters, Leaves
    <3>2. q > 1 /\ ~(1..(q - 1) \subseteq match[k])
      BY <1>0, <2>3, <3>1
    <3>3. q - 1 \in Query /\ k \in results[q - 1] /\ ~IsLate(q - 1, k)
      <4>1. \A p \in 1..(q - 1) : p \in 1..q /\ p \in Query /\ p # q
        BY <1>0
      <4>2. ~IsLate(q - 1, k)
        BY <2>3, <4>1 DEF IsLate, SameResults
      <4> QED BY <1>0, <3>1, <3>2, <4>2
    <3>4. PICK p \in 1..(q - 1 - 1) : Changed(p, k)' \/ Deleted(p, k)'
      BY <1>0, <2>1, <3>2, <3>3
    <3>5. p \in 1..(t - 1)
      BY <1>0, <2>3, <3>4
    <3> QED BY <3>4, <3>5 DEF IsNews
  <2>4. CASE t > q
    <3>1. CASE Enters(q, k)
      <4>1. Changed(q, k)' /\ q \in 1..(t - 1)
        BY <1>0, <2>4, <3>1 DEF Enters
      <4> QED BY <4>1 DEF IsNews
    <3>2. CASE ~Enters(q, k)
      <4>1. PICK r \in q..(t - 1) : Deleted(r, k)'
        BY <1>5, <2>4, <3>2
      <4>2. r \in 1..(t - 1)
        BY <1>0, <4>1
      <4> QED BY <4>1, <4>2 DEF IsNews
    <3> QED BY <3>1, <3>2
  <2> QED BY <1>0, <2>2, <2>3, <2>4
<1>8. NotMissed(k)'
  <2> SUFFICES ASSUME NEW t \in Query, phase'[t] # "closed", k \in Meant(t)',
                      k \notin results'[t], k \notin Fresh'
               PROVE  IsComing(t, k)'
    BY DEF NotMissed, IsComing
  <2>1. 1..t \subseteq match[k] /\ phase[t] # "closed" /\ k \in stored \cup vertices
    BY DEF Meant
  (* Below q nothing changes. *)
  <2>2. ASSUME NEW u \in Query, u < q, u <= t, phase[u] # "closed", k \notin results[u]
        PROVE  IsComing(t, k)'
    <3>1. k \notin Fresh
      BY <1>0, <2>2
    <3>2. 1..u \subseteq match[k]
      BY <1>0, <2>1, <2>2
    <3>3. k \in Meant(u)
      BY <2>1, <3>2 DEF Meant
    <3>4. IsComing(u, k)
      BY <2>2, <3>3 DEF KeyInv, NotMissed
    <3>5. CASE \E p \in 1..u : k \in ToScan(p)
      <4>1. PICK p \in 1..u : k \in ToScan(p)
        BY <3>5
      <4>2. p \in 1..(q - 1) /\ p \in 1..t
        BY <1>0, <2>2, <4>1
      <4> QED BY <4>1, <4>2 DEF IsComing
    <3>6. CASE \E p \in 1..(u - 1) : Changed(p, k)
      <4>1. PICK p \in 1..(u - 1) : Changed(p, k)
        BY <3>6
      <4>2. p \in Query /\ p # q /\ p # q - 1 /\ p \in 1..(t - 1)
        BY <1>0, <2>2, <4>1
      <4> QED BY <4>1, <4>2 DEF SameAt, IsComing
    <3> QED BY <3>1, <3>4, <3>5, <3>6 DEF IsComing
  <2>3. CASE t < q
    BY <1>0, <2>1, <2>2, <2>3 DEF SameResults
  <2>4. CASE t >= q /\ Enters(q, k)
    <3>1. t # q
      BY <2>4 DEF Enters
    <3>2. q \in 1..(t - 1) /\ Changed(q, k)'
      BY <1>0, <2>4, <3>1 DEF Enters
    <3> QED BY <3>2 DEF IsComing
  <2>5. CASE t >= q /\ ~Enters(q, k)
    <3>1. q \in match[k]
      BY <1>0, <2>1, <2>5
    <3>2. q > 1 /\ phase[q] # "closed" /\ (Changed(q - 1, k)' \/ Deleted(q - 1, k))
      BY <2>5, <3>1
    <3>3. q - 1 \in Query /\ q - 1 \in 1..(t - 1) /\ q - 1 < q /\ q - 1 <= t
      BY <1>0, <2>5, <3>2
    <3>4. CASE Changed(q - 1, k)'
      BY <3>3, <3>4 DEF IsComing
    <3>5. CASE Deleted(q - 1, k)
      <4>1. k \notin results[q - 1]
        BY <3>3, <3>5 DEF KeyInv, DeletedIsGone
      <4>2. phase[q - 1] # "closed"
        BY <3>2, <3>3 DEF Opened
      <4> QED BY <2>2, <3>3, <4>1, <4>2
    <3> QED BY <3>2, <3>4, <3>5
  <2> QED BY <1>0, <2>3, <2>4, <2>5
<1> QED BY <1>1, <1>2, <1>6, <1>7, <1>8 DEF KeyInv

(* A step that leaves the queries alone.                                   *)
LEMMA QueriesRest ==
  ASSUME NEW k \in Key, KeyInv(k), UNCHANGED <<results, pending, late>>,
         k \notin vertices' => k \notin vertices /\ k \notin initial' \cup mutated' \cup touched',
         \/ k \in Fresh'
         \/ /\ k \notin Fresh /\ match'[k] = match[k]
            /\ k \in stored' \cup vertices' => k \in stored \cup vertices
            /\ \A q \in Query : /\ phase'[q] # "closed" => phase[q] # "closed"
                                /\ k \in ToScan(q) => k \in ToScan(q)'
  PROVE  KeyInv(k)'
<1>1. \A q \in Query : SameAt(q, k)
  BY DEF SameAt, SameResults, Changed, Deleted, LastIs
<1> QED BY <1>1, NobodyLooks

LEMMA StillToScan ==
  ASSUME NEW k \in Key, NEW q \in Query, stored \subseteq stored',
         phase'[q] = phase[q], todo'[q] = todo[q],
         q > 1 => SameResults(q - 1, k)
  PROVE  k \in ToScan(q) => k \in ToScan(q)'
<1>1. q - 1 = Graph \/ q > 1
  BY QueriesConstantsOK DEF Query, Graph
<1> QED BY <1>1 DEF ToScan, SourceKeys, SameResults, Graph

LEMMA ResultsInit == Init => ResultsInv
<1> SUFFICES ASSUME Init PROVE ResultsInv
  OBVIOUS
<1>1. TypeInv
  BY WakeupInit DEF WakeupInv
<1>2. 1 \in Query
  BY QueriesConstantsOK DEF Query
<1>3. Opened
  BY <1>2, QueriesConstantsOK DEF Init, Opened, Query
<1>4. ASSUME NEW k \in Key PROVE KeyInv(k)
  <2>1. \A q \in Query : k \notin results[q] /\ ~Changed(q, k) /\ ~Deleted(q, k)
    BY DEF Init, Changed, Deleted, LastIs
  <2>2. Known(k) /\ DeletedIsGone(k)
    BY <2>1 DEF Init, Known, DeletedIsGone
  <2>3. k \in stored \cup vertices => k \in Fresh
    BY DEF Init, Fresh
  <2>4. NotMissed(k)
    BY <2>3 DEF NotMissed, Meant, IsComing
  <2>5. FollowsSource(k) /\ Satisfies(k)
    BY <2>1 DEF FollowsSource, Satisfies
  <2> QED BY <2>2, <2>4, <2>5 DEF KeyInv
<1> QED BY <1>1, <1>3, <1>4 DEF ResultsInv

LEMMA ProcessKey ==
  ASSUME ResultsInv, ProcessMutations, NEW k \in Key
  PROVE  KeyInv(k)'
<1>0. KeyInv(k) /\ Opened /\ TypeInv /\ 1 \in Query
  BY QueriesConstantsOK DEF ResultsInv, Query
<1>1. /\ VertexChanged(pending, 1, mutated) /\ mutated' = {}
      /\ UNCHANGED <<stored, vertices, match, arriving, initial, touched, phase, todo>>
  BY DEF ProcessMutations
<1>2. mutated \in SUBSET Key /\ pending \in Queues
  BY <1>0 DEF TypeInv
<1>3. /\ \A p \in Query \ {1} : SameResults(p, k) /\ pending'[p] = pending[p]
      /\ k \notin mutated => SameAt(1, k)
      /\ k \in late[1] => k \in late'[1]
      /\ k \in mutated => \/ Enters(1, k)
                          \/ Leaves(1, k) /\ 1 \notin match[k]
  BY <1>0, <1>1, <1>2, LooksAt
<1>4. \A p \in Query \ {1} : SameAt(p, k)
  BY <1>3 DEF SameAt, Changed, Deleted, LastIs
<1>5. CASE k \in mutated
  <2>1. k \in vertices
    BY <1>0, <1>5 DEF KeyInv, Known
  <2>2. \A p \in 1..(1 - 1) : k \in ToScan(p) => k \in ToScan(p)'
    OBVIOUS
  <2> QED BY <1>0, <1>1, <1>3, <1>4, <1>5, <2>1, <2>2, OneLooks
<1>6. CASE k \notin mutated
  <2>1. \A q \in Query : SameAt(q, k)
    BY <1>3, <1>4, <1>6
  <2>2. \A q \in Query : k \in ToScan(q) => k \in ToScan(q)'
    <3>1. \A q \in Query : q > 1 => q - 1 \in Query
      BY QueriesConstantsOK DEF Query
    <3> QED BY <1>1, <2>1, <3>1, StillToScan DEF SameAt
  <2>3. k \in Fresh' <=> k \in Fresh
    BY <1>1, <1>6 DEF Fresh
  <2>4. k \notin vertices => k \notin initial' \cup mutated' \cup touched'
    BY <1>0, <1>1 DEF KeyInv, Known
  <2> QED BY <1>0, <1>1, <2>1, <2>2, <2>3, <2>4, NobodyLooks
<1> QED BY <1>5, <1>6

LEMMA ScanKey ==
  ASSUME ResultsInv, NEW q \in Query, Scan(q), NEW k \in Key
  PROVE  KeyInv(k)'
<1> DEFINE left == IF phase[q] = "scheduled" THEN SourceKeys(q) ELSE todo[q]
<1>0. /\ KeyInv(k) /\ Opened /\ TypeInv /\ pending \in Queues
      /\ phase[q] \in {"scheduled", "scanning"}
      /\ UNCHANGED <<stored, match, arriving, touched, mutated>>
      /\ Query = 1..Depth /\ Depth \in Nat
  BY QueriesConstantsOK DEF ResultsInv, Scan, TypeInv, Query
<1>1. ToScan(q) = left
  BY <1>0 DEF ToScan
<1>2. CASE /\ left = {}
           /\ phase' = [phase EXCEPT ![q] = "loaded"]
           /\ UNCHANGED <<vertices, initial, todo, results, pending, late>>
  <2>1. \A p \in Query : /\ phase'[p] # "closed" => phase[p] # "closed"
                         /\ k \in ToScan(p) => k \in ToScan(p)'
    <3> SUFFICES ASSUME NEW p \in Query
                 PROVE  /\ phase'[p] # "closed" => phase[p] # "closed"
                        /\ k \in ToScan(p) => k \in ToScan(p)'
      OBVIOUS
    <3>1. CASE p = q
      BY <1>0, <1>1, <1>2, <3>1
    <3>2. CASE p # q
      <4>1. phase'[p] = phase[p]
        BY <1>0, <1>2, <3>2 DEF TypeInv
      <4> QED BY <1>0, <1>2, <4>1 DEF ToScan, SourceKeys
    <3> QED BY <3>1, <3>2
  <2>2. Fresh' = Fresh
    BY <1>0, <1>2 DEF Fresh
  <2>3. k \notin vertices' => k \notin vertices /\ k \notin initial' \cup mutated' \cup touched'
    BY <1>0, <1>2 DEF KeyInv, Known
  <2> QED BY <1>0, <1>2, <2>1, <2>2, <2>3, QueriesRest
<1>3. ASSUME NEW x \in left,
             phase' = [phase EXCEPT ![q] = "scanning"],
             todo' = [todo EXCEPT ![q] = left \ {x}],
             CreateVertex(x), VertexChanged(pending, q, {x})
      PROVE  KeyInv(k)'
  <2>1. x \in Key
    <3>1. SourceKeys(q) \subseteq Key
      BY <1>0 DEF SourceKeys, TypeInv, Graph
    <3> QED BY <1>0, <3>1 DEF TypeInv
  <2>2. /\ \A p \in Query \ {q} : SameResults(p, k) /\ pending'[p] = pending[p]
        /\ k \notin {x} => SameAt(q, k)
        /\ k \in late[q] => k \in late'[q]
        /\ k \in {x} => \/ Enters(q, k)
                        \/ Leaves(q, k) /\ q \notin match[k]
    BY <1>0, <1>3, <2>1, LooksAt
  <2>3. \A p \in Query \ {q} : SameAt(p, k)
    BY <2>2 DEF SameAt, Changed, Deleted, LastIs
  <2>4. /\ phase'[q] = "scanning" /\ todo'[q] = left \ {x}
        /\ \A p \in Query \ {q} : phase'[p] = phase[p] /\ todo'[p] = todo[p]
    <3> HIDE DEF left
    <3> QED BY <1>0, <1>3 DEF TypeInv
  <2>5. vertices' = vertices \cup {x} /\ initial' = initial \cup ({x} \ vertices)
    BY <1>3 DEF CreateVertex
  <2>6. \A p \in Query : phase'[p] # "closed" <=> phase[p] # "closed"
    BY <1>0, <2>4
  <2>7. CASE k = x
    <3>1. k \in Fresh' \/ (k \in stored \cup vertices /\ (k \in Fresh => q = 1))
      BY <1>0, <2>5, <2>7 DEF Fresh
    <3>2. \A p \in 1..(q - 1) : k \in ToScan(p) => k \in ToScan(p)'
      <4>1. \A p \in 1..(q - 1) : p \in Query \ {q} /\ (p > 1 => p - 1 \in Query \ {q})
        BY <1>0
      <4> QED BY <1>0, <2>2, <2>4, <4>1, StillToScan
    <3>3. q > 1 => (Deleted(q - 1, k)' => Deleted(q - 1, k))
      <4>1. q > 1 => q - 1 \in Query \ {q}
        BY <1>0
      <4> QED BY <2>3, <4>1 DEF SameAt
    <3>4. k \in vertices'
      BY <2>5, <2>7
    <3> QED BY <1>0, <2>2, <2>3, <2>6, <2>7, <3>1, <3>2, <3>3, <3>4, OneLooks
  <2>8. CASE k # x
    <3>1. \A p \in Query : SameAt(p, k)
      BY <2>2, <2>3, <2>8
    <3>2. ASSUME NEW p \in Query PROVE k \in ToScan(p) => k \in ToScan(p)'
      <4>1. CASE p = q
        <5> HIDE DEF left
        <5> QED BY <1>1, <2>4, <2>8, <4>1 DEF ToScan
      <4>2. CASE p # q
        <5>1. p > 1 => p - 1 \in Query
          BY <1>0
        <5> QED BY <1>0, <2>4, <3>1, <4>2, <5>1, StillToScan DEF SameAt
      <4> QED BY <4>1, <4>2
    <3>3. k \in Fresh' <=> k \in Fresh
      BY <1>0, <2>5, <2>8 DEF Fresh
    <3>4. k \notin vertices' => k \notin vertices /\ k \notin initial' \cup mutated' \cup touched'
      BY <1>0, <2>5, <2>8 DEF KeyInv, Known
    <3> QED BY <1>0, <2>5, <2>6, <2>8, <3>1, <3>2, <3>3, <3>4, NobodyLooks
  <2> QED BY <2>7, <2>8
<1> QED BY <1>2, <1>3 DEF Scan

(* An event that is delivered to nobody.                                   *)
LEMMA NobodyHears ==
  ASSUME ResultsInv, NEW q \in Query, NEW k \in Key,
         pending[q] # <<>>, ~(q < Depth /\ phase[q + 1] # "closed"),
         pending' = [pending EXCEPT ![q] = Tail(@)],
         UNCHANGED <<graphVars, phase, todo, results, late>>
  PROVE  KeyInv(k)'
<1>0. /\ KeyInv(k) /\ Opened /\ TypeInv /\ Query = 1..Depth /\ Depth \in Nat
  BY QueriesConstantsOK DEF ResultsInv, Query
<1>1. \A p \in Query : SameResults(p, k) /\ (p # q => SameAt(p, k))
  BY <1>0 DEF SameAt, SameResults, Changed, Deleted, LastIs, TypeInv, Queues
<1>2. (Changed(q, k)' => Changed(q, k)) /\ (Deleted(q, k)' => Deleted(q, k))
  <2>1. pending[q] \in Seq(Event) /\ pending'[q] = Tail(pending[q])
    BY <1>0 DEF TypeInv, Queues
  <2>2. \A type : LastIs(type, Tail(pending[q]), k) => LastIs(type, pending[q], k)
    BY <2>1, LastOfTail
  <2>3. /\ Changed(q, k)' <=> LastIs("changed", Tail(pending[q]), k)
        /\ Deleted(q, k)' <=> LastIs("deleted", Tail(pending[q]), k)
    BY <2>1 DEF Changed, Deleted, LastIs
  <2> QED BY <2>2, <2>3 DEF Changed, Deleted
<1>3. \A t \in Query : t > q => phase[t] = "closed" /\ k \notin results[t]
  <2>1. ASSUME NEW t \in Query, t > q PROVE phase[t] = "closed"
    <3>1. q + 1 \in Query /\ phase[q + 1] = "closed"
      BY <1>0, <2>1
    <3> QED BY <1>0, <2>1, <3>1 DEF Opened
  <2> QED BY <1>0, <2>1 DEF Opened
<1>4. Known(k)' /\ DeletedIsGone(k)'
  BY <1>0, <1>1, <1>2 DEF KeyInv, Known, DeletedIsGone, SameAt, SameResults, graphVars
<1>5. Fresh' = Fresh /\ match' = match /\ stored' = stored /\ vertices' = vertices
  BY DEF Fresh, graphVars
<1>6. \A t \in Query : \A r \in 1..(t - 1) : t <= q => r \in Query /\ r # q
  BY <1>0
<1>7. \A t \in Query : IsLate(t, k)' <=> IsLate(t, k)
  BY <1>0, <1>1 DEF IsLate, SameResults
<1>8. FollowsSource(k)'
  <2> SUFFICES ASSUME NEW t \in Query, k \in results'[t], ~IsLate(t, k)',
                      NEW p \in 1..(t - 1), k \notin results'[p]
               PROVE  \E r \in p..(t - 1) : Deleted(r, k)'
    BY DEF FollowsSource
  <2>1. t <= q
    BY <1>0, <1>3
  <2>2. PICK r \in p..(t - 1) : Deleted(r, k)
    BY <1>0, <1>7 DEF KeyInv, FollowsSource
  <2>3. r \in 1..(t - 1)
    BY <1>0
  <2> QED BY <1>1, <1>6, <2>1, <2>2, <2>3 DEF SameAt
<1>9. Satisfies(k)'
  <2> SUFFICES ASSUME NEW t \in Query, k \in results'[t], ~IsLate(t, k)',
                      ~(1..t \subseteq match[k]), k \notin Fresh
               PROVE  IsNews(t, k)'
    BY <1>5 DEF Satisfies, IsNews
  <2>1. t <= q
    BY <1>0, <1>3
  <2>2. PICK p \in 1..(t - 1) : Changed(p, k) \/ Deleted(p, k)
    BY <1>0, <1>7 DEF KeyInv, Satisfies, IsNews
  <2> QED BY <1>1, <1>6, <2>1, <2>2 DEF SameAt, IsNews
<1>10. NotMissed(k)'
  <2> SUFFICES ASSUME NEW t \in Query, phase[t] # "closed", k \in Meant(t),
                      k \notin results[t], k \notin Fresh
               PROVE  IsComing(t, k)'
    BY <1>5 DEF NotMissed, IsComing, Meant
  <2>1. t <= q
    BY <1>0, <1>3
  <2>2. IsComing(t, k)
    BY <1>0 DEF KeyInv, NotMissed
  <2>3. CASE \E p \in 1..t : k \in ToScan(p)
    BY <1>5, <2>3 DEF IsComing, ToScan, SourceKeys
  <2>4. CASE \E p \in 1..(t - 1) : Changed(p, k)
    BY <1>1, <1>6, <2>1, <2>4 DEF IsComing, SameAt
  <2> QED BY <2>2, <2>3, <2>4 DEF IsComing
<1> QED BY <1>4, <1>8, <1>9, <1>10 DEF KeyInv

LEMMA DeliverKey ==
  ASSUME ResultsInv, Deliver, NEW k \in Key
  PROVE  KeyInv(k)'
<1>0. /\ KeyInv(k) /\ Opened /\ TypeInv /\ Query = 1..Depth /\ Depth \in Nat
  BY QueriesConstantsOK DEF ResultsInv, Query
<1>1. PICK q \in Query : q = Head(cycle) /\ pending[q] # <<>>
  BY <1>0, ToSetTail DEF Deliver, TypeInv, Timer
<1> DEFINE event == Head(pending[q])
           queue == [pending EXCEPT ![q] = Tail(@)]
           heard == q < Depth /\ phase[q + 1] # "closed"
<1>2. UNCHANGED <<graphVars, phase, todo>>
  BY DEF Deliver
<1>3. CASE ~heard
  <2>1. pending' = queue /\ UNCHANGED <<results, late>>
    BY <1>1, <1>3 DEF Deliver
  <2> QED BY <1>1, <1>2, <1>3, <2>1, NobodyHears
<1>4. CASE heard
  <2> DEFINE n == q + 1
  <2>1. /\ n \in Query /\ n # q /\ n - 1 = q /\ n > 1 /\ phase[n] # "closed"
    BY <1>0, <1>1, <1>4
  <2>2. /\ pending[q] \in Seq(Event) /\ event \in Event
        /\ event.keys \in SUBSET Key /\ event.type \in {"changed", "deleted"}
    <3>1. pending[q] \in Seq(Event)
      BY <1>0, <1>1 DEF TypeInv, Queues
    <3>2. event \in Event
      BY <1>1, <3>1
    <3> QED BY <3>1, <3>2 DEF Event
  <2>3. /\ queue \in Queues /\ queue[q] = Tail(pending[q])
        /\ \A p \in Query \ {q} : queue[p] = pending[p]
    BY <1>0, <1>1, <2>2 DEF TypeInv, Queues
  <2>4. \/ event.type = "changed" /\ VertexChanged(queue, n, event.keys)
        \/ event.type = "deleted" /\ VertexDeleted(queue, n, event.keys)
    BY <1>1, <1>4 DEF Deliver
  <2> HIDE DEF queue, event, heard, n
  <2>5. /\ \A p \in Query \ {n} : SameResults(p, k) /\ pending'[p] = queue[p]
        /\ k \notin event.keys => SameAt(n, k)
        /\ k \in late[n] => k \in late'[n]
        /\ k \in event.keys => \/ Enters(n, k)
                               \/ /\ Leaves(n, k)
                                  /\ n \notin match[k] \/ event.type = "deleted"
    <3>1. queue[n] = pending[n]
      BY <2>1, <2>3
    <3>2. CASE event.type = "changed" /\ VertexChanged(queue, n, event.keys)
      BY <1>0, <2>1, <2>2, <2>3, <3>1, <3>2, LooksAt
    <3>3. CASE event.type = "deleted" /\ VertexDeleted(queue, n, event.keys)
      BY <1>0, <2>1, <2>2, <2>3, <3>1, <3>3, IsToldOfLoss
    <3> QED BY <2>4, <3>2, <3>3
  <2>6. \A p \in Query \ {n, q} : SameAt(p, k)
    BY <2>3, <2>5 DEF SameAt, Changed, Deleted, LastIs
  <2>7. /\ Changed(q, k)' <=> LastIs("changed", Tail(pending[q]), k)
        /\ Deleted(q, k)' <=> LastIs("deleted", Tail(pending[q]), k)
    <3>1. pending'[q] = Tail(pending[q])
      BY <1>1, <2>1, <2>3, <2>5
    <3> QED BY <3>1 DEF Changed, Deleted, LastIs
  <2>8. \A type :
          /\ LastIs(type, Tail(pending[q]), k) => LastIs(type, pending[q], k)
          /\ LastIs(type, pending[q], k) =>
               \/ LastIs(type, Tail(pending[q]), k)
               \/ k \in event.keys /\ event.type = type
    BY <1>1, <2>2, LastOfTail DEF event
  <2>9. \A p \in Query : SameResults(p - 1, k) \/ p - 1 = n \/ p = 1
    BY <1>0, <2>5
  <2>10. Fresh' = Fresh /\ vertices' = vertices /\ match' = match /\ stored' = stored
    BY <1>2 DEF Fresh, graphVars
  <2>11. CASE k \in event.keys
    <3>1. Changed(q, k) \/ Deleted(q, k)
      <4>1. 1 \in DOMAIN pending[q] /\ pending[q][1] = event
        BY <1>1, <2>2 DEF event
      <4> QED BY <2>2, <2>11, <4>1, LastMention DEF Changed, Deleted
    <3>2. k \in vertices
      BY <1>0, <1>1, <3>1 DEF KeyInv, Known
    <3>3. event.type = "deleted" => Changed(q, k)' \/ Deleted(q, k)
      BY <2>7, <2>8, <3>1 DEF Changed
    <3>4. Deleted(q, k)' => Deleted(q, k)
      BY <2>7, <2>8 DEF Deleted
    <3>5. \A p \in 1..(n - 1) : k \in ToScan(p) => k \in ToScan(p)'
      <4>1. \A p \in 1..(n - 1) : p \in Query /\ (p > 1 => p - 1 # n)
        BY <1>0, <2>1
      <4> QED BY <1>2, <2>9, <2>10, <4>1, StillToScan
    <3>6. \A p \in Query : p # n /\ p # n - 1 => SameAt(p, k)
      BY <2>1, <2>6
    <3>7. \/ Enters(n, k)
          \/ /\ Leaves(n, k)
             /\ \/ n \notin match[k]
                \/ /\ n > 1 /\ phase[n] # "closed"
                   /\ Changed(n - 1, k)' \/ Deleted(n - 1, k)
      <4>1. event.type = "deleted" => Changed(n - 1, k)' \/ Deleted(n - 1, k)
        BY <2>1, <3>3
      <4> QED BY <2>1, <2>5, <2>11, <4>1
    <3>8. n > 1 => (Deleted(n - 1, k)' => Deleted(n - 1, k))
      BY <2>1, <3>4
    <3> QED BY <1>0, <1>2, <2>1, <2>5, <2>10, <3>2, <3>5, <3>6, <3>7, <3>8, OneLooks
  <2>12. CASE k \notin event.keys
    <3>1. SameAt(q, k)
      BY <1>1, <2>1, <2>5, <2>7, <2>8, <2>12 DEF SameAt, Changed, Deleted
    <3>2. \A p \in Query : SameAt(p, k)
      BY <2>5, <2>6, <2>12, <3>1
    <3>3. \A p \in Query : k \in ToScan(p) => k \in ToScan(p)'
      <4>1. \A p \in Query : p > 1 => p - 1 \in Query
        BY <1>0
      <4> QED BY <1>2, <2>10, <3>2, <4>1, StillToScan DEF SameAt
    <3>4. k \notin vertices' => k \notin vertices /\ k \notin initial' \cup mutated' \cup touched'
      BY <1>0, <1>2 DEF KeyInv, Known, graphVars
    <3> QED BY <1>0, <1>2, <2>10, <3>2, <3>3, <3>4, NobodyLooks
  <2> QED BY <2>11, <2>12
<1> QED BY <1>3, <1>4

LEMMA CommitKey ==
  ASSUME ResultsInv, NEW x \in Key, EmitNewCommit(x), NEW k \in Key
  PROVE  KeyInv(k)'
<1>1. /\ KeyInv(k) /\ arriving' = arriving \ {x}
      /\ vertices' = vertices \cup {x} /\ initial' = initial \cup ({x} \ vertices)
      /\ touched' = touched \cup ({x} \cap vertices)
      /\ UNCHANGED <<stored, match, mutated, phase, todo, results, pending, late>>
  BY DEF ResultsInv, EmitNewCommit, CreateVertex
<1>2. k \in Fresh' \/ (k \notin Fresh /\ (k \in vertices' => k \in vertices))
  BY <1>1 DEF Fresh
<1>3. \A q \in Query : k \in ToScan(q) => k \in ToScan(q)'
  BY <1>1 DEF ToScan, SourceKeys
<1>4. k \notin vertices' => k \notin vertices /\ k \notin initial' \cup mutated' \cup touched'
  BY <1>1 DEF KeyInv, Known
<1> QED BY <1>1, <1>2, <1>3, <1>4, QueriesRest

LEMMA ReportKey ==
  ASSUME ResultsInv, ReportInitialFields, NEW k \in Key
  PROVE  KeyInv(k)'
<1>1. /\ KeyInv(k) /\ mutated' = mutated \cup initial /\ initial' = {}
      /\ UNCHANGED <<stored, vertices, match, arriving, touched, queryVars>>
  BY DEF ResultsInv, ReportInitialFields
<1>2. Fresh' = Fresh
  BY <1>1 DEF Fresh
<1>3. \A q \in Query : k \in ToScan(q) => k \in ToScan(q)'
  BY <1>1 DEF ToScan, SourceKeys, queryVars
<1>4. k \notin vertices' => k \notin vertices /\ k \notin initial' \cup mutated' \cup touched'
  BY <1>1 DEF KeyInv, Known
<1> QED BY <1>1, <1>2, <1>3, <1>4, QueriesRest DEF queryVars

LEMMA SameKey ==
  ASSUME ResultsInv, UNCHANGED <<graphVars, queryVars>>, NEW k \in Key
  PROVE  KeyInv(k)'
<1>1. KeyInv(k)
  BY DEF ResultsInv
<1>2. Fresh' = Fresh /\ \A q \in Query : k \in ToScan(q) => k \in ToScan(q)'
  BY DEF Fresh, ToScan, SourceKeys, graphVars, queryVars
<1>3. k \notin vertices' => k \notin vertices /\ k \notin initial' \cup mutated' \cup touched'
  BY <1>1 DEF KeyInv, Known, graphVars
<1> QED BY <1>1, <1>2, <1>3, QueriesRest DEF graphVars, queryVars

LEMMA MutateKey ==
  ASSUME ResultsInv, NEW x \in Key, x \in vertices, NEW value, Mutate(x, value),
         UNCHANGED <<stored, vertices, arriving, initial, queryVars>>,
         touched' \subseteq touched, NEW k \in Key
  PROVE  KeyInv(k)'
<1>1. KeyInv(k) /\ TypeInv
  BY DEF ResultsInv
<1>2. \A q \in Query : k \in ToScan(q) => k \in ToScan(q)'
  BY DEF ToScan, SourceKeys, queryVars
<1>3. mutated \subseteq mutated' /\ mutated' \subseteq mutated \cup {x}
  BY DEF Mutate
<1>4. k \notin vertices' => k \notin vertices /\ k \notin initial' \cup mutated' \cup touched'
  BY <1>1, <1>3 DEF KeyInv, Known
<1>5. k \in Fresh' \/ (k \notin Fresh /\ match'[k] = match[k])
  BY <1>1, <1>3 DEF Fresh, Mutate, TypeInv
<1> QED BY <1>1, <1>2, <1>4, <1>5, QueriesRest DEF queryVars

LEMMA CreateKey ==
  ASSUME ResultsInv, NEW x \in Key, Create(x), NEW k \in Key
  PROVE  KeyInv(k)'
<1>1. /\ KeyInv(k) /\ TypeInv /\ x \notin vertices
      /\ vertices' = vertices \cup {x} /\ initial' = initial \cup {x}
      /\ UNCHANGED <<stored, arriving, touched, mutated, queryVars>>
      /\ \A y \in Key \ {x} : match'[y] = match[y]
  BY DEF ResultsInv, Create, CreateVertex, TypeInv
<1>2. k \in Fresh' \/ (k \notin Fresh /\ k # x)
  BY <1>1 DEF Fresh
<1>3. \A q \in Query : k \in ToScan(q) => k \in ToScan(q)'
  BY <1>1 DEF ToScan, SourceKeys, queryVars
<1>4. k \notin vertices' => k \notin vertices /\ k \notin initial' \cup mutated' \cup touched'
  BY <1>1 DEF KeyInv, Known
<1> QED BY <1>1, <1>2, <1>3, <1>4, QueriesRest DEF queryVars

LEMMA ArriveKey ==
  ASSUME ResultsInv, NEW x \in Key, Arrive(x), NEW k \in Key
  PROVE  KeyInv(k)'
<1>1. /\ KeyInv(k) /\ TypeInv
      /\ stored' = stored \cup {x} /\ arriving' = arriving \cup {x}
      /\ UNCHANGED <<vertices, initial, touched, mutated, phase, results, pending, late>>
      /\ \A y \in Key : y # x \/ x \in vertices => match'[y] = match[y]
  BY DEF ResultsInv, Arrive, TypeInv
<1>2. k \in Fresh' \/ (k \notin Fresh /\ (k # x \/ x \in vertices))
  BY <1>1 DEF Fresh
<1>3. ASSUME NEW q \in Query PROVE k \in ToScan(q) => k \in ToScan(q)'
  <2>1. todo[q] \subseteq todo'[q]
    <3>1. todo' = todo \/ todo' = [todo EXCEPT ![1] = @ \cup {x}]
      BY DEF Arrive
    <3> QED BY <1>1, <3>1 DEF TypeInv
  <2> QED BY <1>1, <2>1 DEF ToScan, SourceKeys
<1>4. k \notin vertices' => k \notin vertices /\ k \notin initial' \cup mutated' \cup touched'
  BY <1>1 DEF KeyInv, Known
<1> QED BY <1>1, <1>2, <1>3, <1>4, QueriesRest

(* A query that is opened scans what its source has.                       *)
LEMMA OpenKey ==
  ASSUME ResultsInv, NEW o \in Query, Open(o), NEW k \in Key
  PROVE  KeyInv(k)'
<1>1. /\ KeyInv(k) /\ TypeInv /\ Opened /\ phase[o] = "closed" /\ phase[o - 1] # "closed"
      /\ phase' = [phase EXCEPT ![o] = "scheduled"]
      /\ UNCHANGED <<graphVars, todo, results, pending, late>>
      /\ Query = 1..Depth /\ Depth \in Nat
  BY QueriesConstantsOK DEF ResultsInv, Open, Query
<1>2. phase'[o] = "scheduled" /\ \A q \in Query \ {o} : phase'[q] = phase[q]
  BY <1>1 DEF TypeInv
<1>3. \A q \in Query : /\ Changed(q, k)' <=> Changed(q, k)
                       /\ Deleted(q, k)' <=> Deleted(q, k)
                       /\ IsLate(q, k)' <=> IsLate(q, k)
  BY <1>1 DEF Changed, Deleted, LastIs, IsLate
<1>4. Fresh' = Fresh /\ match' = match
  BY <1>1 DEF Fresh, graphVars
<1>5. \A q \in Query : \A p \in 1..(q - 1) : p \in Query
  BY <1>1
<1>6. Known(k)' /\ DeletedIsGone(k)'
  BY <1>1, <1>3 DEF KeyInv, Known, DeletedIsGone, graphVars
<1>7. FollowsSource(k)'
  <2> SUFFICES ASSUME NEW t \in Query, k \in results[t], ~IsLate(t, k),
                      NEW p \in 1..(t - 1), k \notin results[p]
               PROVE  \E r \in p..(t - 1) : Deleted(r, k)'
    BY <1>1, <1>3 DEF FollowsSource
  <2>1. PICK r \in p..(t - 1) : Deleted(r, k)
    BY <1>1 DEF KeyInv, FollowsSource
  <2>2. r \in Query
    BY <1>1
  <2> QED BY <1>3, <2>1, <2>2
<1>8. Satisfies(k)'
  <2> SUFFICES ASSUME NEW t \in Query, k \in results[t], ~IsLate(t, k),
                      ~(1..t \subseteq match[k]), k \notin Fresh
               PROVE  IsNews(t, k)'
    BY <1>1, <1>3, <1>4 DEF Satisfies, IsNews
  <2>1. PICK p \in 1..(t - 1) : Changed(p, k) \/ Deleted(p, k)
    BY <1>1 DEF KeyInv, Satisfies, IsNews
  <2> QED BY <1>3, <1>5, <2>1 DEF IsNews
<1>9. NotMissed(k)'
  <2> SUFFICES ASSUME NEW t \in Query, phase'[t] # "closed", k \in Meant(t),
                      k \notin results[t], k \notin Fresh
               PROVE  IsComing(t, k)'
    BY <1>1, <1>4 DEF NotMissed, IsComing, Meant, graphVars
  <2>1. \A p \in Query : k \in ToScan(p) => k \in ToScan(p)'
    <3> SUFFICES ASSUME NEW p \in Query PROVE k \in ToScan(p) => k \in ToScan(p)'
      OBVIOUS
    <3>1. CASE p = o
      BY <1>1, <3>1 DEF ToScan
    <3>2. CASE p # o
      BY <1>1, <1>2, <3>2 DEF ToScan, SourceKeys, graphVars
    <3> QED BY <3>1, <3>2
  <2>2. ASSUME NEW u \in Query, u <= t, IsComing(u, k) PROVE IsComing(t, k)'
    <3>1. CASE \E p \in 1..u : k \in ToScan(p)
      <4>1. PICK p \in 1..u : k \in ToScan(p)
        BY <3>1
      <4>2. p \in 1..t /\ p \in Query
        BY <1>1, <2>2, <4>1
      <4> QED BY <2>1, <4>1, <4>2 DEF IsComing
    <3>2. CASE \E p \in 1..(u - 1) : Changed(p, k)
      <4>1. PICK p \in 1..(u - 1) : Changed(p, k)
        BY <3>2
      <4>2. p \in 1..(t - 1) /\ p \in Query
        BY <1>1, <2>2, <4>1
      <4> QED BY <1>3, <4>1, <4>2 DEF IsComing
    <3> QED BY <2>2, <3>1, <3>2 DEF IsComing
  <2>3. CASE t # o
    <3>1. IsComing(t, k)
      BY <1>1, <1>2, <2>3 DEF KeyInv, NotMissed
    <3> QED BY <1>1, <2>2, <3>1
  <2>4. CASE t = o
    <3>1. o # 1 /\ o - 1 \in Query /\ o - 1 <= t /\ o - 1 # Graph
      BY <1>1, <2>4 DEF Opened, Graph
    <3>2. k \in Meant(o - 1)
      BY <1>1, <2>4, <3>1 DEF Meant
    <3>3. CASE k \in results[o - 1]
      <4>1. k \in ToScan(o)'
        BY <1>1, <1>2, <3>1, <3>3 DEF ToScan, SourceKeys
      <4>2. o \in 1..t
        BY <1>1, <2>4
      <4> QED BY <4>1, <4>2 DEF IsComing
    <3>4. CASE k \notin results[o - 1]
      <4>1. IsComing(o - 1, k)
        BY <1>1, <3>1, <3>2, <3>4 DEF KeyInv, NotMissed
      <4> QED BY <2>2, <3>1, <4>1
    <3> QED BY <3>3, <3>4
  <2> QED BY <2>3, <2>4
<1> QED BY <1>6, <1>7, <1>8, <1>9 DEF KeyInv

LEMMA OpenedStays ==
  ASSUME Opened, NEW q \in Query, phase[q] # "closed",
         \A p \in Query : phase'[p] = "closed" <=> phase[p] = "closed",
         \A p \in Query \ {q} : results'[p] = results[p]
  PROVE  Opened'
<1>1. 1 \in Query
  BY QueriesConstantsOK DEF Query
<1> QED BY <1>1 DEF Opened

LEMMA OpenedNext ==
  ASSUME ResultsInv, [Next]_qvars
  PROVE  Opened'
<1>1. /\ Opened /\ TypeInv /\ 1 \in Query /\ phase[1] # "closed"
      /\ Query = 1..Depth /\ Depth \in Nat
  BY QueriesConstantsOK DEF ResultsInv, Opened, Query
<1>2. CASE UNCHANGED <<phase, results>>
  BY <1>1, <1>2, OpenedStays
<1>3. CASE ProcessMutations
  <2>1. phase' = phase /\ \A p \in Query \ {1} : results'[p] = results[p]
    BY <1>1, <1>3 DEF ProcessMutations, VertexChanged, TypeInv
  <2> QED BY <1>1, <2>1, OpenedStays
<1>4. ASSUME NEW q \in Query, Scan(q) PROVE Opened'
  <2>1. phase[q] \in {"scheduled", "scanning"}
    BY <1>4 DEF Scan
  <2>2. \/ phase' = [phase EXCEPT ![q] = "loaded"] /\ results' = results
        \/ /\ phase' = [phase EXCEPT ![q] = "scanning"]
           /\ \E x : VertexChanged(pending, q, {x})
    BY <1>4 DEF Scan
  <2>3. \A p \in Query \ {q} : results'[p] = results[p]
    BY <1>1, <2>2 DEF VertexChanged, TypeInv
  <2>4. \A p \in Query : phase'[p] = "closed" <=> phase[p] = "closed"
    BY <1>1, <2>1, <2>2 DEF TypeInv
  <2> QED BY <1>1, <2>1, <2>3, <2>4, OpenedStays
<1>5. CASE Deliver
  <2>1. PICK q \in Query : q = Head(cycle)
    BY <1>1, <1>5, ToSetTail DEF Deliver, TypeInv, Timer
  <2>2. phase' = phase
    BY <1>5 DEF Deliver
  <2>3. \/ results' = results
        \/ /\ q + 1 \in Query /\ phase[q + 1] # "closed"
           /\ \A p \in Query \ {q + 1} : results'[p] = results[p]
    <3>1. \/ results' = results
          \/ /\ q < Depth /\ phase[q + 1] # "closed"
             /\ \E any, keys : VertexChanged(any, q + 1, keys) \/ VertexDeleted(any, q + 1, keys)
      BY <1>5, <2>1 DEF Deliver
    <3>2. ASSUME q < Depth, NEW any, NEW keys,
                 VertexChanged(any, q + 1, keys) \/ VertexDeleted(any, q + 1, keys)
          PROVE  q + 1 \in Query /\ \A p \in Query \ {q + 1} : results'[p] = results[p]
      <4>1. \E f : results' = [results EXCEPT ![q + 1] = f]
        BY <3>2 DEF VertexChanged, VertexDeleted
      <4> QED BY <1>1, <3>2, <4>1 DEF TypeInv
    <3> QED BY <3>1, <3>2
  <2> QED BY <1>1, <1>2, <2>2, <2>3, OpenedStays
<1>6. ASSUME NEW q \in Query, Open(q) PROVE Opened'
  <2>1. /\ phase[q] = "closed" /\ phase[q - 1] # "closed" /\ results' = results
        /\ phase' = [phase EXCEPT ![q] = "scheduled"]
    BY <1>6 DEF Open
  <2>2. phase'[q] = "scheduled" /\ \A p \in Query \ {q} : phase'[p] = phase[p]
    BY <1>1, <2>1 DEF TypeInv
  <2>3. \A p \in Query : p < q => phase[p] # "closed"
    <3>1. q - 1 \in Query
      BY <1>1, <2>1
    <3> QED BY <1>1, <2>1, <3>1 DEF Opened
  <2> QED BY <1>1, <2>1, <2>2, <2>3 DEF Opened
<1>7. CASE RunCoroutine
  BY <1>2, <1>3, <1>4, <1>7 DEF RunCoroutine, EmitNewCommit
<1>8. CASE Loop
  BY <1>2, <1>5, <1>7, <1>8
  DEF Loop, BeginCycle, EndTick, SkipTick, Delivered, ReportInitialFields, queryVars
<1>9. ASSUME NEW k \in Key, Touched(k) \/ Edit(k) \/ Create(k) \/ Arrive(k)
      PROVE  Opened'
  BY <1>2, <1>9 DEF Touched, Edit, Create, Arrive, queryVars
<1>10. CASE UNCHANGED qvars
  BY <1>2, <1>10 DEF qvars, queryVars
<1> QED BY <1>6, <1>8, <1>9, <1>10 DEF Next

LEMMA ResultsNext ==
  ASSUME ResultsInv, WakeupInv, [Next]_qvars
  PROVE  ResultsInv'
<1>1. TypeInv'
  BY WakeupNext DEF WakeupInv
<1>2. ASSUME NEW k \in Key PROVE KeyInv(k)'
  <2>1. CASE UNCHANGED <<graphVars, queryVars>>
    BY <2>1, SameKey
  <2>2. CASE RunCoroutine
    BY <2>2, ProcessKey, ScanKey, CommitKey DEF RunCoroutine
  <2>3. CASE Loop
    BY <2>1, <2>2, <2>3, DeliverKey, ReportKey
    DEF Loop, BeginCycle, EndTick, SkipTick, Delivered
  <2>4. ASSUME NEW x \in Key, Touched(x) PROVE KeyInv(k)'
    <3>1. KeyInv(x) /\ x \in touched
      BY <2>4 DEF ResultsInv, Touched
    <3>2. x \in vertices
      BY <3>1 DEF KeyInv, Known
    <3>3. PICK value : Mutate(x, value)
      BY <2>4 DEF Touched
    <3> QED BY <2>4, <3>2, <3>3, MutateKey DEF Touched
  <2>5. ASSUME NEW x \in Key, Edit(x) PROVE KeyInv(k)'
    <3>1. PICK value : Mutate(x, value)
      BY <2>5 DEF Edit
    <3> QED BY <2>5, <3>1, MutateKey DEF Edit
  <2>6. ASSUME NEW x \in Key, Create(x) \/ Arrive(x) PROVE KeyInv(k)'
    BY <2>6, CreateKey, ArriveKey
  <2>7. ASSUME NEW q \in Query, Open(q) PROVE KeyInv(k)'
    BY <2>7, OpenKey
  <2>8. CASE UNCHANGED qvars
    BY <2>1, <2>8 DEF qvars
  <2> QED BY <2>3, <2>4, <2>5, <2>6, <2>7, <2>8 DEF Next
<1> QED BY <1>1, <1>2, OpenedNext DEF ResultsInv

(* When the loop rests nothing is under way.                               *)
LEMMA QuietIsDone ==
  ASSUME WakeupInv, Quiet
  PROVE  \A k \in Key : /\ k \notin Fresh
                        /\ \A q \in Query : /\ k \notin ToScan(q)
                                            /\ ~Changed(q, k) /\ ~Deleted(q, k)
<1>1. ToSet(cycle) \cup ToSet(next) = {} /\ initial = {}
  BY ToSetEmpty DEF Quiet, Between
<1>2. ~Work /\ \A q \in Query : pending[q] = <<>>
  BY <1>1 DEF WakeupInv, WorkIsScheduled
<1>3. Fresh = {}
  BY <1>1, <1>2 DEF Fresh, Work, NormalWork
<1>4. \A q \in Query : ToScan(q) = {}
  BY <1>2 DEF ToScan, Work, NormalWork
<1>5. \A q \in Query, k \in Key : ~Changed(q, k) /\ ~Deleted(q, k)
  BY <1>2 DEF Changed, Deleted, LastIs
<1> QED BY <1>3, <1>4, <1>5

(* At rest the results of a query contain every key that satisfies its     *)
(* predicate and those of the queries above it, in whatever order commits, *)
(* changes, scans and events came.                                         *)
THEOREM NothingIsMissing == Spec => []NothingMissing
<1>1. ResultsInv /\ WakeupInv => NothingMissing
  <2> SUFFICES ASSUME ResultsInv, WakeupInv, Quiet, NEW q \in Query,
                      phase[q] # "closed", NEW k \in Meant(q)
               PROVE  k \in results[q]
    BY DEF NothingMissing
  <2>1. k \in Key
    BY DEF Meant, ResultsInv, TypeInv
  <2>2. k \in results[q] \/ IsComing(q, k)
    BY <2>1 DEF ResultsInv, KeyInv, NotMissed
  <2>3. \A p \in 1..q : p \in Query
    BY QueriesConstantsOK DEF Query
  <2>4. \A p \in 1..(q - 1) : p \in Query
    BY QueriesConstantsOK DEF Query
  <2> QED BY <2>1, <2>2, <2>3, <2>4, QuietIsDone DEF IsComing
<1> QED BY <1>1, ResultsInit, ResultsNext, WakeupInit, WakeupNext, PTL DEF Spec

(* And they contain no other key, unless a query along the chain looked at *)
(* it when its source had lost it.                                         *)
THEOREM NothingIsStale == Spec => []NothingStale
<1>1. ResultsInv /\ WakeupInv => NothingStale
  <2> SUFFICES ASSUME ResultsInv, WakeupInv, Quiet, NEW q \in Query,
                      NEW k \in results[q], ~IsLate(q, k)
               PROVE  k \in Meant(q)
    BY DEF NothingStale, IsLate
  <2>1. k \in Key /\ KeyInv(k)
    BY DEF ResultsInv, TypeInv
  <2>2. k \in vertices
    BY <2>1 DEF KeyInv, Known
  <2>3. \A p \in 1..(q - 1) : p \in Query
    BY QueriesConstantsOK DEF Query
  <2>4. ~IsNews(q, k)
    BY <2>1, <2>3, QuietIsDone DEF IsNews
  <2>5. 1..q \subseteq match[k]
    BY <2>1, <2>4 DEF KeyInv, Satisfies
  <2> QED BY <2>2, <2>5 DEF Meant
<1> QED BY <1>1, ResultsInit, ResultsNext, WakeupInit, WakeupNext, PTL DEF Spec
=============================================================================
