--------------------------- MODULE ClientIOProofs ----------------------------
(***************************************************************************)
(* What a browser has under way with its server and its database.          *)
(*                                                                         *)
(* A browser is logged out by refusals alone, and a request that is waited *)
(* for is in one place, whatever the number of repositories, the size of a *)
(* batch and the number of refusals it takes.  A commit that the backup    *)
(* takes for persisted is, but for transactions that failed, whatever the  *)
(* number of commits, batches and failures.                                *)
(***************************************************************************)
EXTENDS SyncScheduler, CommitBackup, SequenceTheorems, FiniteSetTheorems, TLAPS

------------------------------------------------------------------------------
(* Sequences without repetitions.                                          *)
LEMMA ElementsOf ==
  ASSUME NEW S, NEW s \in Seq(S), NEW x
  PROVE  x \in ToSet(s) <=> \E i \in 1..Len(s) : s[i] = x
BY DEF ToSet

LEMMA InjectiveSeq ==
  ASSUME NEW S, NEW s \in Seq(S)
  PROVE  IsInjective(s) <=> \A i, j \in 1..Len(s) : s[i] = s[j] => i = j
<1>1. DOMAIN s = 1..Len(s)
  OBVIOUS
<1> QED BY <1>1 DEF IsInjective

LEMMA EmptyOnce == IsInjective(<<>>) /\ ToSet(<<>>) = {}
BY DEF IsInjective, ToSet

LEMMA Concatenated ==
  ASSUME NEW S, NEW s \in Seq(S), NEW t \in Seq(S),
         IsInjective(s), IsInjective(t), ToSet(s) \cap ToSet(t) = {}
  PROVE  /\ s \o t \in Seq(S) /\ IsInjective(s \o t)
         /\ ToSet(s \o t) = ToSet(s) \cup ToSet(t)
<1> DEFINE u == s \o t
<1>1. /\ u \in Seq(S) /\ Len(u) = Len(s) + Len(t)
      /\ \A i \in 1..Len(s) : u[i] = s[i]
      /\ \A i \in 1..Len(t) : u[i + Len(s)] = t[i]
      /\ \A i \in 1..Len(u) : i > Len(s) => i - Len(s) \in 1..Len(t) /\ u[i] = t[i - Len(s)]
  BY ConcatProperties
<1> HIDE DEF u
<1>2. \A i \in 1..Len(s), j \in 1..Len(t) : s[i] # t[j]
  BY DEF ToSet
<1>3. IsInjective(u)
  <2> SUFFICES ASSUME NEW i \in 1..Len(u), NEW j \in 1..Len(u), u[i] = u[j]
               PROVE  i = j
    BY <1>1, InjectiveSeq
  <2>1. CASE i <= Len(s) /\ j <= Len(s)
    BY <2>1, <1>1, InjectiveSeq
  <2>2. CASE i > Len(s) /\ j > Len(s)
    <3>1. i - Len(s) = j - Len(s)
      BY <2>2, <1>1, InjectiveSeq, SMTT(30)
    <3> QED BY <3>1, <1>1
  <2>3. CASE i <= Len(s) /\ j > Len(s)
    BY <2>3, <1>1, <1>2
  <2>4. CASE i > Len(s) /\ j <= Len(s)
    BY <2>4, <1>1, <1>2
  <2> QED BY <2>1, <2>2, <2>3, <2>4, <1>1
<1>4. ToSet(u) = ToSet(s) \cup ToSet(t)
  <2>1. ASSUME NEW x \in ToSet(u) PROVE x \in ToSet(s) \cup ToSet(t)
    <3>1. PICK i \in 1..Len(u) : u[i] = x
      BY <2>1, <1>1, ElementsOf
    <3>2. CASE i <= Len(s)
      BY <3>1, <3>2, <1>1, ElementsOf
    <3>3. CASE i > Len(s)
      BY <3>1, <3>3, <1>1, ElementsOf
    <3> QED BY <3>2, <3>3, <1>1
  <2>2. ASSUME NEW x \in ToSet(s) PROVE x \in ToSet(u)
    <3>1. PICK i \in 1..Len(s) : s[i] = x
      BY <2>2, ElementsOf
    <3> QED BY <3>1, <1>1, ElementsOf
  <2>3. ASSUME NEW x \in ToSet(t) PROVE x \in ToSet(u)
    <3>1. PICK i \in 1..Len(t) : t[i] = x
      BY <2>3, ElementsOf
    <3>2. i + Len(s) \in 1..Len(u) /\ u[i + Len(s)] = x
      BY <3>1, <1>1
    <3> QED BY <3>2, <1>1, ElementsOf
  <2> QED BY <2>1, <2>2, <2>3
<1> QED BY <1>1, <1>3, <1>4 DEF u

LEMMA Split ==
  ASSUME NEW S, NEW s \in Seq(S), IsInjective(s), NEW n \in 0..Len(s)
  PROVE  LET head == SubSeq(s, 1, n)
             rest == SubSeq(s, n + 1, Len(s))
         IN /\ head \in Seq(S) /\ rest \in Seq(S)
            /\ IsInjective(head) /\ IsInjective(rest)
            /\ ToSet(head) \cap ToSet(rest) = {}
            /\ ToSet(head) \cup ToSet(rest) = ToSet(s)
<1> DEFINE h == SubSeq(s, 1, n)
           r == SubSeq(s, n + 1, Len(s))
<1>1. /\ h \in Seq(S) /\ Len(h) = n /\ \A i \in 1..n : h[i] = s[i]
  BY SubSeqProperties
<1>2. /\ r \in Seq(S) /\ Len(r) = Len(s) - n
      /\ \A i \in 1..(Len(s) - n) : i + n \in 1..Len(s) /\ r[i] = s[i + n]
  BY SubSeqProperties
<1> HIDE DEF h, r
<1>3. IsInjective(h)
  BY <1>1, InjectiveSeq
<1>4. IsInjective(r)
  <2> SUFFICES ASSUME NEW i \in 1..Len(r), NEW j \in 1..Len(r), r[i] = r[j]
               PROVE  i = j
    BY <1>2, InjectiveSeq
  <2>1. i + n = j + n
    BY <1>2, InjectiveSeq
  <2> QED BY <2>1, <1>2
<1>5. ASSUME NEW x \in ToSet(h), x \in ToSet(r) PROVE FALSE
  <2>1. PICK i \in 1..n : s[i] = x
    BY <1>1, <1>5, ElementsOf
  <2>2. PICK j \in 1..Len(r) : r[j] = x
    BY <1>2, <1>5, ElementsOf
  <2>3. j + n \in 1..Len(s) /\ s[j + n] = s[i] /\ j + n # i
    BY <2>1, <2>2, <1>2
  <2> QED BY <2>3, InjectiveSeq
<1>6. ASSUME NEW x \in ToSet(h) \cup ToSet(r) PROVE x \in ToSet(s)
  <2>1. CASE x \in ToSet(h)
    BY <2>1, <1>1, ElementsOf
  <2>2. CASE x \in ToSet(r)
    BY <2>2, <1>2, ElementsOf
  <2> QED BY <1>6, <2>1, <2>2
<1>7. ASSUME NEW x \in ToSet(s) PROVE x \in ToSet(h) \cup ToSet(r)
  <2>1. PICK i \in 1..Len(s) : s[i] = x
    BY <1>7, ElementsOf
  <2>2. CASE i <= n
    BY <2>1, <2>2, <1>1, ElementsOf
  <2>3. CASE i > n
    <3>1. i - n \in 1..Len(r) /\ r[i - n] = x
      BY <2>1, <2>3, <1>2
    <3> QED BY <3>1, <1>2, ElementsOf
  <2> QED BY <2>2, <2>3
<1>8. ToSet(h) \cup ToSet(r) = ToSet(s)
  BY <1>6, <1>7
<1>9. ToSet(h) \cap ToSet(r) = {}
  BY <1>5
<1> QED BY <1>1, <1>2, <1>3, <1>4, <1>8, <1>9 DEF h, r

LEMMA Appended ==
  ASSUME NEW S, NEW s \in Seq(S), IsInjective(s), NEW x \in S, x \notin ToSet(s)
  PROVE  /\ Append(s, x) \in Seq(S) /\ IsInjective(Append(s, x))
         /\ ToSet(Append(s, x)) = ToSet(s) \cup {x}
<1> DEFINE u == <<x>>
<1>1. /\ u \in Seq(S) /\ Len(u) = 1 /\ u[1] = x
      /\ Append(s, x) = s \o u
  BY AppendIsConcat
<1> HIDE DEF u
<1>2. IsInjective(u)
  BY <1>1, InjectiveSeq
<1>3. ToSet(u) = {x}
  <2>1. x \in ToSet(u)
    BY <1>1, ElementsOf
  <2>2. ASSUME NEW y \in ToSet(u) PROVE y = x
    <3>1. PICK k \in 1..Len(u) : u[k] = y
      BY <1>1, <2>2, ElementsOf
    <3> QED BY <1>1, <3>1
  <2> QED BY <2>1, <2>2
<1>4. ToSet(s) \cap ToSet(u) = {}
  BY <1>3
<1> QED BY <1>1, <1>2, <1>3, <1>4, Concatenated

LEMMA WithoutFirst ==
  ASSUME NEW S, NEW s \in Seq(S), NEW n \in 1..Len(s),
         IsInjective(SubSeq(s, n, Len(s)))
  PROVE  LET all == SubSeq(s, n, Len(s))
             rest == SubSeq(s, n + 1, Len(s))
         IN /\ IsInjective(rest) /\ s[n] \in ToSet(all)
            /\ ToSet(rest) = ToSet(all) \ {s[n]}
<1> DEFINE u == SubSeq(s, n, Len(s))
           v == SubSeq(s, n + 1, Len(s))
<1>1. /\ u \in Seq(S) /\ Len(u) = Len(s) - n + 1
      /\ \A i \in 1..Len(u) : u[i] = s[n + i - 1]
  BY SubSeqProperties
<1>2. /\ v \in Seq(S) /\ Len(v) = Len(s) - n
      /\ \A i \in 1..Len(v) : v[i] = s[n + i]
  BY SubSeqProperties
<1>3. /\ Len(v) + 1 = Len(u) /\ u[1] = s[n] /\ Len(v) \in Nat
      /\ \A i \in 1..Len(v) : i + 1 \in 1..Len(u) /\ v[i] = u[i + 1]
  BY <1>1, <1>2
<1> SUFFICES IsInjective(v) /\ u[1] \in ToSet(u) /\ ToSet(v) = ToSet(u) \ {u[1]}
  BY <1>3
<1>4. IsInjective(u)
  OBVIOUS
<1> HIDE DEF u, v
<1>5. \A i, j \in 1..Len(u) : u[i] = u[j] => i = j
  BY <1>1, <1>4, InjectiveSeq
<1>6. IsInjective(v)
  <2>1. ASSUME NEW i \in 1..Len(v), NEW j \in 1..Len(v), v[i] = v[j] PROVE i = j
    <3>1. i + 1 = j + 1
      BY <2>1, <1>3, <1>5
    <3> QED BY <3>1
  <2> QED BY <2>1, <1>2, InjectiveSeq
<1>7. u[1] \in ToSet(u)
  BY <1>1, <1>3, ElementsOf
<1>8. ASSUME NEW x \in ToSet(v) PROVE x \in ToSet(u) /\ x # u[1]
  <2>1. PICK i \in 1..Len(v) : v[i] = x
    BY <1>2, <1>8, ElementsOf
  <2>2. i + 1 \in 1..Len(u) /\ u[i + 1] = x /\ i + 1 # 1 /\ 1 \in 1..Len(u)
    BY <2>1, <1>3
  <2> QED BY <2>2, <1>1, <1>5, ElementsOf
<1>9. ASSUME NEW x \in ToSet(u), x # u[1] PROVE x \in ToSet(v)
  <2>1. PICK i \in 1..Len(u) : u[i] = x
    BY <1>1, <1>9, ElementsOf
  <2>2. i - 1 \in 1..Len(v) /\ v[i - 1] = x
    BY <2>1, <1>9, <1>3, SMTT(30)
  <2> QED BY <2>2, <1>2, ElementsOf
<1> QED BY <1>6, <1>7, <1>8, <1>9
------------------------------------------------------------------------------
(* gAccessDeniedCount counts the refusals at the end of the answers.       *)
RefusalsCounted ==
  /\ answers \in Seq(Answer) /\ Len(answers) <= MaxRefused
  /\ denied \in 0..Len(answers)
  /\ \A i \in (Len(answers) - denied + 1)..Len(answers) : answers[i] = "refused"
  /\ denied = MaxRefused <=> fetch = "logout"

LEMMA AnswerRecorded ==
  ASSUME RefusalsCounted, NEW a \in Answer, Answered(a)
  PROVE  /\ answers' \in Seq(Answer) /\ Len(answers') <= MaxRefused
         /\ Len(answers') > 0 /\ answers'[Len(answers')] = a
         /\ denied < MaxRefused => denied + 1 <= Len(answers')
         /\ denied < MaxRefused =>
              \A i \in (Len(answers') - denied)..(Len(answers') - 1) :
                answers'[i] = "refused"
<1> DEFINE kept == IF Len(answers) < MaxRefused THEN answers ELSE Tail(answers)
<1>1. answers' = kept \o <<a>>
  BY DEF Answered
<1>2. CASE Len(answers) < MaxRefused
  BY <1>1, <1>2, SchedulerConstantsOK DEF RefusalsCounted
<1>3. CASE Len(answers) = MaxRefused
  <2>1. /\ kept \in Seq(Answer) /\ Len(kept) = MaxRefused - 1
        /\ \A i \in 1..(MaxRefused - 1) : kept[i] = answers[i + 1]
    BY <1>3, SchedulerConstantsOK DEF RefusalsCounted
  <2>2. /\ answers' \in Seq(Answer) /\ Len(answers') = MaxRefused
        /\ answers'[MaxRefused] = a
        /\ \A i \in 1..(MaxRefused - 1) : answers'[i] = answers[i + 1]
    <3> HIDE DEF kept
    <3> QED BY <1>1, <2>1, SchedulerConstantsOK
  <2> QED BY <1>3, <2>2, SchedulerConstantsOK DEF RefusalsCounted
<1> QED BY <1>2, <1>3, SchedulerConstantsOK DEF RefusalsCounted

LEMMA RefusalsCountedInit == SchedulerInit => RefusalsCounted
BY SchedulerConstantsOK DEF SchedulerInit, RefusalsCounted

LEMMA RefusalsCountedNext ==
  ASSUME RefusalsCounted, [SchedulerNext]_svars
  PROVE  RefusalsCounted'
<1>1. ASSUME UNCHANGED <<denied, answers>>, fetch' = "logout" <=> fetch = "logout"
      PROVE  RefusalsCounted'
  BY <1>1 DEF RefusalsCounted
<1>2. CASE UNCHANGED svars
  BY <1>1, <1>2 DEF svars
<1>3. CASE SendPendingRequests
  BY <1>1, <1>3 DEF SendPendingRequests
<1>4. CASE TimedOut \/ PauseEnds \/ DecodeFails
  BY <1>1, <1>4 DEF TimedOut, PauseEnds, DecodeFails, RejectAll
<1>5. CASE Decode \/ Decoded
  BY <1>1, <1>5 DEF Decode, Decoded
<1>6. CASE Failed \/ Accepted
  <2>1. denied' = 0 /\ fetch' # "logout" /\ denied < MaxRefused
    BY <1>6, SchedulerConstantsOK DEF Failed, Accepted, RejectAll, RefusalsCounted
  <2>2. /\ answers' \in Seq(Answer) /\ Len(answers') <= MaxRefused
    BY <1>6, AnswerRecorded DEF Failed, Accepted, Answer
  <2> QED BY <2>1, <2>2, SchedulerConstantsOK DEF RefusalsCounted
<1>7. CASE Refused
  <2>1. denied < MaxRefused /\ denied' = denied + 1
    BY <1>7, SchedulerConstantsOK DEF Refused, RefusalsCounted
  <2>2. Answered("refused") /\ "refused" \in Answer
    BY <1>7 DEF Refused, Answer
  <2>3. denied' = MaxRefused <=> fetch' = "logout"
    BY <1>7 DEF Refused
  <2>4. /\ answers' \in Seq(Answer) /\ Len(answers') <= MaxRefused
        /\ Len(answers') > 0 /\ answers'[Len(answers')] = "refused"
        /\ denied + 1 <= Len(answers')
        /\ \A i \in (Len(answers') - denied)..(Len(answers') - 1) :
             answers'[i] = "refused"
    BY <2>1, <2>2, AnswerRecorded
  <2> QED BY <2>1, <2>3, <2>4 DEF RefusalsCounted
<1>8. ASSUME NEW r \in Repo, NEW p \in Priority, Send(r, p)
      PROVE  RefusalsCounted'
  BY <1>1, <1>8 DEF Send
<1> QED BY <1>2, <1>3, <1>4, <1>5, <1>6, <1>7, <1>8 DEF SchedulerNext, Progress

(* The databases of the browser are deleted by the answers of a server     *)
(* that refuses every request, and by nothing else.                        *)
THEOREM LogoutOnlyAfterRefusals == SchedulerSpec => []LogoutAfterRefusals
<1>1. RefusalsCounted => LogoutAfterRefusals
  BY SchedulerConstantsOK DEF RefusalsCounted, LogoutAfterRefusals
<1> QED BY <1>1, RefusalsCountedInit, RefusalsCountedNext, PTL DEF SchedulerSpec
------------------------------------------------------------------------------
(* Where the requests are that the clients wait for.                       *)
QueueOf(p) == ToSet(queues[p])
Placed ==
  /\ queues \in [Priority -> Seq(Repo)]
  /\ batch \in Seq(Repo) /\ settled \in 0..Len(batch)
  /\ fetch = "none" => batch = <<>>
  /\ \A p \in Priority : IsInjective(queues[p]) /\ QueueOf(p) \cap Unsettled = {}
  /\ \A p, q \in Priority : p # q => QueueOf(p) \cap QueueOf(q) = {}
  /\ IsInjective(Unanswered)
  /\ dropped \subseteq waiting
  /\ waiting \ dropped = Unsettled \cup UNION {QueueOf(p) : p \in Priority}

LEMMA Priorities == Priority = {localChanges, firstLoad, normal}
BY DEF Priority, localChanges, firstLoad, normal

LEMMA NothingSent ==
  ASSUME batch = <<>>, settled = 0
  PROVE  IsInjective(Unanswered) /\ Unsettled = {}
<1>1. Unanswered = <<>>
  BY DEF Unanswered
<1> QED BY <1>1, EmptyOnce DEF Unsettled

LEMMA Counted ==
  ASSUME queues \in [Priority -> Seq(Repo)], NEW p \in Priority
  PROVE  Count[p] \in 0..Len(queues[p])
<1>1. /\ Len(queues[localChanges]) \in Nat /\ Len(queues[firstLoad]) \in Nat
      /\ Len(queues[normal]) \in Nat
  BY Priorities
<1>2. \A n \in Nat : Cut(n) \in 0..n
  BY SchedulerConstantsOK DEF Cut
<1>3. /\ DOMAIN Count = Priority
      /\ Count[p] = 0 \/ Count[p] = Cut(Len(queues[p]))
  BY Priorities DEF Count, localChanges, firstLoad, normal
<1>4. Len(queues[p]) \in Nat
  OBVIOUS
<1>5. Cut(Len(queues[p])) \in 0..Len(queues[p])
  BY <1>2, <1>4
<1> QED BY <1>3, <1>4, <1>5

(* What is taken from the queues of a priority, and what is left.          *)
LEMMA TakenAndLeft ==
  ASSUME Placed, NEW p \in Priority
  PROVE  /\ TakenOf(p) \in Seq(Repo) /\ LeftOf(p) \in Seq(Repo)
         /\ IsInjective(TakenOf(p)) /\ IsInjective(LeftOf(p))
         /\ ToSet(TakenOf(p)) \cap ToSet(LeftOf(p)) = {}
         /\ ToSet(TakenOf(p)) \cup ToSet(LeftOf(p)) = QueueOf(p)
BY Counted, Split DEF Placed, TakenOf, LeftOf, QueueOf

LEMMA TakenOnce ==
  ASSUME Placed
  PROVE  /\ Taken \in Seq(Repo) /\ IsInjective(Taken)
         /\ ToSet(Taken) = UNION {ToSet(TakenOf(p)) : p \in Priority}
<1>1. \A p \in Priority :
        /\ TakenOf(p) \in Seq(Repo) /\ IsInjective(TakenOf(p))
        /\ ToSet(TakenOf(p)) \subseteq QueueOf(p)
  BY TakenAndLeft
<1>2. \A p, q \in Priority : p # q => ToSet(TakenOf(p)) \cap ToSet(TakenOf(q)) = {}
  BY <1>1 DEF Placed
<1>3. /\ localChanges \in Priority /\ firstLoad \in Priority /\ normal \in Priority
      /\ localChanges # firstLoad /\ localChanges # normal /\ firstLoad # normal
  BY DEF Priority, localChanges, firstLoad, normal
<1> DEFINE l == TakenOf(localChanges)
           f == TakenOf(firstLoad)
           n == TakenOf(normal)
<1>4. /\ l \in Seq(Repo) /\ f \in Seq(Repo) /\ n \in Seq(Repo)
      /\ IsInjective(l) /\ IsInjective(f) /\ IsInjective(n)
      /\ ToSet(l) \cap ToSet(f) = {}
      /\ (ToSet(l) \cup ToSet(f)) \cap ToSet(n) = {}
      /\ UNION {ToSet(TakenOf(p)) : p \in Priority} = ToSet(l) \cup ToSet(f) \cup ToSet(n)
  BY <1>1, <1>2, <1>3, Priorities
<1>5. Taken = (l \o f) \o n
  BY DEF Taken
<1> DEFINE lf == l \o f
<1> HIDE DEF l, f, n
<1>6. lf \in Seq(Repo) /\ IsInjective(lf) /\ ToSet(lf) = ToSet(l) \cup ToSet(f)
  BY <1>4, Concatenated
<1> HIDE DEF lf
<1>7. /\ lf \o n \in Seq(Repo) /\ IsInjective(lf \o n)
      /\ ToSet(lf \o n) = ToSet(lf) \cup ToSet(n)
  BY <1>4, <1>6, Concatenated
<1> QED BY <1>4, <1>5, <1>6, <1>7 DEF lf

LEMMA PlacedInit == SchedulerInit => Placed
<1> SUFFICES ASSUME SchedulerInit PROVE Placed
  OBVIOUS
<1>1. /\ queues \in [Priority -> Seq(Repo)] /\ batch \in Seq(Repo)
      /\ settled \in 0..Len(batch)
  BY DEF SchedulerInit
<1>2. \A p \in Priority : IsInjective(queues[p]) /\ QueueOf(p) = {}
  BY DEF SchedulerInit, IsInjective, QueueOf, ToSet
<1> QED BY <1>1, <1>2, NothingSent DEF SchedulerInit, Placed

LEMMA SendPlaced ==
  ASSUME Placed, NEW r \in Repo, NEW p \in Priority, Send(r, p)
  PROVE  Placed'
<1>1. /\ r \notin waiting /\ waiting' = waiting \cup {r}
      /\ UNCHANGED <<fetch, batch, settled, dropped, Unanswered, Unsettled>>
      /\ queues' = [queues EXCEPT ![p] = Append(@, r)]
  BY DEF Send, Unanswered, Unsettled
<1>2. r \notin dropped /\ r \notin Unsettled /\ \A q \in Priority : r \notin QueueOf(q)
  BY <1>1 DEF Placed
<1>3. /\ queues'[p] \in Seq(Repo) /\ IsInjective(queues'[p])
      /\ QueueOf(p)' = QueueOf(p) \cup {r}
      /\ \A q \in Priority \ {p} : queues'[q] = queues[q] /\ QueueOf(q)' = QueueOf(q)
  BY <1>1, <1>2, Appended DEF Placed, QueueOf
<1>4. queues' \in [Priority -> Seq(Repo)]
  BY <1>1, <1>3 DEF Placed
<1>5. /\ \A q \in Priority : IsInjective(queues'[q]) /\ QueueOf(q)' \cap Unsettled = {}
      /\ \A q, t \in Priority : q # t => QueueOf(q)' \cap QueueOf(t)' = {}
  BY <1>2, <1>3, SMTT(30) DEF Placed
<1>6. waiting' \ dropped = Unsettled \cup UNION {QueueOf(q)' : q \in Priority}
  <2>1. waiting' \ dropped = Unsettled \cup {r} \cup UNION {QueueOf(q) : q \in Priority}
    BY <1>1, <1>2 DEF Placed
  <2>2. UNION {QueueOf(q)' : q \in Priority} = {r} \cup UNION {QueueOf(q) : q \in Priority}
    BY <1>3
  <2> QED BY <2>1, <2>2
<1> QED BY <1>1, <1>4, <1>5, <1>6 DEF Placed

LEMMA SendPendingPlaced ==
  ASSUME Placed, SendPendingRequests
  PROVE  Placed'
<1>1. fetch = "none" /\ batch = <<>> /\ settled = 0
  BY DEF SendPendingRequests, Placed
<1>2. Unsettled = {} /\ waiting \ dropped = UNION {QueueOf(p) : p \in Priority}
  BY <1>1, NothingSent DEF Placed
<1>3. queues' = [p \in Priority |-> LeftOf(p)]
  BY DEF SendPendingRequests
<1>4. \A p \in Priority : queues'[p] = LeftOf(p) /\ QueueOf(p)' = ToSet(LeftOf(p))
  BY <1>3 DEF QueueOf
<1>5. \A p \in Priority :
        /\ LeftOf(p) \in Seq(Repo) /\ IsInjective(queues'[p])
        /\ ToSet(TakenOf(p)) \cap QueueOf(p)' = {}
        /\ ToSet(TakenOf(p)) \cup QueueOf(p)' = QueueOf(p)
  BY <1>4, TakenAndLeft
<1>6. queues' \in [Priority -> Seq(Repo)]
  BY <1>3, <1>5
<1>7. /\ Taken \in Seq(Repo) /\ IsInjective(Taken)
      /\ ToSet(Taken) = UNION {ToSet(TakenOf(p)) : p \in Priority}
  BY TakenOnce
<1>8. \A p, q \in Priority : p # q => QueueOf(p) \cap QueueOf(q) = {}
  BY DEF Placed
<1>9. /\ \A p \in Priority : QueueOf(p)' \cap ToSet(Taken) = {}
      /\ \A p, q \in Priority : p # q => QueueOf(p)' \cap QueueOf(q)' = {}
  BY <1>5, <1>7, <1>8
<1>10. waiting \ dropped = ToSet(Taken) \cup UNION {QueueOf(p)' : p \in Priority}
  BY <1>2, <1>5, <1>7
<1>11. CASE fetch' = "answer" /\ batch' = Taken /\ UNCHANGED dropped
  <2>1. Unanswered' = Taken
    BY <1>1, <1>7, <1>11, SubSeqFull DEF Unanswered, SendPendingRequests
  <2>2. UNCHANGED <<waiting, settled>> /\ Unsettled' = ToSet(Taken)
    BY <2>1 DEF SendPendingRequests, Unsettled
  <2>3. settled' \in 0..Len(batch')
    BY <1>1, <1>7, <1>11, <2>2
  <2>4. dropped' \subseteq waiting'
    BY <1>11, <2>2 DEF Placed
  <2>5. \A p \in Priority : IsInjective(queues'[p]) /\ QueueOf(p)' \cap Unsettled' = {}
    BY <1>5, <1>9, <2>2
  <2>6. waiting' \ dropped' = Unsettled' \cup UNION {QueueOf(p)' : p \in Priority}
    BY <1>10, <1>11, <2>2
  <2> QED BY <1>6, <1>7, <1>9, <1>11, <2>1, <2>3, <2>4, <2>5, <2>6 DEF Placed
<1>12. CASE dropped = {} /\ dropped' = ToSet(Taken) /\ UNCHANGED <<fetch, batch>>
  <2>1. UNCHANGED <<waiting, settled, Unanswered, Unsettled>>
    BY <1>12 DEF SendPendingRequests, Unanswered, Unsettled
  <2>2. dropped' \subseteq waiting'
    BY <1>10, <1>12, <2>1
  <2>3. waiting' \ dropped' = Unsettled' \cup UNION {QueueOf(p)' : p \in Priority}
    BY <1>2, <1>9, <1>10, <1>12, <2>1
  <2>4. \A p \in Priority : IsInjective(queues'[p]) /\ QueueOf(p)' \cap Unsettled' = {}
    BY <1>2, <1>5, <2>1
  <2> QED BY <1>6, <1>9, <1>12, <2>1, <2>2, <2>3, <2>4 DEF Placed
<1> QED BY <1>11, <1>12 DEF SendPendingRequests

LEMMA RejectedPlaced ==
  ASSUME Placed, RejectAll, UNCHANGED <<queues, dropped>>
  PROVE  Placed'
<1>1. batch' = <<>> /\ settled' = 0 /\ waiting' = waiting \ Unsettled
  BY DEF RejectAll
<1>2. IsInjective(Unanswered)' /\ Unsettled' = {}
  <2>1. Unanswered' = <<>>
    BY <1>1 DEF Unanswered
  <2> QED BY <2>1, EmptyOnce DEF Unsettled
<1>3. batch' \in Seq(Repo) /\ settled' \in 0..Len(batch')
  BY <1>1
<1>4. \A p \in Priority : queues'[p] = queues[p] /\ QueueOf(p)' = QueueOf(p)
  BY DEF QueueOf
<1>5. dropped' \subseteq waiting'
  BY <1>1 DEF Placed
<1>6. waiting' \ dropped' = UNION {QueueOf(p)' : p \in Priority}
  BY <1>1, <1>4 DEF Placed
<1> QED BY <1>1, <1>2, <1>3, <1>4, <1>5, <1>6 DEF Placed

LEMMA DecodePlaced ==
  ASSUME Placed, Decode
  PROVE  Placed'
<1> DEFINE r == batch[settled + 1]
<1>1. /\ settled + 1 \in 1..Len(batch) /\ settled' = settled + 1
      /\ waiting' = waiting \ {r}
      /\ UNCHANGED <<queues, fetch, batch, dropped>>
  BY DEF Decode, Placed
<1>2. Unanswered' = SubSeq(batch, (settled + 1) + 1, Len(batch))
  BY <1>1 DEF Unanswered
<1>3. IsInjective(Unanswered)' /\ r \in Unsettled /\ Unsettled' = Unsettled \ {r}
  BY <1>1, <1>2, WithoutFirst DEF Placed, Unanswered, Unsettled
<1>4. \A p \in Priority : queues'[p] = queues[p] /\ QueueOf(p)' = QueueOf(p)
  BY <1>1 DEF QueueOf
<1> HIDE DEF r
<1>5. r \notin dropped /\ \A p \in Priority : r \notin QueueOf(p)
  BY <1>3 DEF Placed
<1>6. /\ dropped' \subseteq waiting'
      /\ waiting' \ dropped' = Unsettled' \cup UNION {QueueOf(p)' : p \in Priority}
  BY <1>1, <1>3, <1>4, <1>5 DEF Placed
<1>7. batch' \in Seq(Repo) /\ settled' \in 0..Len(batch')
  BY <1>1 DEF Placed
<1> QED BY <1>1, <1>3, <1>4, <1>6, <1>7 DEF Placed

LEMMA DecodedPlaced ==
  ASSUME Placed, Decoded
  PROVE  Placed'
<1>1. settled = Len(batch) /\ batch' = <<>> /\ settled' = 0
      /\ UNCHANGED <<queues, waiting, dropped>>
  BY DEF Decoded
<1>2. Unsettled = {}
  <2>1. Unanswered = <<>>
    BY <1>1 DEF Placed, Unanswered
  <2> QED BY <2>1 DEF Unsettled, ToSet
<1>3. RejectAll
  BY <1>1, <1>2 DEF RejectAll, Decoded
<1> QED BY <1>1, <1>3, RejectedPlaced

LEMMA PlacedNext ==
  ASSUME Placed, [SchedulerNext]_svars
  PROVE  Placed'
<1>1. ASSUME UNCHANGED <<queues, waiting, batch, settled, dropped>>,
             fetch' = "none" => fetch = "none"
      PROVE  Placed'
  BY <1>1 DEF Placed, QueueOf, Unanswered, Unsettled
<1>2. CASE UNCHANGED svars
  BY <1>1, <1>2 DEF svars
<1>3. CASE SendPendingRequests
  BY <1>3, SendPendingPlaced
<1>4. CASE TimedOut \/ Failed \/ PauseEnds \/ DecodeFails
  BY <1>4, RejectedPlaced DEF TimedOut, Failed, PauseEnds, DecodeFails
<1>5. CASE Refused \/ Accepted
  BY <1>1, <1>5 DEF Refused, Accepted
<1>6. CASE Decode \/ Decoded
  BY <1>6, DecodePlaced, DecodedPlaced
<1>7. ASSUME NEW r \in Repo, NEW p \in Priority, Send(r, p)
      PROVE  Placed'
  BY <1>7, SendPlaced
<1> QED BY <1>2, <1>3, <1>4, <1>5, <1>6, <1>7 DEF SchedulerNext, Progress

LEMMA PlacedOnce == Placed => NoRequestForgotten
<1> SUFFICES ASSUME Placed PROVE NoRequestForgotten
  OBVIOUS
<1> DEFINE l == queues[localChanges]
           f == queues[firstLoad]
           n == queues[normal]
           u == Unanswered
<1>1. /\ localChanges \in Priority /\ firstLoad \in Priority /\ normal \in Priority
      /\ localChanges # firstLoad /\ localChanges # normal /\ firstLoad # normal
  BY DEF Priority, localChanges, firstLoad, normal
<1>2. u \in Seq(Repo) /\ ToSet(u) = Unsettled
  BY SubSeqProperties DEF Placed, Unanswered, Unsettled
<1>3. /\ l \in Seq(Repo) /\ f \in Seq(Repo) /\ n \in Seq(Repo)
      /\ IsInjective(l) /\ IsInjective(f) /\ IsInjective(n) /\ IsInjective(u)
      /\ ToSet(l) \cap ToSet(f) = {}
      /\ (ToSet(l) \cup ToSet(f)) \cap ToSet(n) = {}
      /\ (ToSet(l) \cup ToSet(f) \cup ToSet(n)) \cap ToSet(u) = {}
  BY <1>1, <1>2 DEF Placed, QueueOf
<1>4. waiting \ dropped = ToSet(l) \cup ToSet(f) \cup ToSet(n) \cup ToSet(u)
  BY <1>2, Priorities DEF Placed, QueueOf
<1> DEFINE lf == l \o f
           lfn == lf \o n
<1> HIDE DEF l, f, n, u
<1>5. lf \in Seq(Repo) /\ IsInjective(lf) /\ ToSet(lf) = ToSet(l) \cup ToSet(f)
  BY <1>3, Concatenated
<1> HIDE DEF lf
<1>6. lfn \in Seq(Repo) /\ IsInjective(lfn) /\ ToSet(lfn) = ToSet(lf) \cup ToSet(n)
  BY <1>3, <1>5, Concatenated
<1> HIDE DEF lfn
<1>7. IsInjective(lfn \o u) /\ ToSet(lfn \o u) = ToSet(lfn) \cup ToSet(u)
  BY <1>2, <1>3, <1>5, <1>6, Concatenated
<1>8. IsInjective(lfn \o u) /\ ToSet(lfn \o u) = waiting \ dropped
  BY <1>4, <1>5, <1>6, <1>7
<1> QED BY <1>8 DEF NoRequestForgotten, l, f, n, u, lf, lfn

(* A client that waits for the server has its request in one place, and a  *)
(* request of which the client no longer waits is nowhere.                 *)
THEOREM RequestsAreKept == SchedulerSpec => []NoRequestForgotten
BY PlacedInit, PlacedNext, PlacedOnce, PTL DEF SchedulerSpec
------------------------------------------------------------------------------
(* The types that the two invariants above leave open.                     *)
Bounded ==
  /\ waiting \subseteq Repo
  /\ fetch \in Fetch
  /\ fetch = "none" <=> batch = <<>>
  /\ Len(batch) < 2 * MaxBatch

LEMMA BatchBounded ==
  ASSUME Placed
  PROVE  Len(Taken) < 2 * MaxBatch
<1> DEFINE l == Count[localChanges]
           f == Count[firstLoad]
           n == Count[normal]
<1>1. /\ localChanges \in Priority /\ firstLoad \in Priority /\ normal \in Priority
  BY Priorities
<1>2. \A p \in Priority : TakenOf(p) \in Seq(Repo) /\ Len(TakenOf(p)) = Count[p]
  <2> TAKE p \in Priority
  <2>1. Count[p] \in 0..Len(queues[p]) /\ queues[p] \in Seq(Repo)
    BY Counted DEF Placed
  <2> QED BY <2>1, TakenAndLeft, SubSeqProperties DEF TakenOf
<1>3. Len(Taken) = l + f + n
  <2>1. \A s, t \in Seq(Repo) : s \o t \in Seq(Repo) /\ Len(s \o t) = Len(s) + Len(t)
    OBVIOUS
  <2>2. /\ TakenOf(localChanges) \in Seq(Repo) /\ Len(TakenOf(localChanges)) = l
        /\ TakenOf(firstLoad) \in Seq(Repo) /\ Len(TakenOf(firstLoad)) = f
        /\ TakenOf(normal) \in Seq(Repo) /\ Len(TakenOf(normal)) = n
    BY <1>1, <1>2
  <2>3. /\ TakenOf(localChanges) \o TakenOf(firstLoad) \in Seq(Repo)
        /\ Len(TakenOf(localChanges) \o TakenOf(firstLoad)) = l + f
    BY <2>1, <2>2
  <2>4. Len(Taken) = Len(TakenOf(localChanges) \o TakenOf(firstLoad)) + Len(TakenOf(normal))
    BY <2>1, <2>2, <2>3 DEF Taken
  <2> QED BY <2>2, <2>3, <2>4
<1>4. l \in Nat /\ f \in Nat /\ n \in Nat
  BY <1>1, Counted DEF Placed
<1>5. \A k \in Nat : Cut(k) \in 0..MaxBatch
  BY SchedulerConstantsOK DEF Cut
<1>6. \A p \in Priority : Len(queues[p]) \in Nat
  BY DEF Placed
<1>7. /\ l = Cut(Len(queues[localChanges]))
      /\ f = IF l >= MaxBatch THEN 0 ELSE Cut(Len(queues[firstLoad]))
      /\ n = IF l + f >= MaxBatch THEN 0 ELSE Cut(Len(queues[normal]))
  BY <1>1, SchedulerConstantsOK DEF Count, localChanges, firstLoad, normal
<1>8. /\ l <= MaxBatch /\ f <= MaxBatch /\ n <= MaxBatch
      /\ l >= MaxBatch => f = 0
      /\ l + f >= MaxBatch => n = 0
  <2>1. \A p \in Priority : Cut(Len(queues[p])) \in 0..MaxBatch
    BY <1>5, <1>6
  <2>2. /\ Cut(Len(queues[localChanges])) \in 0..MaxBatch
        /\ Cut(Len(queues[firstLoad])) \in 0..MaxBatch
        /\ Cut(Len(queues[normal])) \in 0..MaxBatch
    BY <1>1, <2>1
  <2> HIDE DEF l, f, n
  <2> QED BY <1>7, <2>2, SchedulerConstantsOK
<1> HIDE DEF l, f, n
<1> QED BY <1>3, <1>4, <1>8, SchedulerConstantsOK

LEMMA BoundedNext ==
  ASSUME RefusalsCounted, Placed, Bounded, [SchedulerNext]_svars
  PROVE  Bounded'
<1>1. CASE UNCHANGED svars
  BY <1>1 DEF svars, Bounded
<1>2. CASE SendPendingRequests
  BY <1>2, BatchBounded DEF SendPendingRequests, Ready, Bounded, Fetch
<1>3. CASE TimedOut \/ Failed \/ PauseEnds \/ DecodeFails
  BY <1>3, SchedulerConstantsOK
     DEF TimedOut, Failed, PauseEnds, DecodeFails, RejectAll, Bounded, Fetch
<1>4. CASE Refused \/ Accepted \/ Decode
  BY <1>4 DEF Refused, Accepted, Decode, Bounded, Fetch
<1>5. CASE Decoded
  BY <1>5, SchedulerConstantsOK DEF Decoded, Bounded, Fetch
<1>6. ASSUME NEW r \in Repo, NEW p \in Priority, Send(r, p)
      PROVE  Bounded'
  BY <1>6, SchedulerConstantsOK DEF Send, Bounded
<1> QED BY <1>1, <1>2, <1>3, <1>4, <1>5, <1>6 DEF SchedulerNext, Progress

(* The variables of the scheduler keep their types; a batch is never as    *)
(* long as two of the largest.                                             *)
THEOREM SchedulerTypeCorrect == SchedulerSpec => []SchedulerTypeOK
<1>1. SchedulerInit => Bounded
  BY SchedulerConstantsOK DEF SchedulerInit, Bounded, Fetch
<1>2. RefusalsCounted /\ Placed /\ Bounded => SchedulerTypeOK
  <2> SUFFICES ASSUME RefusalsCounted, Placed, Bounded PROVE SchedulerTypeOK
    OBVIOUS
  <2>1. \A p \in Priority : ToSet(queues[p]) \subseteq Repo
    BY DEF Placed, ToSet
  <2>2. ToSet(batch) \subseteq Repo /\ ToSet(answers) \subseteq Answer
    BY DEF Placed, RefusalsCounted, ToSet
  <2>3. denied \in 0..MaxRefused
    BY SchedulerConstantsOK DEF RefusalsCounted
  <2> QED BY <2>1, <2>2, <2>3 DEF SchedulerTypeOK, Placed, Bounded, RefusalsCounted
<1> QED BY <1>1, <1>2, RefusalsCountedInit, RefusalsCountedNext, PlacedInit, PlacedNext,
           BoundedNext, PTL DEF SchedulerSpec
------------------------------------------------------------------------------
(* The backup.                                                             *)
Written == UNION {txns[i].put : i \in DOMAIN txns}
Kept == stored \cup undone \cup Written

BackupInv ==
  /\ \E S : txns \in Seq(S)
  /\ persisted \subseteq Kept

LEMMA BackupInvInit == BackupInit => BackupInv
<1> SUFFICES ASSUME BackupInit PROVE BackupInv
  OBVIOUS
<1>1. txns \in Seq({}) /\ persisted = {}
  BY DEF BackupInit
<1> QED BY <1>1 DEF BackupInv

(* A transaction that ends takes what it wrote with it.                    *)
LEMMA TxnEndsWritten ==
  ASSUME NEW S, txns \in Seq(S), txns # <<>>, txns' = Tail(txns)
  PROVE  txns' \in Seq(S) /\ Written \subseteq Written' \cup Head(txns).put
<1>1. ASSUME NEW i \in DOMAIN txns PROVE txns[i].put \subseteq Written' \cup Head(txns).put
  <2>1. CASE i = 1
    BY <2>1
  <2>2. CASE i # 1
    <3>1. i - 1 \in DOMAIN Tail(txns) /\ Tail(txns)[i - 1] = txns[i]
      BY <2>2
    <3> QED BY <3>1 DEF Written
  <2> QED BY <2>1, <2>2
<1> QED BY <1>1 DEF Written

LEMMA BackupInvNext ==
  ASSUME BackupInv, [BackupNext]_bvars
  PROVE  BackupInv'
<1>0. PICK S : txns \in Seq(S)
  BY DEF BackupInv
<1>1. persisted \subseteq Kept
  BY DEF BackupInv
<1>2. ASSUME UNCHANGED <<persisted, txns, undone>>, stored \subseteq stored'
      PROVE  BackupInv'
  <2>1. Written' = Written
    BY <1>2 DEF Written
  <2> QED BY <1>0, <1>1, <1>2, <2>1 DEF BackupInv, Kept
<1>3. CASE UNCHANGED bvars
  BY <1>2, <1>3 DEF bvars
<1>4. CASE Begin
  <2> DEFINE new == [todo |-> Head(pending) \ persisted, put |-> {}]
  <2>1. txns' = Append(txns, new) /\ UNCHANGED <<persisted, stored, undone>>
    BY <1>4 DEF Begin
  <2>2. txns' \in Seq(S \cup {new})
    <3> HIDE DEF new
    <3> QED BY <1>0, <2>1
  <2>3. Written \subseteq Written'
    <3> HIDE DEF new
    <3>1. ASSUME NEW i \in DOMAIN txns PROVE i \in DOMAIN txns' /\ txns'[i] = txns[i]
      BY <1>0, <2>1
    <3> QED BY <3>1 DEF Written
  <2> QED BY <1>1, <2>1, <2>2, <2>3 DEF BackupInv, Kept
<1>5. ASSUME NEW c \in Commit, Put(c) PROVE BackupInv'
  <2> DEFINE new == {c} \ stored
             rest == [todo |-> txns[1].todo \ {c}, put |-> txns[1].put \cup new]
  <2>1. /\ txns # <<>> /\ txns' = [txns EXCEPT ![1] = rest]
        /\ persisted' = persisted \cup new
        /\ UNCHANGED <<stored, undone>>
    BY <1>5 DEF Put
  <2>2. 1 \in DOMAIN txns /\ DOMAIN txns' = DOMAIN txns
    BY <1>0, <2>1
  <2>3. rest.put = txns[1].put \cup new
    OBVIOUS
  <2>4. /\ txns'[1] = rest
        /\ \A i \in DOMAIN txns : i # 1 => txns'[i] = txns[i]
    <3> HIDE DEF rest
    <3> QED BY <1>0, <2>1, <2>2
  <2>5. txns' \in Seq(S \cup {rest})
    <3> HIDE DEF rest
    <3> QED BY <1>0, <2>1
  <2>6. Written \cup new \subseteq Written'
    <3> HIDE DEF rest, new
    <3>1. new \subseteq Written'
      BY <2>2, <2>3, <2>4 DEF Written
    <3>2. ASSUME NEW i \in DOMAIN txns PROVE txns[i].put \subseteq txns'[i].put
      BY <2>3, <2>4
    <3> QED BY <2>2, <3>1, <3>2 DEF Written
  <2> QED BY <1>1, <2>1, <2>5, <2>6 DEF BackupInv, Kept
<1>6. ASSUME txns # <<>>, TxnEnds,
             stored \cup undone \cup Head(txns).put \subseteq stored' \cup undone'
      PROVE  BackupInv'
  <2>1. txns' = Tail(txns) /\ persisted' = persisted
    BY <1>6 DEF TxnEnds
  <2>2. txns' \in Seq(S) /\ Written \subseteq Written' \cup Head(txns).put
    BY <1>0, <1>6, <2>1, TxnEndsWritten
  <2> QED BY <1>1, <1>6, <2>1, <2>2 DEF BackupInv, Kept
<1>7. CASE Complete
  BY <1>6, <1>7 DEF Complete
<1>8. CASE Fail
  BY <1>6, <1>8 DEF Fail
<1>9. CASE Close
  <2>1. txns' \in Seq(S) /\ persisted' = {}
    BY <1>9 DEF Close
  <2> QED BY <2>1 DEF BackupInv
<1>10. CASE Load
  <2>1. persisted' = persisted \cup stored /\ UNCHANGED <<txns, stored, undone>>
    BY <1>10 DEF Load
  <2>2. Written' = Written
    BY <2>1 DEF Written
  <2> QED BY <1>0, <1>1, <2>1, <2>2 DEF BackupInv, Kept
<1>11. ASSUME NEW c \in Commit, NewCommit(c) \/ EmitNewCommit(c) PROVE BackupInv'
  BY <1>2, <1>11 DEF NewCommit, EmitNewCommit
<1>12. ASSUME NEW i \in 1..Cardinality(Commit), Save(i) PROVE BackupInv'
  BY <1>2, <1>12 DEF Save
<1> QED BY <1>3, <1>4, <1>5, <1>7, <1>8, <1>9, <1>10, <1>11, <1>12
        DEF BackupNext, Writes

(* Whatever overlaps and fails, and in whatever order commits come, a      *)
(* commit that will not be written again has been written.                 *)
THEOREM MarkedCommitsAreStored == BackupSpec => []MarkedIsStored
<1>1. BackupInv => MarkedIsStored
  BY DEF BackupInv, Kept, Written, MarkedIsStored
<1> QED BY <1>1, BackupInvInit, BackupInvNext, PTL DEF BackupSpec
------------------------------------------------------------------------------
(* The types of the backup: transactions and functions know the commits of *)
(* the repository, which has each of them once.                            *)
BackupShape ==
  /\ loaded \in BOOLEAN /\ timer \in BOOLEAN
  /\ commits \in Seq(Commit) /\ IsInjective(commits)
  /\ arriving \cup persisted \subseteq ToSet(commits)
  /\ pending \in Seq(SUBSET ToSet(commits))
  /\ txns \in Seq([todo : SUBSET ToSet(commits), put : SUBSET ToSet(commits)])
  /\ stored \subseteq Commit
  /\ undone \subseteq failed /\ failed \subseteq Commit
  /\ failures \in 0..MaxFailures /\ closes \in 0..MaxCloses

LEMMA ElementsIn ==
  ASSUME NEW S, NEW s \in Seq(S)
  PROVE  ToSet(s) \subseteq S
BY DEF ToSet

LEMMA WiderSeq ==
  ASSUME NEW S, NEW T, S \subseteq T
  PROVE  Seq(S) \subseteq Seq(T)
OBVIOUS

(* An order of a finite set is a sequence of it.                           *)
LEMMA OrderOf ==
  ASSUME NEW S, IsFiniteSet(S), NEW order \in SetToSeqs(S)
  PROVE  order \in Seq(S) /\ IsInjective(order) /\ ToSet(order) = S
<1> DEFINE D == 1..Cardinality(S)
<1>1. Cardinality(S) \in Nat
  BY FS_CardinalityType
<1>2. /\ order \in [D -> S]
      /\ \A i, j \in D : i # j => order[i] # order[j]
  BY DEF SetToSeqs
<1>3. order \in Seq(S) /\ Len(order) = Cardinality(S)
  BY <1>1, <1>2
<1>4. IsInjective(order)
  BY <1>2, <1>3, InjectiveSeq
<1>5. order \in Injection(D, S)
  BY <1>2, <1>4 DEF Injection
<1>6. Cardinality(D) = Cardinality(S)
  BY <1>1, FS_Interval
<1>7. order \in Surjection(D, S)
  BY <1>5, <1>6, FS_Injection
<1>8. ToSet(order) = S
  BY <1>2, <1>7 DEF Surjection, ToSet
<1> QED BY <1>3, <1>4, <1>8

LEMMA PersistCommitsShape ==
  ASSUME BackupShape, NEW S \in SUBSET ToSet(commits), PersistCommits(S),
         UNCHANGED commits
  PROVE  pending' \in Seq(SUBSET ToSet(commits)') /\ timer' \in BOOLEAN
<1> DEFINE new == S \ persisted
<1>1. CASE new = {}
  BY <1>1 DEF PersistCommits, BackupShape
<1>2. CASE new # {}
  <2>1. pending' = Append(pending, new) /\ timer' = TRUE
    BY <1>2 DEF PersistCommits
  <2>2. new \in SUBSET ToSet(commits)
    OBVIOUS
  <2> HIDE DEF new
  <2>3. pending' \in Seq(SUBSET ToSet(commits))
    BY <2>1, <2>2 DEF BackupShape
  <2>4. ToSet(commits)' = ToSet(commits)
    OBVIOUS
  <2> QED BY <2>1, <2>3, <2>4
<1> QED BY <1>1, <1>2

(* More commits in the repository: what knew the old ones knows the new.   *)
LEMMA CommitsGrow ==
  ASSUME BackupShape, NEW s \in Seq(Commit), IsInjective(s),
         ToSet(commits) \subseteq ToSet(s), commits' = s,
         UNCHANGED <<pending, timer, txns, stored, undone, failed, failures, closes>>,
         loaded' \in BOOLEAN,
         arriving' \cup persisted' \subseteq ToSet(s)
  PROVE  BackupShape'
<1> DEFINE T(S) == [todo : SUBSET S, put : SUBSET S]
<1>1. Seq(SUBSET ToSet(commits)) \subseteq Seq(SUBSET ToSet(s))
  BY WiderSeq
<1>2. Seq(T(ToSet(commits))) \subseteq Seq(T(ToSet(s)))
  <2>1. T(ToSet(commits)) \subseteq T(ToSet(s))
    OBVIOUS
  <2> HIDE DEF T
  <2> QED BY <2>1, WiderSeq
<1>3. ToSet(commits)' = ToSet(s)
  OBVIOUS
<1>4. pending' \in Seq(SUBSET ToSet(s)) /\ txns' \in Seq(T(ToSet(s)))
  BY <1>1, <1>2 DEF BackupShape
<1> HIDE DEF T
<1>5. pending' \in Seq(SUBSET ToSet(commits)') /\ txns' \in Seq(T(ToSet(commits)'))
  BY <1>3, <1>4
<1> QED BY <1>3, <1>5 DEF BackupShape, T

LEMMA BackupShapeInit == BackupInit => BackupShape
<1> SUFFICES ASSUME BackupInit PROVE BackupShape
  OBVIOUS
<1>1. IsInjective(commits)
  BY EmptyOnce DEF BackupInit
<1>2. pending = <<>> /\ txns = <<>> /\ commits = <<>>
  BY DEF BackupInit
<1>3. /\ pending \in Seq(SUBSET ToSet(commits)) /\ commits \in Seq(Commit)
      /\ txns \in Seq([todo : SUBSET ToSet(commits), put : SUBSET ToSet(commits)])
  BY <1>2
<1>4. failures \in 0..MaxFailures /\ closes \in 0..MaxCloses
  BY BackupConstantsOK DEF BackupInit
<1>5. /\ loaded \in BOOLEAN /\ timer \in BOOLEAN
      /\ arriving \cup persisted \subseteq ToSet(commits)
      /\ stored \subseteq Commit /\ undone \subseteq failed /\ failed \subseteq Commit
  BY DEF BackupInit
<1> QED BY <1>1, <1>3, <1>4, <1>5 DEF BackupShape

LEMMA BackupShapeNext ==
  ASSUME BackupShape, [BackupNext]_bvars
  PROVE  BackupShape'
<1> DEFINE C == ToSet(commits)
           T == [todo : SUBSET C, put : SUBSET C]
<1>0. C \subseteq Commit
  BY ElementsIn DEF BackupShape
<1>1. CASE UNCHANGED bvars
  BY <1>1 DEF bvars, BackupShape
<1>2. CASE Begin
  <2> DEFINE new == [todo |-> Head(pending) \ persisted, put |-> {}]
  <2>1. /\ pending # <<>> /\ pending' = Tail(pending) /\ timer' = FALSE
        /\ txns' = Append(txns, new)
    BY <1>2 DEF Begin
  <2>2. Head(pending) \in SUBSET C /\ pending' \in Seq(SUBSET C)
    BY <2>1 DEF BackupShape
  <2>3. new \in T
    BY <2>2
  <2>4. txns \in Seq(T)
    BY DEF BackupShape
  <2>5. txns' \in Seq(T)
    <3> HIDE DEF new, T
    <3> QED BY <2>1, <2>3, <2>4
  <2>6. UNCHANGED <<loaded, commits, arriving, persisted, stored, undone, failed,
                    failures, closes>>
    BY <1>2 DEF Begin
  <2> QED BY <2>1, <2>2, <2>5, <2>6 DEF BackupShape
<1>3. ASSUME NEW c \in Commit, Put(c) PROVE BackupShape'
  <2> DEFINE new == {c} \ stored
             rest == [todo |-> txns[1].todo \ {c}, put |-> txns[1].put \cup new]
  <2>1. /\ txns # <<>> /\ c \in Head(txns).todo
        /\ txns' = [txns EXCEPT ![1] = rest]
        /\ persisted' = persisted \cup new
        /\ UNCHANGED <<loaded, commits, arriving, pending, timer, stored, undone,
                       failed, failures, closes>>
    BY <1>3 DEF Put
  <2>2. txns \in Seq(T)
    BY DEF BackupShape
  <2>3. 1 \in DOMAIN txns /\ Head(txns) = txns[1] /\ txns[1] \in T
    <3> HIDE DEF T
    <3> QED BY <2>1, <2>2
  <2>4. c \in C /\ rest \in T
    BY <2>1, <2>3
  <2>5. txns' \in Seq(T)
    <3> HIDE DEF rest, T
    <3> QED BY <2>1, <2>2, <2>4
  <2> QED BY <2>1, <2>4, <2>5 DEF BackupShape
<1>4. ASSUME txns # <<>>, TxnEnds PROVE
        /\ txns \in Seq(T) /\ Head(txns) \in T /\ txns' \in Seq(T)
        /\ timer' \in BOOLEAN
        /\ UNCHANGED <<loaded, commits, arriving, persisted, pending, closes>>
  <2>1. txns \in Seq(T) /\ txns' = Tail(txns)
    BY <1>4 DEF BackupShape, TxnEnds
  <2>2. Head(txns) \in T /\ txns' \in Seq(T)
    <3> HIDE DEF T
    <3> QED BY <1>4, <2>1
  <2> QED BY <1>4, <2>1, <2>2 DEF TxnEnds, BackupShape
<1>5. CASE Complete
  <2>1. txns # <<>> /\ TxnEnds /\ stored' = stored \cup Head(txns).put
        /\ UNCHANGED <<undone, failed, failures>>
    BY <1>5 DEF Complete
  <2>2. Head(txns).put \subseteq C
    BY <1>4, <2>1
  <2> QED BY <1>0, <1>4, <2>1, <2>2 DEF BackupShape
<1>6. CASE Fail
  <2>1. /\ txns # <<>> /\ TxnEnds /\ failures < MaxFailures
        /\ failures' = failures + 1
        /\ undone' = undone \cup Head(txns).put
        /\ failed' = failed \cup Head(txns).put \cup Head(txns).todo
        /\ UNCHANGED stored
    BY <1>6 DEF Fail
  <2>2. Head(txns).put \subseteq C /\ Head(txns).todo \subseteq C
    BY <1>4, <2>1
  <2>3. failures' \in 0..MaxFailures
    BY <2>1, BackupConstantsOK DEF BackupShape
  <2> QED BY <1>0, <1>4, <2>1, <2>2, <2>3 DEF BackupShape
<1>7. CASE Close
  <2>1. closes' \in 0..MaxCloses
    BY <1>7, BackupConstantsOK DEF BackupShape, Close
  <2>2. IsInjective(commits)' /\ commits' \in Seq(Commit)
    <3>1. commits' = <<>>
      BY <1>7 DEF Close
    <3> QED BY <3>1, EmptyOnce
  <2>3. pending' = <<>> /\ txns' = <<>>
    BY <1>7 DEF Close
  <2>4. /\ pending' \in Seq(SUBSET ToSet(commits)')
        /\ txns' \in Seq([todo : SUBSET ToSet(commits)', put : SUBSET ToSet(commits)'])
    BY <2>3
  <2> QED BY <1>7, <2>1, <2>2, <2>4 DEF BackupShape, Close
<1>8. CASE Load
  <2> DEFINE new == stored \ C
  <2>1. PICK order \in SetToSeqs(new) : commits' = commits \o order
    BY <1>8 DEF Load
  <2>2. new \subseteq Commit /\ IsFiniteSet(new)
    BY BackupConstantsOK, FS_Subset DEF BackupShape
  <2>3. order \in Seq(new) /\ IsInjective(order) /\ ToSet(order) = new
    BY <2>2, OrderOf
  <2>4. order \in Seq(Commit)
    BY <2>2, <2>3, WiderSeq
  <2> DEFINE s == commits \o order
  <2>5. s \in Seq(Commit) /\ IsInjective(s) /\ ToSet(s) = C \cup new
    BY <2>3, <2>4, Concatenated DEF BackupShape
  <2>6. arriving' \cup persisted' \subseteq C \cup new
    BY <1>8 DEF Load, BackupShape
  <2>7. commits' = s /\ loaded' \in BOOLEAN
        /\ UNCHANGED <<pending, timer, txns, stored, undone, failed, failures, closes>>
    BY <1>8, <2>1 DEF Load
  <2> HIDE DEF s
  <2> QED BY <2>5, <2>6, <2>7, CommitsGrow
<1>9. ASSUME NEW c \in Commit, NewCommit(c) PROVE BackupShape'
  <2> DEFINE s == Append(commits, c)
  <2>1. s \in Seq(Commit) /\ IsInjective(s) /\ ToSet(s) = C \cup {c}
    BY <1>9, Appended DEF NewCommit, BackupShape
  <2>2. commits' = s /\ loaded' \in BOOLEAN
        /\ UNCHANGED <<pending, timer, txns, stored, undone, failed, failures, closes>>
    BY <1>9 DEF NewCommit, BackupShape
  <2>3. arriving' \cup persisted' \subseteq C \cup {c}
    BY <1>9 DEF NewCommit, BackupShape
  <2> HIDE DEF s
  <2> QED BY <2>1, <2>2, <2>3, CommitsGrow
<1>10. ASSUME NEW c \in Commit, EmitNewCommit(c) PROVE BackupShape'
  <2>1. c \in C
    BY <1>10 DEF EmitNewCommit, BackupShape
  <2>2. pending' \in Seq(SUBSET ToSet(commits)') /\ timer' \in BOOLEAN
    BY <1>10, <2>1, PersistCommitsShape DEF EmitNewCommit
  <2> QED BY <1>10, <2>2 DEF EmitNewCommit, BackupShape
<1>11. ASSUME NEW i, Save(i) PROVE BackupShape'
  <2>1. BatchTo(i) \in SUBSET C
    <3>1. i \in 1..Len(commits) /\ Len(commits) \in Nat /\ DOMAIN commits = 1..Len(commits)
      BY <1>11 DEF Save, Full, BackupShape
    <3>2. ASSUME NEW j \in (i - SaveBatch + 1)..i PROVE commits[j] \in C
      <4>1. i % SaveBatch = 0
        BY <1>11 DEF Save, Full
      <4>2. i >= SaveBatch
        BY <3>1, <4>1, BackupConstantsOK
      <4>3. j \in DOMAIN commits
        BY <3>1, <4>2, BackupConstantsOK
      <4> QED BY <4>3 DEF ToSet
    <3> QED BY <3>2 DEF BatchTo
  <2>2. pending' \in Seq(SUBSET ToSet(commits)') /\ timer' \in BOOLEAN
    BY <1>11, <2>1, PersistCommitsShape DEF Save
  <2> QED BY <1>11, <2>2 DEF Save, BackupShape
<1> QED BY <1>1, <1>2, <1>3, <1>5, <1>6, <1>7, <1>8, <1>9, <1>10, <1>11
        DEF BackupNext, Writes

(* The variables of the backup keep their types: no commit is twice in the *)
(* repository, however often it comes, and nothing is written that is not  *)
(* in it.                                                                  *)
THEOREM BackupTypeCorrect == BackupSpec => []BackupTypeOK
<1>1. BackupShape => BackupTypeOK
  <2> SUFFICES ASSUME BackupShape PROVE BackupTypeOK
    OBVIOUS
  <2>1. ToSet(commits) \subseteq Commit
    BY ElementsIn DEF BackupShape
  <2>2. \A i \in DOMAIN pending : pending[i] \subseteq ToSet(commits)
    BY DEF BackupShape
  <2>3. \A i \in DOMAIN txns : txns[i] \in Txn
    <3> DEFINE T == [todo : SUBSET ToSet(commits), put : SUBSET ToSet(commits)]
    <3>1. txns \in Seq(T)
      BY DEF BackupShape
    <3>2. T \subseteq Txn
      BY <2>1 DEF Txn
    <3> HIDE DEF T
    <3> QED BY <3>1, <3>2
  <2> QED BY <2>1, <2>2, <2>3 DEF BackupShape, BackupTypeOK
<1> QED BY <1>1, BackupShapeInit, BackupShapeNext, PTL DEF BackupSpec
==============================================================================
