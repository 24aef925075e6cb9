--------------------------- MODULE SyncScheduler ---------------------------
(***************************************************************************)
(* The requests of a browser to the server: net/sync-scheduler.ts on       *)
(* sendJSONToURL (net/rest-api.ts).  All the repositories of a client      *)
(* share one scheduler.  A client (net/base-client.ts) that polls for its  *)
(* repository waits until the request is settled, and so has one at most;  *)
(* what a settled request brings, and what the server does with one that   *)
(* was given up, is SyncProtocol's.                                        *)
(***************************************************************************)
EXTENDS Naturals, Sequences, SequencesExt

CONSTANTS
  Repo,        (* the repositories, each with its client                   *)
  MaxBatch,    (* K_MAX_REQ_BATCH                                          *)
  MaxRefused   (* refused requests before the browser is logged out        *)

ASSUME SchedulerConstantsOK ==
  /\ MaxBatch \in Nat \ {0}
  /\ MaxRefused \in Nat \ {0, 1}

normal == 0
firstLoad == 1
localChanges == 2
Priority == normal..localChanges

VARIABLES
  queues,   (* _pendingRequests: the repositories, by priority             *)
  waiting,  (* the clients whose request is not settled                    *)
  fetch,    (* what sendPendingRequests waits for                          *)
  batch,    (* the requests of the fetch in progress                       *)
  settled,  (* how many of them have got their answer                      *)
  denied,   (* gAccessDeniedCount                                          *)
  dropped,  (* history: requests of a batch that could not be serialised   *)
  answers   (* history: the last MaxRefused answers of the server          *)

svars == <<queues, waiting, fetch, batch, settled, denied, dropped, answers>>

Fetch == {"none", "answer", "pause", "decoding", "logout"}
Answer == {"accepted", "refused", "failed"}

(* A batch is cut off between two priorities, never within one.            *)
SchedulerTypeOK ==
  /\ \A p \in Priority : ToSet(queues[p]) \subseteq Repo
  /\ waiting \subseteq Repo /\ dropped \subseteq waiting
  /\ fetch \in Fetch
  /\ ToSet(batch) \subseteq Repo /\ Len(batch) < 2 * MaxBatch
  /\ fetch = "none" <=> batch = <<>>
  /\ settled \in 0..Len(batch)
  /\ denied \in 0..MaxRefused
  /\ ToSet(answers) \subseteq Answer /\ Len(answers) <= MaxRefused

SchedulerInit ==
  /\ queues = [p \in Priority |-> <<>>]
  /\ waiting = {}
  /\ fetch = "none"
  /\ batch = <<>>
  /\ settled = 0
  /\ denied = 0
  /\ dropped = {}
  /\ answers = <<>>
------------------------------------------------------------------------------
(* send(): the client of r polls, with the priority of what it has to say. *)
Send(r, p) ==
  /\ r \notin waiting
  /\ waiting' = waiting \cup {r}
  /\ queues' = [queues EXCEPT ![p] = Append(@, r)]
  /\ UNCHANGED <<fetch, batch, settled, denied, dropped, answers>>

(* How many requests of a priority are taken: at most MaxBatch, and none   *)
(* if those above it are as many.                                          *)
Cut(n) == IF n < MaxBatch THEN n ELSE MaxBatch
Count ==
  LET Below(above, p) == IF above >= MaxBatch THEN 0 ELSE Cut(Len(queues[p]))
      l == Below(0, localChanges)
      f == Below(l, firstLoad)
      n == Below(l + f, normal)
  IN [p \in Priority |-> IF p = localChanges THEN l ELSE IF p = firstLoad THEN f ELSE n]

TakenOf(p) == SubSeq(queues[p], 1, Count[p])
LeftOf(p) == SubSeq(queues[p], Count[p] + 1, Len(queues[p]))
Taken == TakenOf(localChanges) \o TakenOf(firstLoad) \o TakenOf(normal)

(* The definitions named Mut... are bugs this code could have; each breaks *)
(* a property below when it stands in for the definition that follows it.  *)
MutFullBatchOnly == Len(Taken) >= MaxBatch

(* sendPendingRequests goes on if it found anything.                       *)
Ready == Taken # <<>>

(* The interval fires while no fetch is in progress.  A message that       *)
(* cannot be serialised throws before there is one, and what was taken     *)
(* from the queues with it stays behind; the bound is once.                *)
SendPendingRequests ==
  /\ fetch = "none" /\ Ready
  /\ queues' = [p \in Priority |-> LeftOf(p)]
  /\ \/ /\ fetch' = "answer"
        /\ batch' = Taken
        /\ UNCHANGED dropped
     \/ /\ dropped = {}
        /\ dropped' = ToSet(Taken)
        /\ UNCHANGED <<fetch, batch>>
  /\ UNCHANGED <<waiting, settled, denied, answers>>

MutRejectAll == ToSet(batch)

(* The requests of the batch that a rejection settles: it does nothing to  *)
(* a promise that has been resolved, whatever its client has sent since.   *)
Unanswered == SubSeq(batch, settled + 1, Len(batch))
Unsettled == ToSet(Unanswered)

(* The end of sendPendingRequests when the fetch or an answer failed.      *)
RejectAll ==
  /\ waiting' = waiting \ Unsettled
  /\ fetch' = "none"
  /\ batch' = <<>>
  /\ settled' = 0

Answered(answer) ==
  answers' = (IF Len(answers) < MaxRefused THEN answers ELSE Tail(answers)) \o <<answer>>

(* No answer: the network is down, which is noticed when the timeout comes,*)
(* or the timeout comes first and aborts the fetch.                        *)
TimedOut ==
  /\ fetch = "answer"
  /\ RejectAll
  /\ UNCHANGED <<queues, denied, dropped, answers>>

(* An answer that is no list, or one that is cut off by the timeout.       *)
Failed ==
  /\ fetch = "answer"
  /\ denied' = 0
  /\ Answered("failed")
  /\ RejectAll
  /\ UNCHANGED <<queues, dropped>>

MutRefused ==
  /\ fetch = "answer"
  /\ denied' = denied + 1
  /\ Answered("refused")
  /\ fetch' = IF denied' > MaxRefused THEN "logout" ELSE "pause"
  /\ UNCHANGED <<queues, waiting, batch, settled, dropped>>

(* Status 403.                                                             *)
Refused ==
  /\ fetch = "answer"
  /\ denied' = denied + 1
  /\ Answered("refused")
  /\ fetch' = IF denied' = MaxRefused THEN "logout" ELSE "pause"
  /\ UNCHANGED <<queues, waiting, batch, settled, dropped>>

PauseEnds ==
  /\ fetch = "pause"
  /\ RejectAll
  /\ UNCHANGED <<queues, denied, dropped, answers>>

MutNoReset ==
  /\ fetch = "answer"
  /\ Answered("accepted")
  /\ fetch' = "decoding"
  /\ UNCHANGED <<queues, waiting, batch, settled, denied, dropped>>

Accepted ==
  /\ fetch = "answer"
  /\ denied' = 0
  /\ Answered("accepted")
  /\ fetch' = "decoding"
  /\ UNCHANGED <<queues, waiting, batch, settled, dropped>>

(* The answers are decoded one by one, with a sleep after each; a request  *)
(* that has none is rejected.                                              *)
Decode ==
  /\ fetch = "decoding" /\ settled < Len(batch)
  /\ settled' = settled + 1
  /\ waiting' = waiting \ {batch[settled']}
  /\ UNCHANGED <<queues, fetch, batch, denied, dropped, answers>>

DecodeFails ==
  /\ fetch = "decoding" /\ settled < Len(batch)
  /\ RejectAll
  /\ UNCHANGED <<queues, denied, dropped, answers>>

Decoded ==
  /\ fetch = "decoding" /\ settled = Len(batch)
  /\ fetch' = "none"
  /\ batch' = <<>>
  /\ settled' = 0
  /\ UNCHANGED <<queues, waiting, denied, dropped, answers>>

Progress ==
  \/ SendPendingRequests
  \/ TimedOut \/ Failed \/ Refused \/ Accepted
  \/ PauseEnds \/ Decode \/ DecodeFails \/ Decoded

SchedulerNext ==
  \/ Progress
  \/ \E r \in Repo, p \in Priority : Send(r, p)

SchedulerSpec == SchedulerInit /\ [][SchedulerNext]_svars
------------------------------------------------------------------------------
(* A client that waits has its request in one place: in a queue, in the    *)
(* batch under way, or lost for good with a batch that was not serialised; *)
(* and there is no request of a client that does not wait.  The clients go *)
(* on sending while the answers to a batch that holds their last request   *)
(* are decoded, and while its rest is rejected.                            *)
NoRequestForgotten ==
  LET requests == queues[localChanges] \o queues[firstLoad] \o queues[normal]
                    \o Unanswered
  IN IsInjective(requests) /\ ToSet(requests) = waiting \ dropped

(* The browser is logged out, and the commits it keeps deleted, only when  *)
(* the last answers were all refusals, with nothing else in between.       *)
LogoutAfterRefusals ==
  fetch = "logout" => answers = [i \in 1..MaxRefused |-> "refused"]

(* A batch is sent that leaves r behind, full of requests that are more    *)
(* urgent.  Nothing bounds how often this happens: a client that has local *)
(* changes, or has not loaded yet, goes first every time.                  *)
Outranked(r) ==
  LET Above(p) == IF p = localChanges THEN 0
                  ELSE IF p = firstLoad THEN Len(queues[localChanges])
                  ELSE Len(queues[localChanges]) + Len(queues[firstLoad])
  IN \E p \in Priority : r \in ToSet(queues[p]) /\ Above(p) >= MaxBatch
PassedOver(r) == SendPendingRequests /\ Outranked(r)

(* Every request is settled in the end, whatever fails, unless its batch   *)
(* was dropped or the browser logged out.  A request is starved only by    *)
(* batches full of more urgent ones that go on for ever; one with local    *)
(* changes never is (sendPendingRequests).                                 *)
EveryRequestSettled ==
  \A r \in Repo :
    \/ r \in waiting ~> r \notin waiting \/ r \in dropped \/ fetch = "logout"
    \/ []<><<PassedOver(r)>>_svars
=============================================================================
