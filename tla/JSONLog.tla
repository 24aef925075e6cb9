------------------------------- MODULE JSONLog -------------------------------
(***************************************************************************)
(* The log a server process keeps of the commits of one repository:        *)
(* repo/json-log-repo-backup.ts on base/json-log.ts on                     *)
(* base/serial-scheduler.ts.  SyncProtocol takes it for a set of commits   *)
(* on disk; here it is a file of bytes that is appended to in several      *)
(* asynchronous steps, torn by crashes and repaired when it is opened.     *)
(*                                                                         *)
(* An entry is encoded in EntrySize bytes.  A write is complete unless the *)
(* process dies in it, which leaves the first n bytes, n in Torn.          *)
(***************************************************************************)
EXTENDS Naturals, Sequences, FiniteSets, SequencesExt

CONSTANTS
  Commit,     (* the entries                                               *)
  EntrySize,  (* bytes of one                                              *)
  Dedup,      (* what "repo dedup" wrote to the file, in one batch         *)
  Torn,       (* what a crash may leave of a write                         *)
  Server,     (* the process, as a node of ReplicatedSet                   *)
  MaxCrash    (* bound: crashes                                            *)

ASSUME ConstantsOK ==
  /\ EntrySize \in Nat \ {0}
  /\ Dedup \in Seq(Commit)
  /\ Torn \subseteq Nat
  /\ MaxCrash \in Nat

VARIABLES
  file,      (* the bytes on disk                                          *)
  position,  (* the file offset, shared by all operations on the file      *)
  up,        (* the process runs and has read the log                      *)
  stored,    (* commits in the repository, each handed to the log once     *)
  pending,   (* SerialScheduler._pendingFunctions: appends not started     *)
  timer,     (* SerialScheduler._timer is scheduled                        *)
  seeking,   (* appends that wait for their seek                           *)
  writing,   (* appends that wait for their write                          *)
  created,   (* history: commits that were ever handed to the log          *)
  resolved,  (* history: commits whose append has resolved                 *)
  crashes    (* how often the process died                                 *)

vars == <<file, position, up, stored, pending, timer, seeking, writing,
          created, resolved, crashes>>

(* A byte is known by where it comes from: byte i of an entry, or none.    *)
Newline == <<"newline", 0>>
Zero == <<"zero", 0>>
Line(e) == [i \in 1..EntrySize |-> <<e, i>>]
Byte == {Newline, Zero} \cup (Commit \X (1..EntrySize))

(* append() of a batch: the entries are framed and joined by newlines, so  *)
(* that n of them have n + 1.                                              *)
Encoded(batch) ==
  <<Newline>> \o FlattenSeq([i \in DOMAIN batch |-> Append(Line(batch[i]), Newline)])

(* An append runs the steps of one function at a time, and a function that *)
(* waits is one of seeking or writing, never of both.                      *)
TypeOK ==
  /\ file \in Seq(Byte)
  /\ position \in 0..Len(file)
  /\ up \in BOOLEAN /\ timer \in BOOLEAN
  /\ stored \subseteq created /\ resolved \subseteq created /\ created \subseteq Commit
  /\ ToSet(pending) \cup seeking \cup writing \subseteq stored
  /\ seeking \cap writing = {}
  /\ crashes \in 0..MaxCrash
------------------------------------------------------------------------------
(* The definitions named Mut... are bugs this code could have; each breaks *)
(* a property below when it stands in for the definition that follows it.  *)
MutOneDelimiter == 1

(* scan() takes each entry to come with two newlines.                      *)
DelimiterBytes == 2

(* truncateSync, which extends a file that is shorter.                     *)
Truncated(f, n) ==
  [i \in 1..n |-> IF i <= Len(f) THEN f[i] ELSE Zero]

(* The lines that are not empty, by their first and last byte.             *)
Lines(f) ==
  {r \in (DOMAIN f) \X (DOMAIN f) :
     /\ r[1] <= r[2] /\ \A i \in r[1]..r[2] : f[i] # Newline
     /\ r[1] = 1 \/ f[r[1] - 1] = Newline
     /\ r[2] = Len(f) \/ f[r[2] + 1] = Newline}

(* JSON.parse of a line, once its newline has been read.                   *)
Parses(f, r, e) == r[2] < Len(f) /\ SubSeq(f, r[1], r[2]) = Line(e)

(* scan(): lines are read until one does not parse, and what follows the   *)
(* last good one, by the count of the bytes read, is cut off.              *)
GoodLines(f) ==
  {r \in Lines(f) : \A q \in Lines(f) :
     q[1] <= r[1] => \E e \in Commit : Parses(f, q, e)}
Read(f) == {e \in Commit : \E r \in GoodLines(f) : Parses(f, r, e)}
Repaired(f) ==
  IF GoodLines(f) = Lines(f) THEN f
  ELSE Truncated(f, Cardinality(GoodLines(f)) * (EntrySize + DelimiterBytes))

Init ==
  /\ file = IF Dedup = <<>> THEN <<>> ELSE Encoded(Dedup)
  /\ position = 0
  /\ up = FALSE
  /\ stored = {}
  /\ pending = <<>>
  /\ timer = FALSE
  /\ seeking = {}
  /\ writing = {}
  /\ created = ToSet(Dedup)
  /\ resolved = ToSet(Dedup)
  /\ crashes = 0

(* open(): loadRepoFromBackup stores every entry the scan yields.          *)
Open ==
  /\ ~up
  /\ up' = TRUE
  /\ file' = Repaired(file)
  /\ position' = Len(file')
  /\ stored' = Read(file)
  /\ UNCHANGED <<pending, timer, seeking, writing, created, resolved,
                 crashes>>

(* A new commit is stored, and appendCommits schedules an append.          *)
AppendCommits(e) ==
  /\ up
  /\ e \notin stored
  /\ stored' = stored \cup {e}
  /\ created' = created \cup {e}
  /\ pending' = Append(pending, e)
  /\ timer' = TRUE
  /\ UNCHANGED <<file, position, up, seeking, writing, resolved, crashes>>

(* processPendingFunctions: the next append starts and waits for its seek. *)
(* An append scheduled after that starts the timer again.                  *)
ProcessPendingFunctions ==
  /\ timer
  /\ pending # <<>>
  /\ timer' = FALSE
  /\ seeking' = seeking \cup {Head(pending)}
  /\ pending' = Tail(pending)
  /\ UNCHANGED <<file, position, up, stored, writing, created, resolved,
                 crashes>>

MutSeekStart == 0
MutSeekPast == Len(file) + 1

(* Deno.SeekMode.End                                                       *)
SeekEnd == Len(file)

Seek(e) ==
  /\ e \in seeking
  /\ position' = SeekEnd
  /\ seeking' = seeking \ {e}
  /\ writing' = writing \cup {e}
  /\ UNCHANGED <<file, up, stored, pending, timer, created, resolved,
                 crashes>>

(* The file after bytes are written at the current position.               *)
Written(bytes) ==
  [i \in 1..(IF position + Len(bytes) > Len(file) THEN position + Len(bytes)
                                                  ELSE Len(file)) |->
     IF i > position /\ i <= position + Len(bytes) THEN bytes[i - position]
                                                   ELSE file[i]]

MutNoReschedule == FALSE

(* The finally of processPendingFunctions.                                 *)
Rescheduled == pending # <<>>

Write(e) ==
  /\ e \in writing
  /\ file' = Written(Encoded(<<e>>))
  /\ position' = position + Len(Encoded(<<e>>))
  /\ writing' = writing \ {e}
  /\ timer' = (timer \/ Rescheduled)
  /\ resolved' = resolved \cup {e}
  /\ UNCHANGED <<up, stored, pending, seeking, created, crashes>>

(* The process dies, perhaps in a write.                                   *)
Crash ==
  /\ up
  /\ crashes < MaxCrash
  /\ crashes' = crashes + 1
  /\ \/ UNCHANGED file
     \/ \E e \in writing : \E n \in Torn \cap 1..(EntrySize + 1) :
          file' = Written(SubSeq(Encoded(<<e>>), 1, n))
  /\ position' = 0
  /\ up' = FALSE
  /\ stored' = {}
  /\ pending' = <<>>
  /\ timer' = FALSE
  /\ seeking' = {}
  /\ writing' = {}
  /\ UNCHANGED <<created, resolved>>

Next ==
  \/ Open
  \/ \E e \in Commit : AppendCommits(e) \/ Seek(e) \/ Write(e)
  \/ ProcessPendingFunctions
  \/ Crash

Spec == Init /\ [][Next]_vars

(* The event loop keeps running.                                           *)
FairSpec ==
  /\ Spec
  /\ WF_vars(Open) /\ WF_vars(ProcessPendingFunctions)
  /\ \A e \in Commit : WF_vars(Seek(e)) /\ WF_vars(Write(e))
------------------------------------------------------------------------------
(* The log is stable storage: what a scan of it reads it never loses       *)
(* again, however appends overlap and wherever a crash tears one, and the  *)
(* repository is read back from it (the server's part of ReplicatedSet).   *)
Storage == INSTANCE ReplicatedSet WITH
  Node <- {Server},
  replica <- [n \in {Server} |-> stored],
  stable <- [n \in {Server} |-> Read(file)]
Durable == Storage!Spec

(* append() resolves: what the repository stores reaches the log unless    *)
(* the process dies (SerialScheduler.run).                                 *)
AppendsFinish ==
  \A e \in Commit : e \in stored ~> (e \in Read(file) \/ ~up)

(* What append() has written is read back: opening the log trims the       *)
(* "corrupted tail" (json-log-stream.ts) and nothing else.                 *)
WrittenIsRead == resolved \subseteq Read(file)
==============================================================================
