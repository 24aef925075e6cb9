--------------------------- MODULE JSONLogProofs ---------------------------
(***************************************************************************)
(* Proofs about the log of a server process, for any number of commits, of *)
(* appends that overlap and of crashes: its types, and, for a log that     *)
(* "repo dedup" did not rewrite, that opening it reads every commit that   *)
(* was written to it and that it is the stable storage of ReplicatedSet.   *)
(***************************************************************************)
EXTENDS JSONLog, SequenceTheorems, FiniteSetTheorems, WellFoundedInduction,
        TLAPS

(* A set of numbers that is not empty has a least one.                     *)
LEMMA LeastNumber ==
  ASSUME NEW T, T \subseteq Nat, T # {}
  PROVE  \E n \in T : \A m \in T : n <= m
<1> DEFINE R == {ss \in Nat \X Nat : ss[1] < ss[2]}
<1>1. IsWellFoundedOn(R, Nat)
  BY NatLessThanWellFounded DEF OpToRel
<1> HIDE DEF R
<1>2. PICK n \in T : \A m \in T : <<m, n>> \notin R
  BY <1>1, WFMin
<1>3. \A m \in T : ~(m < n)
  BY <1>2 DEF R
<1> QED BY <1>2, <1>3

(* A function from 1..n is a sequence of length n.                         *)
LEMMA FunIsSeq ==
  ASSUME NEW S, NEW n \in Nat, NEW f \in [1..n -> S]
  PROVE  f \in Seq(S) /\ Len(f) = n
OBVIOUS
------------------------------------------------------------------------------
(* How an entry is encoded.                                                *)

(* The bytes of a file with entries of C.                                  *)
Bytes(C) == {Newline, Zero} \cup (C \X (1..EntrySize))

(* The recursive function FlattenSeq is defined with exists.               *)
LEMMA FlattenExists ==
  ASSUME NEW s, NEW n \in Nat, n # 0
  PROVE  \E g : g = [i \in 1..n |-> IF i = 1 THEN s[i] ELSE g[i - 1] \o s[i]]
<1> DEFINE Rec(g, k) ==
             g = [i \in 1..k |-> IF i = 1 THEN s[i] ELSE g[i - 1] \o s[i]]
<1> HIDE DEF Rec
<1>1. SUFFICES ASSUME ~ \E g : Rec(g, n) PROVE FALSE
  BY DEF Rec
<1> DEFINE Bad == {k \in 1..n : ~ \E g : Rec(g, k)}
<1>2. Bad \subseteq Nat /\ Bad # {}
  BY <1>1
<1>3. PICK k \in Bad : \A m \in Bad : k <= m
  <2> HIDE DEF Bad
  <2> QED BY <1>2, LeastNumber
<1>4. CASE k = 1
  <2>1. Rec([i \in 1..1 |-> s[i]], 1)
    BY DEF Rec
  <2> QED BY <1>3, <1>4, <2>1
<1>5. CASE k # 1
  <2>1. k \in 1..n /\ k - 1 \in 1..n /\ k - 1 < k
    BY <1>3, <1>5
  <2>2. k - 1 \notin Bad
    BY <1>3, <2>1
  <2>3. PICK g : Rec(g, k - 1)
    BY <2>1, <2>2
  <2>4. \A i \in 1..(k - 1) :
          g[i] = IF i = 1 THEN s[i] ELSE g[i - 1] \o s[i]
    BY <2>3 DEF Rec
  <2> DEFINE h == [i \in 1..k |-> IF i = k THEN g[k - 1] \o s[k] ELSE g[i]]
  <2>5. \A i \in 1..k : h[i] = IF i = 1 THEN s[i] ELSE h[i - 1] \o s[i]
    <3>1. TAKE i \in 1..k
    <3>2. CASE i = k
      <4>1. k - 1 \in 1..k /\ k \in 1..k /\ k - 1 # k
        BY <2>1
      <4>2. h[k - 1] = g[k - 1] /\ h[k] = g[k - 1] \o s[k]
        BY <4>1, <2>1
      <4> HIDE DEF h
      <4> QED BY <3>2, <4>2, <1>5
    <3>3. CASE i # k
      <4>1. i \in 1..(k - 1) /\ h[i] = g[i]
        BY <3>3, <2>1
      <4>2. i # 1 => i - 1 \in 1..k /\ i - 1 # k
        BY <3>3, <2>1
      <4>3. i # 1 => h[i - 1] = g[i - 1]
        BY <4>2
      <4> HIDE DEF h
      <4> QED BY <4>1, <4>3, <2>4
    <3> QED BY <3>2, <3>3
  <2>6. h = [i \in 1..k |-> h[i]]
    OBVIOUS
  <2> HIDE DEF h
  <2>7. Rec(h, k)
    BY <2>5, <2>6 DEF Rec
  <2> QED BY <1>3, <2>7
<1> QED BY <1>4, <1>5

(* What FlattenSeq returns of sequences that are some.                     *)
LEMMA FlattenIs ==
  ASSUME NEW S, NEW s \in Seq(S), Len(s) # 0
  PROVE  \E g : /\ g = [i \in 1..Len(s) |->
                          IF i = 1 THEN s[i] ELSE g[i - 1] \o s[i]]
                /\ FlattenSeq(s) = g[Len(s)]
<1> DEFINE g == CHOOSE g : g = [i \in 1..Len(s) |->
                                  IF i = 1 THEN s[i] ELSE g[i - 1] \o s[i]]
<1>1. Len(s) \in Nat
  OBVIOUS
<1>2. \E x : x = [i \in 1..Len(s) |->
                    IF i = 1 THEN s[i] ELSE x[i - 1] \o s[i]]
  BY <1>1, FlattenExists
<1>3. g = [i \in 1..Len(s) |-> IF i = 1 THEN s[i] ELSE g[i - 1] \o s[i]]
  BY <1>2
<1>4. FlattenSeq(s) = g[Len(s)]
  BY DEF FlattenSeq
<1> QED BY <1>3, <1>4

(* Sequences of bytes are flattened to one.                                *)
LEMMA FlattenType ==
  ASSUME NEW B, NEW s \in Seq(Seq(B)), Len(s) # 0
  PROVE  FlattenSeq(s) \in Seq(B)
<1>1. PICK g : /\ g = [i \in 1..Len(s) |->
                         IF i = 1 THEN s[i] ELSE g[i - 1] \o s[i]]
               /\ FlattenSeq(s) = g[Len(s)]
  BY FlattenIs
<1> DEFINE Bad == {i \in 1..Len(s) : g[i] \notin Seq(B)}
<1>2. SUFFICES ASSUME Bad # {} PROVE FALSE
  <2>1. Len(s) \in 1..Len(s)
    OBVIOUS
  <2> QED BY <1>1, <2>1
<1>3. PICK k \in Bad : \A m \in Bad : k <= m
  <2>1. Bad \subseteq Nat
    OBVIOUS
  <2> HIDE DEF Bad
  <2> QED BY <1>2, <2>1, LeastNumber
<1>4. k \in 1..Len(s) /\ s[k] \in Seq(B)
  BY <1>3
<1>5. k # 1
  BY <1>1, <1>3, <1>4
<1>6. k - 1 \in 1..Len(s) /\ g[k - 1] \in Seq(B)
  BY <1>3, <1>4, <1>5
<1>7. g[k] = g[k - 1] \o s[k]
  BY <1>1, <1>4, <1>5
<1>8. g[k] \in Seq(B)
  BY <1>4, <1>6, <1>7, ConcatProperties
<1> QED BY <1>3, <1>8

(* An entry, and one with a newline, as bytes.                             *)
LEMMA LineIs ==
  ASSUME NEW C, NEW e \in C
  PROVE  /\ Line(e) \in Seq(Bytes(C)) /\ Len(Line(e)) = EntrySize
         /\ Append(Line(e), Newline) \in Seq(Bytes(C))
         /\ Len(Append(Line(e), Newline)) = EntrySize + 1
         /\ \A i \in 1..EntrySize : Append(Line(e), Newline)[i] = <<e, i>>
         /\ Append(Line(e), Newline)[EntrySize + 1] = Newline
<1>1. EntrySize \in Nat
  BY ConstantsOK
<1>2. \A i \in 1..EntrySize : <<e, i>> \in Bytes(C)
  BY DEF Bytes
<1>3. Line(e) \in Seq(Bytes(C)) /\ Len(Line(e)) = EntrySize
  <2>1. Line(e) \in [1..EntrySize -> Bytes(C)]
    BY <1>2 DEF Line
  <2> QED BY <1>1, <2>1
<1>4. Newline \in Bytes(C)
  BY DEF Bytes
<1>5. \A i \in 1..EntrySize : Line(e)[i] = <<e, i>>
  BY DEF Line
<1> QED BY <1>1, <1>3, <1>4, <1>5, AppendProperties

(* What an append of entries writes are bytes.                             *)
LEMMA EncodedType ==
  ASSUME NEW C, NEW batch \in Seq(C), batch # <<>>
  PROVE  Encoded(batch) \in Seq(Bytes(C))
<1> DEFINE s == [i \in DOMAIN batch |-> Append(Line(batch[i]), Newline)]
<1>1. DOMAIN batch = 1..Len(batch) /\ Len(batch) \in Nat /\ Len(batch) # 0
  OBVIOUS
<1>2. \A i \in DOMAIN batch : Append(Line(batch[i]), Newline) \in Seq(Bytes(C))
  BY LineIs
<1>3. s \in Seq(Seq(Bytes(C))) /\ Len(s) = Len(batch)
  <2>1. s \in [1..Len(batch) -> Seq(Bytes(C))]
    BY <1>1, <1>2
  <2> HIDE DEF s
  <2> QED BY <1>1, <2>1
<1>4. FlattenSeq(s) \in Seq(Bytes(C))
  <2> HIDE DEF s
  <2> QED BY <1>1, <1>3, FlattenType
<1>5. <<Newline>> \in Seq(Bytes(C))
  BY DEF Bytes
<1>6. Encoded(batch) = <<Newline>> \o FlattenSeq(s)
  BY DEF Encoded
<1> QED BY <1>4, <1>5, <1>6, ConcatProperties

(* An append of one entry frames it by two newlines (JSONLogFile.append).  *)
LEMMA EncodedIs ==
  ASSUME NEW C, NEW e \in C
  PROVE  /\ Encoded(<<e>>) \in Seq(Bytes(C))
         /\ Len(Encoded(<<e>>)) = EntrySize + 2
         /\ Encoded(<<e>>)[1] = Newline
         /\ Encoded(<<e>>)[EntrySize + 2] = Newline
         /\ \A i \in 1..EntrySize : Encoded(<<e>>)[1 + i] = <<e, i>>
<1> DEFINE s == [i \in DOMAIN <<e>> |-> Append(Line(<<e>>[i]), Newline)]
           l == Append(Line(e), Newline)
<1>1. DOMAIN <<e>> = 1..1 /\ <<e>>[1] = e
  OBVIOUS
<1>2. l \in Seq(Bytes(C)) /\ Len(l) = EntrySize + 1 /\ EntrySize \in Nat
  BY LineIs, ConstantsOK
<1>3. s \in [1..1 -> Seq(Bytes(C))] /\ s[1] = l
  BY <1>1, <1>2
<1>4. s \in Seq(Seq(Bytes(C))) /\ Len(s) = 1
  <2> HIDE DEF s, l
  <2> QED BY <1>3, FunIsSeq
<1>5. FlattenSeq(s) = l
  <2> HIDE DEF s, l
  <2>1. PICK g : /\ g = [i \in 1..Len(s) |->
                           IF i = 1 THEN s[i] ELSE g[i - 1] \o s[i]]
                 /\ FlattenSeq(s) = g[Len(s)]
    <3>1. Len(s) # 0
      BY <1>4
    <3> QED BY <1>4, <3>1, FlattenIs
  <2>2. g[1] = s[1]
    BY <2>1, <1>4
  <2> QED BY <2>1, <2>2, <1>3, <1>4
<1>6. Encoded(<<e>>) = <<Newline>> \o l
  BY <1>5 DEF Encoded
<1>7. /\ \A i \in 1..EntrySize : l[i] = <<e, i>>
      /\ l[EntrySize + 1] = Newline
  BY LineIs
<1>8. <<Newline>> \in Seq(Bytes(C)) /\ Len(<<Newline>>) = 1 /\ <<Newline>>[1] = Newline
  BY DEF Bytes
<1> HIDE DEF s, l
<1> DEFINE x == <<Newline>> \o l
<1>9. /\ x \in Seq(Bytes(C)) /\ Len(x) = EntrySize + 2 /\ x[1] = Newline
      /\ \A i \in 1..(EntrySize + 1) : x[1 + i] = l[i]
  BY <1>2, <1>8, ConcatProperties
<1>10. x[EntrySize + 2] = Newline
  <2>1. EntrySize + 1 \in 1..(EntrySize + 1) /\ 1 + (EntrySize + 1) = EntrySize + 2
    BY <1>2
  <2>2. x[1 + (EntrySize + 1)] = l[EntrySize + 1]
    BY <1>9, <2>1
  <2> QED BY <2>1, <2>2, <1>7
<1>11. \A i \in 1..EntrySize : x[1 + i] = <<e, i>>
  <2>1. \A i \in 1..EntrySize : i \in 1..(EntrySize + 1)
    BY <1>2
  <2> HIDE DEF x
  <2> QED BY <1>7, <1>9, <2>1
<1> QED BY <1>6, <1>9, <1>10, <1>11
------------------------------------------------------------------------------
(* What the operations on the file return.                                 *)

(* The offset at which entry j of a file ends.                             *)
Off(j) == j * (EntrySize + DelimiterBytes)

(* Offsets are numbers, a frame apart.                                     *)
LEMMA OffIs ==
  /\ EntrySize \in Nat \ {0} /\ Off(0) = 0
  /\ \A j \in Nat : Off(j) \in Nat /\ Off(j + 1) = Off(j) + EntrySize + 2
  /\ \A i, j \in Nat : i < j => Off(i) + EntrySize + 2 <= Off(j)
<1> DEFINE b == EntrySize + 2
<1>1. EntrySize \in Nat \ {0} /\ b \in Nat
  BY ConstantsOK
<1>2. \A j : Off(j) = j * b
  BY DEF Off, DelimiterBytes
<1> HIDE DEF b
<1>3. Off(0) = 0
  BY <1>1, <1>2
<1>4. \A j \in Nat : Off(j) \in Nat /\ Off(j + 1) = Off(j) + b
  BY <1>1, <1>2
<1>5. \A i, j \in Nat : i < j => Off(i) + b <= Off(j)
  <2>1. \A i, j \in Nat : i < j => \E k \in Nat : j = i + 1 + k
    <3>1. \A i, j \in Nat : i < j => j - i - 1 \in Nat /\ j = i + 1 + (j - i - 1)
      OBVIOUS
    <3> QED BY <3>1
  <2>2. \A i, k \in Nat : (i + 1 + k) * b = i * b + b + k * b /\ k * b \in Nat
    BY <1>1
  <2>3. \A i \in Nat : i * b \in Nat
    BY <1>1
  <2> QED BY <1>1, <1>2, <2>1, <2>2, <2>3
<1>6. \A j \in Nat : Off(j) + b = Off(j) + EntrySize + 2
  BY <1>1, <1>4 DEF b
<1>7. /\ \A j \in Nat : Off(j + 1) = Off(j) + EntrySize + 2
      /\ \A i, j \in Nat : i < j => Off(i) + EntrySize + 2 <= Off(j)
  BY <1>4, <1>5, <1>6
<1> QED BY <1>1, <1>3, <1>4, <1>7

(* A file cut at n bytes, or extended to n (truncateSync).                 *)
LEMMA TruncatedIs ==
  ASSUME NEW C, NEW f \in Seq(Bytes(C)), NEW n \in Nat
  PROVE  /\ Truncated(f, n) \in Seq(Bytes(C)) /\ Len(Truncated(f, n)) = n
         /\ \A i \in 1..n : i <= Len(f) => Truncated(f, n)[i] = f[i]
<1>1. \A i \in 1..n : i <= Len(f) => f[i] \in Bytes(C)
  OBVIOUS
<1>2. Zero \in Bytes(C)
  BY DEF Bytes
<1>3. Truncated(f, n) \in [1..n -> Bytes(C)]
  BY <1>1, <1>2 DEF Truncated
<1>4. \A i \in 1..n : i <= Len(f) => Truncated(f, n)[i] = f[i]
  BY DEF Truncated
<1> QED BY <1>3, <1>4, FunIsSeq

(* A file has finitely many lines, and so has its good part.               *)
LEMMA LinesFinite ==
  ASSUME NEW C, NEW f \in Seq(Bytes(C))
  PROVE  /\ IsFiniteSet(GoodLines(f)) /\ Cardinality(GoodLines(f)) \in Nat
         /\ GoodLines(f) \subseteq Lines(f)
<1>1. IsFiniteSet(DOMAIN f)
  <2>1. DOMAIN f = 1..Len(f) /\ Len(f) \in Int /\ 1 \in Int
    OBVIOUS
  <2> QED BY <2>1, FS_Interval
<1>2. IsFiniteSet((DOMAIN f) \X (DOMAIN f))
  BY <1>1, FS_Product
<1>3. /\ GoodLines(f) \subseteq Lines(f)
      /\ GoodLines(f) \in SUBSET ((DOMAIN f) \X (DOMAIN f))
  BY DEF GoodLines, Lines
<1>4. IsFiniteSet(GoodLines(f))
  BY <1>2, <1>3, FS_Subset
<1> QED BY <1>3, <1>4, FS_CardinalityType

(* What a scan leaves of a file is a file.                                 *)
LEMMA RepairedType ==
  ASSUME NEW C, NEW f \in Seq(Bytes(C))
  PROVE  Repaired(f) \in Seq(Bytes(C))
<1> DEFINE n == Cardinality(GoodLines(f))
<1>1. Off(n) \in Nat
  BY LinesFinite, OffIs
<1>2. Repaired(f) = IF GoodLines(f) = Lines(f) THEN f ELSE Truncated(f, Off(n))
  BY DEF Repaired, Off
<1> QED BY <1>1, <1>2, TruncatedIs

(* What a scan reads was written: the first byte of a line tells it.       *)
LEMMA ReadIsWritten ==
  ASSUME NEW C, NEW f \in Seq(Bytes(C))
  PROVE  Read(f) \subseteq C
<1>1. SUFFICES ASSUME NEW e \in Read(f) PROVE e \in C
  OBVIOUS
<1>2. PICK r \in GoodLines(f) : Parses(f, r, e)
  BY <1>1 DEF Read
<1>3. r[1] \in 1..Len(f) /\ r[2] \in 1..Len(f) /\ r[1] <= r[2]
  BY <1>2, LinesFinite DEF Lines
<1>4. SubSeq(f, r[1], r[2])[1] = f[r[1]]
  BY <1>3
<1>5. Line(e)[1] = <<e, 1>>
  BY ConstantsOK DEF Line
<1>6. f[r[1]] = <<e, 1>>
  BY <1>2, <1>4, <1>5 DEF Parses
<1>7. <<e, 1>> \in Bytes(C)
  BY <1>3, <1>6
<1> QED BY <1>7 DEF Bytes, Newline, Zero

(* What a write at the end of the file appends to it.                      *)
LEMMA WrittenIs ==
  ASSUME NEW C, file \in Seq(Bytes(C)), position = Len(file),
         NEW b \in Seq(Bytes(C))
  PROVE  /\ Written(b) \in Seq(Bytes(C))
         /\ Len(Written(b)) = Len(file) + Len(b)
         /\ \A i \in 1..Len(file) : Written(b)[i] = file[i]
         /\ \A i \in 1..Len(b) : Written(b)[Len(file) + i] = b[i]
<1> DEFINE n == Len(file) + Len(b)
<1>1. n \in Nat /\ Len(file) \in Nat /\ Len(b) \in Nat
  OBVIOUS
<1>2. (IF position + Len(b) > Len(file) THEN position + Len(b) ELSE Len(file)) = n
  OBVIOUS
<1>3. Written(b) =
        [i \in 1..n |-> IF i > position /\ i <= position + Len(b)
                          THEN b[i - position] ELSE file[i]]
  BY <1>2 DEF Written
<1>4. \A i \in 1..n : /\ i > Len(file) => i - Len(file) \in 1..Len(b)
                      /\ i <= Len(file) => i \in 1..Len(file)
  BY <1>1
<1>5. \A i \in 1..Len(b) : b[i] \in Bytes(C)
  OBVIOUS
<1>6. \A i \in 1..Len(file) : file[i] \in Bytes(C)
  OBVIOUS
<1>7. \A i \in 1..n : IF i > position /\ i <= position + Len(b)
                       THEN b[i - position] \in Bytes(C)
                       ELSE file[i] \in Bytes(C)
  BY <1>1, <1>4, <1>5, <1>6
<1>8. Written(b) \in [1..n -> Bytes(C)]
  BY <1>3, <1>7
<1>9. \A i \in 1..Len(file) : i \in 1..n /\ ~(i > Len(file))
  BY <1>1
<1>10. \A i \in 1..Len(b) : /\ Len(file) + i \in 1..n
                            /\ Len(file) + i > Len(file)
                            /\ Len(file) + i <= Len(file) + Len(b)
                            /\ (Len(file) + i) - Len(file) = i
  BY <1>1
<1>11. Written(b) \in Seq(Bytes(C)) /\ Len(Written(b)) = n
  BY <1>1, <1>8, FunIsSeq
<1> HIDE DEF n
<1>12. \A i \in 1..Len(file) : Written(b)[i] = file[i]
  BY <1>3, <1>9
<1>13. \A i \in 1..Len(b) : Written(b)[Len(file) + i] = b[i]
  BY <1>3, <1>10
<1> QED BY <1>11, <1>12, <1>13 DEF n
------------------------------------------------------------------------------
(* What holds of the appends, whatever the file had before.  The file has  *)
(* only bytes of commits that exist, so that a scan reads no other; a      *)
(* commit is handed to the log once, so that its append is in one place;   *)
(* and a process that runs leaves the offset of the file at its end.       *)
Appends ==
  /\ pending \in Seq(Commit)
  /\ \A i, j \in DOMAIN pending : pending[i] = pending[j] => i = j
  /\ \A i \in DOMAIN pending : pending[i] \notin seeking \cup writing
Down == ~up => stored = {} /\ pending = <<>> /\ seeking = {} /\ writing = {}
LogShape ==
  /\ TypeOK /\ Appends /\ Down
  /\ file \in Seq(Bytes(created))
  /\ up => position = Len(file)

(* Bytes of commits are bytes, and stay bytes as commits are created.      *)
LEMMA BytesGrow ==
  ASSUME NEW C, NEW D, C \subseteq D, NEW f \in Seq(Bytes(C))
  PROVE  f \in Seq(Bytes(D))
<1>1. Bytes(C) \subseteq Bytes(D)
  BY DEF Bytes
<1> QED BY <1>1, SeqMonotonic

(* Of a commit that exists they are bytes of the type.                     *)
LEMMA BytesAreByte ==
  ASSUME NEW C, C \subseteq Commit, NEW f \in Seq(Bytes(C))
  PROVE  f \in Seq(Byte)
<1>1. Bytes(C) \subseteq Byte
  BY DEF Bytes, Byte
<1> QED BY <1>1, SeqMonotonic

(* A new log, and one that was rewritten.                                  *)
LEMMA LogShapeInit == Init => LogShape
<1> SUFFICES ASSUME Init PROVE LogShape
  OBVIOUS
<1>1. Dedup \in Seq(Commit) /\ MaxCrash \in Nat
  BY ConstantsOK
<1>2. Dedup \in Seq(ToSet(Dedup)) /\ ToSet(Dedup) \subseteq Commit
  BY <1>1 DEF ToSet
<1>3. file \in Seq(Bytes(created))
  <2>1. Dedup # <<>> => Encoded(Dedup) \in Seq(Bytes(ToSet(Dedup)))
    BY <1>2, EncodedType
  <2>2. <<>> \in Seq(Bytes(ToSet(Dedup)))
    OBVIOUS
  <2> QED BY <2>1, <2>2 DEF Init
<1>4. file \in Seq(Byte)
  BY <1>2, <1>3, BytesAreByte DEF Init
<1>5. position \in 0..Len(file)
  BY <1>3 DEF Init
<1>6. ToSet(pending) = {}
  BY DEF Init, ToSet
<1>7. TypeOK
  <2>1. /\ up = FALSE /\ timer = FALSE /\ stored = {} /\ seeking = {}
        /\ writing = {} /\ crashes = 0 /\ created = resolved
        /\ created = ToSet(Dedup)
    BY DEF Init
  <2>2. up \in BOOLEAN /\ timer \in BOOLEAN
    BY <2>1
  <2>3. crashes \in 0..MaxCrash
    BY <1>1, <2>1
  <2>4. stored \subseteq created /\ resolved \subseteq created /\ created \subseteq Commit
    BY <1>2, <2>1
  <2>5. /\ ToSet(pending) \cup seeking \cup writing \subseteq stored
        /\ seeking \cap writing = {}
    BY <1>6, <2>1
  <2> QED BY <1>4, <1>5, <2>2, <2>3, <2>4, <2>5 DEF TypeOK
<1>8. Appends /\ Down
  BY DEF Init, Appends, Down
<1> QED BY <1>3, <1>7, <1>8 DEF LogShape, Init

(* The scan that opens the log.                                            *)
LEMMA LogShapeOpen == LogShape /\ Open => LogShape'
<1> SUFFICES ASSUME LogShape, Open PROVE LogShape'
  OBVIOUS
<1>1. file' \in Seq(Bytes(created)) /\ Read(file) \subseteq created
  BY RepairedType, ReadIsWritten DEF LogShape, Open
<1>2. file' \in Seq(Byte)
  BY <1>1, BytesAreByte DEF LogShape, TypeOK
<1>3. position' \in 0..Len(file') /\ position' = Len(file')
  BY <1>1 DEF Open
<1>4. pending = <<>> /\ seeking = {} /\ writing = {}
  BY DEF LogShape, Down, Open
<1>5. ToSet(<<>>) = {}
  BY DEF ToSet
<1>6. TypeOK'
  BY <1>1, <1>2, <1>3, <1>4, <1>5 DEF LogShape, TypeOK, Open
<1>7. Appends'
  BY <1>4 DEF Open, Appends
<1> QED BY <1>1, <1>3, <1>6, <1>7 DEF LogShape, Open, Down

(* A commit is handed to the log: it was not before, or it were stored.    *)
LEMMA LogShapeAppendCommits ==
  ASSUME LogShape, NEW e \in Commit, AppendCommits(e)
  PROVE  LogShape'
<1>1. /\ pending \in Seq(Commit) /\ ToSet(pending) \cup seeking \cup writing \subseteq stored
      /\ e \notin stored /\ pending' = Append(pending, e)
      /\ stored' = stored \cup {e} /\ created' = created \cup {e}
  BY DEF LogShape, TypeOK, Appends, AppendCommits
<1>2. /\ pending' \in Seq(Commit) /\ DOMAIN pending' = 1..(Len(pending) + 1)
      /\ \A i \in DOMAIN pending : pending'[i] = pending[i] /\ pending[i] \in stored
      /\ pending'[Len(pending) + 1] = e
      /\ DOMAIN pending = 1..Len(pending) /\ Len(pending) \in Nat
  <2>1. \A i \in DOMAIN pending : pending[i] \in stored
    BY <1>1 DEF ToSet
  <2> QED BY <1>1, <2>1, AppendProperties
<1>3. Appends'
  <2>1. \A i, j \in DOMAIN pending' : pending'[i] = pending'[j] => i = j
    BY <1>1, <1>2 DEF LogShape, Appends
  <2>2. \A i \in DOMAIN pending' : pending'[i] \notin seeking \cup writing
    BY <1>1, <1>2 DEF LogShape, Appends
  <2> QED BY <1>2, <2>1, <2>2 DEF Appends, AppendCommits
<1>4. ToSet(pending') \subseteq stored'
  BY <1>1, <1>2 DEF ToSet
<1>5. file' \in Seq(Bytes(created'))
  BY <1>1, BytesGrow DEF LogShape, AppendCommits
<1>6. TypeOK'
  BY <1>1, <1>4 DEF LogShape, TypeOK, AppendCommits
<1> QED BY <1>3, <1>5, <1>6 DEF LogShape, Down, AppendCommits

(* The scheduler starts the append that waits longest.                     *)
LEMMA LogShapeProcess == LogShape /\ ProcessPendingFunctions => LogShape'
<1> SUFFICES ASSUME LogShape, ProcessPendingFunctions PROVE LogShape'
  OBVIOUS
<1>1. /\ pending \in Seq(Commit) /\ pending # <<>> /\ pending' = Tail(pending)
      /\ seeking' = seeking \cup {Head(pending)}
  BY DEF LogShape, Appends, ProcessPendingFunctions
<1>2. /\ pending' \in Seq(Commit) /\ DOMAIN pending' = 1..Len(pending')
      /\ DOMAIN pending = 1..Len(pending) /\ Len(pending) \in Nat
      /\ \A i \in DOMAIN pending' : i + 1 \in DOMAIN pending /\ i + 1 # 1
                                    /\ pending'[i] = pending[i + 1]
      /\ 1 \in DOMAIN pending /\ Head(pending) = pending[1]
  BY <1>1
<1>3. Appends'
  <2>1. \A i, j \in DOMAIN pending' : pending'[i] = pending'[j] => i = j
    <3>1. \A i, j \in DOMAIN pending' : pending'[i] = pending'[j] => i + 1 = j + 1
      BY <1>2 DEF LogShape, Appends
    <3>2. \A i \in DOMAIN pending' : i \in Int
      BY <1>2
    <3> QED BY <3>1, <3>2
  <2>2. \A i \in DOMAIN pending' : /\ pending'[i] \notin seeking \cup writing
                                  /\ pending'[i] # Head(pending)
    BY <1>2 DEF LogShape, Appends
  <2> QED BY <1>1, <1>2, <2>1, <2>2 DEF Appends, ProcessPendingFunctions
<1>4. ToSet(pending') \subseteq ToSet(pending) /\ Head(pending) \in ToSet(pending)
  BY <1>2 DEF ToSet
<1>5. Head(pending) \notin writing
  BY <1>2 DEF LogShape, Appends
<1>6. TypeOK'
  BY <1>1, <1>4, <1>5 DEF LogShape, TypeOK, ProcessPendingFunctions
<1>7. Down'
  <2>1. up
    BY <1>1 DEF LogShape, Down
  <2> QED BY <2>1 DEF Down, ProcessPendingFunctions
<1> QED BY <1>3, <1>6, <1>7 DEF LogShape, ProcessPendingFunctions

(* An append seeks the end of the file.                                    *)
LEMMA LogShapeSeek ==
  ASSUME LogShape, NEW e \in Commit, Seek(e)
  PROVE  LogShape'
<1>1. up /\ \A i \in DOMAIN pending : pending[i] # e
  BY DEF LogShape, Down, Appends, Seek
<1>2. Appends'
  BY <1>1 DEF LogShape, Appends, Seek
<1>3. position' = Len(file) /\ position' \in 0..Len(file)
  BY DEF LogShape, TypeOK, Seek, SeekEnd
<1>4. TypeOK'
  BY <1>3 DEF LogShape, TypeOK, Seek
<1>5. Down' /\ file' \in Seq(Bytes(created')) /\ position' = Len(file')
  BY <1>1, <1>3 DEF LogShape, Down, Seek
<1> QED BY <1>2, <1>4, <1>5 DEF LogShape

(* And writes there.                                                       *)
LEMMA LogShapeWrite ==
  ASSUME LogShape, NEW e \in Commit, Write(e)
  PROVE  LogShape'
<1> DEFINE b == Encoded(<<e>>)
<1>1. /\ up /\ position = Len(file) /\ file \in Seq(Bytes(created))
      /\ e \in created /\ created \subseteq Commit
  BY DEF LogShape, Down, TypeOK, Write
<1>2. b \in Seq(Bytes(created))
  BY <1>1, EncodedIs
<1>3. /\ file' \in Seq(Bytes(created))
      /\ position' = Len(file') /\ position' \in 0..Len(file')
  <2> HIDE DEF b
  <2>1. file' = Written(b) /\ position' = position + Len(b)
    BY DEF Write, b
  <2>2. Len(file) \in Nat /\ Len(b) \in Nat
    BY <1>1, <1>2
  <2> QED BY <1>1, <1>2, <2>1, <2>2, WrittenIs
<1>4. file' \in Seq(Byte)
  BY <1>1, <1>3, BytesAreByte
<1>5. (timer \/ Rescheduled) \in BOOLEAN
  BY DEF Rescheduled
<1>6. TypeOK'
  BY <1>1, <1>3, <1>4, <1>5 DEF LogShape, TypeOK, Write
<1>7. Appends' /\ Down'
  BY <1>1 DEF LogShape, Appends, Down, Write
<1> QED BY <1>3, <1>6, <1>7 DEF LogShape, Write

(* The process dies, perhaps in a write.                                   *)
LEMMA LogShapeCrash == LogShape /\ Crash => LogShape'
<1> SUFFICES ASSUME LogShape, Crash PROVE LogShape'
  OBVIOUS
<1>1. /\ up /\ position = Len(file) /\ file \in Seq(Bytes(created))
      /\ created \subseteq Commit /\ writing \subseteq created
  BY DEF LogShape, TypeOK, Crash
<1>2. file' \in Seq(Bytes(created))
  <2>1. CASE UNCHANGED file
    BY <1>1, <2>1
  <2>2. CASE \E e \in writing : \E n \in Torn \cap 1..(EntrySize + 1) :
               file' = Written(SubSeq(Encoded(<<e>>), 1, n))
    <3>1. PICK e \in writing, n \in 1..(EntrySize + 1) :
            file' = Written(SubSeq(Encoded(<<e>>), 1, n))
      BY <2>2
    <3>2. /\ Encoded(<<e>>) \in Seq(Bytes(created))
          /\ Len(Encoded(<<e>>)) = EntrySize + 2 /\ EntrySize \in Nat
      BY <1>1, EncodedIs, ConstantsOK
    <3>3. SubSeq(Encoded(<<e>>), 1, n) \in Seq(Bytes(created))
      BY <3>2, SubSeqProperties
    <3> QED BY <1>1, <3>1, <3>3, WrittenIs
  <2> QED BY <2>1, <2>2 DEF Crash
<1>3. file' \in Seq(Byte) /\ position' \in 0..Len(file')
  <2>1. file' \in Seq(Byte)
    BY <1>1, <1>2, BytesAreByte
  <2>2. Len(file') \in Nat
    BY <2>1
  <2> QED BY <2>1, <2>2 DEF Crash
<1>4. crashes' \in 0..MaxCrash
  BY ConstantsOK DEF LogShape, TypeOK, Crash
<1>5. ToSet(<<>>) = {}
  BY DEF ToSet
<1>6. TypeOK'
  BY <1>3, <1>4, <1>5 DEF LogShape, TypeOK, Crash
<1>7. Appends' /\ Down'
  BY DEF Appends, Down, Crash
<1> QED BY <1>2, <1>6, <1>7 DEF LogShape, Crash

(* Every step.                                                             *)
LEMMA LogShapeNext == LogShape /\ [Next]_vars => LogShape'
<1> SUFFICES ASSUME LogShape, [Next]_vars PROVE LogShape'
  OBVIOUS
<1>1. CASE UNCHANGED vars
  BY <1>1 DEF LogShape, TypeOK, Appends, Down, vars
<1>2. CASE Next
  BY <1>2, LogShapeOpen, LogShapeAppendCommits, LogShapeSeek, LogShapeWrite,
     LogShapeProcess, LogShapeCrash DEF Next
<1> QED BY <1>1, <1>2

(* The log keeps its types, whatever was written to it, torn or not: the   *)
(* file has bytes of entries, its offset is in it, and no append runs      *)
(* twice.                                                                  *)
THEOREM LogTypeCorrect == Spec => []TypeOK
<1>1. LogShape => TypeOK
  BY DEF LogShape
<1> QED BY <1>1, LogShapeInit, LogShapeNext, PTL DEF Spec
------------------------------------------------------------------------------
(* The frames of a log that only append() wrote: entry j is c[j] between   *)
(* two newlines, and after the last there may be what a crash left of one, *)
(* a newline and some of its bytes.                                        *)
Framed(f, c) ==
  \A j \in 1..Len(c) :
    /\ f[Off(j - 1) + 1] = Newline /\ f[Off(j)] = Newline
    /\ \A i \in 1..EntrySize : f[Off(j - 1) + 1 + i] = <<c[j], i>>
TornTail(f, n) ==
  /\ Len(f) >= n /\ Len(f) # n + 1 /\ Len(f) < n + EntrySize + 2
  /\ Len(f) > n => f[n + 1] = Newline
  /\ \A i \in (n + 2)..Len(f) : f[i] # Newline
Holds(f, c) == Framed(f, c) /\ TornTail(f, Off(Len(c)))

LineAt(j) == <<Off(j - 1) + 2, Off(j - 1) + EntrySize + 1>>

(* A byte of an entry is not a newline.                                    *)
LEMMA EntryByte == \A e : \A i \in 1..EntrySize : <<e, i>> # Newline
BY DEF Newline

(* Every byte before the end of the frames is in one.                      *)
LEMMA Located ==
  ASSUME NEW n \in Nat, NEW p \in 1..Off(n)
  PROVE  \E j \in 1..n : Off(j - 1) < p /\ p <= Off(j)
<1> DEFINE T == {j \in 0..n : p <= Off(j)}
<1>1. n \in T /\ T \subseteq Nat
  BY OffIs
<1>2. PICK j \in T : \A m \in T : j <= m
  <2> HIDE DEF T
  <2> QED BY <1>1, LeastNumber
<1>3. j \in 1..n /\ j - 1 \in 0..n /\ p <= Off(j)
  BY <1>2, OffIs
<1>4. j - 1 \notin T
  BY <1>2, <1>3
<1>5. Off(j - 1) < p
  <2>1. ~(p <= Off(j - 1)) /\ Off(j - 1) \in Nat
    BY <1>3, <1>4, OffIs
  <2> QED BY <2>1, OffIs
<1> QED BY <1>3, <1>5

(* Where the frames of entry j are.                                        *)
LEMMA FrameOf ==
  ASSUME NEW n \in Nat, NEW j \in 1..n
  PROVE  /\ Off(j - 1) \in Nat /\ Off(n) \in Nat /\ EntrySize \in Nat \ {0}
         /\ Off(j) = Off(j - 1) + EntrySize + 2 /\ Off(j) <= Off(n)
<1>1. j - 1 \in Nat /\ j \in Nat /\ (j - 1) + 1 = j /\ j - 1 < n
  OBVIOUS
<1>2. Off(j) = Off(j - 1) + EntrySize + 2
  BY <1>1, OffIs
<1>3. Off(j - 1) + EntrySize + 2 <= Off(n)
  BY <1>1, OffIs
<1> QED BY <1>1, <1>2, <1>3, OffIs

(* The lines of such a log: one for each entry, which parses as that entry *)
(* and no other, ...                                                       *)
LEMMA EntryLine ==
  ASSUME NEW C, NEW f \in Seq(Bytes(C)), NEW c \in Seq(Commit), Holds(f, c),
         NEW j \in 1..Len(c)
  PROVE  /\ LineAt(j) \in Lines(f)
         /\ \A e : Parses(f, LineAt(j), e) <=> e = c[j]
<1> DEFINE a == Off(j - 1)
           r == LineAt(j)
<1>1. /\ a \in Nat /\ EntrySize \in Nat \ {0} /\ Off(j) = a + EntrySize + 2
      /\ Off(j) <= Len(f) /\ Len(f) \in Nat
  <2>1. Len(f) \in Nat /\ Len(c) \in Nat
    OBVIOUS
  <2>2. Off(Len(c)) <= Len(f)
    BY DEF Holds, TornTail
  <2> QED BY <2>1, <2>2, FrameOf, SMTT(30)
<1>2. /\ f[a + 1] = Newline /\ f[a + EntrySize + 2] = Newline
      /\ \A i \in 1..EntrySize : f[a + 1 + i] = <<c[j], i>>
  BY <1>1 DEF Holds, Framed
<1>3. r[1] = a + 2 /\ r[2] = a + EntrySize + 1 /\ r = <<r[1], r[2]>>
  BY DEF LineAt
<1> HIDE DEF a, r
<1>4. r \in (DOMAIN f) \X (DOMAIN f) /\ r[1] <= r[2] /\ r[2] < Len(f)
  <2>1. a + 2 \in 1..Len(f) /\ a + EntrySize + 1 \in 1..Len(f)
    BY <1>1
  <2>2. DOMAIN f = 1..Len(f)
    OBVIOUS
  <2> QED BY <1>1, <1>3, <2>1, <2>2
<1>5. \A i \in r[1]..r[2] : f[i] # Newline
  <2>1. TAKE i \in r[1]..r[2]
  <2> DEFINE k == i - a - 1
  <2>2. k \in 1..EntrySize /\ a + 1 + k = i
    <3>1. i \in (a + 2)..(a + EntrySize + 1)
      BY <1>3
    <3>2. a \in Nat /\ EntrySize \in Nat
      BY <1>1
    <3> QED BY <3>1, <3>2
  <2> HIDE DEF k
  <2>3. f[i] = <<c[j], k>>
    BY <1>2, <2>2
  <2> QED BY <2>2, <2>3, EntryByte
<1>6. f[r[1] - 1] = Newline /\ f[r[2] + 1] = Newline
  <2>1. r[1] - 1 = a + 1 /\ r[2] + 1 = a + EntrySize + 2
    BY <1>1, <1>3
  <2> QED BY <1>2, <2>1
<1>7. r \in Lines(f)
  BY <1>4, <1>5, <1>6 DEF Lines
<1> DEFINE s == SubSeq(f, r[1], r[2])
<1>8. s \in Seq(Bytes(C)) /\ Len(s) = EntrySize
      /\ \A i \in 1..EntrySize : s[i] = <<c[j], i>>
  <2>1. r[1] \in 1..Len(f) /\ r[2] \in 0..Len(f) /\ r[1] <= r[2] + 1
    BY <1>4
  <2>2. /\ s \in Seq(Bytes(C)) /\ Len(s) = r[2] - r[1] + 1
        /\ \A i \in 1..(r[2] - r[1] + 1) : s[i] = f[r[1] + i - 1]
    <3>1. r[1] \in Int /\ r[2] \in Int /\ r[1] <= r[2]
      BY <1>4
    <3>2. \A i \in r[1]..r[2] : f[i] \in Bytes(C)
      BY <2>1
    <3> QED BY <3>1, <3>2, SubSeqProperties, SMTT(30)
  <2>3. r[2] - r[1] + 1 = EntrySize
    BY <1>1, <1>3
  <2>4. \A i \in 1..EntrySize : r[1] + i - 1 = a + 1 + i
    BY <1>1, <1>3
  <2> HIDE DEF s
  <2> QED BY <1>2, <2>2, <2>3, <2>4
<1> HIDE DEF s
<1>9. s = Line(c[j])
  <2>1. s = [i \in 1..EntrySize |-> s[i]]
    BY <1>8, LenProperties
  <2> QED BY <1>8, <2>1 DEF Line
<1>10. \A e : Line(e) = s => e = c[j]
  <2>1. \A e : Line(e)[1] = <<e, 1>>
    BY <1>1 DEF Line
  <2>2. s[1] = <<c[j], 1>>
    BY <1>1, <1>8
  <2> QED BY <2>1, <2>2
<1>11. \A e : Parses(f, r, e) <=> e = c[j]
  BY <1>4, <1>9, <1>10 DEF Parses, s
<1> QED BY <1>7, <1>11 DEF r

(* ... and none else but what follows the last newline.                    *)
LEMMA OnlyLines ==
  ASSUME NEW C, NEW f \in Seq(Bytes(C)), NEW c \in Seq(Commit), Holds(f, c),
         NEW r \in Lines(f)
  PROVE  \/ \E j \in 1..Len(c) : r = LineAt(j)
         \/ r[2] = Len(f) /\ r[1] > Off(Len(c))
<1> DEFINE n == Len(c)
           b == Off(n)
<1>1. /\ r[1] \in 1..Len(f) /\ r[2] \in 1..Len(f) /\ r[1] <= r[2]
      /\ Len(f) \in Nat /\ r = <<r[1], r[2]>>
      /\ \A i \in r[1]..r[2] : f[i] # Newline
      /\ r[1] = 1 \/ f[r[1] - 1] = Newline
      /\ r[2] = Len(f) \/ f[r[2] + 1] = Newline
  BY DEF Lines
<1>2. n \in Nat /\ b \in Nat /\ b <= Len(f)
  BY OffIs DEF Holds, TornTail
<1> HIDE DEF n, b
<1>3. CASE r[1] > b
  <2>1. Len(f) > b /\ f[b + 1] = Newline /\ \A i \in (b + 2)..Len(f) : f[i] # Newline
    BY <1>1, <1>2, <1>3 DEF Holds, TornTail, b, n
  <2>2. f[r[1]] # Newline
    BY <1>1
  <2>3. r[1] # b + 1
    BY <2>1, <2>2
  <2>4. r[2] # Len(f) => r[2] + 1 \in (b + 2)..Len(f)
    BY <1>1, <1>2, <1>3
  <2>5. r[2] = Len(f)
    BY <1>1, <2>1, <2>4
  <2> QED BY <1>3, <2>5 DEF b, n
<1>4. CASE r[1] <= b
  <2>1. PICK j \in 1..n : Off(j - 1) < r[1] /\ r[1] <= Off(j)
    BY <1>1, <1>2, <1>4, Located DEF b
  <2> DEFINE a == Off(j - 1)
  <2>2. /\ a \in Nat /\ EntrySize \in Nat \ {0} /\ Off(j) = a + EntrySize + 2
        /\ Off(j) <= Len(f) /\ a < r[1] /\ r[1] <= Off(j)
    <3>1. Off(n) <= Len(f) /\ Off(n) \in Nat
      BY <1>2 DEF b
    <3>2. Off(j) <= Off(n) /\ Off(j) = a + EntrySize + 2 /\ a \in Nat
      BY <1>2, FrameOf
    <3>3. EntrySize \in Nat \ {0}
      BY ConstantsOK
    <3> HIDE DEF a
    <3> QED BY <1>1, <2>1, <3>1, <3>2, <3>3 DEF a
  <2>3. /\ f[a + 1] = Newline /\ f[Off(j)] = Newline
        /\ \A i \in 1..EntrySize : f[a + 1 + i] = <<c[j], i>>
    BY DEF Holds, Framed, n
  <2> HIDE DEF a
  <2>4. \A p \in (a + 2)..(a + EntrySize + 1) : f[p] # Newline
    <3>1. TAKE p \in (a + 2)..(a + EntrySize + 1)
    <3>2. p - a - 1 \in 1..EntrySize /\ a + 1 + (p - a - 1) = p
      BY <2>2
    <3> QED BY <2>3, <3>2, EntryByte
  <2>5. r[1] # a + 1 /\ r[1] # Off(j)
    <3>1. f[r[1]] # Newline
      BY <1>1
    <3> QED BY <2>3, <3>1
  <2>6. r[1] = a + 2
    <3>1. SUFFICES ASSUME r[1] # a + 2 PROVE FALSE
      OBVIOUS
    <3>2. r[1] \in Nat
      BY <1>1
    <3>3. r[1] > a + 2 /\ r[1] < Off(j)
      BY <2>2, <2>5, <3>1, <3>2
    <3>4. r[1] # 1 /\ r[1] - 1 \in (a + 2)..(a + EntrySize + 1)
      BY <2>2, <3>2, <3>3
    <3>5. f[r[1] - 1] = Newline
      BY <1>1, <3>4
    <3> QED BY <2>4, <3>4, <3>5
  <2>7. r[2] <= a + EntrySize + 1
    <3>1. SUFFICES ASSUME r[2] > a + EntrySize + 1 PROVE FALSE
      BY <1>1, <2>2
    <3>2. Off(j) \in r[1]..r[2]
      BY <1>1, <2>2, <2>6, <3>1
    <3> QED BY <1>1, <2>3, <3>2
  <2>8. r[2] = a + EntrySize + 1
    <3>1. SUFFICES ASSUME r[2] # a + EntrySize + 1 PROVE FALSE
      OBVIOUS
    <3>2. r[2] + 1 \in (a + 2)..(a + EntrySize + 1) /\ r[2] # Len(f)
      BY <1>1, <2>2, <2>6, <2>7, <3>1
    <3> QED BY <1>1, <2>4, <3>2
  <2> QED BY <1>1, <2>6, <2>8 DEF LineAt, a, n
<1> QED BY <1>1, <1>2, <1>3, <1>4

(* What a scan of such a log reads, and how many lines it counts.          *)
LEMMA ScanOf ==
  ASSUME NEW C, NEW f \in Seq(Bytes(C)), NEW c \in Seq(Commit), Holds(f, c)
  PROVE  /\ Read(f) = ToSet(c)
         /\ Cardinality(GoodLines(f)) = Len(c)
         /\ GoodLines(f) = Lines(f) <=> Len(f) = Off(Len(c))
<1> DEFINE n == Len(c)
<1>1. n \in Nat /\ DOMAIN c = 1..n /\ Len(f) \in Nat /\ Off(n) \in Nat
  <2>1. Len(c) \in Nat /\ DOMAIN c = 1..Len(c) /\ Len(f) \in Nat
    OBVIOUS
  <2> QED BY <2>1, OffIs
<1>2. \A j \in 1..n : c[j] \in Commit
  OBVIOUS
<1>3. \A j \in 1..n : /\ LineAt(j) \in Lines(f)
                      /\ \A e : Parses(f, LineAt(j), e) <=> e = c[j]
  BY EntryLine
<1>4. ASSUME NEW r \in Lines(f)
      PROVE  \/ \E j \in 1..n : r = LineAt(j)
             \/ r[2] = Len(f) /\ r[1] > Off(n)
  BY OnlyLines
<1>5. \A j \in 1..n : /\ LineAt(j)[1] = Off(j - 1) + 2
                      /\ LineAt(j)[1] \in Nat /\ LineAt(j)[1] <= Off(n)
  <2>1. TAKE j \in 1..n
  <2>2. /\ Off(j - 1) \in Nat /\ Off(j - 1) + EntrySize + 2 <= Off(n)
        /\ EntrySize \in Nat
    <3> HIDE DEF n
    <3> QED BY <1>1, FrameOf
  <2>3. LineAt(j)[1] = Off(j - 1) + 2
    BY DEF LineAt
  <2> HIDE DEF n
  <2> QED BY <1>1, <2>2, <2>3
<1> HIDE DEF n
<1>6. GoodLines(f) = {LineAt(j) : j \in 1..n}
  <2>1. ASSUME NEW j \in 1..n PROVE LineAt(j) \in GoodLines(f)
    <3>1. ASSUME NEW q \in Lines(f), q[1] <= LineAt(j)[1]
          PROVE  \E e \in Commit : Parses(f, q, e)
      <4>1. q[1] \in Nat
        BY DEF Lines
      <4>2. ~(q[1] > Off(n))
        <5>1. LineAt(j)[1] \in Nat /\ LineAt(j)[1] <= Off(n)
          BY <1>5
        <5> QED BY <1>1, <3>1, <4>1, <5>1
      <4>3. PICK k \in 1..n : q = LineAt(k)
        BY <1>4, <4>2
      <4> QED BY <1>2, <1>3, <4>3
    <3> QED BY <1>3, <3>1 DEF GoodLines
  <2>2. ASSUME NEW r \in GoodLines(f) PROVE \E j \in 1..n : r = LineAt(j)
    <3>1. r \in Lines(f) /\ r[1] \in Nat
      BY DEF GoodLines, Lines
    <3>2. PICK e \in Commit : Parses(f, r, e)
      <4>1. r[1] <= r[1]
        BY <3>1
      <4> QED BY <3>1, <4>1 DEF GoodLines
    <3>3. r[2] # Len(f)
      BY <1>1, <3>2 DEF Parses
    <3> QED BY <1>4, <3>1, <3>3
  <2> QED BY <2>1, <2>2
<1>7. Read(f) = ToSet(c)
  <2>1. ToSet(c) = {c[j] : j \in 1..n}
    BY <1>1 DEF ToSet
  <2>2. \A e \in Commit : (\E r \in GoodLines(f) : Parses(f, r, e))
                            <=> \E j \in 1..n : e = c[j]
    BY <1>3, <1>6
  <2> QED BY <1>2, <2>1, <2>2 DEF Read
<1>8. Cardinality(GoodLines(f)) = n
  <2> DEFINE g == [j \in 1..n |-> LineAt(j)]
  <2>1. \A i, j \in 1..n : i # j => LineAt(i) # LineAt(j)
    <3>1. ASSUME NEW i \in 1..n, NEW j \in 1..n, i < j
          PROVE  LineAt(i)[1] # LineAt(j)[1]
      <4>1. i - 1 \in Nat /\ j - 1 \in Nat /\ i - 1 < j - 1
        BY <1>1, <3>1
      <4>2. Off(i - 1) + EntrySize + 2 <= Off(j - 1)
        BY <4>1, OffIs
      <4>3. Off(i - 1) \in Nat /\ Off(j - 1) \in Nat /\ EntrySize \in Nat
        BY <4>1, OffIs
      <4> QED BY <1>5, <4>2, <4>3
    <3>2. \A i, j \in 1..n : i # j => i < j \/ j < i
      BY <1>1
    <3> QED BY <3>1, <3>2
  <2>2. g \in Bijection(1..n, GoodLines(f))
    BY <1>6, <2>1 DEF Bijection, Injection, Surjection, IsInjective
  <2>3. ExistsBijection(1..n, GoodLines(f))
    BY <2>2 DEF ExistsBijection
  <2>4. IsFiniteSet(1..n) /\ Cardinality(1..n) = n
    BY <1>1, FS_Interval
  <2> QED BY <2>3, <2>4, FS_Bijection
<1>9. Len(f) = Off(n) => GoodLines(f) = Lines(f)
  <2>1. ASSUME Len(f) = Off(n), NEW r \in Lines(f)
        PROVE  r \in GoodLines(f)
    <3>1. ~(r[1] > Off(n))
      BY <1>1, <2>1 DEF Lines
    <3> QED BY <1>4, <1>6, <3>1
  <2> QED BY <2>1, LinesFinite
<1>10. Len(f) # Off(n) => GoodLines(f) # Lines(f)
  <2>1. SUFFICES ASSUME Len(f) # Off(n) PROVE GoodLines(f) # Lines(f)
    OBVIOUS
  <2> DEFINE r == <<Off(n) + 2, Len(f)>>
  <2>2. /\ Len(f) >= Off(n) + 2 /\ f[Off(n) + 1] = Newline
        /\ \A i \in (Off(n) + 2)..Len(f) : f[i] # Newline
    BY <1>1, <2>1 DEF Holds, TornTail, n
  <2>3. r \in Lines(f)
    <3>1. r \in (DOMAIN f) \X (DOMAIN f)
      BY <1>1, <2>2
    <3>2. r[1] = Off(n) + 2 /\ r[2] = Len(f) /\ r[1] - 1 = Off(n) + 1
      BY <1>1
    <3> HIDE DEF r
    <3> QED BY <1>1, <2>2, <3>1, <3>2 DEF Lines
  <2>4. \A j \in 1..n : r # LineAt(j)
    <3>1. \A j \in 1..n : LineAt(j)[1] # Off(n) + 2
      BY <1>1, <1>5
    <3>2. r[1] = Off(n) + 2
      OBVIOUS
    <3> HIDE DEF r
    <3> QED BY <3>1, <3>2
  <2> QED BY <1>6, <2>3, <2>4
<1> QED BY <1>7, <1>8, <1>9, <1>10 DEF n
------------------------------------------------------------------------------
(* How the operations change what the log holds.                           *)

(* g is f and the first k bytes of x.                                      *)
Appended(f, g, x, k) ==
  /\ Len(g) = Len(f) + k
  /\ \A i \in 1..Len(f) : g[i] = f[i]
  /\ \A i \in 1..k : g[Len(f) + i] = x[i]

(* The frames are those of the bytes before the end of the last.           *)
LEMMA SameFrames ==
  ASSUME NEW f, NEW g, NEW c \in Seq(Commit), Framed(f, c),
         \A i \in 1..Off(Len(c)) : g[i] = f[i]
  PROVE  Framed(g, c)
<1> SUFFICES ASSUME NEW j \in 1..Len(c)
             PROVE  /\ g[Off(j - 1) + 1] = Newline /\ g[Off(j)] = Newline
                    /\ \A i \in 1..EntrySize : g[Off(j - 1) + 1 + i] = <<c[j], i>>
  BY DEF Framed
<1>1. /\ f[Off(j - 1) + 1] = Newline /\ f[Off(j)] = Newline
      /\ \A i \in 1..EntrySize : f[Off(j - 1) + 1 + i] = <<c[j], i>>
  BY DEF Framed
<1>2. /\ Off(j - 1) \in Nat /\ Off(Len(c)) \in Nat /\ EntrySize \in Nat \ {0}
      /\ Off(j) = Off(j - 1) + EntrySize + 2 /\ Off(j) <= Off(Len(c))
  <2>1. Len(c) \in Nat
    OBVIOUS
  <2> QED BY <2>1, FrameOf
<1>3. /\ Off(j - 1) + 1 \in 1..Off(Len(c)) /\ Off(j) \in 1..Off(Len(c))
      /\ \A i \in 1..EntrySize : Off(j - 1) + 1 + i \in 1..Off(Len(c))
  BY <1>2
<1> QED BY <1>1, <1>3

(* A scan cuts off what a crash left and nothing else.                     *)
LEMMA RepairedIs ==
  ASSUME NEW C, NEW f \in Seq(Bytes(C)), NEW c \in Seq(Commit), Holds(f, c)
  PROVE  /\ Holds(Repaired(f), c) /\ Len(Repaired(f)) = Off(Len(c))
         /\ Read(f) = ToSet(c) /\ Read(Repaired(f)) = ToSet(c)
<1> DEFINE n == Off(Len(c))
           g == Repaired(f)
<1>1. n \in Nat /\ Len(f) \in Nat /\ n <= Len(f) /\ EntrySize \in Nat
  <2>1. Len(c) \in Nat /\ Len(f) \in Nat
    OBVIOUS
  <2> QED BY <2>1, OffIs DEF Holds, TornTail
<1>2. Read(f) = ToSet(c)
  BY ScanOf
<1>3. g = IF Len(f) = n THEN f ELSE Truncated(f, n)
  <2>1. Cardinality(GoodLines(f)) * (EntrySize + DelimiterBytes) = n
    BY ScanOf DEF Off
  <2> HIDE DEF n
  <2>2. GoodLines(f) = Lines(f) <=> Len(f) = n
    BY ScanOf DEF n
  <2> QED BY <2>1, <2>2 DEF Repaired
<1> HIDE DEF n, g
<1>4. /\ g \in Seq(Bytes(C)) /\ Len(g) = n
      /\ \A i \in 1..n : g[i] = f[i]
  <2>1. CASE Len(f) = n
    BY <1>3, <2>1
  <2>2. CASE Len(f) # n
    <3>1. \A i \in 1..n : i <= Len(f)
      BY <1>1
    <3>2. g = Truncated(f, n)
      BY <1>3, <2>2
    <3> QED BY <1>1, <3>1, <3>2, TruncatedIs
  <2> QED BY <2>1, <2>2
<1>5. Framed(g, c)
  BY <1>4, SameFrames DEF Holds, n
<1>6. TornTail(g, n)
  BY <1>1, <1>4 DEF TornTail
<1>7. Holds(g, c)
  BY <1>5, <1>6 DEF Holds, n
<1>8. Read(g) = ToSet(c)
  BY <1>4, <1>7, ScanOf
<1> QED BY <1>2, <1>4, <1>7, <1>8 DEF n, g

(* A write appends one entry.                                              *)
LEMMA WriteHolds ==
  ASSUME NEW C, NEW f \in Seq(Bytes(C)), NEW g \in Seq(Bytes(C)),
         NEW c \in Seq(Commit), Holds(f, c), Len(f) = Off(Len(c)),
         NEW e \in Commit, Appended(f, g, Encoded(<<e>>), EntrySize + 2)
  PROVE  /\ Append(c, e) \in Seq(Commit) /\ Holds(g, Append(c, e))
         /\ Len(g) = Off(Len(Append(c, e)))
         /\ ToSet(Append(c, e)) = ToSet(c) \cup {e}
<1> DEFINE n == Len(c)
           d == Append(c, e)
<1>1. /\ n \in Nat /\ d \in Seq(Commit) /\ Len(d) = n + 1 /\ d[n + 1] = e
      /\ \A j \in 1..n : d[j] = c[j]
  BY AppendProperties
<1>2. /\ Off(n) \in Nat /\ Off(n + 1) = Off(n) + EntrySize + 2
      /\ EntrySize \in Nat \ {0} /\ (n + 1) - 1 = n
  BY <1>1, OffIs
<1>a. /\ Len(g) = Len(f) + (EntrySize + 2)
      /\ \A i \in 1..Len(f) : g[i] = f[i]
      /\ \A i \in 1..(EntrySize + 2) : g[Len(f) + i] = Encoded(<<e>>)[i]
  BY DEF Appended
<1>3. ToSet(d) = ToSet(c) \cup {e}
  <2>1. DOMAIN c = 1..n /\ DOMAIN d = 1..(n + 1)
    BY <1>1
  <2> HIDE DEF d, n
  <2>2. n + 1 \in 1..(n + 1) /\ \A j \in 1..(n + 1) : j \in 1..n \/ j = n + 1
    BY <1>1
  <2>3. \A j \in 1..n : j \in 1..(n + 1)
    BY <1>1
  <2>4. ToSet(c) = {c[j] : j \in 1..n} /\ ToSet(d) = {d[j] : j \in 1..(n + 1)}
    BY <2>1 DEF ToSet
  <2>5. {d[j] : j \in 1..(n + 1)} = {c[j] : j \in 1..n} \cup {e}
    <3>1. \A j \in 1..(n + 1) : d[j] \in {c[i] : i \in 1..n} \cup {e}
      BY <1>1, <2>2
    <3>2. \A j \in 1..n : c[j] \in {d[i] : i \in 1..(n + 1)}
      BY <1>1, <2>3
    <3>3. e \in {d[i] : i \in 1..(n + 1)}
      BY <1>1, <2>2
    <3> QED BY <3>1, <3>2, <3>3
  <2> QED BY <2>4, <2>5
<1>4. Framed(g, c)
  BY <1>a, SameFrames DEF Holds
<1>5. /\ g[Off(n) + 1] = Newline /\ g[Off(n + 1)] = Newline
      /\ \A i \in 1..EntrySize : g[Off(n) + 1 + i] = <<e, i>>
  <2> DEFINE x == Encoded(<<e>>)
  <2>1. /\ x[1] = Newline /\ x[EntrySize + 2] = Newline
        /\ \A i \in 1..EntrySize : x[1 + i] = <<e, i>>
    BY EncodedIs
  <2>2. \A i \in 1..(EntrySize + 2) : g[Off(n) + i] = x[i]
    BY <1>a
  <2> HIDE DEF x, n
  <2>3. g[Off(n) + 1] = Newline /\ g[Off(n + 1)] = Newline
    <3>1. /\ 1 \in 1..(EntrySize + 2) /\ EntrySize + 2 \in 1..(EntrySize + 2)
          /\ Off(n + 1) = Off(n) + (EntrySize + 2)
      BY <1>2
    <3> QED BY <2>1, <2>2, <3>1
  <2>4. ASSUME NEW i \in 1..EntrySize PROVE g[Off(n) + 1 + i] = <<e, i>>
    <3>1. 1 + i \in 1..(EntrySize + 2) /\ Off(n) + 1 + i = Off(n) + (1 + i)
      BY <1>2
    <3>2. g[Off(n) + (1 + i)] = x[1 + i]
      BY <2>2, <3>1
    <3> QED BY <2>1, <3>1, <3>2
  <2> QED BY <2>3, <2>4
<1>6. Framed(g, d)
  <2> HIDE DEF d
  <2> SUFFICES ASSUME NEW j \in 1..(n + 1)
               PROVE  /\ g[Off(j - 1) + 1] = Newline /\ g[Off(j)] = Newline
                      /\ \A i \in 1..EntrySize : g[Off(j - 1) + 1 + i] = <<d[j], i>>
    BY <1>1 DEF Framed
  <2>1. CASE j = n + 1
    BY <1>1, <1>2, <1>5, <2>1
  <2>2. CASE j # n + 1
    <3>1. j \in 1..n
      BY <1>1, <2>2
    <3> QED BY <1>1, <1>4, <3>1 DEF Framed
  <2> QED BY <2>1, <2>2
<1>7. Len(g) = Off(Len(d))
  BY <1>a, <1>1, <1>2
<1>8. TornTail(g, Off(Len(d)))
  <2> HIDE DEF d
  <2>1. Len(g) \in Nat /\ EntrySize \in Nat
    BY <1>2
  <2> QED BY <1>7, <2>1 DEF TornTail
<1> QED BY <1>1, <1>3, <1>6, <1>7, <1>8 DEF Holds

(* A write that a crash tears adds no entry, if more than the newline was  *)
(* written.                                                                *)
LEMMA TornHolds ==
  ASSUME NEW C, NEW f \in Seq(Bytes(C)), NEW g \in Seq(Bytes(C)),
         NEW c \in Seq(Commit), Holds(f, c), Len(f) = Off(Len(c)),
         NEW e \in Commit, NEW k \in 2..(EntrySize + 1),
         Appended(f, g, Encoded(<<e>>), k)
  PROVE  Holds(g, c)
<1> DEFINE n == Off(Len(c))
<1>1. n \in Nat /\ EntrySize \in Nat /\ k \in Nat
  <2>1. Len(c) \in Nat
    OBVIOUS
  <2> QED BY <2>1, OffIs
<1>2. Framed(g, c)
  BY SameFrames DEF Holds, Appended
<1>3. /\ Encoded(<<e>>)[1] = Newline
      /\ \A i \in 1..EntrySize : Encoded(<<e>>)[1 + i] = <<e, i>>
  BY EncodedIs
<1>4. \A i \in 1..k : g[n + i] = Encoded(<<e>>)[i]
  BY DEF Appended
<1>5. Len(g) = n + k
  BY DEF Appended
<1> HIDE DEF n
<1>6. g[n + 1] = Newline
  <2>1. 1 \in 1..k
    BY <1>1
  <2> QED BY <1>3, <1>4, <2>1
<1>7. ASSUME NEW i \in (n + 2)..Len(g) PROVE g[i] # Newline
  <2> DEFINE p == i - n - 1
  <2>1. p \in 1..EntrySize /\ 1 + p \in 1..k /\ n + (1 + p) = i
    BY <1>1, <1>5
  <2> HIDE DEF p
  <2>2. g[i] = <<e, p>>
    BY <1>3, <1>4, <2>1
  <2> QED BY <2>1, <2>2, EntryByte
<1>8. TornTail(g, n)
  <2>1. Len(g) >= n /\ Len(g) # n + 1 /\ Len(g) < n + EntrySize + 2
    BY <1>1, <1>5
  <2> QED BY <1>6, <1>7, <2>1 DEF TornTail
<1> QED BY <1>2, <1>8 DEF Holds, n
------------------------------------------------------------------------------
(* The invariant: what the file holds are the entries of some sequence of  *)
(* commits and perhaps a torn one; all that was resolved is in the         *)
(* sequence; and while the process runs nothing is torn, so that an append *)
(* starts where the last frame ends.                                       *)
LogHolds ==
  \E c \in Seq(Commit) : /\ Holds(file, c)
                         /\ resolved \subseteq ToSet(c)
                         /\ up => Len(file) = Off(Len(c))
LogInv == LogShape /\ LogHolds

(* A log that "repo dedup" did not write starts empty.                     *)
LEMMA LogHoldsInit ==
  ASSUME Dedup = <<>>, Init
  PROVE  LogHolds
<1>1. file = <<>> /\ resolved = ToSet(<<>>) /\ Len(<<>>) = 0 /\ <<>> \in Seq(Commit)
  BY DEF Init
<1>2. EntrySize \in Nat /\ Off(0) = 0
  BY OffIs
<1>3. Holds(file, <<>>)
  BY <1>1, <1>2 DEF Holds, Framed, TornTail
<1> QED BY <1>1, <1>2, <1>3 DEF LogHolds

(* Opening the log, which trims what was torn.                             *)
LEMMA LogHoldsOpen ==
  ASSUME LogInv, Open
  PROVE  LogHolds' /\ Read(file') = Read(file)
<1>1. PICK c \in Seq(Commit) : Holds(file, c) /\ resolved \subseteq ToSet(c)
  BY DEF LogInv, LogHolds
<1>2. /\ Holds(Repaired(file), c) /\ Len(Repaired(file)) = Off(Len(c))
      /\ Read(file) = ToSet(c) /\ Read(Repaired(file)) = ToSet(c)
  BY <1>1, RepairedIs DEF LogInv, LogShape
<1>3. file' = Repaired(file) /\ resolved' = resolved
  BY DEF Open
<1> QED BY <1>1, <1>2, <1>3 DEF LogHolds

(* A write.                                                                *)
LEMMA LogHoldsWrite ==
  ASSUME LogInv, NEW e \in Commit, Write(e)
  PROVE  LogHolds' /\ Read(file') = Read(file) \cup {e}
<1>1. up /\ position = Len(file) /\ file \in Seq(Bytes(created)) /\ e \in created
  BY DEF LogInv, LogShape, Down, TypeOK, Write
<1>2. PICK c \in Seq(Commit) : /\ Holds(file, c) /\ resolved \subseteq ToSet(c)
                               /\ Len(file) = Off(Len(c))
  BY <1>1 DEF LogInv, LogHolds
<1> DEFINE b == Encoded(<<e>>)
<1>3. b \in Seq(Bytes(created)) /\ Len(b) = EntrySize + 2
  BY <1>1, EncodedIs
<1> HIDE DEF b
<1>4. PICK g : g = Written(b)
  OBVIOUS
<1>5. /\ g \in Seq(Bytes(created)) /\ Len(g) = Len(file) + Len(b)
      /\ \A i \in 1..Len(file) : g[i] = file[i]
      /\ \A i \in 1..Len(b) : g[Len(file) + i] = b[i]
  BY <1>1, <1>3, <1>4, WrittenIs
<1>6. Appended(file, g, Encoded(<<e>>), EntrySize + 2)
  BY <1>3, <1>5 DEF Appended, b
<1>7. PICK d : d = Append(c, e)
  OBVIOUS
<1>8. /\ d \in Seq(Commit) /\ Holds(g, d) /\ Len(g) = Off(Len(d))
      /\ ToSet(d) = ToSet(c) \cup {e}
  BY <1>1, <1>2, <1>5, <1>6, <1>7, WriteHolds
<1>9. file' = g /\ resolved' = resolved \cup {e}
  BY <1>4 DEF Write, b
<1>10. Read(file) = ToSet(c) /\ Read(g) = ToSet(d)
  BY <1>1, <1>2, <1>5, <1>8, ScanOf
<1> QED BY <1>2, <1>8, <1>9, <1>10 DEF LogHolds

(* A crash.                                                                *)
LEMMA LogHoldsCrash ==
  ASSUME 1 \notin Torn, LogInv, Crash
  PROVE  LogHolds' /\ Read(file') = Read(file)
<1>1. /\ up /\ position = Len(file) /\ file \in Seq(Bytes(created))
      /\ created \subseteq Commit /\ writing \subseteq created
  BY DEF LogInv, LogShape, TypeOK, Crash
<1>2. PICK c \in Seq(Commit) : /\ Holds(file, c) /\ resolved \subseteq ToSet(c)
                               /\ Len(file) = Off(Len(c))
  BY <1>1 DEF LogInv, LogHolds
<1>3. up' = FALSE /\ resolved' = resolved
  BY DEF Crash
<1>4. CASE UNCHANGED file
  BY <1>2, <1>3, <1>4 DEF LogHolds
<1>5. CASE \E e \in writing : \E n \in Torn \cap 1..(EntrySize + 1) :
             file' = Written(SubSeq(Encoded(<<e>>), 1, n))
  <2>1. PICK e \in writing, n \in Torn \cap 1..(EntrySize + 1) :
          file' = Written(SubSeq(Encoded(<<e>>), 1, n))
    BY <1>5
  <2>2. e \in created /\ e \in Commit /\ n \in 2..(EntrySize + 1) /\ EntrySize \in Nat
    BY <1>1, ConstantsOK
  <2>3. PICK x : x = SubSeq(Encoded(<<e>>), 1, n)
    OBVIOUS
  <2>4. /\ x \in Seq(Bytes(created)) /\ Len(x) = n
        /\ \A i \in 1..n : x[i] = Encoded(<<e>>)[i]
    <3>1. /\ Encoded(<<e>>) \in Seq(Bytes(created))
          /\ Len(Encoded(<<e>>)) = EntrySize + 2
      BY <2>2, EncodedIs
    <3>2. \A i \in 1..n : Encoded(<<e>>)[i] \in Bytes(created)
      BY <2>2, <3>1
    <3> QED BY <2>2, <2>3, <3>2, SubSeqProperties
  <2>5. PICK g : g = Written(x)
    OBVIOUS
  <2>6. /\ g \in Seq(Bytes(created)) /\ Len(g) = Len(file) + n
        /\ \A i \in 1..Len(file) : g[i] = file[i]
        /\ \A i \in 1..n : g[Len(file) + i] = Encoded(<<e>>)[i]
    BY <1>1, <2>4, <2>5, WrittenIs
  <2>7. Holds(g, c)
    <3>1. Appended(file, g, Encoded(<<e>>), n)
      BY <2>6 DEF Appended
    <3> QED BY <1>1, <1>2, <2>2, <2>6, <3>1, TornHolds
  <2>8. Read(file) = ToSet(c) /\ Read(g) = ToSet(c)
    BY <1>1, <1>2, <2>6, <2>7, ScanOf
  <2>9. file' = g
    BY <2>1, <2>3, <2>5
  <2> QED BY <1>2, <1>3, <2>7, <2>8, <2>9 DEF LogHolds
<1> QED BY <1>4, <1>5 DEF Crash

(* Every step.                                                             *)
LEMMA LogInvNext ==
  ASSUME 1 \notin Torn
  PROVE  LogInv /\ [Next]_vars => LogInv'
<1> SUFFICES ASSUME LogInv, [Next]_vars PROVE LogInv'
  OBVIOUS
<1>1. LogShape'
  BY LogShapeNext DEF LogInv
<1> SUFFICES LogHolds'
  BY <1>1 DEF LogInv
<1>2. ASSUME file' = file, resolved' = resolved, up' = up
      PROVE  LogHolds'
  BY <1>2 DEF LogInv, LogHolds
<1>3. CASE UNCHANGED vars
  BY <1>2, <1>3 DEF vars
<1>4. CASE \E e \in Commit : AppendCommits(e) \/ Seek(e)
  BY <1>2, <1>4 DEF AppendCommits, Seek
<1>5. CASE ProcessPendingFunctions
  BY <1>2, <1>5 DEF ProcessPendingFunctions
<1>6. CASE \/ Open \/ Crash
           \/ \E e \in Commit : Write(e)
  BY <1>6, LogHoldsOpen, LogHoldsWrite, LogHoldsCrash
<1> QED BY <1>3, <1>4, <1>5, <1>6 DEF Next

(* What append() has written is read back, however many appends overlapped *)
(* and crashes tore one: the repair trims the corrupted tail and nothing   *)
(* else (JSONLogFile.scan).  It takes that "repo dedup" did not write the  *)
(* file in one batch, and that a crash leaves more of a write than its     *)
(* first newline, both of which scan() miscounts.                          *)
THEOREM WrittenIsReadBack ==
  ASSUME Dedup = <<>>, 1 \notin Torn
  PROVE  Spec => []WrittenIsRead
<1>1. Init => LogInv
  BY LogShapeInit, LogHoldsInit DEF LogInv
<1>2. LogInv /\ [Next]_vars => LogInv'
  BY LogInvNext
<1>3. LogInv => WrittenIsRead
  <2> SUFFICES ASSUME LogInv PROVE WrittenIsRead
    OBVIOUS
  <2>1. PICK c \in Seq(Commit) : Holds(file, c) /\ resolved \subseteq ToSet(c)
    BY DEF LogInv, LogHolds
  <2>2. Read(file) = ToSet(c)
    BY <2>1, ScanOf DEF LogInv, LogShape
  <2> QED BY <2>1, <2>2 DEF WrittenIsRead
<1> QED BY <1>1, <1>2, <1>3, PTL DEF Spec
------------------------------------------------------------------------------
(* The log is the stable storage of the server.                            *)
Replica == [n \in {Server} |-> stored]
Stable == [n \in {Server} |-> Read(file)]

(* What is stored and what is read are the server's sets.                  *)
LEMMA ServerSets ==
  /\ Replica[Server] = stored /\ Stable[Server] = Read(file)
  /\ \A S : [Replica EXCEPT ![Server] = S] = [n \in {Server} |-> S]
  /\ \A S : [Stable EXCEPT ![Server] = S] = [n \in {Server} |-> S]
BY DEF Replica, Stable

(* Commits that exist are stored (loadRepoFromBackup, persistCommits).     *)
LEMMA ServerLearns ==
  ASSUME NEW S \in SUBSET created, created' = created,
         stored' = stored \cup S, Read(file)' = Read(file)
  PROVE  Storage!Next
<1>1. [n \in {Server} |-> stored'] = [Replica EXCEPT ![Server] = @ \cup S]
  BY ServerSets
<1>2. [n \in {Server} |-> Read(file)'] = Stable
  BY DEF Stable
<1> QED BY <1>1, <1>2 DEF Storage!Next, Storage!Learn, Replica, Stable

(* A commit is created here (appendCommits of a new one).                  *)
LEMMA ServerCreates ==
  ASSUME NEW e \in Commit, e \notin created, created' = created \cup {e},
         stored' = stored \cup {e}, Read(file)' = Read(file)
  PROVE  Storage!Next
<1>1. [n \in {Server} |-> stored'] = [Replica EXCEPT ![Server] = @ \cup {e}]
  BY ServerSets
<1>2. [n \in {Server} |-> Read(file)'] = Stable
  BY DEF Stable
<1> QED BY <1>1, <1>2 DEF Storage!Next, Storage!Create, Replica, Stable

(* A stored commit is written (JSONLogFile.append).                        *)
LEMMA ServerSaves ==
  ASSUME NEW e \in Commit, e \in stored, created' = created,
         stored' = stored, Read(file)' = Read(file) \cup {e}
  PROVE  Storage!Next
<1>1. [n \in {Server} |-> stored'] = Replica /\ e \in Replica[Server]
  BY ServerSets DEF Replica
<1>2. [n \in {Server} |-> Read(file)'] = [Stable EXCEPT ![Server] = @ \cup {e}]
  BY ServerSets
<1> QED BY <1>1, <1>2 DEF Storage!Next, Storage!Save, Replica, Stable

(* The process dies: it stores nothing until it has read the log.          *)
LEMMA ServerCrashes ==
  ASSUME created' = created, stored' = {}, Read(file)' = Read(file)
  PROVE  Storage!Next
<1>1. [n \in {Server} |-> stored'] = [Replica EXCEPT ![Server] = {}]
  BY ServerSets
<1>2. [n \in {Server} |-> Read(file)'] = Stable /\ {} \in SUBSET Stable[Server]
  BY DEF Stable
<1> QED BY <1>1, <1>2 DEF Storage!Next, Storage!Crash, Replica, Stable

(* Every step of the log is a step of ReplicatedSet or none.               *)
LEMMA DurableStep ==
  ASSUME 1 \notin Torn
  PROVE  LogInv /\ [Next]_vars => [Storage!Next]_(Storage!vars)
<1> SUFFICES ASSUME LogInv, [Next]_vars
             PROVE  Storage!Next \/ UNCHANGED Storage!vars
  OBVIOUS
<1>1. ASSUME created' = created, stored' = stored, file' = file
      PROVE  UNCHANGED Storage!vars
  BY <1>1 DEF Storage!vars
<1>2. CASE UNCHANGED vars
  BY <1>1, <1>2 DEF vars
<1>3. CASE Open
  <2>1. Read(file)' = Read(file)
    BY <1>3, LogHoldsOpen
  <2>2. Read(file) \subseteq created
    BY ReadIsWritten DEF LogInv, LogShape
  <2>3. created' = created /\ stored = {} /\ stored' = stored \cup Read(file)
    BY <1>3 DEF LogInv, LogShape, Down, Open
  <2> QED BY <2>1, <2>2, <2>3, ServerLearns
<1>4. ASSUME NEW e \in Commit, AppendCommits(e) PROVE Storage!Next
  <2>1. /\ stored' = stored \cup {e} /\ created' = created \cup {e}
        /\ Read(file)' = Read(file)
    BY <1>4 DEF AppendCommits
  <2>2. CASE e \in created
    <3>1. {e} \in SUBSET created /\ created' = created
      BY <2>1, <2>2
    <3> QED BY <2>1, <3>1, ServerLearns
  <2>3. CASE e \notin created
    BY <2>1, <2>3, ServerCreates
  <2> QED BY <2>2, <2>3
<1>5. ASSUME NEW e \in Commit, Write(e) PROVE Storage!Next
  <2>1. Read(file)' = Read(file) \cup {e}
    BY <1>5, LogHoldsWrite
  <2>2. e \in stored /\ created' = created /\ stored' = stored
    BY <1>5 DEF LogInv, LogShape, TypeOK, Write
  <2> QED BY <2>1, <2>2, ServerSaves
<1>6. CASE Crash
  <2>1. Read(file)' = Read(file)
    BY <1>6, LogHoldsCrash
  <2>2. created' = created /\ stored' = {}
    BY <1>6 DEF Crash
  <2> QED BY <2>1, <2>2, ServerCrashes
<1>7. ASSUME NEW e \in Commit, Seek(e) PROVE UNCHANGED Storage!vars
  BY <1>1, <1>7 DEF Seek
<1>8. CASE ProcessPendingFunctions
  BY <1>1, <1>8 DEF ProcessPendingFunctions
<1> QED BY <1>2, <1>3, <1>4, <1>5, <1>6, <1>7, <1>8 DEF Next

(* The log is the stable storage that ReplicatedSet promises of a node,    *)
(* and that SyncProtocol takes the server's to be: what a scan of it reads *)
(* is there for good and was stored before, from the bytes on.  The        *)
(* assumptions are those of WrittenIsReadBack.                             *)
THEOREM LogIsStable ==
  ASSUME Dedup = <<>>, 1 \notin Torn
  PROVE  Spec => Durable
<1>1. Init => LogInv
  BY LogShapeInit, LogHoldsInit DEF LogInv
<1>2. Init => Storage!Init
  <2> SUFFICES ASSUME Init PROVE Storage!Init
    OBVIOUS
  <2>1. file = <<>> /\ created = ToSet(<<>>) /\ stored = {}
    BY DEF Init
  <2>2. created = {}
    BY <2>1 DEF ToSet
  <2>3. Read(file) = {}
    BY <2>2, LogShapeInit, ReadIsWritten DEF LogShape
  <2> QED BY <2>1, <2>2, <2>3 DEF Storage!Init
<1>3. LogInv /\ [Next]_vars => LogInv'
  BY LogInvNext
<1>4. LogInv /\ [Next]_vars => [Storage!Next]_(Storage!vars)
  BY DurableStep
<1> QED BY <1>1, <1>2, <1>3, <1>4, PTL DEF Spec, Durable, Storage!Spec
==============================================================================
