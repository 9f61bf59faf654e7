--------------------------- MODULE AccessLog_proofs ---------------------------
(***************************************************************************)
(* Proofs about AccessLog: for any number of workers the newlines of the   *)
(* file count its entries, and a line holds no more whole entries than     *)
(* there are workers.  And the dates of LogTime follow the calendar.       *)
(***************************************************************************)
EXTENDS AccessLog, FiniteSetTheorems, TLAPS

\* Nobody owes the newline of a torn text, and no two owe the same.
DebtsApart ==
    \A w \in Worker : owes[w] # 0 =>
        /\ owes[w] \notin torn
        /\ \A v \in Worker : owes[v] = owes[w] => v = w

CountInv == LogTypeOK /\ DebtsApart /\ NewlinesCountEntries

-----------------------------------------------------------------------------

\* What a write does to the places of the file.
LEMMA WriteAppends ==
  ASSUME LogTypeOK, NEW c \in {"text", "newline"}, Write(c)
  PROVE  /\ Len(file) \in Nat /\ Len(file) + 1 \notin DOMAIN file
         /\ file' \in Seq({"text", "newline"})
         /\ Len(file)' = Len(file) + 1
         /\ DOMAIN file = 1..Len(file) /\ DOMAIN file' = 1..(Len(file) + 1)
         /\ \A i \in DOMAIN file : file'[i] = file[i]
         /\ file'[Len(file) + 1] = c
         /\ Places(c)' = Places(c) \cup {Len(file) + 1}
         /\ \A d \in {"text", "newline"} \ {c} : Places(d)' = Places(d)
<1>1. /\ Len(file) \in Nat /\ file' = Append(file, c)
      /\ file \in Seq({"text", "newline"}) /\ DOMAIN file = 1..Len(file)
  BY DEF Write, LogTypeOK
<1>2. /\ file' \in Seq({"text", "newline"}) /\ Len(file)' = Len(file) + 1
      /\ DOMAIN file' = 1..(Len(file) + 1)
      /\ \A i \in DOMAIN file : file'[i] = file[i]
      /\ file'[Len(file) + 1] = c
  BY <1>1
<1>3. Len(file) + 1 \notin DOMAIN file
  BY <1>1
<1>4. DOMAIN file' = DOMAIN file \cup {Len(file) + 1}
  BY <1>1, <1>2
<1>5. /\ Places(c)' = Places(c) \cup {Len(file) + 1}
      /\ \A d \in {"text", "newline"} \ {c} : Places(d)' = Places(d)
  BY <1>2, <1>3, <1>4 DEF Places
<1> QED BY <1>1, <1>2, <1>3, <1>5

LEMMA LogInitTyped == ASSUME LogInit PROVE LogTypeOK
  BY DEF LogInit, LogTypeOK

LEMMA LogStepTyped ==
  ASSUME LogTypeOK, [LogNext]_logVars
  PROVE  LogTypeOK'
<1> USE DEF LogTypeOK
<1>1. ASSUME NEW w \in Worker, WriteText(w)
      PROVE  LogTypeOK'
  <2>1. Write("text") BY <1>1 DEF WriteText
  <2> QED BY <1>1, <2>1, WriteAppends DEF WriteText
<1>2. ASSUME NEW w \in Worker, WriteNewline(w)
      PROVE  LogTypeOK'
  <2>1. Write("newline") BY <1>2 DEF WriteNewline
  <2> QED BY <1>2, <2>1, WriteAppends DEF WriteNewline
<1>3. ASSUME NEW w \in Worker, TextFails(w)
      PROVE  LogTypeOK'
  <2>1. Write("text") BY <1>3 DEF TextFails
  <2> QED BY <1>3, <2>1, WriteAppends DEF TextFails
<1>4. ASSUME NEW w \in Worker, NewlineFails(w) \/ Killed(w) \/ Open(w)
      PROVE  LogTypeOK'
  <2>1. file' = file /\ Len(file) \in Nat /\ DOMAIN file = 1..Len(file)
    BY <1>4 DEF NewlineFails, Killed, Open
  <2> QED BY <1>4, <2>1 DEF NewlineFails, Killed, Open, BetweenWrites
<1>5. CASE UNCHANGED logVars
  BY <1>5 DEF logVars
<1> QED BY <1>1, <1>2, <1>3, <1>4, <1>5 DEF LogNext

\* Type correctness of the log.
THEOREM LogTypeCorrect == LogSpec => []LogTypeOK
<1> QED BY LogInitTyped, LogStepTyped, PTL DEF LogSpec

-----------------------------------------------------------------------------

LEMMA CountsFinite ==
  ASSUME LogTypeOK
  PROVE  /\ IsFiniteSet(torn) /\ Cardinality(torn) \in Nat
         /\ IsFiniteSet(Owing) /\ Cardinality(Owing) \in Nat
         /\ \A d \in {"text", "newline"} :
              IsFiniteSet(Places(d)) /\ Cardinality(Places(d)) \in Nat
<1>1. Len(file) \in Nat /\ DOMAIN file = 1..Len(file)
  BY DEF LogTypeOK
<1>2. IsFiniteSet(DOMAIN file)
  BY <1>1, FS_Interval
<1>3. IsFiniteSet(torn)
  BY <1>2, FS_Subset DEF LogTypeOK
<1>4. IsFiniteSet(Owing)
  BY FS_Subset, LogAssumption DEF Owing
<1>5. \A d \in {"text", "newline"} : IsFiniteSet(Places(d))
  BY <1>2, FS_Subset DEF Places
<1> QED BY <1>3, <1>4, <1>5, FS_CardinalityType

\* A write of a text moves one unit into Owing or torn, a newline moves one
\* out of Owing into the newlines, a fault one from Owing to torn.
LEMMA CountInvStep ==
  ASSUME CountInv, [LogNext]_logVars
  PROVE  CountInv'
<1> USE DEF CountInv
<1>0. LogTypeOK'
  BY LogStepTyped
<1>1. ASSUME NEW w \in Worker, WriteText(w)
      PROVE  DebtsApart' /\ NewlinesCountEntries'
  <2>1. Write("text") /\ owes[w] = 0 /\ torn' = torn
        /\ owes' = [owes EXCEPT ![w] = Len(file) + 1]
    BY <1>1 DEF WriteText, Idle
  <2>2. /\ Len(file) \in Nat /\ DOMAIN file = 1..Len(file)
        /\ Len(file) + 1 \notin DOMAIN file
        /\ Places("text")' = Places("text") \cup {Len(file) + 1}
        /\ Places("newline")' = Places("newline")
    BY <2>1, WriteAppends
  <2>3. Owing' = Owing \cup {w} /\ w \notin Owing
    BY <2>1, <2>2 DEF Owing, LogTypeOK
  <2>4. DebtsApart'
    BY <2>1, <2>2 DEF DebtsApart, LogTypeOK
  <2>5. Len(file) + 1 \notin Places("text")
    BY <2>2 DEF Places
  <2>6. /\ Cardinality(Owing') = Cardinality(Owing) + 1
        /\ Cardinality(Places("text")') = Cardinality(Places("text")) + 1
    BY <2>2, <2>3, <2>5, CountsFinite, FS_AddElement
  <2> QED BY <2>1, <2>2, <2>4, <2>6, CountsFinite DEF NewlinesCountEntries
<1>2. ASSUME NEW w \in Worker, WriteNewline(w)
      PROVE  DebtsApart' /\ NewlinesCountEntries'
  <2>1. Write("newline") /\ owes[w] # 0 /\ torn' = torn
        /\ owes' = [owes EXCEPT ![w] = 0]
    BY <1>2 DEF WriteNewline, BetweenWrites
  <2>2. /\ Len(file) + 1 \notin DOMAIN file
        /\ Places("newline")' = Places("newline") \cup {Len(file) + 1}
        /\ Places("text")' = Places("text")
    BY <2>1, WriteAppends
  <2>3. Owing' = Owing \ {w} /\ w \in Owing
    BY <2>1 DEF Owing, LogTypeOK
  <2>4. DebtsApart'
    BY <2>1 DEF DebtsApart, LogTypeOK
  <2>5. Len(file) + 1 \notin Places("newline")
    BY <2>2 DEF Places
  <2>6. Cardinality(Owing') = Cardinality(Owing) - 1
    BY <2>3, CountsFinite, FS_RemoveElement
  <2>7. Cardinality(Places("newline")') = Cardinality(Places("newline")) + 1
    BY <2>2, <2>5, CountsFinite, FS_AddElement
  <2> QED BY <2>1, <2>2, <2>4, <2>6, <2>7, CountsFinite DEF NewlinesCountEntries
<1>3. ASSUME NEW w \in Worker, TextFails(w)
      PROVE  DebtsApart' /\ NewlinesCountEntries'
  <2>1. Write("text") /\ owes' = owes /\ torn' = torn \cup {Len(file) + 1}
    BY <1>3 DEF TextFails
  <2>2. /\ Len(file) \in Nat /\ DOMAIN file = 1..Len(file)
        /\ Len(file) + 1 \notin DOMAIN file
        /\ Places("text")' = Places("text") \cup {Len(file) + 1}
        /\ Places("newline")' = Places("newline")
    BY <2>1, WriteAppends
  <2>3. Owing' = Owing
    BY <2>1 DEF Owing
  <2>4. DebtsApart'
    BY <2>1, <2>2 DEF DebtsApart, LogTypeOK
  <2>5. Len(file) + 1 \notin Places("text") /\ Len(file) + 1 \notin torn
    BY <2>2 DEF Places, LogTypeOK
  <2>6. /\ Cardinality(torn') = Cardinality(torn) + 1
        /\ Cardinality(Places("text")') = Cardinality(Places("text")) + 1
    BY <2>1, <2>2, <2>5, CountsFinite, FS_AddElement
  <2> QED BY <2>2, <2>3, <2>4, <2>6, CountsFinite DEF NewlinesCountEntries
<1>4. ASSUME NEW w \in Worker, NewlineFails(w) \/ Killed(w), owes[w] # 0
      PROVE  DebtsApart' /\ NewlinesCountEntries'
  <2>1. /\ file' = file /\ torn' = torn \cup {owes[w]}
        /\ owes' = [owes EXCEPT ![w] = 0]
    BY <1>4 DEF NewlineFails, Killed
  <2>2. Owing' = Owing \ {w} /\ w \in Owing
    BY <1>4, <2>1 DEF Owing, LogTypeOK
  <2>3. DebtsApart' /\ owes[w] \notin torn
    BY <1>4, <2>1 DEF DebtsApart, LogTypeOK
  <2>4. /\ Cardinality(torn') = Cardinality(torn) + 1
        /\ Cardinality(Owing') = Cardinality(Owing) - 1
    BY <2>1, <2>2, <2>3, CountsFinite, FS_AddElement, FS_RemoveElement
  <2>5. Places("text")' = Places("text") /\ Places("newline")' = Places("newline")
    BY <2>1 DEF Places
  <2> QED BY <2>3, <2>4, <2>5, CountsFinite DEF NewlinesCountEntries
<1>5. ASSUME NEW w \in Worker, Killed(w), owes[w] = 0
      PROVE  UNCHANGED <<file, owes, torn>>
  BY <1>5 DEF Killed, LogTypeOK
<1>6. ASSUME NEW w \in Worker, Open(w)
      PROVE  UNCHANGED <<file, owes, torn>>
  BY <1>6 DEF Open
<1>7. CASE UNCHANGED <<file, owes, torn>>
  <2>1. /\ Owing' = Owing /\ torn' = torn
        /\ Places("text")' = Places("text") /\ Places("newline")' = Places("newline")
    BY <1>7 DEF Owing, Places
  <2> QED BY <1>0, <1>7, <2>1 DEF DebtsApart, NewlinesCountEntries
<1> QED BY <1>0, <1>1, <1>2, <1>3, <1>4, <1>5, <1>6, <1>7 DEF LogNext, logVars, NewlineFails, BetweenWrites

\* NewlinesCountEntries for any number of workers: however their writes mix
\* and whatever fails, the lines of the file count its whole entries.
THEOREM LinesCountEntries == LogSpec => []NewlinesCountEntries
<1>1. LogInit => CountInv
  <2> SUFFICES ASSUME LogInit PROVE CountInv
    OBVIOUS
  <2>1. LogTypeOK /\ DebtsApart
    BY LogInitTyped DEF LogInit, DebtsApart
  <2>2. torn = {} /\ Owing = {} /\ Places("text") = {} /\ Places("newline") = {}
    BY DEF LogInit, Owing, Places
  <2> QED BY <2>1, <2>2, FS_EmptySet DEF CountInv, NewlinesCountEntries, Owing
<1>2. CountInv /\ [LogNext]_logVars => CountInv'
  BY CountInvStep
<1>3. CountInv => NewlinesCountEntries
  BY DEF CountInv
<1> QED BY <1>1, <1>2, <1>3, PTL DEF LogSpec

-----------------------------------------------------------------------------

\* A text with no newline after it is torn, or someone owes it one.
TailOwed ==
    \A k \in DOMAIN file :
        (\A m \in k..Len(file) : file[m] = "text")
          => k \in torn \/ \E w \in Worker : owes[w] = k

SharedInv == LogTypeOK /\ TailOwed /\ SharedLinesBounded

\* Places that are all torn or owed leave no more untorn than there are workers.
LEMMA OwedBounded ==
  ASSUME NEW places, NEW gone, NEW owed \in [Worker -> Nat],
         \A k \in places : k \in gone \/ \E w \in Worker : owed[w] = k
  PROVE  Cardinality(places \ gone) <= Cardinality(Worker)
<1> DEFINE Owed == {owed[w] : w \in Worker}
<1>1. places \ gone \subseteq Owed
  OBVIOUS
<1>2. IsFiniteSet(Owed) /\ Cardinality(Owed) <= Cardinality(Worker)
  <2>1. owed \in Surjection(Worker, Owed)
    BY DEF Surjection
  <2> QED BY <2>1, FS_Surjection, LogAssumption
<1>3. /\ Cardinality(places \ gone) <= Cardinality(Owed)
      /\ IsFiniteSet(places \ gone)
  BY <1>1, <1>2, FS_Subset
<1>4. /\ Cardinality(places \ gone) \in Nat /\ Cardinality(Owed) \in Nat
      /\ Cardinality(Worker) \in Nat
  BY <1>2, <1>3, FS_CardinalityType, LogAssumption
<1> HIDE DEF Owed
<1> QED BY <1>2, <1>3, <1>4

\* An empty line holds no entry.
LEMMA NoneBounded ==
  ASSUME NEW i \in Int, NEW j \in Int, ~(i <= j), NEW gone
  PROVE  Cardinality((i..j) \ gone) <= Cardinality(Worker)
<1>1. (i..j) \ gone = {}
  OBVIOUS
<1>2. Cardinality((i..j) \ gone) = 0 /\ Cardinality(Worker) \in Nat
  BY <1>1, FS_EmptySet, FS_CardinalityType, LogAssumption
<1> QED BY <1>2

\* Tearing more texts takes whole entries off the lines that were there.
LEMMA OldLinesBounded ==
  ASSUME LogTypeOK, SharedLinesBounded, NEW i \in DOMAIN file, NEW j \in DOMAIN file,
         \A k \in i..j : file[k] = "text", torn \subseteq torn'
  PROVE  Cardinality((i..j) \ torn') <= Cardinality(Worker)
<1>1. Cardinality((i..j) \ torn) <= Cardinality(Worker)
  BY DEF SharedLinesBounded
<1>2. i \in Int /\ j \in Int
  BY DEF LogTypeOK
<1>3. IsFiniteSet((i..j) \ torn)
  BY <1>2, FS_Interval, FS_Subset
<1>4. /\ Cardinality((i..j) \ torn') <= Cardinality((i..j) \ torn)
      /\ IsFiniteSet((i..j) \ torn')
  BY <1>3, FS_Subset
<1>5. /\ Cardinality((i..j) \ torn') \in Nat /\ Cardinality((i..j) \ torn) \in Nat
      /\ Cardinality(Worker) \in Nat
  BY <1>3, <1>4, FS_CardinalityType, LogAssumption
<1> QED BY <1>1, <1>4, <1>5

LEMMA SharedInvStep ==
  ASSUME SharedInv, [LogNext]_logVars
  PROVE  SharedInv'
<1> USE DEF SharedInv
<1>0. /\ LogTypeOK' /\ Len(file) \in Nat /\ DOMAIN file = 1..Len(file)
      /\ \A w \in Worker : owes[w] \in 0..Len(file)
  BY LogStepTyped DEF LogTypeOK
<1>1. ASSUME NEW w \in Worker, WriteText(w) \/ TextFails(w)
      PROVE  TailOwed' /\ SharedLinesBounded'
  <2>1. /\ Write("text") /\ owes[w] = 0
        /\ \/ owes'[w] = Len(file) + 1 /\ torn' = torn
           \/ owes' = owes /\ torn' = torn \cup {Len(file) + 1}
        /\ \A v \in Worker : v # w => owes'[v] = owes[v]
    BY <1>1 DEF WriteText, TextFails, Idle, LogTypeOK
  <2>2. /\ Len(file)' = Len(file) + 1 /\ DOMAIN file' = 1..(Len(file) + 1)
        /\ \A i \in DOMAIN file : file'[i] = file[i]
    BY <2>1, WriteAppends
  <2>3. TailOwed'
    <3> SUFFICES ASSUME NEW k \in DOMAIN file',
                        \A m \in k..(Len(file) + 1) : file'[m] = "text"
                 PROVE  k \in torn' \/ \E v \in Worker : owes'[v] = k
      BY <2>2 DEF TailOwed
    <3>1. CASE k = Len(file) + 1
      BY <2>1, <3>1
    <3>2. CASE k \in DOMAIN file
      <4>1. \A m \in k..Len(file) : file[m] = "text"
        BY <1>0, <2>2, <3>2
      <4>2. k \in torn \/ \E v \in Worker : owes[v] = k
        BY <3>2, <4>1 DEF TailOwed
      <4> QED BY <1>0, <2>1, <3>2, <4>2
    <3> QED BY <1>0, <2>2, <3>1, <3>2
  <2>4. ASSUME NEW i \in DOMAIN file', NEW j \in DOMAIN file',
               \A k \in i..j : file'[k] = "text"
        PROVE  Cardinality((i..j) \ torn') <= Cardinality(Worker)
    <3>1. CASE j = Len(file) + 1
      <4>1. \A k \in i..j : k \in torn' \/ \E v \in Worker : owes'[v] = k
        BY <1>0, <2>2, <2>3, <2>4, <3>1 DEF TailOwed
      <4>2. owes' \in [Worker -> Nat]
        BY <1>0, <2>2 DEF LogTypeOK
      <4> QED BY <4>1, <4>2, OwedBounded
    <3>2. CASE i \in DOMAIN file /\ j \in DOMAIN file
      <4>1. torn \subseteq torn' /\ \A k \in i..j : file[k] = "text"
        BY <1>0, <2>1, <2>2, <2>4, <3>2
      <4> QED BY <3>2, <4>1, OldLinesBounded
    <3>3. CASE i = Len(file) + 1 /\ j \in DOMAIN file
      BY <1>0, <3>3, NoneBounded
    <3> QED BY <1>0, <2>2, <2>4, <3>1, <3>2, <3>3
  <2> QED BY <2>3, <2>4 DEF SharedLinesBounded
<1>2. ASSUME NEW w \in Worker, WriteNewline(w)
      PROVE  TailOwed' /\ SharedLinesBounded'
  <2>1. Write("newline") /\ torn' = torn
    BY <1>2 DEF WriteNewline
  <2>2. /\ Len(file)' = Len(file) + 1 /\ DOMAIN file' = 1..(Len(file) + 1)
        /\ \A i \in DOMAIN file : file'[i] = file[i]
        /\ file'[Len(file) + 1] = "newline"
    BY <2>1, WriteAppends
  <2>3. TailOwed'
    BY <1>0, <2>2 DEF TailOwed
  <2>4. ASSUME NEW i \in DOMAIN file', NEW j \in DOMAIN file',
               \A k \in i..j : file'[k] = "text"
        PROVE  Cardinality((i..j) \ torn') <= Cardinality(Worker)
    <3>1. CASE i <= j
      <4>1. Len(file) + 1 \notin i..j
        BY <2>2, <2>4
      <4>2. i \in DOMAIN file /\ j \in DOMAIN file
        BY <1>0, <2>2, <3>1, <4>1
      <4>3. \A k \in i..j : file[k] = "text"
        BY <1>0, <2>2, <2>4, <4>2
      <4> QED BY <2>1, <4>2, <4>3, OldLinesBounded
    <3>2. CASE ~(i <= j)
      BY <1>0, <2>2, <3>2, NoneBounded
    <3> QED BY <3>1, <3>2
  <2> QED BY <2>3, <2>4 DEF SharedLinesBounded
<1>3. ASSUME NEW w \in Worker, NewlineFails(w) \/ Killed(w) \/ Open(w)
      PROVE  TailOwed' /\ SharedLinesBounded'
  <2>1. /\ file' = file /\ torn \subseteq torn'
        /\ \A v \in Worker : owes'[v] = owes[v] \/ owes[v] = 0 \/ owes[v] \in torn'
    BY <1>3 DEF NewlineFails, Killed, Open, LogTypeOK
  <2>2. TailOwed'
    BY <1>0, <2>1 DEF TailOwed
  <2>3. SharedLinesBounded'
    BY <2>1, OldLinesBounded DEF SharedLinesBounded
  <2> QED BY <2>2, <2>3
<1>4. CASE UNCHANGED logVars
  BY <1>4 DEF logVars, TailOwed, SharedLinesBounded, LogTypeOK
<1> QED BY <1>0, <1>1, <1>2, <1>3, <1>4 DEF LogNext

\* SharedLinesBounded for any number of workers, entries and faults.
THEOREM WorkersShareLinesBoundedly == LogSpec => []SharedLinesBounded
<1>1. LogInit => SharedInv
  BY LogInitTyped DEF LogInit, SharedInv, TailOwed, SharedLinesBounded
<1>2. SharedInv /\ [LogNext]_logVars => SharedInv'
  BY SharedInvStep
<1>3. SharedInv => SharedLinesBounded
  BY DEF SharedInv
<1> QED BY <1>1, <1>2, <1>3, PTL DEF LogSpec

\* What the wiki says of any number of workers is true of one, whatever the
\* length of the file: if no write fails and it is not killed, LinesWhole holds
\* (for two the run log_shared shows that it does not).
THEOREM OneWorkerKeepsLinesWhole ==
  ASSUME Cardinality(Worker) = 1, ~Faults
  PROVE  LogSpec => []LinesWhole
<1>1. LogInit => torn = {}
  BY DEF LogInit
<1>2. torn = {} /\ [LogNext]_logVars => (torn = {})'
  BY DEF LogNext, logVars, WriteText, WriteNewline, TextFails, NewlineFails, Killed, Open
<1>3. LogTypeOK /\ torn = {} /\ SharedLinesBounded => LinesWhole
  <2> SUFFICES ASSUME LogTypeOK, torn = {}, SharedLinesBounded,
                      NEW i \in DOMAIN file, file[i] = "text", i + 1 \in DOMAIN file,
                      file[i + 1] # "newline"
               PROVE  FALSE
    BY DEF LinesWhole
  <2>1. i \in Int /\ i + 1 \in Int /\ file[i + 1] = "text"
    BY DEF LogTypeOK
  <2>2. i..(i + 1) = {i, i + 1} /\ i # i + 1
    BY <2>1
  <2>3. (i..(i + 1)) \ torn = {i, i + 1}
    BY <2>2
  <2>4. Cardinality((i..(i + 1)) \ torn) <= 1
    BY <2>1, <2>2 DEF SharedLinesBounded
  <2>5. ASSUME NEW a, NEW b, a # b PROVE Cardinality({a, b}) = 2
    <3>1. IsFiniteSet({a}) /\ Cardinality({a}) = 1 /\ b \notin {a}
      BY <2>5, FS_Singleton
    <3>2. Cardinality({a} \cup {b}) = 2
      BY <3>1, FS_AddElement
    <3>3. {a, b} = {a} \cup {b}
      OBVIOUS
    <3> QED BY <3>2, <3>3
  <2>6. Cardinality({i, i + 1}) = 2
    BY <2>2, <2>5
  <2>7. Cardinality({i, i + 1}) <= 1
    BY <2>3, <2>4
  <2> QED BY <2>6, <2>7
<1> QED
  BY <1>1, <1>2, <1>3, LogTypeCorrect, WorkersShareLinesBoundedly, PTL DEF LogSpec

-----------------------------------------------------------------------------
(* The calendar.                                                            *)

\* The day doe of an era is day t of the year 100 * c + 4 * q + s: c, q and s
\* count the centuries, the leap cycles and the years before it.
IsDay(doe, c, q, s, t) ==
    /\ c <= 3 /\ q <= 24 /\ s <= 3 /\ t <= 365
    /\ doe = 36524 * c + 1461 * q + 365 * s + t
    /\ t < 365 \/ (t = 365 /\ s = 3 /\ (q < 24 \/ c = 3))

LEMMA YearFound ==
  ASSUME NEW c \in Nat, NEW q \in Nat, NEW s \in Nat, NEW t \in Nat,
         NEW doe \in Nat, IsDay(doe, c, q, s, t)
  PROVE  YearOfEra(doe) = 100 * c + 4 * q + s
<1> DEFINE rest == 24 * c + q + 365 * s + t
           last == c = 3 /\ q = 24 /\ s = 3 /\ t = 365
<1>1. doe \div 1460 = 25 * c + q + (IF rest < 1460 THEN 0 ELSE 1)
  <2>1. doe = 1460 * (25 * c + q) + rest /\ rest \in Nat
    BY SMT DEF IsDay
  <2> QED BY SMT, <2>1 DEF IsDay
<1>2. doe \div 36524 = IF last THEN 4 ELSE c
  BY SMT DEF IsDay
<1>3. doe \div 146096 = IF last THEN 1 ELSE 0
  BY SMT DEF IsDay
<1>4. doe - doe \div 1460 + doe \div 36524 - doe \div 146096
        = 365 * (100 * c + 4 * q + s) + t - (IF rest < 1460 THEN 0 ELSE 1)
  BY SMT, <1>1, <1>2, <1>3 DEF IsDay
<1> QED BY SMT, <1>4 DEF IsDay, YearOfEra

LEMMA DayOfEra ==
  ASSUME NEW doe \in Nat, doe < EraDays
  PROVE  \E c, q, s, t \in Nat : IsDay(doe, c, q, s, t)
<1> DEFINE c == IF doe < 36524 THEN 0 ELSE IF doe < 73048 THEN 1
                ELSE IF doe < 109572 THEN 2 ELSE 3
           r == doe - 36524 * c
<1>1. /\ c \in Nat /\ c <= 3 /\ r \in Nat /\ doe = 36524 * c + r
      /\ r < 36524 \/ (c = 3 /\ r = 36524)
  BY SMT DEF EraDays
<1> HIDE DEF c, r
<1> DEFINE q == r \div 1461
           u == r - 1461 * q
<1>2. q \in Nat /\ q <= 24 /\ u \in Nat /\ u <= 1460 /\ r = 1461 * q + u
  BY SMT, <1>1
<1> HIDE DEF q, u
<1> DEFINE s == IF u < 365 THEN 0 ELSE IF u < 730 THEN 1 ELSE IF u < 1095 THEN 2 ELSE 3
           t == u - 365 * s
<1>3. s \in Nat /\ s <= 3 /\ t \in Nat /\ t <= 365 /\ u = 365 * s + t /\ (t = 365 => s = 3 /\ u = 1460)
  BY SMT, <1>2
<1> HIDE DEF s, t
<1>4. IsDay(doe, c, q, s, t)
  BY SMT, <1>1, <1>2, <1>3 DEF IsDay
<1> QED BY <1>1, <1>2, <1>3, <1>4, SMT

\* The date of day t of the year y, which begins in March.
DateInYear(y, t) ==
    LET mp == (5 * t + 2) \div 153
        month == IF mp < 10 THEN mp + 3 ELSE mp - 9
    IN Date(y + (IF month <= 2 THEN 1 ELSE 0), month, t - (153 * mp + 2) \div 5 + 1)

\* The day of the year on which the month m begins, March being month 0.
Begins(m) == (153 * m + 2) \div 5

LEMMA MonthFound ==
  ASSUME NEW t \in Nat, t <= 365
  PROVE  LET m == (5 * t + 2) \div 153
         IN m \in Nat /\ m <= 11 /\ Begins(m) <= t /\ (t < Begins(m + 1))
BY SMT DEF Begins

LEMMA MonthIs ==
  ASSUME NEW t \in Nat, t <= 365, NEW m \in Nat, m <= 11, Begins(m) <= t, t < Begins(m + 1)
  PROVE  (5 * t + 2) \div 153 = m
BY SMT DEF Begins

\* The m-th month from March, and the year it is in.
MonthName(m) == IF m < 10 THEN m + 3 ELSE m - 9
YearOf(y, m) == IF m < 10 THEN y ELSE y + 1

LEMMA DateInMonth ==
  ASSUME NEW y \in Nat, NEW t \in Nat, t <= 365, NEW m \in Nat, m <= 11, Begins(m) <= t, t < Begins(m + 1)
  PROVE  DateInYear(y, t) = Date(YearOf(y, m), MonthName(m), t - Begins(m) + 1)
<1>1. (5 * t + 2) \div 153 = m
  BY MonthIs, SMT
<1>2. y + (IF MonthName(m) <= 2 THEN 1 ELSE 0) = YearOf(y, m)
  BY SMT DEF MonthName, YearOf
<1> QED BY <1>1, <1>2, SMT DEF DateInYear, Begins, MonthName

\* The number of days in the m-th month from March.
Days(m, z) == IF m = 11 THEN (IF z THEN 29 ELSE 28) ELSE Begins(m + 1) - Begins(m)

LEMMA DaysInMonth ==
  ASSUME NEW y \in Nat, NEW m \in Nat, m <= 11
  PROVE  MonthLength(YearOf(y, m), MonthName(m)) = Days(m, Leap(y + 1))
<1>1. CASE m = 11
  BY <1>1, SMT DEF MonthLength, YearOf, MonthName, Days
<1>2. CASE m # 11
  BY <1>2, SMT DEF MonthLength, YearOf, MonthName, Days, Begins
<1> QED BY <1>1, <1>2, SMT

\* The last day of the year y: its February is in the calendar's next year.
LastDay(y) == IF Leap(y + 1) THEN 365 ELSE 364

\* Within a year and at its end NextDate is the next of these.
LEMMA NextInYear ==
  ASSUME NEW y \in Nat, NEW t \in Nat, t <= LastDay(y)
  PROVE  NextDate(DateInYear(y, t)) =
           IF t < LastDay(y) THEN DateInYear(y, t + 1) ELSE DateInYear(y + 1, 0)
<1> DEFINE m == (5 * t + 2) \div 153
           z == Leap(y + 1)
           d == t - Begins(m) + 1
<1>0. t <= 365 /\ z \in BOOLEAN /\ LastDay(y) = (IF z THEN 365 ELSE 364)
  BY SMT DEF LastDay, Leap, Divides
<1>1. m \in Nat /\ m <= 11 /\ Begins(m) <= t /\ (t < Begins(m + 1))
  BY <1>0, MonthFound, SMT
<1> HIDE DEF m
<1>2. DateInYear(y, t) = Date(YearOf(y, m), MonthName(m), d)
  BY <1>0, <1>1, DateInMonth, SMT
<1>3. MonthLength(YearOf(y, m), MonthName(m)) = Days(m, z)
  BY <1>1, DaysInMonth, SMT
<1>4. CASE d < Days(m, z)
  <2>1. t + 1 \in Nat /\ t + 1 <= 365 /\ Begins(m) <= t + 1 /\ t + 1 < Begins(m + 1)
        /\ (t + 1) - Begins(m) + 1 = d + 1 /\ t < LastDay(y)
    BY SMT, <1>0, <1>1, <1>4 DEF Days, Begins
  <2>2. DateInYear(y, t + 1) = Date(YearOf(y, m), MonthName(m), d + 1)
    BY <1>1, <2>1, DateInMonth, SMT
  <2>3. NextDate(DateInYear(y, t)) = Date(YearOf(y, m), MonthName(m), d + 1)
    BY <1>2, <1>3, <1>4, SMT DEF NextDate, Date
  <2> QED BY <2>1, <2>2, <2>3, SMT
<1>5. CASE ~(d < Days(m, z)) /\ m # 11
  <2>1. /\ t + 1 \in Nat /\ t + 1 <= 365 /\ m + 1 \in Nat /\ m + 1 <= 11
        /\ Begins(m + 1) <= t + 1 /\ t + 1 < Begins((m + 1) + 1)
        /\ (t + 1) - Begins(m + 1) + 1 = 1 /\ t < LastDay(y)
    BY SMT, <1>0, <1>1, <1>5 DEF Days, Begins
  <2>2. DateInYear(y, t + 1) = Date(YearOf(y, m + 1), MonthName(m + 1), 1)
    BY <2>1, DateInMonth, SMT
  <2>3. /\ MonthName(m) < 12 => MonthName(m + 1) = MonthName(m) + 1 /\ YearOf(y, m + 1) = YearOf(y, m)
        /\ ~(MonthName(m) < 12) => MonthName(m + 1) = 1 /\ YearOf(y, m + 1) = YearOf(y, m) + 1
    BY SMT, <1>1, <1>5 DEF MonthName, YearOf
  <2>4. NextDate(DateInYear(y, t)) = Date(YearOf(y, m + 1), MonthName(m + 1), 1)
    BY <1>2, <1>3, <1>5, <2>3, SMT DEF NextDate, Date
  <2> QED BY <2>1, <2>2, <2>4, SMT
<1>6. CASE ~(d < Days(m, z)) /\ m = 11
  <2>1. ~(t < LastDay(y))
    BY SMT, <1>0, <1>1, <1>6 DEF Days, Begins
  <2>2. DateInYear(y + 1, 0) = Date(y + 1, 3, 1)
    <3>1. 0 \in Nat /\ 0 <= 365 /\ 0 \in Nat /\ 0 <= 11 /\ y + 1 \in Nat /\ Begins(0) = 0 /\ 0 < Begins(0 + 1)
      BY SMT DEF Begins
    <3>2. DateInYear(y + 1, 0) = Date(YearOf(y + 1, 0), MonthName(0), 0 - Begins(0) + 1)
      BY <3>1, DateInMonth, SMT
    <3> QED BY <3>1, <3>2, SMT DEF YearOf, MonthName
  <2>3. MonthName(m) = 2 /\ YearOf(y, m) = y + 1
    BY <1>6, SMT DEF YearOf, MonthName
  <2>4. NextDate(DateInYear(y, t)) = Date(y + 1, 3, 1)
    BY <1>2, <1>3, <1>6, <2>3, SMT DEF NextDate, Date
  <2> QED BY <2>1, <2>2, <2>4, SMT
<1> QED BY <1>4, <1>5, <1>6, SMT

\* The day is day t of the year y, which begins in March: what comes before
\* are eras of 400 years, centuries, leap cycles and years.
DayOfYear(days, y, t, era, c, q, s) ==
    /\ y = 400 * era + 100 * c + 4 * q + s
    /\ IsDay(days + 719468 - EraDays * era, c, q, s, t)

OnDay(days, y, t) == \E era, c, q, s \in Nat : DayOfYear(days, y, t, era, c, q, s)

LEMMA EveryDay ==
  ASSUME NEW days \in Nat
  PROVE  \E y, t \in Nat : OnDay(days, y, t)
<1> DEFINE era == (days + 719468) \div EraDays
           doe == days + 719468 - EraDays * era
<1>1. era \in Nat /\ doe \in Nat /\ doe < EraDays
  BY SMT DEF EraDays
<1>2. \E c, q, s, t \in Nat : IsDay(doe, c, q, s, t)
  <2> HIDE DEF doe
  <2> QED BY <1>1, DayOfEra, SMT
<1>3. PICK c, q, s, t \in Nat : IsDay(doe, c, q, s, t)
  BY <1>2, SMT
<1> DEFINE y == 400 * era + 100 * c + 4 * q + s
<1>4. DayOfYear(days, y, t, era, c, q, s)
  BY <1>3, SMT DEF DayOfYear
<1>5. y \in Nat
  BY <1>1, SMT
<1> HIDE DEF y, era, doe
<1> QED BY <1>1, <1>4, <1>5, Zenon DEF OnDay

LEMMA DateOfDay ==
  ASSUME NEW days \in Nat, NEW y \in Nat, NEW t \in Nat, OnDay(days, y, t)
  PROVE  DateOf(days) = DateInYear(y, t)
<1>1. PICK era, c, q, s \in Nat : DayOfYear(days, y, t, era, c, q, s)
  BY SMT DEF OnDay
<1> DEFINE yoe == 100 * c + 4 * q + s
           doe == days + 719468 - EraDays * era
<1>2. /\ doe \in Nat /\ doe < EraDays /\ IsDay(doe, c, q, s, t)
      /\ (days + 719468) \div EraDays = era
      /\ (days + 719468) - era * EraDays = doe
  BY SMT, <1>1 DEF EraDays, DayOfYear, IsDay
<1> HIDE DEF doe
<1>3. YearOfEra(doe) = yoe
  BY SMT, <1>2, YearFound
<1>4. doe - (365 * yoe + yoe \div 4 - yoe \div 100) = t
  BY SMT, <1>2 DEF IsDay
<1>5. yoe \in Nat /\ y = yoe + era * 400
  BY SMT, <1>1 DEF DayOfYear
<1> HIDE DEF yoe
<1> DEFINE mp == (5 * t + 2) \div 153
           month == IF mp < 10 THEN mp + 3 ELSE mp - 9
           day == t - (153 * mp + 2) \div 5 + 1
           extra == IF month <= 2 THEN 1 ELSE 0
<1>6. DateOf(days) = Date((yoe + era * 400) + extra, month, day)
  BY <1>2, <1>3, <1>4, SMT DEF DateOf, Date
<1> QED BY <1>5, <1>6, SMT DEF DateInYear

YearEnd(c, q, s) == IF s = 3 /\ (q < 24 \/ c = 3) THEN 365 ELSE 364

\* The leap years are those of the calendar.
LEMMA YearLength ==
  ASSUME NEW days \in Nat, NEW y \in Nat, NEW t \in Nat,
         NEW era \in Nat, NEW c \in Nat, NEW q \in Nat, NEW s \in Nat,
         DayOfYear(days, y, t, era, c, q, s)
  PROVE  /\ LastDay(y) = YearEnd(c, q, s)
         /\ t <= LastDay(y)
<1>1. /\ y = 400 * era + 100 * c + 4 * q + s /\ c <= 3 /\ q <= 24 /\ s <= 3
      /\ t < 365 \/ (t = 365 /\ s = 3 /\ (q < 24 \/ c = 3))
  BY SMT DEF DayOfYear, IsDay
<1>2. (y + 1) % 4 = 0 <=> s = 3
  BY SMT, <1>1
<1>3. (y + 1) % 100 = 0 <=> s = 3 /\ q = 24
  BY SMT, <1>1
<1>4. (y + 1) % 400 = 0 <=> s = 3 /\ q = 24 /\ c = 3
  BY SMT, <1>1
<1>5. Leap(y + 1) <=> s = 3 /\ (q < 24 \/ c = 3)
  BY SMT, <1>1, <1>2, <1>3, <1>4 DEF Leap, Divides
<1> QED BY SMT, <1>1, <1>5 DEF LastDay, YearEnd

\* The next day of the same year, or the first of the next one.
LEMMA DayAfter ==
  ASSUME NEW days \in Nat, NEW y \in Nat, NEW t \in Nat, OnDay(days, y, t)
  PROVE  /\ t <= LastDay(y)
         /\ t < LastDay(y) => OnDay(days + 1, y, t + 1)
         /\ t = LastDay(y) => OnDay(days + 1, y + 1, 0)
<1>1. PICK era, c, q, s \in Nat : DayOfYear(days, y, t, era, c, q, s)
  BY SMT DEF OnDay
<1> DEFINE last == YearEnd(c, q, s)
<1>2. LastDay(y) = last /\ t <= LastDay(y)
  BY <1>1, YearLength, Zenon
<1>3. c <= 3 /\ q <= 24 /\ s <= 3
  BY SMT, <1>1 DEF DayOfYear, IsDay
<1>4. CASE t < last
  <2>1. DayOfYear(days + 1, y, t + 1, era, c, q, s)
    BY SMT, <1>1, <1>4 DEF DayOfYear, IsDay, EraDays, YearEnd
  <2> QED BY SMT, <1>2, <1>4, <2>1 DEF OnDay
<1>5. CASE t = last /\ s < 3
  <2>1. DayOfYear(days + 1, y + 1, 0, era, c, q, s + 1) /\ s + 1 \in Nat
    BY SMT, <1>1, <1>5 DEF DayOfYear, IsDay, EraDays, YearEnd
  <2> QED BY SMT, <1>2, <1>5, <2>1 DEF OnDay
<1>6. CASE t = last /\ s = 3 /\ q < 24
  <2>1. DayOfYear(days + 1, y + 1, 0, era, c, q + 1, 0) /\ q + 1 \in Nat
    BY SMT, <1>1, <1>6 DEF DayOfYear, IsDay, EraDays, YearEnd
  <2> QED BY SMT, <1>2, <1>6, <2>1 DEF OnDay
<1>7. CASE t = last /\ s = 3 /\ q = 24 /\ c < 3
  <2>1. DayOfYear(days + 1, y + 1, 0, era, c + 1, 0, 0) /\ c + 1 \in Nat
    BY SMT, <1>1, <1>7 DEF DayOfYear, IsDay, EraDays, YearEnd
  <2> QED BY SMT, <1>2, <1>7, <2>1 DEF OnDay
<1>8. CASE t = last /\ s = 3 /\ q = 24 /\ c = 3
  <2>1. DayOfYear(days + 1, y + 1, 0, era + 1, 0, 0, 0) /\ era + 1 \in Nat
    BY SMT, <1>1, <1>8 DEF DayOfYear, IsDay, EraDays, YearEnd
  <2> QED BY SMT, <1>2, <1>8, <2>1 DEF OnDay
<1> QED BY SMT, <1>2, <1>3, <1>4, <1>5, <1>6, <1>7, <1>8 DEF YearEnd

\* The date of every day there will be follows that of the day before: the
\* run log checks 400 years of them.
THEOREM DatesAlwaysFollow == FollowsCalendar(Nat)
<1>1. DateOf(0) = Date(1970, 1, 1)
  BY SMT DEF DateOf, Date, YearOfEra, EraDays
<1>2. ASSUME NEW days \in Nat
      PROVE  DateOf(days + 1) = NextDate(DateOf(days))
  <2>1. PICK y, t \in Nat : OnDay(days, y, t)
    BY EveryDay
  <2>2. t <= LastDay(y) /\ DateOf(days) = DateInYear(y, t)
    BY <2>1, DateOfDay, DayAfter
  <2>3. CASE t < LastDay(y)
    <3>1. OnDay(days + 1, y, t + 1)
      BY <2>1, <2>3, DayAfter
    <3>2. DateOf(days + 1) = DateInYear(y, t + 1)
      BY <3>1, DateOfDay
    <3> QED BY <2>2, <2>3, <3>2, NextInYear
  <2>4. CASE t = LastDay(y)
    <3>1. OnDay(days + 1, y + 1, 0)
      BY <2>1, <2>4, DayAfter
    <3>2. DateOf(days + 1) = DateInYear(y + 1, 0)
      BY <3>1, DateOfDay
    <3>3. ~(t < LastDay(y))
      BY <2>4, SMT DEF LastDay
    <3> QED BY <2>2, <3>2, <3>3, NextInYear
  <2> QED BY <2>2, <2>3, <2>4, SMT DEF LastDay
<1> QED BY <1>1, <1>2, SMT DEF FollowsCalendar

=============================================================================
