------------------------------ MODULE AccessLog ------------------------------
(***************************************************************************)
(* AccessLog of server/access_log.rs: the log file that the workers append *)
(* to.  write_line writes an entry with writeln! on an unbuffered File,    *)
(* which is two write() calls, the text and then the newline.  The mutex   *)
(* around the File is the worker's own; each worker opens the file itself, *)
(* with O_APPEND, so that every write() lands whole at the end of the file *)
(* but the two of one entry need not be neighbours.                        *)
(*                                                                         *)
(* The master stops workers with SIGKILL, which may fall between the two   *)
(* writes, and their errors are ignored (let _ = writeln!).  A worker      *)
(* started later appends to the same file.                                 *)
(***************************************************************************)
EXTENDS FiniteSets, Sequences, LogTime

CONSTANTS
    Worker,     \* processes that log to the file
    MaxChunks,  \* bound: the file gets no more chunks than this
    Faults      \* whether writes fail and workers are killed

ASSUME LogAssumption ==
    /\ IsFiniteSet(Worker)
    /\ MaxChunks \in Nat
    /\ Faults \in BOOLEAN

VARIABLES
    file,   \* the file, as the chunks that write() calls put there
    owes,   \* per worker: the place in the file of the text it has written
            \* and not yet ended with a newline, or 0
    alive,  \* the workers that run
    torn    \* places of the texts whose newline will never be written (history)

logVars == <<file, owes, alive, torn>>

LogTypeOK ==
    /\ file \in Seq({"text", "newline"})
    /\ owes \in [Worker -> 0..Len(file)]
    /\ alive \subseteq Worker
    /\ torn \subseteq DOMAIN file

LogInit ==
    /\ file = <<>>
    /\ owes = [w \in Worker |-> 0]
    /\ alive = Worker
    /\ torn = {}

-----------------------------------------------------------------------------

Write(chunk) == Len(file) < MaxChunks /\ file' = Append(file, chunk)

Idle(w) == w \in alive /\ owes[w] = 0

BetweenWrites(w) == w \in alive /\ owes[w] # 0

\* write_line's first write(): the formatted entry.
WriteText(w) ==
    /\ Idle(w)
    /\ Write("text")
    /\ owes' = [owes EXCEPT ![w] = Len(file) + 1]
    /\ UNCHANGED <<alive, torn>>

\* Mutant of WriteNewline: the worker forgets to.
ForgetNewline(w) ==
    /\ BetweenWrites(w)
    /\ owes' = [owes EXCEPT ![w] = 0]
    /\ UNCHANGED <<file, alive, torn>>

\* Its second write().
WriteNewline(w) ==
    /\ BetweenWrites(w)
    /\ Write("newline")
    /\ owes' = [owes EXCEPT ![w] = 0]
    /\ UNCHANGED <<alive, torn>>

\* write_all of the text fails after a part of it was written (if it fails
\* at once nothing changes); writeln! then leaves the newline out.
TextFails(w) ==
    /\ Faults /\ Idle(w)
    /\ Write("text")
    /\ torn' = torn \cup {Len(file) + 1}
    /\ UNCHANGED <<owes, alive>>

NewlineFails(w) ==
    /\ Faults /\ BetweenWrites(w)
    /\ torn' = torn \cup {owes[w]}
    /\ owes' = [owes EXCEPT ![w] = 0]
    /\ UNCHANGED <<file, alive>>

\* SIGKILL from the master, or a crash.
Killed(w) ==
    /\ Faults /\ w \in alive
    /\ alive' = alive \ {w}
    /\ torn' = IF owes[w] = 0 THEN torn ELSE torn \cup {owes[w]}
    /\ owes' = [owes EXCEPT ![w] = 0]
    /\ UNCHANGED file

\* Mutant of Open: the file is truncated (File::create), not appended to.
OpenTruncates(w) ==
    /\ w \notin alive
    /\ alive' = alive \cup {w}
    /\ file' = <<>>
    /\ UNCHANGED <<owes, torn>>

\* AccessLog::open by a worker of the next start: create and append.
Open(w) ==
    /\ w \notin alive
    /\ alive' = alive \cup {w}
    /\ UNCHANGED <<file, owes, torn>>

LogNext ==
    \E w \in Worker :
        \/ WriteText(w) \/ WriteNewline(w)
        \/ TextFails(w) \/ NewlineFails(w)
        \/ Killed(w) \/ Open(w)

LogSpec == LogInit /\ [][LogNext]_logVars

-----------------------------------------------------------------------------
(* Properties.                                                              *)

Owing == {w \in Worker : owes[w] # 0}

Places(chunk) == {i \in DOMAIN file : file[i] = chunk}

\* The lines of the file count the entries, however the writes of the workers
\* mix: there is a newline for each text but those torn and those in hand.
NewlinesCountEntries ==
    Cardinality(Places("newline")) + Cardinality(torn)
        + Cardinality(Owing)
      = Cardinality(Places("text"))

\* The damage the workers do each other is bounded: a line holds no more whole
\* entries than there are workers, so one if there is one; whatever else is on
\* it was torn.
SharedLinesBounded ==
    \A i, j \in DOMAIN file :
        (\A k \in i..j : file[k] = "text")
          => Cardinality((i..j) \ torn) <= Cardinality(Worker)

\* The arithmetic of unix_to_utc, which dates the entries, agrees with the
\* calendar: each of 400 years of days has the date after that of the day
\* before, month ends, leap days and turns of the century included.  It is
\* about unix_to_utc alone: the entries above have no date, and the premise
\* only makes it a formula of a state, as an invariant must be.
DatesRight == file # <<>> => Calendar

\* wiki/config.md: append mode is safe with multiple workers.  So without
\* faults no two entries share a line.
LinesWhole ==
    \A i \in DOMAIN file :
        (file[i] = "text" /\ i + 1 \in DOMAIN file) => file[i + 1] = "newline"

=============================================================================
