------------------------------ MODULE Logging ------------------------------
(***************************************************************************)
(* Production logging (class Logger, prodLog): messages are held back in a *)
(* short history; an alert opens a file, which gets the history and the    *)
(* messages that follow.  Messages are numbered as they come.              *)
(***************************************************************************)
EXTENDS Integers, Sequences, SequencesExt

CONSTANTS
  LogLevels,      \* priorities: the smaller the more severe
  PROD_LOGLEVEL,  \* prod.loglevel: messages up to it are stored
  DETECT_LEVEL,   \* prod.detectLevel: messages up to it are alerts
  HISTORY,        \* prod.history
  FUTURE,         \* prod.future
  SameSecond,     \* whether two files may be opened within one second
  MAX_LOG, MAX_FILES  \* bounds: messages logged, seconds that pass

\* With HISTORY = 0 the program would write the last message of an empty history.
ASSUME LoggingAssumption ==
  /\ LogLevels \subseteq Nat
  /\ PROD_LOGLEVEL \in Nat /\ DETECT_LEVEL \in Nat /\ DETECT_LEVEL <= PROD_LOGLEVEL
  /\ HISTORY \in Nat \ {0} /\ FUTURE \in Nat /\ MAX_LOG \in Nat /\ MAX_FILES \in Nat \ {0}

VARIABLES
  logHistory,  \* the messages held back
  remaining,   \* messages still to be stored after the last alert
  file,        \* name of the open file, or Closed
  files,       \* external: the files of the directory, by their names
  second,      \* external: the clock that gives files their names
  \* history
  count,       \* messages counted so far (those that are not too detailed)
  alerts       \* alerts for which a file was open

vars == <<logHistory, remaining, file, files, second, count, alerts>>

Closed == 0
Seconds == 1 .. MAX_FILES

Init ==
  /\ logHistory = <<>> /\ remaining = 0 /\ file = Closed
  /\ files = [s \in Seconds |-> <<>>] /\ second = 1
  /\ count = 0 /\ alerts = {}

active == remaining > 0

\* Mutant: the limit is forgotten.
PushedAlways(m) == Append(logHistory, m)

\* The history with message m at its end, without its oldest message when it is full.
Pushed(m) == IF Len(logHistory) < HISTORY THEN Append(logHistory, m) ELSE Append(Tail(logHistory), m)

\* Mutant: the oldest message of the history is stored, not the newest.
StoreNextFront(m) ==
  [files     |-> IF active /\ file # Closed THEN [files EXCEPT ![file] = Append(@, Head(logHistory'))] ELSE files,
   remaining |-> IF active THEN remaining - 1 ELSE 0,
   file      |-> IF remaining = 1 THEN Closed ELSE file]

\* m is stored in the open file; the last one closes it.
StoreNext(m) ==
  [files     |-> IF active /\ file # Closed THEN [files EXCEPT ![file] = Append(@, m)] ELSE files,
   remaining |-> IF active THEN remaining - 1 ELSE 0,
   file      |-> IF remaining = 1 THEN Closed ELSE file]

\* A file is opened (which truncates it) and gets the history; opening it may fail.
ProdInit(s, opens) ==
  IF opens THEN [s EXCEPT !.file = second, !.files = [s.files EXCEPT ![second] = logHistory']]
           ELSE [s EXCEPT !.file = Closed]

\* Mutant: an alert while a file is open changes nothing.
DetectOnce(s, opens) ==
  IF s.remaining > 0 THEN s ELSE [ProdInit(s, opens) EXCEPT !.remaining = FUTURE]

\* An alert while a file is open prolongs it.
Detect(s, opens) ==
  IF s.remaining > 0 THEN [s EXCEPT !.remaining = FUTURE]
  ELSE [ProdInit(s, opens) EXCEPT !.remaining = FUTURE]

\* A message of the given priority is logged.
ProdLog(level, opens) ==
  /\ count < MAX_LOG
  /\ level <= PROD_LOGLEVEL
  /\ logHistory' = Pushed(count + 1)
  /\ count' = count + 1
  /\ LET s == StoreNext(count + 1)
         t == IF level <= DETECT_LEVEL THEN Detect(s, opens) ELSE s
         reopens == level <= DETECT_LEVEL /\ s.remaining = 0 /\ opens
     IN  /\ SameSecond \/ ~reopens \/ files[second] = <<>>
         /\ files' = t.files /\ remaining' = t.remaining /\ file' = t.file
         /\ alerts' = IF level <= DETECT_LEVEL /\ t.file # Closed THEN alerts \cup {count + 1} ELSE alerts
  /\ UNCHANGED second

Tick == second < MAX_FILES /\ second' = second + 1
        /\ UNCHANGED <<logHistory, remaining, file, files, count, alerts>>

Next == Tick \/ \E level \in LogLevels, opens \in BOOLEAN : ProdLog(level, opens)

Spec == Init /\ [][Next]_vars

(***************************************************************************)
(* Properties.                                                             *)
(***************************************************************************)

\* The history keeps its limit, a file is open only while messages are stored in it, and
\* no more of them are awaited than configured.
Bounded ==
  /\ Len(logHistory) <= HISTORY
  /\ remaining <= FUTURE
  /\ file # Closed => remaining > 0 \/ FUTURE = 0

Stored == UNION {ToSet(files[s]) : s \in Seconds}

\* Around an alert that found a file nothing is missing: the last messages before it (as
\* many as the history holds beside the alert) and those after it, over alerts that follow
\* one another closely, files that close with an alert and files that cannot be opened.
NeighboursStored ==
  \A a \in alerts : \A m \in a - HISTORY + 1 .. a + FUTURE :
    m \in 1 .. count => m \in Stored

\* A file holds messages in the order they were logged, without gap or repetition.
FilesAreRuns ==
  \A s \in Seconds : \A i \in 2 .. Len(files[s]) : files[s][i] = files[s][i - 1] + 1
=============================================================================
