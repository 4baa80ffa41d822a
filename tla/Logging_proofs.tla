--------------------------- MODULE Logging_proofs ---------------------------
(***************************************************************************)
(* What holds in Logging for every length of the history, every number of  *)
(* messages stored after an alert and every clock.  The messages are       *)
(* followed through prodLog in two parts, as the code does it: the message *)
(* is stored (StoreNext), then an alert is detected (Detect).              *)
(***************************************************************************)
EXTENDS Logging, TLAPS

\* The history holds the last messages, as many as fit.
HistoryOf(h, n) ==
  /\ n \in Nat
  /\ h \in Seq(Int)
  /\ Len(h) = IF n < HISTORY THEN n ELSE HISTORY
  /\ \A i \in 1 .. Len(h) : h[i] = n - Len(h) + i

HistoryInv == HistoryOf(logHistory, count)

\* Files fs are runs of messages; while f is open with r messages to be stored, it ends with
\* message n and holds at least h messages.
FilesGood(fs, f, r, n, h) ==
  /\ fs \in [Seconds -> Seq(Int)]
  /\ f \in Seconds \cup {Closed}
  /\ r \in 0 .. FUTURE
  /\ \A g \in Seconds : \A i \in 2 .. Len(fs[g]) : fs[g][i] = fs[g][i - 1] + 1
  /\ f # Closed => r > 0 \/ FUTURE = 0
  /\ r > 0 /\ f # Closed =>
       /\ Len(fs[f]) >= h /\ Len(fs[f]) >= 1
       /\ \A i \in 1 .. Len(fs[f]) : fs[f][i] = n - Len(fs[f]) + i

FilesInv ==
  /\ second \in Seconds
  /\ FilesGood(files, file, remaining, count, Len(logHistory))

\* Messages in some file of fs.
StoredIn(fs) == UNION {ToSet(fs[s]) : s \in Seconds}

\* The messages up to n that belong to an alert are in fs; if more are to come, f is open
\* for them.
AlertsGood(fs, f, r, n, as) ==
  \A a \in as :
    /\ a \in 1 .. n
    /\ \A m \in a - HISTORY + 1 .. a + FUTURE : m \in 1 .. n => m \in StoredIn(fs)
    /\ a + FUTURE > n => f # Closed /\ r >= a + FUTURE - n

AlertsInv == AlertsGood(files, file, remaining, count, alerts)

\* What an alert does to files fs of which f is open for r messages, with history h at the
\* second now: gs are the files then, and g is open.
Detected(fs, f, r, h, now, opens, gs, g) ==
  /\ r > 0 => gs = fs /\ g = f
  /\ r = 0 /\ opens => gs = [fs EXCEPT ![now] = h] /\ g = now
  /\ r = 0 /\ ~opens => gs = fs /\ g = Closed

\* A file that is opened was not there before.
NewFile(fs, now, opens) == opens => fs[now] = <<>>

LEMMA AppendAt ==
  ASSUME NEW s \in Seq(Int), NEW e \in Int
  PROVE  /\ Append(s, e) \in Seq(Int)
         /\ Len(Append(s, e)) = Len(s) + 1 /\ Len(s) \in Nat
         /\ \A i \in 1 .. Len(s) : Append(s, e)[i] = s[i]
         /\ Append(s, e)[Len(s) + 1] = e
  OBVIOUS

-----------------------------------------------------------------------------
(* The history *)

LEMMA InitHistory == Init => HistoryInv
  BY LoggingAssumption DEF Init, HistoryInv, HistoryOf

LEMMA HistoryStep == HistoryInv /\ [Next]_vars => HistoryInv'
<1> SUFFICES ASSUME HistoryInv, [Next]_vars PROVE HistoryInv'
  OBVIOUS
<1>1. CASE UNCHANGED <<logHistory, count>>
  BY <1>1 DEF HistoryInv, HistoryOf
<1>2. CASE \E level \in LogLevels, opens \in BOOLEAN : ProdLog(level, opens)
  <2>1. logHistory' = Pushed(count + 1) /\ count' = count + 1
    BY <1>2 DEF ProdLog
  <2>2. HISTORY \in Nat \ {0}
    BY LoggingAssumption
  <2>3. CASE Len(logHistory) < HISTORY
    <3>1. logHistory' = Append(logHistory, count + 1)
      BY <2>1, <2>3 DEF Pushed
    <3>2. Len(logHistory') = Len(logHistory) + 1 /\ logHistory' \in Seq(Int)
      BY <3>1 DEF HistoryInv, HistoryOf
    <3>0. /\ \A i \in 1 .. Len(logHistory) : logHistory'[i] = logHistory[i]
          /\ logHistory'[Len(logHistory) + 1] = count + 1
      <4>1. logHistory \in Seq(Int) /\ count + 1 \in Int
        BY DEF HistoryInv, HistoryOf
      <4> QED
        BY <4>1, <3>1, AppendAt
    <3>3. \A i \in 1 .. Len(logHistory') : logHistory'[i] = count' - Len(logHistory') + i
      <4> TAKE i \in 1 .. Len(logHistory')
      <4>1. CASE i \in 1 .. Len(logHistory)
        <5>1. logHistory'[i] = logHistory[i]
          BY <4>1, <3>0
        <5>2. logHistory[i] = count - Len(logHistory) + i
          BY <4>1 DEF HistoryInv, HistoryOf
        <5>3. Len(logHistory) \in Nat /\ count \in Nat
          BY DEF HistoryInv, HistoryOf
        <5> QED
          BY <4>1, <5>1, <5>2, <5>3, <2>1, <3>2
      <4>2. CASE i = Len(logHistory) + 1
        <5>1. logHistory'[i] = count + 1
          BY <4>2, <3>0
        <5> QED
          BY <4>2, <5>1, <2>1, <3>2 DEF HistoryInv, HistoryOf
      <4> QED
        BY <4>1, <4>2, <3>2 DEF HistoryInv, HistoryOf
    <3> QED
      BY <2>1, <2>2, <2>3, <3>2, <3>3 DEF HistoryInv, HistoryOf
  <2>4. CASE ~(Len(logHistory) < HISTORY)
    <3>0. Len(logHistory) = HISTORY /\ count >= HISTORY
      BY <2>4, <2>2 DEF HistoryInv, HistoryOf
    <3>1. logHistory' = Append(Tail(logHistory), count + 1)
      BY <2>1, <2>4 DEF Pushed
    <3>2. /\ Tail(logHistory) \in Seq(Int) /\ Len(Tail(logHistory)) = HISTORY - 1
          /\ \A i \in 1 .. HISTORY - 1 : Tail(logHistory)[i] = logHistory[i + 1]
      BY <3>0, <2>2 DEF HistoryInv, HistoryOf
    <3>3. Len(logHistory') = HISTORY /\ logHistory' \in Seq(Int)
      BY <3>1, <3>2, <2>2 DEF HistoryInv, HistoryOf
    <3>4. \A i \in 1 .. Len(logHistory') : logHistory'[i] = count' - Len(logHistory') + i
      <4> TAKE i \in 1 .. Len(logHistory')
      <4>1. CASE i \in 1 .. HISTORY - 1
        <5>1. logHistory'[i] = logHistory[i + 1]
          BY <4>1, <3>1, <3>2, <2>2
        <5>2. i + 1 \in 1 .. Len(logHistory)
          BY <4>1, <3>0, <2>2
        <5> QED
          BY <5>1, <5>2, <3>0, <3>3, <2>1, <2>2, <4>1 DEF HistoryInv, HistoryOf
      <4>2. CASE i = HISTORY
        BY <4>2, <2>1, <2>2, <3>1, <3>2, <3>3 DEF HistoryInv, HistoryOf
      <4> QED
        BY <4>1, <4>2, <3>3, <2>2
    <3> QED
      BY <2>1, <2>2, <3>0, <3>3, <3>4 DEF HistoryInv, HistoryOf
  <2> QED
    BY <2>3, <2>4
<1> QED
  BY <1>1, <1>2 DEF Next, Tick, vars

-----------------------------------------------------------------------------
(* The two parts of prodLog *)

\* A message that is stored in the open file continues its run.
LEMMA StoreNextFiles ==
  ASSUME HistoryInv, HistoryInv', FilesInv, count' = count + 1,
         NEW n, n = count + 1, NEW s, s = StoreNext(n)
  PROVE  FilesGood(s.files, s.file, s.remaining, n, Len(logHistory'))
<1>0. /\ HISTORY \in Nat \ {0} /\ FUTURE \in Nat /\ Closed = 0 /\ Seconds \subseteq Nat \ {0}
      /\ count \in Nat /\ n = count + 1 /\ n \in Nat /\ Len(logHistory) \in Nat /\ Len(logHistory') \in Nat
      /\ Len(logHistory') <= Len(logHistory) + 1
  BY LoggingAssumption DEF HistoryInv, HistoryOf, Closed, Seconds
<1>1. s.remaining \in 0 .. FUTURE /\ s.file \in Seconds \cup {Closed}
  BY <1>0 DEF StoreNext, active, FilesInv, FilesGood
<1>2. s.file # Closed => s.remaining > 0 \/ FUTURE = 0
  BY <1>0 DEF StoreNext, active, FilesInv, FilesGood
<1>3. CASE ~(active /\ file # Closed)
  <2>1. s.files = files
    BY <1>3 DEF StoreNext
  <2>2. ~(s.remaining > 0 /\ s.file # Closed)
    BY <1>3, <1>0 DEF StoreNext, active, FilesInv, FilesGood
  <2> QED
    BY <1>1, <1>2, <2>1, <2>2 DEF FilesInv, FilesGood
<1>4. CASE active /\ file # Closed
  <2> DEFINE old == files[file]
             new == Append(old, n)
  <2>0. file \in Seconds /\ old \in Seq(Int) /\ Len(old) \in Nat
    BY <1>4 DEF FilesInv, FilesGood
  <2>1. s.files = [files EXCEPT ![file] = new]
    BY <1>4 DEF StoreNext
  <2>2. /\ new \in Seq(Int) /\ Len(new) = Len(old) + 1
        /\ \A i \in 1 .. Len(old) : new[i] = old[i]
        /\ new[Len(old) + 1] = n
    BY <2>0, <1>0, AppendAt
  <2> HIDE DEF new
  <2>3. /\ Len(old) >= Len(logHistory)
        /\ \A i \in 1 .. Len(old) : old[i] = count - Len(old) + i
    BY <1>4 DEF FilesInv, FilesGood, active
  <2>4. \A i \in 1 .. Len(new) : new[i] = n - Len(new) + i
    <3> TAKE i \in 1 .. Len(new)
    <3>1. CASE i \in 1 .. Len(old)
      <4>1. new[i] = old[i] /\ old[i] = count - Len(old) + i
        BY <3>1, <2>2, <2>3
      <4> QED
        BY <4>1, <2>0, <2>2, <3>1, <1>0
    <3>2. CASE i = Len(old) + 1
      <4>1. new[i] = n /\ Len(new) = i
        BY <3>2, <2>2
      <4>2. i \in Int /\ n \in Int
        BY <3>2, <2>0, <1>0
      <4>3. n = n - i + i
        BY <4>2
      <4> QED
        BY <4>1, <4>3
    <3> QED
      BY <3>1, <3>2, <2>0, <2>2
  <2>5. s.files \in [Seconds -> Seq(Int)]
    BY <2>0, <2>1, <2>2 DEF FilesInv, FilesGood
  <2>6. \A f \in Seconds : \A i \in 2 .. Len(s.files[f]) : s.files[f][i] = s.files[f][i - 1] + 1
    <3> TAKE f \in Seconds
    <3>1. CASE f = file
      <4>1. s.files[f] = new
        BY <3>1, <2>0, <2>1 DEF FilesInv, FilesGood
      <4>2. \A i \in 2 .. Len(new) : new[i] = new[i - 1] + 1
        <5> TAKE i \in 2 .. Len(new)
        <5>1. i \in 1 .. Len(new) /\ i - 1 \in 1 .. Len(new)
          BY <2>0, <2>2
        <5>2. /\ new[i] = n - Len(new) + i
              /\ new[i - 1] = n - Len(new) + (i - 1)
          BY <5>1, <2>4
        <5>3. i \in Int /\ n \in Int /\ Len(new) \in Int
          BY <5>1, <2>0, <2>2, <1>0
        <5>4. n - Len(new) + i = (n - Len(new) + (i - 1)) + 1
          BY <5>3
        <5> QED
          BY <5>2, <5>4
      <4> QED
        BY <4>1, <4>2
    <3>2. CASE f # file
      <4>1. s.files[f] = files[f]
        BY <3>2, <2>0, <2>1 DEF FilesInv, FilesGood
      <4> QED
        BY <4>1 DEF FilesInv, FilesGood
    <3> QED
      BY <3>1, <3>2
  <2>7. s.file # Closed => s.file = file /\ s.files[file] = new
    BY <2>0, <2>1 DEF StoreNext, FilesInv, FilesGood
  <2>8. Len(new) >= Len(logHistory') /\ Len(new) >= 1
    <3>1. Len(new) = Len(old) + 1 /\ Len(old) >= Len(logHistory)
      BY <2>2, <2>3
    <3> QED
      BY <3>1, <2>0, <1>0
  <2>9. s.file # Closed =>
          /\ Len(s.files[s.file]) >= Len(logHistory') /\ Len(s.files[s.file]) >= 1
          /\ \A i \in 1 .. Len(s.files[s.file]) :
                s.files[s.file][i] = n - Len(s.files[s.file]) + i
    BY <2>4, <2>7, <2>8
  <2> QED
    BY <1>1, <1>2, <2>5, <2>6, <2>9 DEF FilesGood
<1> QED
  BY <1>3, <1>4

\* An alert prolongs the open file, or begins one with the history, or finds none.
LEMMA DetectFiles ==
  ASSUME NEW n \in Nat \ {0}, NEW h, HistoryOf(h, n), NEW now \in Seconds,
         NEW opens \in BOOLEAN, NEW fs, NEW f, NEW r, NEW gs, NEW g,
         FilesGood(fs, f, r, n, Len(h)),
         Detected(fs, f, r, h, now, opens, gs, g)
  PROVE  FilesGood(gs, g, FUTURE, n, Len(h))
<1>0. /\ FUTURE \in Nat /\ HISTORY \in Nat \ {0} /\ Closed = 0 /\ Seconds \subseteq Nat \ {0}
      /\ h \in Seq(Int) /\ Len(h) \in Nat /\ Len(h) >= 1 /\ r \in 0 .. FUTURE
  BY LoggingAssumption DEF Closed, Seconds, HistoryOf, FilesGood
<1>1. CASE r > 0
  <2>1. gs = fs /\ g = f
    BY <1>1 DEF Detected
  <2>2. FilesGood(fs, f, FUTURE, n, Len(h))
    <3>1. FUTURE > 0 /\ FUTURE \in 0 .. FUTURE
      BY <1>0, <1>1
    <3> QED
      BY <3>1, <1>1 DEF FilesGood
  <2> QED
    BY <2>1, <2>2
<1>2. CASE r = 0 /\ opens
  <2>1. gs = [fs EXCEPT ![now] = h] /\ g = now
    BY <1>2 DEF Detected
  <2>2. gs \in [Seconds -> Seq(Int)] /\ gs[now] = h
    BY <1>0, <2>1 DEF FilesGood
  <2>3. \A k \in Seconds : \A i \in 2 .. Len(gs[k]) : gs[k][i] = gs[k][i - 1] + 1
    <3> TAKE k \in Seconds
    <3>1. CASE k = now
      <4>1. \A i \in 2 .. Len(h) : h[i] = h[i - 1] + 1
        <5> TAKE i \in 2 .. Len(h)
        <5>1. i \in 1 .. Len(h) /\ i - 1 \in 1 .. Len(h)
          BY <1>0
        <5>2. h[i] = n - Len(h) + i /\ h[i - 1] = n - Len(h) + (i - 1)
          BY <5>1 DEF HistoryOf
        <5> QED
          BY <5>1, <5>2, <1>0
      <4> QED
        BY <3>1, <2>2, <4>1
    <3>2. CASE k # now
      <4>1. gs[k] = fs[k]
        BY <3>2, <2>1 DEF FilesGood
      <4> QED
        BY <4>1 DEF FilesGood
    <3> QED
      BY <3>1, <3>2
  <2>4. /\ Len(gs[g]) >= Len(h) /\ Len(gs[g]) >= 1
        /\ \A i \in 1 .. Len(gs[g]) : gs[g][i] = n - Len(gs[g]) + i
    <3>1. \A i \in 1 .. Len(h) : h[i] = n - Len(h) + i
      BY DEF HistoryOf
    <3> QED
      BY <1>0, <2>1, <2>2, <3>1
  <2> QED
    BY <1>0, <2>1, <2>2, <2>3, <2>4 DEF FilesGood
<1>3. CASE r = 0 /\ ~opens
  <2>1. gs = fs /\ g = Closed
    BY <1>3 DEF Detected
  <2> QED
    BY <1>0, <2>1 DEF FilesGood
<1> QED
  BY <1>0, <1>1, <1>2, <1>3

\* Alerts get the message that is stored if they are still owed one.
LEMMA StoreNextAlerts ==
  ASSUME HistoryInv, FilesInv, AlertsInv,
         NEW n, n = count + 1, NEW s, s = StoreNext(n)
  PROVE  AlertsGood(s.files, s.file, s.remaining, n, alerts)
<1>0. /\ HISTORY \in Nat \ {0} /\ FUTURE \in Nat /\ Closed = 0 /\ Seconds \subseteq Nat \ {0}
      /\ count \in Nat /\ n \in Nat /\ n = count + 1 /\ remaining \in 0 .. FUTURE
  BY LoggingAssumption DEF HistoryInv, HistoryOf, Closed, Seconds, FilesInv, FilesGood
<1>1. active /\ file # Closed =>
        /\ file \in Seconds /\ files[file] \in Seq(Int)
        /\ s.files = [files EXCEPT ![file] = Append(files[file], n)]
  BY DEF StoreNext, FilesInv, FilesGood
<1>2. ~(active /\ file # Closed) => s.files = files
  BY DEF StoreNext
<1>3. files \in [Seconds -> Seq(Int)]
  BY DEF FilesInv, FilesGood
<1>4. active /\ file # Closed => n \in StoredIn(s.files)
  <2> SUFFICES ASSUME active /\ file # Closed PROVE n \in StoredIn(s.files)
    OBVIOUS
  <2>1. s.files[file] = Append(files[file], n) /\ files[file] \in Seq(Int) /\ file \in Seconds
    BY <1>1, <1>3
  <2>2. n \in ToSet(s.files[file])
    BY <2>1, <1>0, AppendAt DEF ToSet
  <2> QED
    BY <2>1, <2>2 DEF StoredIn
<1>5. StoredIn(files) \subseteq StoredIn(s.files)
  <2> SUFFICES ASSUME NEW g \in Seconds, NEW m \in ToSet(files[g]) PROVE m \in ToSet(s.files[g])
    BY DEF StoredIn
  <2>1. CASE active /\ file # Closed /\ g = file
    <3>1. s.files[g] = Append(files[g], n) /\ files[g] \in Seq(Int)
      BY <2>1, <1>1, <1>3
    <3>2. PICK i \in 1 .. Len(files[g]) : m = files[g][i]
      BY <3>1 DEF ToSet
    <3>3. /\ Len(s.files[g]) = Len(files[g]) + 1 /\ Len(files[g]) \in Nat
          /\ \A k \in 1 .. Len(files[g]) : s.files[g][k] = files[g][k]
          /\ s.files[g] \in Seq(Int)
      <4> DEFINE old == files[g]
      <4>1. old \in Seq(Int) /\ n \in Int /\ s.files[g] = Append(old, n)
        BY <3>1, <1>0
      <4> HIDE DEF old
      <4>2. /\ Append(old, n) \in Seq(Int)
            /\ Len(Append(old, n)) = Len(old) + 1 /\ Len(old) \in Nat
            /\ \A k \in 1 .. Len(old) : Append(old, n)[k] = old[k]
        BY <4>1, AppendAt
      <4> QED
        BY <4>1, <4>2 DEF old
    <3>4. i \in DOMAIN s.files[g] /\ s.files[g][i] = m
      BY <3>2, <3>3
    <3> QED
      BY <3>4 DEF ToSet
  <2>2. CASE ~(active /\ file # Closed /\ g = file)
    BY <2>2, <1>1, <1>2, <1>3
  <2> QED
    BY <2>1, <2>2
<1>6. ASSUME NEW a \in alerts
      PROVE  /\ a \in 1 .. n
             /\ \A m \in a - HISTORY + 1 .. a + FUTURE : m \in 1 .. n => m \in StoredIn(s.files)
             /\ a + FUTURE > n => s.file # Closed /\ s.remaining >= a + FUTURE - n
  <2>1. /\ a \in 1 .. count
        /\ \A m \in a - HISTORY + 1 .. a + FUTURE : m \in 1 .. count => m \in StoredIn(files)
        /\ a + FUTURE > count => file # Closed /\ remaining >= a + FUTURE - count
    BY DEF AlertsInv, AlertsGood
  <2>2. ASSUME NEW m \in a - HISTORY + 1 .. a + FUTURE, m \in 1 .. n
        PROVE  m \in StoredIn(s.files)
    <3>1. CASE m \in 1 .. count
      BY <3>1, <2>1, <1>5
    <3>2. CASE m = n
      BY <3>2, <2>1, <1>0, <1>4 DEF active
    <3> QED
      BY <2>2, <3>1, <3>2, <1>0
  <2>3. ASSUME a + FUTURE > n
        PROVE  s.file # Closed /\ s.remaining >= a + FUTURE - n
    <3>1. file # Closed /\ remaining >= a + FUTURE - count
      BY <2>1, <2>3, <1>0
    <3>2. remaining > 1
      BY <3>1, <2>1, <2>3, <1>0
    <3>3. s.file = file /\ s.remaining = remaining - 1
      BY <3>2, <1>0 DEF StoreNext, active
    <3> QED
      BY <3>1, <3>3, <2>1, <1>0
  <2> QED
    BY <2>1, <2>2, <2>3, <1>0
<1> QED
  BY <1>6 DEF AlertsGood

\* A message is in the history if it is one of the last that fit.
LEMMA HistoryHolds ==
  ASSUME NEW h \in Seq(Int), NEW n \in Nat, HistoryOf(h, n),
         NEW m \in Int, m \in n - HISTORY + 1 .. n, m > 0
  PROVE  \E i \in 1 .. Len(h) : h[i] = m /\ m = n - Len(h) + i
<1> DEFINE i == m - n + Len(h)
<1>1. /\ Len(h) \in Nat /\ HISTORY \in Nat
      /\ Len(h) = IF n < HISTORY THEN n ELSE HISTORY
      /\ \A k \in 1 .. Len(h) : h[k] = n - Len(h) + k
  BY LoggingAssumption DEF HistoryOf
<1>2. i \in 1 .. Len(h) /\ n - Len(h) + i = m
  BY <1>1
<1>3. h[i] = m
  BY <1>1, <1>2
<1> QED
  BY <1>2, <1>3

\* An alert that found a file has the history in it, and the file stays open for it.
LEMMA DetectAlerts ==
  ASSUME NEW n \in Nat \ {0}, NEW h, HistoryOf(h, n), NEW now \in Seconds,
         NEW opens \in BOOLEAN, NEW fs, NEW f, NEW r, NEW gs, NEW g,
         FilesGood(fs, f, r, n, Len(h)),
         r = 0 => NewFile(fs, now, opens),
         AlertsGood(fs, f, r, n, alerts),
         Detected(fs, f, r, h, now, opens, gs, g)
  PROVE  /\ AlertsGood(gs, g, FUTURE, n, alerts)
         /\ g # Closed => AlertsGood(gs, g, FUTURE, n, {n})
<1>0. /\ HISTORY \in Nat \ {0} /\ FUTURE \in Nat /\ Closed = 0 /\ Seconds \subseteq Nat \ {0}
      /\ r \in 0 .. FUTURE /\ fs \in [Seconds -> Seq(Int)] /\ f \in Seconds \cup {Closed}
      /\ h \in Seq(Int) /\ Len(h) \in Nat
  BY LoggingAssumption DEF Closed, Seconds, FilesGood, HistoryOf
<1>2. r > 0 => gs = fs /\ g = f
  BY DEF Detected
<1>3. r = 0 /\ opens => gs = [fs EXCEPT ![now] = h] /\ g = now
  BY DEF Detected
<1>4. r = 0 /\ ~opens => gs = fs /\ g = Closed
  BY DEF Detected
<1>5. StoredIn(fs) \subseteq StoredIn(gs)
  <2> SUFFICES ASSUME NEW k \in Seconds, NEW m \in ToSet(fs[k]) PROVE m \in ToSet(gs[k])
    BY DEF StoredIn
  <2>1. CASE gs = fs
    BY <2>1
  <2>2. CASE r = 0 /\ opens
    <3>1. fs[now] = <<>>
      BY <2>2 DEF NewFile
    <3>2. k # now
      BY <3>1 DEF ToSet
    <3> QED
      BY <3>2, <2>2, <1>0, <1>3
  <2> QED
    BY <2>1, <2>2, <1>0, <1>2, <1>4
<1>6. AlertsGood(gs, g, FUTURE, n, alerts)
  <2> SUFFICES ASSUME NEW a \in alerts
               PROVE  /\ a \in 1 .. n
                      /\ \A m \in a - HISTORY + 1 .. a + FUTURE :
                            m \in 1 .. n => m \in StoredIn(gs)
                      /\ a + FUTURE > n => g # Closed /\ FUTURE >= a + FUTURE - n
    BY DEF AlertsGood
  <2>1. /\ a \in 1 .. n
        /\ \A m \in a - HISTORY + 1 .. a + FUTURE : m \in 1 .. n => m \in StoredIn(fs)
        /\ a + FUTURE > n => f # Closed /\ r >= a + FUTURE - n
    BY DEF AlertsGood
  <2>2. a + FUTURE > n => g # Closed /\ FUTURE >= a + FUTURE - n
    <3> SUFFICES ASSUME a + FUTURE > n PROVE g # Closed /\ FUTURE >= a + FUTURE - n
      OBVIOUS
    <3>1. f # Closed /\ r > 0
      BY <2>1, <1>0
    <3> QED
      BY <3>1, <2>1, <1>0, <1>2
  <2> QED
    BY <2>1, <2>2, <1>5
<1>7. ASSUME g # Closed
      PROVE  AlertsGood(gs, g, FUTURE, n, {n})
  <2>1. ASSUME NEW m \in n - HISTORY + 1 .. n + FUTURE, m \in 1 .. n
        PROVE  m \in StoredIn(gs)
    <3>0. m \in Int /\ m \in n - HISTORY + 1 .. n /\ m > 0
      BY <2>1, <1>0
    <3>1. PICK j \in 1 .. Len(h) : h[j] = m /\ m = n - Len(h) + j
      <4>1. n \in Nat /\ h \in Seq(Int) /\ HistoryOf(h, n)
        BY <1>0
      <4> QED
        BY <4>1, <3>0, HistoryHolds, Zenon
    <3>2. CASE r > 0
      <4> DEFINE run == fs[f]
                 i == m - n + Len(run)
      <4>1. f # Closed /\ f \in Seconds
        BY <1>0, <1>2, <1>7, <3>2
      <4>2. /\ Len(run) >= Len(h) /\ run \in Seq(Int) /\ Len(run) \in Nat
            /\ \A k \in 1 .. Len(run) : run[k] = n - Len(run) + k
        <5>1. /\ run \in Seq(Int) /\ Len(run) >= Len(h)
              /\ \A k \in 1 .. Len(run) : run[k] = n - Len(run) + k
          BY <1>0, <4>1, <3>2, Zenon DEF FilesGood
        <5> HIDE DEF run
        <5>. QED  BY <5>1
      <4> HIDE DEF run
      <4>3. Len(h) \in Nat
        BY DEF HistoryOf
      <4>4. m = n - Len(h) + j /\ j \in 1 .. Len(h)
        BY <3>1
      <4>5. i \in 1 .. Len(run) /\ n - Len(run) + i = m
        <5> HIDE DEF i
        <5>1. Len(run) >= Len(h) /\ Len(run) \in Nat /\ n \in Nat
          BY <4>2
        <5>2. i = m - n + Len(run)
          BY DEF i
        <5> QED
          BY <5>1, <5>2, <4>3, <4>4, <3>0
      <4>6. run[i] = m
        BY <4>2, <4>5
      <4>7. m \in ToSet(run)
        BY <4>2, <4>5, <4>6 DEF ToSet
      <4> QED
        BY <4>1, <4>7, <3>2, <1>2 DEF StoredIn, run
    <3>3. CASE r = 0
      <4>1. gs[now] = h
        BY <3>3, <1>0, <1>3, <1>4, <1>7
      <4>2. m \in ToSet(h)
        BY <3>1 DEF ToSet, HistoryOf
      <4> QED
        BY <4>1, <4>2 DEF StoredIn
    <3> QED
      BY <3>2, <3>3, <1>0
  <2> QED
    BY <2>1, <1>0, <1>7 DEF AlertsGood
<1> QED
  BY <1>6, <1>7

-----------------------------------------------------------------------------
(* prodLog, and what holds in every state *)

LEMMA ProdInitFiles ==
  ASSUME NEW fs, NEW r, NEW f
  PROVE  ProdInit([files |-> fs, remaining |-> r, file |-> f], TRUE) =
           [files |-> [fs EXCEPT ![second] = logHistory'], remaining |-> r, file |-> second]
  BY DEF ProdInit

LEMMA DetectIsDetected ==
  ASSUME NEW n, NEW opens \in BOOLEAN, NEW s, s = StoreNext(n),
         s.remaining \in 0 .. FUTURE, NEW t, t = Detect(s, opens)
  PROVE  /\ Detected(s.files, s.file, s.remaining, logHistory', second, opens, t.files, t.file)
         /\ t.remaining = FUTURE
<1>0. FUTURE \in Nat
  BY LoggingAssumption
<1>1. PICK fs, r, f : s = [files |-> fs, remaining |-> r, file |-> f]
  BY DEF StoreNext
<1>2. s.files = fs /\ s.remaining = r /\ s.file = f
  BY <1>1
<1>3. CASE r > 0
  <2>1. t = [s EXCEPT !.remaining = FUTURE]
    BY <1>2, <1>3 DEF Detect
  <2>2. t.files = fs /\ t.file = f /\ t.remaining = FUTURE
    BY <2>1, <1>1
  <2> QED
    BY <2>2, <1>0, <1>2, <1>3 DEF Detected
<1>4. CASE r = 0
  <2>1. t = [ProdInit(s, opens) EXCEPT !.remaining = FUTURE]
    BY <1>2, <1>4 DEF Detect
  <2>2. CASE opens
    <3>1. ProdInit(s, opens) = [files |-> [fs EXCEPT ![second] = logHistory'],
                                remaining |-> r, file |-> second]
      BY <2>2, <1>1, ProdInitFiles
    <3>2. /\ t.files = [fs EXCEPT ![second] = logHistory'] /\ t.file = second
          /\ t.remaining = FUTURE
      BY <2>1, <3>1
    <3> QED
      BY <3>2, <2>2, <1>2, <1>4 DEF Detected
  <2>3. CASE ~opens
    <3>1. ProdInit(s, opens) = [files |-> fs, remaining |-> r, file |-> Closed]
      BY <2>3, <1>1 DEF ProdInit
    <3>2. t.files = fs /\ t.file = Closed /\ t.remaining = FUTURE
      BY <2>1, <3>1
    <3> QED
      BY <3>2, <2>3, <1>2, <1>4 DEF Detected
  <2> QED
    BY <2>2, <2>3
<1> QED
  BY <1>0, <1>2, <1>3, <1>4

\* A step in which a message is logged, without the record that ProdLog puts together.
LoggedAt(n, s, t, level, opens) ==
  /\ n = count + 1 /\ s = StoreNext(n)
  /\ t = IF level <= DETECT_LEVEL THEN Detect(s, opens) ELSE s
  /\ SameSecond \/ ~(level <= DETECT_LEVEL /\ s.remaining = 0 /\ opens) \/ files[second] = <<>>
  /\ files' = t.files /\ remaining' = t.remaining /\ file' = t.file
  /\ alerts' = IF level <= DETECT_LEVEL /\ t.file # Closed THEN alerts \cup {n} ELSE alerts
  /\ count' = n /\ UNCHANGED second

LEMMA NextCases ==
  [Next]_vars =>
    \/ /\ UNCHANGED <<logHistory, remaining, file, files, count, alerts>>
       /\ second' = second \/ (second < MAX_FILES /\ second' = second + 1)
    \/ \E n, s, t, level, opens : opens \in BOOLEAN /\ LoggedAt(n, s, t, level, opens)
<1> SUFFICES ASSUME [Next]_vars
             PROVE  \/ /\ UNCHANGED <<logHistory, remaining, file, files, count, alerts>>
                       /\ second' = second \/ (second < MAX_FILES /\ second' = second + 1)
                    \/ \E n, s, t, level, opens :
                          opens \in BOOLEAN /\ LoggedAt(n, s, t, level, opens)
  OBVIOUS
<1>1. CASE UNCHANGED vars \/ Tick
  BY <1>1 DEF vars, Tick
<1>2. ASSUME NEW level \in LogLevels, NEW opens \in BOOLEAN, ProdLog(level, opens)
      PROVE  \E n, s, t : LoggedAt(n, s, t, level, opens)
  <2> DEFINE n == count + 1
             s == StoreNext(n)
             t == IF level <= DETECT_LEVEL THEN Detect(s, opens) ELSE s
  <2>1. LoggedAt(n, s, t, level, opens)
    BY <1>2 DEF ProdLog, LoggedAt
  <2> QED
    BY <2>1
<1> QED
  BY <1>1, <1>2 DEF Next

LEMMA LoggedFiles ==
  ASSUME HistoryInv, HistoryInv', FilesInv, NEW n, NEW s, NEW t, NEW level, NEW opens \in BOOLEAN,
         LoggedAt(n, s, t, level, opens)
  PROVE  FilesInv'
<1>1. second \in Seconds /\ second' = second /\ count' = count + 1 /\ n = count + 1 /\ s = StoreNext(n)
  BY DEF LoggedAt, FilesInv
<1>2. FilesGood(s.files, s.file, s.remaining, n, Len(logHistory'))
  BY <1>1, StoreNextFiles
<1>3. FilesGood(t.files, t.file, t.remaining, n, Len(logHistory'))
  <2>1. CASE level <= DETECT_LEVEL
    <3>1. t = Detect(s, opens) /\ s.remaining \in 0 .. FUTURE
      BY <2>1, <1>2 DEF LoggedAt, FilesGood
    <3>2. /\ Detected(s.files, s.file, s.remaining, logHistory', second, opens, t.files, t.file)
          /\ t.remaining = FUTURE
      BY <3>1, <1>1, DetectIsDetected
    <3>3. n \in Nat \ {0} /\ HistoryOf(logHistory', n)
      BY <1>1 DEF HistoryInv, HistoryOf
    <3>4. FilesGood(t.files, t.file, FUTURE, n, Len(logHistory'))
      BY <1>1, <1>2, <3>2, <3>3, DetectFiles
    <3> QED
      BY <3>2, <3>4
  <2>2. CASE ~(level <= DETECT_LEVEL)
    <3>1. t = s
      BY <2>2 DEF LoggedAt
    <3> QED
      BY <3>1, <1>2
  <2> QED
    BY <2>1, <2>2
<1>4. files' = t.files /\ remaining' = t.remaining /\ file' = t.file /\ count' = n
  BY DEF LoggedAt
<1> QED
  BY <1>1, <1>3, <1>4 DEF FilesInv

LEMMA FilesStep == HistoryInv /\ HistoryInv' /\ FilesInv /\ [Next]_vars => FilesInv'
<1> SUFFICES ASSUME HistoryInv, HistoryInv', FilesInv, [Next]_vars PROVE FilesInv'
  OBVIOUS
<1>1. CASE /\ UNCHANGED <<logHistory, remaining, file, files, count, alerts>>
           /\ second' = second \/ (second < MAX_FILES /\ second' = second + 1)
  <2>1. second' \in Seconds
    BY <1>1, LoggingAssumption DEF FilesInv, Seconds
  <2>2. FilesGood(files, file, remaining, count, Len(logHistory))'
    BY <1>1 DEF FilesInv, FilesGood, Seconds, Closed
  <2> QED
    BY <2>1, <2>2 DEF FilesInv
<1>2. CASE \E n, s, t, level, opens : opens \in BOOLEAN /\ LoggedAt(n, s, t, level, opens)
  BY <1>2, LoggedFiles
<1> QED
  BY <1>1, <1>2, NextCases

LEMMA LoggedAlerts ==
  ASSUME ~SameSecond, HistoryInv, HistoryInv', FilesInv, AlertsInv,
         NEW n, NEW s, NEW t, NEW level, NEW opens \in BOOLEAN,
         LoggedAt(n, s, t, level, opens)
  PROVE  AlertsInv'
<1>1. second \in Seconds /\ count' = count + 1 /\ n = count + 1 /\ s = StoreNext(n)
  BY DEF LoggedAt, FilesInv
<1>2. /\ FilesGood(s.files, s.file, s.remaining, n, Len(logHistory'))
      /\ AlertsGood(s.files, s.file, s.remaining, n, alerts)
  BY <1>1, StoreNextFiles, StoreNextAlerts
<1>3. files' = t.files /\ remaining' = t.remaining /\ file' = t.file /\ count' = n
  BY DEF LoggedAt
<1>4. CASE level <= DETECT_LEVEL
  <2>1. t = Detect(s, opens) /\ s.remaining \in 0 .. FUTURE
    BY <1>4, <1>2 DEF LoggedAt, FilesGood
  <2>2. /\ Detected(s.files, s.file, s.remaining, logHistory', second, opens, t.files, t.file)
        /\ t.remaining = FUTURE
    BY <2>1, <1>1, DetectIsDetected
  <2>3. n \in Nat \ {0} /\ HistoryOf(logHistory', n)
    BY <1>1 DEF HistoryInv, HistoryOf
  <2>4. s.remaining = 0 => NewFile(s.files, second, opens)
    <3> SUFFICES ASSUME s.remaining = 0, opens PROVE s.files[second] = <<>>
      BY DEF NewFile
    <3>1. files[second] = <<>>
      BY <1>4 DEF LoggedAt
    <3>2. CASE active /\ file # Closed
      <4>1. Len(files[file]) >= 1 /\ s.files = [files EXCEPT ![file] = Append(@, n)]
        BY <3>2, <1>1 DEF FilesInv, FilesGood, StoreNext, active
      <4>2. file # second
        BY <3>1, <4>1
      <4> QED
        BY <3>1, <4>1, <4>2, <1>1 DEF FilesInv, FilesGood
    <3>3. CASE ~(active /\ file # Closed)
      BY <3>1, <3>3, <1>1 DEF StoreNext
    <3> QED
      BY <3>2, <3>3
  <2>5. /\ AlertsGood(t.files, t.file, FUTURE, n, alerts)
        /\ t.file # Closed => AlertsGood(t.files, t.file, FUTURE, n, {n})
    BY <1>1, <1>2, <2>2, <2>3, <2>4, DetectAlerts
  <2>6. alerts' = IF t.file # Closed THEN alerts \cup {n} ELSE alerts
    BY <1>4 DEF LoggedAt
  <2>7. AlertsGood(t.files, t.file, FUTURE, n, alerts')
    BY <2>5, <2>6 DEF AlertsGood
  <2> QED
    BY <2>2, <2>7, <1>3 DEF AlertsInv
<1>5. CASE ~(level <= DETECT_LEVEL)
  <2>1. t = s /\ alerts' = alerts
    BY <1>5 DEF LoggedAt
  <2> QED
    BY <2>1, <1>2, <1>3 DEF AlertsInv
<1> QED
  BY <1>4, <1>5

LEMMA AlertsStep ==
  ASSUME ~SameSecond
  PROVE  HistoryInv /\ HistoryInv' /\ FilesInv /\ AlertsInv /\ [Next]_vars => AlertsInv'
<1> SUFFICES ASSUME HistoryInv, HistoryInv', FilesInv, AlertsInv, [Next]_vars PROVE AlertsInv'
  OBVIOUS
<1>1. CASE UNCHANGED <<logHistory, remaining, file, files, count, alerts>>
  BY <1>1 DEF AlertsInv, AlertsGood, StoredIn, Closed, Seconds
<1>2. CASE \E n, s, t, level, opens : opens \in BOOLEAN /\ LoggedAt(n, s, t, level, opens)
  BY <1>2, LoggedAlerts
<1> QED
  BY <1>1, <1>2, NextCases

LEMMA InitFiles == Init => FilesInv
  BY LoggingAssumption DEF Init, FilesInv, FilesGood, Seconds, Closed

LEMMA Inductive == Spec => [](HistoryInv /\ FilesInv)
<1>1. Init => HistoryInv /\ FilesInv
  BY InitHistory, InitFiles
<1>2. HistoryInv /\ FilesInv /\ [Next]_vars => HistoryInv' /\ FilesInv'
  BY HistoryStep, FilesStep
<1> QED
  BY <1>1, <1>2, PTL DEF Spec

\* The history never exceeds its limit, nor does what is stored after an alert, and a file
\* is closed when nothing is awaited (prodLog, prodInit).
THEOREM Limits == Spec => []Bounded
<1>1. HistoryInv /\ FilesInv => Bounded
  BY LoggingAssumption DEF HistoryInv, HistoryOf, FilesInv, FilesGood, Bounded
<1> QED
  BY <1>1, Inductive, PTL

\* Files hold runs of messages, even when a file is opened twice within one second and so
\* truncated, and when files cannot be opened (prodInit).
THEOREM Runs == Spec => []FilesAreRuns
<1>1. FilesInv => FilesAreRuns
  BY DEF FilesInv, FilesGood, FilesAreRuns
<1> QED
  BY <1>1, Inductive, PTL

\* Around every alert for which a file was open, HISTORY messages before and FUTURE after
\* are stored, when no two files have the same name (prodLog: history, remaining, future).
THEOREM Neighbours ==
  ASSUME ~SameSecond
  PROVE  Spec => []NeighboursStored
<1>1. Init => AlertsInv
  BY DEF Init, AlertsInv, AlertsGood
<1>2. HistoryInv /\ HistoryInv' /\ FilesInv /\ AlertsInv /\ [Next]_vars => AlertsInv'
  BY AlertsStep
<1>3. Spec => []AlertsInv
  BY <1>1, <1>2, Inductive, PTL DEF Spec
<1>4. AlertsInv => NeighboursStored
  BY DEF AlertsInv, AlertsGood, NeighboursStored, Stored, StoredIn
<1> QED
  BY <1>3, <1>4, PTL
=============================================================================
