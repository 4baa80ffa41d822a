---------------------------- MODULE Server_proofs ----------------------------
(***************************************************************************)
(* What holds in Server for every number of clients, modules and requests. *)
(* Every part of the inductive invariant is proved by itself, from those   *)
(* before it; requests are treated alike wherever they only take their     *)
(* line and answer or wait.                                                *)
(***************************************************************************)
EXTENDS Server, TLAPS

Lines == Requests \cup {Garbage, Ping}

-----------------------------------------------------------------------------
(* The lines that wait *)

\* Only connected clients have lines; readyRead is due, and the loop runs, only where a
\* line waits, and never both at the same socket.
LinesInv ==
    /\ input \in [Sockets -> Seq(Lines)]
    /\ clients \subseteq Sockets
    /\ news \subseteq clients
    /\ reading \in clients \cup {Nobody}
    /\ reading \notin news
    /\ \A s \in Sockets \ clients : input[s] = <<>>
    /\ \A s \in clients : s \in news \/ s = reading => input[s] # <<>>

\* A request has been sent by the client at whose socket it waits.
SendersInv ==
    \A s \in Sockets : \A i \in 1 .. Len(input[s]) :
        input[s][i] \in Requests => Sender[input[s][i]] = s

\* Taking the next line of the socket that is read.
TakesLine(line) ==
    /\ reading # Nobody
    /\ Head(input[reading]) = line
    /\ input' = [input EXCEPT ![reading] = Tail(@)]
    /\ UNCHANGED <<clients, news, asked, lost, junk>>
    /\ \/ Loop /\ UNCHANGED stalled
       \/ reading' = Nobody /\ stalled' = stalled \cup {reading}

\* What happens to the lines in a step: they are left alone or one of these.
LinesStep ==
    \/ UNCHANGED <<clients, input, news, reading, asked, stalled>>
    \/ \E s \in Sockets : ServerNewConnection(s) \/ ClientDisconnected(s) \/ ClientReadyRead(s)
    \/ \E s \in Sockets, line \in Lines : Arrives(s, line)
    \/ \E line \in Lines : TakesLine(line)

LEMMA RequestTakes ==
    ASSUME NEW r \in Requests, Request(r)
    PROVE  TakesLine(r)
  BY DEF Request, TakesLine, Takes, ServerCmdModuleSubscribe, ServerCmdModuleUnsubscribe,
         ServerCmdMyModuleSubscribes, ServerCmdTopoSubscribe, ServerCmdTopoUnsubscribe,
         ServerCmdModule, ServerCmdModuleDelete, ServerCmdModuleSetConfig,
         ServerCmdModuleSpecificCommand, ServerUnknown

LEMMA SkipTakes ==
    ASSUME SkipLine
    PROVE  \E line \in {Garbage, Ping} : TakesLine(line)
  BY DEF SkipLine, TakesLine, Loop

LEMMA NextLines == [Next]_vars => LinesStep
<1> SUFFICES ASSUME [Next]_vars PROVE LinesStep
  OBVIOUS
<1>1. CASE UNCHANGED vars
  BY <1>1 DEF vars, io, LinesStep
<1>2. CASE \E s \in Sockets : \/ ServerNewConnection(s) \/ ClientDisconnected(s)
                              \/ ClientReadyRead(s)
  BY <1>2 DEF LinesStep
<1>3. CASE \E s \in Sockets : \E line \in Requests \cup {Garbage, Ping} : Arrives(s, line)
  BY <1>3 DEF LinesStep, Lines
<1>4. CASE SkipLine
  BY <1>4, SkipTakes DEF LinesStep, Lines
<1>5. CASE \E r \in Requests : Request(r)
  BY <1>5, RequestTakes DEF LinesStep, Lines
<1>6. CASE \E r \in Requests : CmdOk(r) \/ CmdError(r)
  BY <1>6 DEF LinesStep, CmdOk, CmdError, io
<1>7. CASE \E a \in Live : InputsChanged(a) \/ \E active \in BOOLEAN : StateChanged(a, active)
  BY <1>7 DEF LinesStep, InputsChanged, StateChanged, io
<1> QED
  BY <1>1, <1>2, <1>3, <1>4, <1>5, <1>6, <1>7 DEF Next

LEMMA TakesLineInv ==
    ASSUME LinesInv, NEW line \in Lines, TakesLine(line)
    PROVE  /\ reading \in clients
           /\ input[reading] # <<>>
           /\ line = input[reading][1]
           /\ input' = [input EXCEPT ![reading] = Tail(@)]
           /\ Len(input'[reading]) = Len(input[reading]) - 1
           /\ \A i \in 1 .. Len(input'[reading]) : input'[reading][i] = input[reading][i + 1]
           /\ \A s \in Sockets \ {reading} : input'[s] = input[s]
  BY DEF LinesInv, TakesLine

LEMMA LinesInvInit == Init => LinesInv
  BY DEF Init, LinesInv

LEMMA LinesInvNext == LinesInv /\ [Next]_vars => LinesInv'
<1> SUFFICES ASSUME LinesInv, LinesStep PROVE LinesInv'
  BY NextLines
<1>1. CASE UNCHANGED <<clients, input, news, reading, asked, stalled>>
  BY <1>1 DEF LinesInv
<1>2. ASSUME NEW s \in Sockets, ServerNewConnection(s) PROVE LinesInv'
  BY <1>2, ServerAssumption DEF LinesInv, ServerNewConnection, Idle
<1>3. ASSUME NEW s \in Sockets, ClientDisconnected(s) PROVE LinesInv'
  BY <1>3, ServerAssumption DEF LinesInv, ClientDisconnected, Idle
<1>4. ASSUME NEW s \in Sockets, ClientReadyRead(s) PROVE LinesInv'
  BY <1>4, ServerAssumption DEF LinesInv, ClientReadyRead, Idle
<1>5. ASSUME NEW s \in Sockets, NEW line \in Lines, Arrives(s, line) PROVE LinesInv'
  BY <1>5, ServerAssumption DEF LinesInv, Arrives, Idle
<1>6. ASSUME NEW line \in Lines, TakesLine(line) PROVE LinesInv'
  <2>1. /\ reading \in clients /\ reading \in Sockets
        /\ input[reading] \in Seq(Lines) /\ input[reading] # <<>>
        /\ input' = [input EXCEPT ![reading] = Tail(@)]
        /\ clients' = clients /\ news' = news
    BY <1>6, TakesLineInv DEF LinesInv, TakesLine
  <2>2. Tail(input[reading]) \in Seq(Lines)
    BY <2>1
  <2>3. input' \in [Sockets -> Seq(Lines)]
    BY <2>1, <2>2 DEF LinesInv
  <2>4. reading' = Nobody \/ (reading' = reading /\ input'[reading] # <<>>)
    BY <1>6 DEF TakesLine, Loop
  <2>5. \A s \in Sockets \ clients : input'[s] = <<>>
    BY <2>1 DEF LinesInv
  <2>6. \A s \in news : s # reading /\ input'[s] # <<>>
    BY <2>1 DEF LinesInv
  <2> QED
    BY <2>1, <2>3, <2>4, <2>5, <2>6, ServerAssumption DEF LinesInv
<1> QED
  BY <1>1, <1>2, <1>3, <1>4, <1>5, <1>6 DEF LinesStep

LEMMA SendersInvNext == LinesInv /\ SendersInv /\ [Next]_vars => SendersInv'
<1> SUFFICES ASSUME LinesInv, SendersInv, LinesStep PROVE SendersInv'
  BY NextLines
<1>1. CASE UNCHANGED <<clients, input, news, reading, asked, stalled>>
  BY <1>1 DEF SendersInv
<1>2. ASSUME NEW s \in Sockets, ServerNewConnection(s) \/ ClientReadyRead(s) PROVE SendersInv'
  BY <1>2 DEF SendersInv, ServerNewConnection, ClientReadyRead
<1>3. ASSUME NEW s \in Sockets, ClientDisconnected(s) PROVE SendersInv'
  BY <1>3 DEF SendersInv, LinesInv, ClientDisconnected
<1>4. ASSUME NEW s \in Sockets, NEW line \in Lines, Arrives(s, line) PROVE SendersInv'
  BY <1>4, ServerAssumption DEF SendersInv, LinesInv, Arrives
<1>5. ASSUME NEW line \in Lines, TakesLine(line) PROVE SendersInv'
  BY <1>5, TakesLineInv DEF SendersInv, LinesInv
<1> QED
  BY <1>1, <1>2, <1>3, <1>4, <1>5 DEF LinesStep

-----------------------------------------------------------------------------
(* Lines wait only behind invalid ones *)

\* WaitsBehindInvalid, of every socket that is not being read.
WaitsInv == \A s \in Sockets \ {reading} : input[s] # <<>> => s \in news \cup stalled

LEMMA WaitsInvNext == LinesInv /\ WaitsInv /\ [Next]_vars => WaitsInv'
<1> SUFFICES ASSUME LinesInv, WaitsInv, LinesStep PROVE WaitsInv'
  BY NextLines
<1>1. CASE UNCHANGED <<clients, input, news, reading, asked, stalled>>
  BY <1>1 DEF WaitsInv
<1>2. ASSUME NEW s \in Sockets, ServerNewConnection(s) \/ ClientReadyRead(s) PROVE WaitsInv'
  BY <1>2, ServerAssumption DEF WaitsInv, ServerNewConnection, ClientReadyRead, Idle
<1>3. ASSUME NEW s \in Sockets, ClientDisconnected(s) PROVE WaitsInv'
  BY <1>3 DEF WaitsInv, LinesInv, ClientDisconnected
<1>4. ASSUME NEW s \in Sockets, NEW line \in Lines, Arrives(s, line) PROVE WaitsInv'
  BY <1>4 DEF WaitsInv, LinesInv, Arrives
<1>5. ASSUME NEW line \in Lines, TakesLine(line) PROVE WaitsInv'
  <2>1. \/ reading' = reading /\ stalled' = stalled
        \/ input'[reading] = <<>> /\ stalled' = stalled
        \/ stalled' = stalled \cup {reading}
    BY <1>5 DEF TakesLine, Loop
  <2> QED
    BY <1>5, <2>1, TakesLineInv DEF WaitsInv, TakesLine
<1> QED
  BY <1>1, <1>2, <1>3, <1>4, <1>5 DEF LinesStep

\* Between two events a line waits only behind an invalid one, or where its readyRead is
\* still to come, however many clients and lines there are (clientReadyRead).
THEOREM Waits == Spec => []WaitsBehindInvalid
<1>1. Init => WaitsInv
  BY DEF Init, WaitsInv
<1>2. LinesInv /\ WaitsInv => WaitsBehindInvalid
  BY ServerAssumption DEF WaitsInv, WaitsBehindInvalid
<1> QED
  BY <1>1, <1>2, LinesInvInit, LinesInvNext, WaitsInvNext, PTL DEF Spec

-----------------------------------------------------------------------------
(* Subscriptions are what the clients were told *)

SubsInv ==
    /\ SubscribedAsTold
    /\ subscribes \in [Addr -> SUBSET Sockets]
    /\ view \in [Sockets -> SUBSET Addr]

\* A request is read from the socket of its sender.
LEMMA SenderReads ==
    ASSUME LinesInv, SendersInv, NEW r \in Requests, TakesLine(r)
    PROVE  Sender[r] = reading /\ reading \in clients /\ reading \in Sockets
<1>1. reading \in clients /\ reading \in Sockets /\ r = input[reading][1]
      /\ input[reading] # <<>> /\ input[reading] \in Seq(Lines)
  BY TakesLineInv DEF LinesInv, Lines
<1>2. 1 \in 1 .. Len(input[reading])
  BY <1>1
<1> QED
  BY <1>1, <1>2 DEF SendersInv

LEMMA MeansAddr == ASSUME NEW r \in Requests, Valid(r) PROVE Means(r) \subseteq Addr
  BY DEF Valid, Means

LEMMA SubsInvNext == LinesInv /\ SendersInv /\ SubsInv /\ [Next]_vars => SubsInv'
<1> SUFFICES ASSUME LinesInv, SendersInv, SubsInv, [Next]_vars PROVE SubsInv'
  OBVIOUS
<1> USE DEF SubsInv, SubscribedAsTold
<1>1. CASE UNCHANGED vars
  BY <1>1 DEF vars, io, subs
<1>2. ASSUME NEW s \in Sockets, ServerNewConnection(s) PROVE SubsInv'
  BY <1>2 DEF ServerNewConnection, subs
<1>3. ASSUME NEW s \in Sockets, ClientDisconnected(s) PROVE SubsInv'
  BY <1>3 DEF ClientDisconnected, ServerClientDisconnected
<1>4. ASSUME NEW s \in Sockets,
             ClientReadyRead(s) \/ \E line \in Requests \cup {Garbage, Ping} : Arrives(s, line)
      PROVE  SubsInv'
  BY <1>4 DEF ClientReadyRead, Arrives, subs
<1>5. CASE SkipLine
  BY <1>5 DEF SkipLine, subs
<1>6. ASSUME NEW r \in Requests, Request(r) PROVE SubsInv'
  <2>1. Sender[r] \in clients /\ Sender[r] \in Sockets /\ clients' = clients
    BY <1>6, RequestTakes, SenderReads DEF TakesLine
  <2>2. CASE ServerCmdModuleSubscribe(r)
    <3>1. CASE Valid(r)
      <4>1. subscribes' = [a \in Addr |-> IF a \in Means(r) THEN subscribes[a] \cup {Sender[r]}
                                                            ELSE subscribes[a]]
            /\ view' = [view EXCEPT ![Sender[r]] = @ \cup Means(r)]
            /\ UNCHANGED <<topoSubscribes, topoView>>
        BY <2>2, <3>1 DEF ServerCmdModuleSubscribe
      <4> QED
        BY <2>1, <3>1, <4>1, MeansAddr
    <3>2. CASE ~Valid(r)
      BY <2>1, <2>2, <3>2 DEF ServerCmdModuleSubscribe
    <3> QED
      BY <3>1, <3>2
  <2>3. CASE ServerCmdModuleUnsubscribe(r)
    <3>1. CASE Valid(r)
      <4>1. subscribes' = [a \in Addr |-> IF a \in Means(r) THEN subscribes[a] \ {Sender[r]}
                                                            ELSE subscribes[a]]
            /\ view' = [view EXCEPT ![Sender[r]] = @ \ Means(r)]
            /\ UNCHANGED <<topoSubscribes, topoView>>
        BY <2>3, <3>1 DEF ServerCmdModuleUnsubscribe
      <4> QED
        BY <2>1, <4>1
    <3>2. CASE ~Valid(r)
      BY <2>1, <2>3, <3>2 DEF ServerCmdModuleUnsubscribe
    <3> QED
      BY <3>1, <3>2
  <2>4. CASE ServerCmdMyModuleSubscribes(r)
    <3>1. CASE Valid(r) /\ Addresses[r] # Absent
      <4>1. /\ subscribes' = [a \in Addr |->
                   IF a \in Addresses[r] THEN subscribes[a] \cup {Sender[r]}
                                         ELSE subscribes[a] \ {Sender[r]}]
            /\ view' = [view EXCEPT ![Sender[r]] = Addresses[r]]
            /\ UNCHANGED <<topoSubscribes, topoView>>
        BY <2>4, <3>1 DEF ServerCmdMyModuleSubscribes
      <4>2. Addresses[r] \subseteq Addr
        BY <3>1 DEF Valid
      <4> QED
        BY <2>1, <4>1, <4>2
    <3>2. CASE ~(Valid(r) /\ Addresses[r] # Absent)
      BY <2>1, <2>4, <3>2 DEF ServerCmdMyModuleSubscribes
    <3> QED
      BY <3>1, <3>2
  <2>5. CASE ServerCmdTopoSubscribe(r) \/ ServerCmdTopoUnsubscribe(r)
    BY <2>1, <2>5 DEF ServerCmdTopoSubscribe, ServerCmdTopoUnsubscribe
  <2>6. CASE \/ ServerCmdModule(r) \/ ServerCmdModuleDelete(r) \/ ServerCmdModuleSetConfig(r)
             \/ ServerCmdModuleSpecificCommand(r) \/ ServerUnknown(r)
    BY <2>1, <2>6 DEF ServerCmdModule, ServerCmdModuleDelete, ServerCmdModuleSetConfig,
         ServerCmdModuleSpecificCommand, ServerUnknown, subs
  <2> QED
    BY <1>6, <2>2, <2>3, <2>4, <2>5, <2>6 DEF Request
<1>7. ASSUME NEW r \in Requests, CmdOk(r) \/ CmdError(r) PROVE SubsInv'
  BY <1>7 DEF CmdOk, CmdError, subs, io
<1>8. ASSUME NEW a \in Live,
             InputsChanged(a) \/ \E active \in BOOLEAN : StateChanged(a, active)
      PROVE  SubsInv'
  BY <1>8 DEF InputsChanged, StateChanged, subs, io
<1> QED
  BY <1>1, <1>2, <1>3, <1>4, <1>5, <1>6, <1>7, <1>8 DEF Next

\* Every client is subscribed exactly to what its responses say, for any number of clients
\* and modules, and nothing of a client that left remains in the lists.
THEOREM Subscribed == Spec => []SubscribedAsTold
<1>1. Init => SendersInv
  BY DEF Init, SendersInv
<1>2. Init => SubsInv
  BY DEF Init, SubsInv, SubscribedAsTold
<1>3. SubsInv => SubscribedAsTold
  BY DEF SubsInv
<1> QED
  BY <1>1, <1>2, <1>3, LinesInvInit, LinesInvNext, SendersInvNext, SubsInvNext, PTL DEF Spec

-----------------------------------------------------------------------------
(* Every request is answered once *)

Waiting(r) == \E s \in Sockets : \E i \in 1 .. Len(input[s]) : input[s][i] = r

\* A request waits at one place.
OnceInv ==
    \A s, t \in Sockets : \A i \in 1 .. Len(input[s]), j \in 1 .. Len(input[t]) :
        input[s][i] = input[t][j] /\ input[s][i] \in Requests => s = t /\ i = j

\* A request waits, is under way, lost or answered, and no two of these - but commands of
\* clients that left stay under way.
AnswersInv ==
    /\ asked \subseteq Requests /\ pending \subseteq asked /\ lost \subseteq asked
    /\ \A r \in Requests : Waiting(r) => r \in asked \ (pending \cup lost)
    /\ \A r \in pending : r \in lost <=> Sender[r] \notin clients
    /\ answers \in [Requests -> Nat]
    /\ \A r \in Requests :
          answers[r] = IF r \in asked \ (pending \cup lost) /\ ~Waiting(r) THEN 1 ELSE 0

LEMMA WaitingIsInput ==
    ASSUME LinesInv, NEW r
    PROVE  r \in InputLines <=> Waiting(r)
<1>1. \A s \in Sockets : DOMAIN input[s] = 1 .. Len(input[s])
  BY DEF LinesInv
<1> QED
  BY <1>1 DEF InputLines, Waiting

LEMMA TakenWaits ==
    ASSUME LinesInv, OnceInv, NEW line \in Lines, TakesLine(line)
    PROVE  /\ OnceInv'
           /\ Waiting(line)
           /\ \A r \in Requests : Waiting(r)' <=> Waiting(r) /\ r # line
<1> DEFINE q == input[reading]
           n == Len(q)
<1>1. /\ reading \in Sockets /\ q \in Seq(Lines) /\ n \in Nat \ {0} /\ line = q[1]
      /\ Len(input'[reading]) = n - 1
      /\ \A i \in 1 .. (n - 1) : input'[reading][i] = q[i + 1]
      /\ \A s \in Sockets \ {reading} : input'[s] = input[s]
      /\ \A s \in Sockets : Len(input[s]) \in Nat
  BY TakesLineInv DEF LinesInv
<1> HIDE DEF q, n
<1>2. \A i \in 1 .. (n - 1) : i + 1 \in 1 .. n /\ i + 1 # 1
  BY <1>1
<1>3. \A i \in 1 .. n : i # 1 => i - 1 \in 1 .. (n - 1) /\ (i - 1) + 1 = i
  BY <1>1
<1>4. Waiting(line)
  BY <1>1 DEF Waiting, q, n
<1>5. ASSUME NEW s \in Sockets, NEW t \in Sockets,
             NEW i \in 1 .. Len(input'[s]), NEW j \in 1 .. Len(input'[t]),
             input'[s][i] = input'[t][j], input'[s][i] \in Requests
      PROVE  s = t /\ i = j
  <2>1. CASE s = reading /\ t = reading
    <3>1. i \in 1 .. (n - 1) /\ j \in 1 .. (n - 1)
      BY <1>1, <1>5, <2>1
    <3>2. q[i + 1] = q[j + 1] /\ q[i + 1] \in Requests
      BY <1>1, <1>5, <2>1, <3>1
    <3>3. \A k, l \in 1 .. n : q[k] = q[l] /\ q[k] \in Requests => k = l
      <4>1. reading \in Sockets
        BY <1>1
      <4>2. \A k, l \in 1 .. Len(input[reading]) :
               input[reading][k] = input[reading][l] /\ input[reading][k] \in Requests => k = l
        BY <4>1 DEF OnceInv
      <4> QED
        BY <4>2 DEF q, n
    <3>4. i + 1 = j + 1
      BY <1>2, <3>1, <3>2, <3>3
    <3> QED
      BY <2>1, <3>1, <3>4
  <2>2. CASE s = reading /\ t # reading
    BY <1>1, <1>2, <1>5, <2>2 DEF OnceInv, q, n
  <2>3. CASE s # reading /\ t = reading
    BY <1>1, <1>2, <1>5, <2>3 DEF OnceInv, q, n
  <2>4. CASE s # reading /\ t # reading
    BY <1>1, <1>5, <2>4 DEF OnceInv
  <2> QED
    BY <2>1, <2>2, <2>3, <2>4
<1>6. ASSUME NEW r \in Requests, Waiting(r)' PROVE Waiting(r) /\ r # line
  <2>1. PICK s \in Sockets : \E i \in 1 .. Len(input'[s]) : input'[s][i] = r
    BY <1>6 DEF Waiting
  <2>2. PICK i \in 1 .. Len(input'[s]) : input'[s][i] = r
    BY <2>1
  <2>3. CASE s = reading
    BY <1>1, <1>2, <2>2, <2>3 DEF Waiting, OnceInv, q, n
  <2>4. CASE s # reading
    BY <1>1, <2>2, <2>4 DEF Waiting, OnceInv, q, n
  <2> QED
    BY <2>3, <2>4
<1>7. ASSUME NEW r \in Requests, Waiting(r), r # line PROVE Waiting(r)'
  <2>1. PICK s \in Sockets : \E i \in 1 .. Len(input[s]) : input[s][i] = r
    BY <1>7 DEF Waiting
  <2>2. PICK i \in 1 .. Len(input[s]) : input[s][i] = r
    BY <2>1
  <2>3. CASE s = reading
    <3>1. i # 1 /\ i \in 1 .. n /\ i - 1 \in 1 .. (n - 1) /\ (i - 1) + 1 = i
      BY <1>1, <1>3, <1>7, <2>2, <2>3 DEF q, n
    <3>2. i - 1 \in 1 .. Len(input'[reading]) /\ input'[reading][i - 1] = r
      BY <1>1, <2>2, <2>3, <3>1 DEF q
    <3> QED
      BY <1>1, <3>2 DEF Waiting
  <2>4. CASE s # reading
    BY <1>1, <2>2, <2>4 DEF Waiting
  <2> QED
    BY <2>3, <2>4
<1> QED
  BY <1>4, <1>5, <1>6, <1>7 DEF OnceInv

LEMMA ArrivedWaits ==
    ASSUME LinesInv, OnceInv, NEW s \in Sockets, NEW line \in Lines, Arrives(s, line),
           line \in Requests => ~Waiting(line)
    PROVE  /\ OnceInv'
           /\ \A r \in Requests : Waiting(r)' <=> Waiting(r) \/ r = line
<1> DEFINE n == Len(input[s])
<1>1. /\ n \in Nat /\ input[s] \in Seq(Lines)
      /\ input' = [input EXCEPT ![s] = Append(@, line)]
      /\ Len(input'[s]) = n + 1
      /\ \A i \in 1 .. n : input'[s][i] = input[s][i]
      /\ input'[s][n + 1] = line
      /\ \A t \in Sockets \ {s} : input'[t] = input[t]
      /\ \A t \in Sockets : Len(input[t]) \in Nat
  BY DEF LinesInv, Arrives
<1> HIDE DEF n
<1>2. \A i \in 1 .. (n + 1) : i \in 1 .. n \/ i = n + 1
  BY <1>1
<1>3. \A i \in 1 .. n : i \in 1 .. (n + 1) /\ i # n + 1
  BY <1>1
<1>4. n + 1 \in 1 .. (n + 1)
  BY <1>1
<1>5. ASSUME NEW t \in Sockets, NEW i \in 1 .. Len(input'[t])
      PROVE  \/ i \in 1 .. Len(input[t]) /\ input'[t][i] = input[t][i]
             \/ t = s /\ i = n + 1 /\ input'[t][i] = line
  BY <1>1, <1>2, <1>5 DEF n
<1>6. OnceInv'
  BY <1>1, <1>5 DEF OnceInv, Waiting
<1>7. ASSUME NEW t \in Sockets, NEW i \in 1 .. Len(input[t])
      PROVE  i \in 1 .. Len(input'[t]) /\ input'[t][i] = input[t][i]
  BY <1>1, <1>3, <1>7 DEF n
<1>8. Waiting(line)'
  BY <1>1, <1>4 DEF Waiting
<1>9. \A r \in Requests : Waiting(r)' => Waiting(r) \/ r = line
  BY <1>5, Zenon DEF Waiting
<1>10. \A r \in Requests : Waiting(r) => Waiting(r)'
  BY <1>7, Zenon DEF Waiting
<1> QED
  BY <1>6, <1>8, <1>9, <1>10, Zenon

LEMMA LeftWaits ==
    ASSUME LinesInv, SendersInv, OnceInv, NEW s \in Sockets, ClientDisconnected(s)
    PROVE  /\ OnceInv'
           /\ \A r \in Requests : Waiting(r)' <=> Waiting(r) /\ Sender[r] # s
<1>1. /\ input'[s] = <<>> /\ Len(input'[s]) = 0
      /\ \A t \in Sockets \ {s} : input'[t] = input[t]
  BY DEF LinesInv, ClientDisconnected
<1> QED
  BY <1>1 DEF OnceInv, Waiting, SendersInv

\* A request is answered at once or waits for its command, if every object answers.
LEMMA RequestAnswers ==
    ASSUME SilentAddr = {}, NEW r \in Requests, Request(r)
    PROVE  /\ alive /\ alive' = alive
           /\ \/ pending' = pending /\ answers' = [answers EXCEPT ![r] = @ + 1]
              \/ pending' = pending \cup {r} /\ answers' = answers
<1>1. alive /\ alive' = alive
  BY DEF Request, Takes, ServerCmdModuleSubscribe, ServerCmdModuleUnsubscribe,
         ServerCmdMyModuleSubscribes, ServerCmdTopoSubscribe, ServerCmdTopoUnsubscribe,
         ServerCmdModule, ServerCmdModuleDelete, ServerCmdModuleSetConfig,
         ServerCmdModuleSpecificCommand, ServerUnknown
<1>2. CASE ServerCmdModuleSetConfig(r)
  BY <1>1, <1>2 DEF ServerCmdModuleSetConfig, Respond
<1>3. CASE ServerCmdModuleSpecificCommand(r)
  BY <1>1, <1>3 DEF ServerCmdModuleSpecificCommand, Respond
<1>4. CASE ~ServerCmdModuleSetConfig(r) /\ ~ServerCmdModuleSpecificCommand(r)
  BY <1>1, <1>4 DEF Request, Respond, ServerCmdModuleSubscribe, ServerCmdModuleUnsubscribe,
         ServerCmdMyModuleSubscribes, ServerCmdTopoSubscribe, ServerCmdTopoUnsubscribe,
         ServerCmdModule, ServerCmdModuleDelete, ServerUnknown
<1> QED
  BY <1>2, <1>3, <1>4

\* The invariant, as long as the process runs.
AnsInv == alive => OnceInv /\ AnswersInv

\* Nothing happens once the process has ended.
LEMMA DeadIsOver == [Next]_vars /\ alive' => alive
  BY DEF Next, Request, Takes, Idle, vars, ServerNewConnection, ClientDisconnected,
         ClientReadyRead, Arrives, SkipLine, CmdOk, CmdError, StateChanged, InputsChanged,
         ServerCmdModuleSubscribe, ServerCmdModuleUnsubscribe,
         ServerCmdMyModuleSubscribes, ServerCmdTopoSubscribe, ServerCmdTopoUnsubscribe,
         ServerCmdModule, ServerCmdModuleDelete, ServerCmdModuleSetConfig,
         ServerCmdModuleSpecificCommand, ServerUnknown

LEMMA AnsInvNext ==
    ASSUME SilentAddr = {}, LinesInv, SendersInv, AnsInv, [Next]_vars
    PROVE  AnsInv'
<1> SUFFICES ASSUME alive' PROVE OnceInv' /\ AnswersInv'
  BY DEF AnsInv
<1>0. alive /\ OnceInv /\ AnswersInv
  BY DeadIsOver DEF AnsInv
<1>1. CASE UNCHANGED vars
  BY <1>0, <1>1 DEF vars, io, OnceInv, AnswersInv, Waiting
<1>2. ASSUME NEW s \in Sockets, ServerNewConnection(s) PROVE OnceInv' /\ AnswersInv'
  <2>1. UNCHANGED <<input, asked, lost, pending, answers>>
    BY <1>2 DEF ServerNewConnection
  <2>2. \A r \in Requests : Waiting(r)' <=> Waiting(r)
    BY <2>1 DEF Waiting
  <2>3. \A r \in pending : Sender[r] \notin clients' <=> Sender[r] \notin clients
    BY <1>2 DEF ServerNewConnection
  <2> QED
    BY <1>0, <2>1, <2>2, <2>3 DEF OnceInv, AnswersInv
<1>3. ASSUME NEW s \in Sockets, ClientReadyRead(s) PROVE OnceInv' /\ AnswersInv'
  BY <1>0, <1>3 DEF ClientReadyRead, OnceInv, AnswersInv, Waiting
<1>4. ASSUME NEW s \in Sockets, ClientDisconnected(s) PROVE OnceInv' /\ AnswersInv'
  <2>1. /\ OnceInv'
        /\ \A r \in Requests : Waiting(r)' <=> Waiting(r) /\ Sender[r] # s
    BY <1>0, <1>4, LeftWaits
  <2>2. /\ clients' = clients \ {s} /\ s \in clients
        /\ lost' = lost \cup {r \in asked : Sender[r] = s /\ answers[r] = 0}
        /\ UNCHANGED <<asked, pending, answers>>
    BY <1>4 DEF ClientDisconnected
  <2>3. \A r \in pending : r \in lost' <=> Sender[r] \notin clients'
    BY <1>0, <2>2 DEF AnswersInv
  <2>4. \A r \in Requests : Waiting(r)' => r \in asked' \ (pending' \cup lost')
    BY <1>0, <2>1, <2>2 DEF AnswersInv
  <2>5. \A r \in Requests :
           answers'[r] = IF r \in asked' \ (pending' \cup lost') /\ ~Waiting(r)' THEN 1 ELSE 0
    BY <1>0, <2>1, <2>2 DEF AnswersInv
  <2> QED
    BY <1>0, <2>1, <2>2, <2>3, <2>4, <2>5 DEF AnswersInv
<1>5. ASSUME NEW s \in Sockets, NEW line \in Lines, Arrives(s, line)
      PROVE  OnceInv' /\ AnswersInv'
  <2>1. line \in Requests => line \notin asked
    BY <1>5, ServerAssumption DEF Arrives
  <2>2. line \in Requests => ~Waiting(line)
    BY <1>0, <2>1 DEF AnswersInv
  <2>3. /\ OnceInv'
        /\ \A r \in Requests : Waiting(r)' <=> Waiting(r) \/ r = line
    BY <1>0, <1>5, <2>2, ArrivedWaits
  <2>4. /\ asked' = asked \cup ({line} \cap Requests)
        /\ UNCHANGED <<clients, lost, pending, answers>>
    BY <1>5, ServerAssumption DEF Arrives
  <2>5. \A r \in Requests : Waiting(r)' => r \in asked' \ (pending' \cup lost')
    BY <1>0, <2>1, <2>3, <2>4 DEF AnswersInv
  <2>6. \A r \in Requests :
           answers'[r] = IF r \in asked' \ (pending' \cup lost') /\ ~Waiting(r)' THEN 1 ELSE 0
    BY <1>0, <2>1, <2>3, <2>4 DEF AnswersInv
  <2> QED
    BY <1>0, <2>3, <2>4, <2>5, <2>6 DEF AnswersInv
<1>6. CASE SkipLine
  <2>1. PICK line \in {Garbage, Ping} : TakesLine(line)
    BY <1>6, SkipTakes
  <2>2. line \in Lines /\ line \notin Requests
    BY <2>1, ServerAssumption DEF Lines
  <2>3. /\ OnceInv'
        /\ \A r \in Requests : Waiting(r)' <=> Waiting(r)
    BY <1>0, <2>1, <2>2, TakenWaits
  <2>4. UNCHANGED <<clients, asked, lost, pending, answers>>
    BY <1>6 DEF SkipLine
  <2> QED
    BY <1>0, <2>3, <2>4 DEF AnswersInv
<1>7. ASSUME NEW r \in Requests, Request(r) PROVE OnceInv' /\ AnswersInv'
  <2>1. TakesLine(r) /\ r \in Lines
    BY <1>7, RequestTakes DEF Lines
  <2>2. /\ OnceInv'
        /\ Waiting(r)
        /\ \A q \in Requests : Waiting(q)' <=> Waiting(q) /\ q # r
    BY <1>0, <2>1, TakenWaits
  <2>3. UNCHANGED <<clients, asked, lost>>
    BY <2>1 DEF TakesLine
  <2>4. Sender[r] \in clients /\ r \in asked \ (pending \cup lost)
    BY <1>0, <2>1, <2>2, SenderReads DEF AnswersInv
  <2>5. \/ pending' = pending /\ answers' = [answers EXCEPT ![r] = @ + 1]
        \/ pending' = pending \cup {r} /\ answers' = answers
    BY <1>7, RequestAnswers
  <2>6. CASE pending' = pending /\ answers' = [answers EXCEPT ![r] = @ + 1]
    <3>1. answers[r] = 0 /\ answers' \in [Requests -> Nat] /\ answers'[r] = 1
      BY <1>0, <2>2, <2>6 DEF AnswersInv
    <3>2. \A q \in Requests :
             answers'[q] = IF q \in asked' \ (pending' \cup lost') /\ ~Waiting(q)' THEN 1 ELSE 0
      BY <1>0, <2>2, <2>3, <2>4, <2>6, <3>1 DEF AnswersInv
    <3> QED
      BY <1>0, <2>2, <2>3, <2>6, <3>1, <3>2 DEF AnswersInv
  <2>7. CASE pending' = pending \cup {r} /\ answers' = answers
    BY <1>0, <2>2, <2>3, <2>4, <2>7 DEF AnswersInv
  <2> QED
    BY <2>5, <2>6, <2>7
<1>8. ASSUME NEW r \in Requests, CmdOk(r) \/ CmdError(r) PROVE OnceInv' /\ AnswersInv'
  <2>1. /\ UNCHANGED <<clients, input, asked, lost>>
        /\ r \in pending /\ pending' = pending \ {r}
        /\ \/ Sender[r] \in clients /\ answers' = [answers EXCEPT ![r] = @ + 1]
           \/ Sender[r] \notin clients /\ answers' = answers
    BY <1>8 DEF CmdOk, CmdError, io, Respond
  <2>2. OnceInv' /\ \A q \in Requests : Waiting(q)' <=> Waiting(q)
    BY <1>0, <2>1 DEF OnceInv, Waiting
  <2>3. answers[r] = 0 /\ r \in asked /\ ~Waiting(r) /\ (r \in lost <=> Sender[r] \notin clients)
    BY <1>0, <2>1 DEF AnswersInv
  <2>4. CASE Sender[r] \in clients /\ answers' = [answers EXCEPT ![r] = @ + 1]
    <3>1. answers' \in [Requests -> Nat] /\ answers'[r] = 1
      BY <1>0, <2>3, <2>4 DEF AnswersInv
    <3>2. \A q \in Requests :
             answers'[q] = IF q \in asked' \ (pending' \cup lost') /\ ~Waiting(q)' THEN 1 ELSE 0
      BY <1>0, <2>1, <2>2, <2>3, <2>4, <3>1 DEF AnswersInv
    <3> QED
      BY <1>0, <2>1, <2>2, <3>1, <3>2 DEF AnswersInv
  <2>5. CASE Sender[r] \notin clients /\ answers' = answers
    BY <1>0, <2>1, <2>2, <2>3, <2>5 DEF AnswersInv
  <2> QED
    BY <2>1, <2>4, <2>5
<1>9. ASSUME NEW a \in Live,
             InputsChanged(a) \/ \E active \in BOOLEAN : StateChanged(a, active)
      PROVE  OnceInv' /\ AnswersInv'
  BY <1>0, <1>9 DEF InputsChanged, StateChanged, io, OnceInv, AnswersInv, Waiting
<1> QED
  BY <1>1, <1>2, <1>3, <1>4, <1>5, <1>6, <1>7, <1>8, <1>9 DEF Next, Lines

\* A request that was read has one response, unless its command is under way or its client
\* left before - for any number of clients, lines and requests, if every module is of a
\* class that answers module_set_config (serverReceived, clientReadyRead, send).
THEOREM Answered ==
    ASSUME SilentAddr = {}
    PROVE  Spec => []AnsweredOnce
<1>1. Init => SendersInv
  BY DEF Init, SendersInv
<1>2. Init => AnsInv
  BY DEF Init, AnsInv, OnceInv, AnswersInv, Waiting
<1>3. LinesInv /\ SendersInv /\ AnsInv /\ [Next]_vars => AnsInv'
  BY AnsInvNext
<1>4. LinesInv /\ AnsInv => AnsweredOnce
  <2> SUFFICES ASSUME LinesInv, AnsInv, alive, NEW r \in Requests
               PROVE  answers[r] = IF r \in (asked \ InputLines) \ (pending \cup lost)
                                   THEN 1 ELSE 0
    BY DEF AnsweredOnce
  <2> QED
    BY WaitingIsInput DEF AnsInv, AnswersInv
<1> QED
  BY <1>1, <1>2, <1>3, <1>4, LinesInvInit, LinesInvNext, SendersInvNext, PTL DEF Spec

-----------------------------------------------------------------------------
(* Subscribers know the modules *)

TypesInv ==
    /\ modules \in [Addr -> States \cup {Absent}]
    /\ told \in [Sockets -> [Addr -> States \cup {Absent, Unknown}]]
    /\ pending \subseteq Requests

\* A module whose configuration is being written is there and active.
ConfigsInv ==
    \A r \in pending : Kind[r] = "module_set_config" =>
        \A a \in Addresses[r] : a \in Addr /\ modules[a] # Absent /\ modules[a].active

\* Module a is known as it is by those who know it, and only subscribers do.
Knows(a) ==
    \A s \in Sockets :
        /\ told[s][a] \in {Unknown, modules[a]}
        /\ told[s][a] # Unknown => s \in subscribes[a]

ToldInv == TypesInv /\ ConfigsInv /\ \A a \in Addr : Knows(a)

\* An event about module a reaches all that are subscribed to it.
LEMMA TellFacts ==
    ASSUME LinesInv, SubsInv, TypesInv, NEW a \in Addr, NEW m \in States \cup {Absent},
           NEW S, subscribes[a] \subseteq S, Tell(S, a, m)
    PROVE  /\ told' \in [Sockets -> [Addr -> States \cup {Absent, Unknown}]]
           /\ \A s \in Sockets : told'[s][a] = IF s \in subscribes[a] THEN m ELSE told[s][a]
           /\ \A s \in Sockets, b \in Addr : b # a => told'[s][b] = told[s][b]
<1>1. \A s \in Sockets : s \in subscribes[a] => s \in clients
  BY DEF SubsInv, SubscribedAsTold
<1>2. told' = [s \in Sockets |-> IF s \in subscribes[a] THEN [told[s] EXCEPT ![a] = m]
                                                        ELSE told[s]]
  BY <1>1 DEF Tell
<1> QED
  BY <1>2 DEF TypesInv

\* What a module became, with the event about it, keeps everybody informed.
LEMMA ToldStep ==
    ASSUME LinesInv, SubsInv, TypesInv, \A b \in Addr : Knows(b),
           NEW a \in Addr, NEW m \in States \cup {Absent},
           modules' = [modules EXCEPT ![a] = m],
           NEW S, subscribes[a] \subseteq S, Tell(S, a, m),
           UNCHANGED subscribes
    PROVE  /\ modules' \in [Addr -> States \cup {Absent}]
           /\ told' \in [Sockets -> [Addr -> States \cup {Absent, Unknown}]]
           /\ \A b \in Addr : Knows(b)'
<1>1. /\ told' \in [Sockets -> [Addr -> States \cup {Absent, Unknown}]]
      /\ \A s \in Sockets : told'[s][a] = IF s \in subscribes[a] THEN m ELSE told[s][a]
      /\ \A s \in Sockets, b \in Addr : b # a => told'[s][b] = told[s][b]
  BY TellFacts
<1>2. /\ modules' \in [Addr -> States \cup {Absent}]
      /\ modules'[a] = m
      /\ \A b \in Addr : b # a => modules'[b] = modules[b]
  BY DEF TypesInv
<1>3. Knows(a)'
  BY <1>1, <1>2 DEF Knows
<1>4. \A b \in Addr : b # a => Knows(b)'
  BY <1>1, <1>2 DEF Knows
<1> QED
  BY <1>1, <1>2, <1>3, <1>4

\* A client whose subscriptions shrink forgets what it gave up.
LEMMA ForgetStep ==
    ASSUME TypesInv, \A b \in Addr : Knows(b), NEW s \in Sockets, Forgets(s),
           \A t \in Sockets \ {s}, a \in Addr : t \in subscribes'[a] <=> t \in subscribes[a],
           UNCHANGED modules
    PROVE  /\ told' \in [Sockets -> [Addr -> States \cup {Absent, Unknown}]]
           /\ \A b \in Addr : Knows(b)'
<1>1. told' = [told EXCEPT ![s] = [a \in Addr |-> IF s \in subscribes'[a] THEN told[s][a] ELSE Unknown]]
  BY DEF Forgets, TypesInv
<1>2. \A a \in Addr : told'[s][a] = IF s \in subscribes'[a] THEN told[s][a] ELSE Unknown
  BY <1>1 DEF TypesInv
<1>3. \A t \in Sockets \ {s} : told'[t] = told[t]
  BY <1>1 DEF TypesInv
<1>4. told' \in [Sockets -> [Addr -> States \cup {Absent, Unknown}]]
  BY <1>1 DEF TypesInv
<1> QED
  BY <1>2, <1>3, <1>4 DEF Knows

\* As long as nothing becomes of modules, subscriptions and what was told.
LEMMA ToldKept ==
    ASSUME ToldInv, UNCHANGED <<modules, told>>, pending' \subseteq Requests,
           \A r \in pending' \ pending : Kind[r] # "module_set_config",
           \A a \in Addr : subscribes[a] \subseteq subscribes'[a]
    PROVE  ToldInv'
<1>1. TypesInv' BY DEF ToldInv, TypesInv
<1>2. ConfigsInv' BY DEF ToldInv, ConfigsInv
<1>3. \A a \in Addr : Knows(a)' BY DEF ToldInv, Knows
<1> QED BY <1>1, <1>2, <1>3 DEF ToldInv

LEMMA SetConfigStep ==
    ASSUME SilentAddr = {}, \A q \in Malformed : Kind[q] # "module_set_config",
           LinesInv, SubsInv, ToldInv, NEW r \in Requests, ServerCmdModuleSetConfig(r)
    PROVE  ToldInv'
<1>1. UNCHANGED subs /\ Kind[r] = "module_set_config" /\ r \notin Malformed
  BY DEF ServerCmdModuleSetConfig, Takes
<1>2. UNCHANGED subscribes
  BY <1>1 DEF subs
<1>3. PICK a \in Addresses[r] :
        IF ~HasWriteAccess(Sender[r]) \/ a \notin Addr
        THEN UNCHANGED <<modules, told, pending>>
        ELSE /\ modules' = IF modules[a] = Absent
                           THEN [modules EXCEPT ![a] = Inactive] ELSE modules
             /\ \/ ConfigWriting(a) /\ UNCHANGED <<told, pending>>
                \/ modules'[a].active /\ pending' = pending \cup {r} /\ UNCHANGED told
                \/ SendModuleInfo(a, modules'[a]) /\ UNCHANGED pending
  BY <1>1 DEF ServerCmdModuleSetConfig
<1>4. CASE UNCHANGED <<modules, told, pending>>
  BY <1>2, <1>4, ToldKept DEF ToldInv, TypesInv
<1>5. ASSUME a \in Addr,
             modules' = IF modules[a] = Absent THEN [modules EXCEPT ![a] = Inactive] ELSE modules,
             \/ ConfigWriting(a) /\ UNCHANGED <<told, pending>>
             \/ modules'[a].active /\ pending' = pending \cup {r} /\ UNCHANGED told
             \/ SendModuleInfo(a, modules'[a]) /\ UNCHANGED pending
      PROVE  ToldInv'
  <2>1. Inactive \in States /\ Inactive.active = FALSE /\ Inactive # Absent
    <3>1. Inactive \in States /\ Inactive.active = FALSE BY DEF Inactive, States
    <3> QED BY <3>1, ModulesAssumption
  <2>2. ConfigWriting(a) => modules[a] # Absent /\ modules[a].active
    BY <1>5 DEF ToldInv, ConfigsInv, ConfigWriting
  <2>3. /\ modules' \in [Addr -> States \cup {Absent}]
        /\ modules'[a] \in States
        /\ modules' = [modules EXCEPT ![a] = modules'[a]]
        /\ \A b \in Addr : b # a => modules'[b] = modules[b]
        /\ modules[a] = Absent => modules'[a] = Inactive
    BY <1>5, <2>1 DEF ToldInv, TypesInv
  <2>4. CASE SendModuleInfo(a, modules'[a]) /\ UNCHANGED pending
    <3>1. Tell(topoSubscribes \cup subscribes[a], a, modules'[a])
      BY <2>4 DEF SendModuleInfo
    <3>2. /\ told' \in [Sockets -> [Addr -> States \cup {Absent, Unknown}]]
          /\ \A b \in Addr : Knows(b)'
      BY <1>2, <1>5, <2>3, <3>1, ToldStep DEF ToldInv
    <3>3. ConfigsInv'
      BY <1>5, <2>3, <2>4 DEF ToldInv, ConfigsInv
    <3> QED BY <2>3, <2>4, <3>2, <3>3 DEF ToldInv, TypesInv
  <2>5. CASE ConfigWriting(a) /\ UNCHANGED <<told, pending>>
    <3>1. modules' = modules
      BY <1>5, <2>2, <2>5
    <3> QED BY <1>4, <2>5, <3>1
  <2>6. CASE modules'[a].active /\ pending' = pending \cup {r} /\ UNCHANGED told
    <3>1. modules' = modules /\ modules[a] # Absent
      BY <1>5, <2>1, <2>3, <2>6
    <3>2. \A b \in Addresses[r] : b = a
      BY <1>1, ModulesAssumption
    <3>3. TypesInv' BY <2>6, <3>1 DEF ToldInv, TypesInv
    <3>4. ConfigsInv' BY <1>5, <2>6, <3>1, <3>2 DEF ToldInv, ConfigsInv
    <3>5. \A b \in Addr : Knows(b)' BY <1>2, <2>6, <3>1 DEF ToldInv, Knows
    <3> QED BY <3>3, <3>4, <3>5 DEF ToldInv
  <2> QED
    BY <1>5, <2>4, <2>5, <2>6
<1> QED
  BY <1>3, <1>4, <1>5

LEMMA DeleteStep ==
    ASSUME LinesInv, SubsInv, ToldInv, NEW r \in Requests, ServerCmdModuleDelete(r)
    PROVE  ToldInv'
<1>1. UNCHANGED subscribes /\ UNCHANGED pending
  BY DEF ServerCmdModuleDelete, subs
<1>2. PICK a \in Addresses[r] :
        IF a \notin Addr \/ modules[a] = Absent \/ modules[a].active
        THEN UNCHANGED <<modules, told>>
        ELSE /\ modules' = [modules EXCEPT ![a] = Absent]
             /\ SendModuleInfo(a, Absent)
  BY DEF ServerCmdModuleDelete
<1>3. CASE UNCHANGED <<modules, told>>
  BY <1>1, <1>3, ToldKept DEF ToldInv, TypesInv
<1>4. ASSUME a \in Addr, ~modules[a].active, modules' = [modules EXCEPT ![a] = Absent],
             SendModuleInfo(a, Absent)
      PROVE  ToldInv'
  <2>1. Tell(topoSubscribes \cup subscribes[a], a, Absent)
    BY <1>4 DEF SendModuleInfo
  <2>2. /\ modules' \in [Addr -> States \cup {Absent}]
        /\ told' \in [Sockets -> [Addr -> States \cup {Absent, Unknown}]]
        /\ \A b \in Addr : Knows(b)'
    BY <1>1, <1>4, <2>1, ToldStep DEF ToldInv
  <2>3. ConfigsInv'
    BY <1>1, <1>4 DEF ToldInv, TypesInv, ConfigsInv
  <2> QED BY <1>1, <2>2, <2>3 DEF ToldInv, TypesInv
<1> QED
  BY <1>2, <1>3, <1>4

\* The events of a module that is activated, changes its inputs or is lost.
LEMMA EventStep ==
    ASSUME LinesInv, SubsInv, ToldInv, NEW a \in Live,
           InputsChanged(a) \/ \E active \in BOOLEAN : StateChanged(a, active)
    PROVE  ToldInv'
<1>1. a \in Addr /\ UNCHANGED subscribes /\ UNCHANGED pending
  BY ModulesAssumption DEF InputsChanged, StateChanged, subs
<1>2. PICK m, S :
        /\ m \in States
        /\ modules' = [modules EXCEPT ![a] = m]
        /\ ConfigWriting(a) => m.active
        /\ subscribes[a] \subseteq S
        /\ Tell(S, a, m)
  <2>1. CASE InputsChanged(a)
    <3>1. modules[a] \in States /\ modules[a].active
      BY <1>1, <2>1 DEF InputsChanged, ToldInv, TypesInv
    <3>2. [modules[a] EXCEPT !.inputs = 1 - @] \in States
      BY <3>1 DEF States
    <3>3. [modules[a] EXCEPT !.inputs = 1 - @].active
      BY <3>1 DEF States
    <3>4. modules' = [modules EXCEPT ![a] = [modules[a] EXCEPT !.inputs = 1 - @]]
      BY <1>1, <2>1, <3>1 DEF InputsChanged, ToldInv, TypesInv, States
    <3>5. modules'[a] = [modules[a] EXCEPT !.inputs = 1 - @]
      BY <1>1, <3>4 DEF ToldInv, TypesInv
    <3>6. Tell(subscribes[a], a, modules'[a])
      BY <2>1 DEF InputsChanged
    <3> QED BY <3>2, <3>3, <3>4, <3>5, <3>6
  <2>2. ASSUME NEW active \in BOOLEAN, StateChanged(a, active)
        PROVE  \E m, S : /\ m \in States
                         /\ modules' = [modules EXCEPT ![a] = m]
                         /\ ConfigWriting(a) => m.active
                         /\ subscribes[a] \subseteq S
                         /\ Tell(S, a, m)
    <3>1. /\ modules' = [modules EXCEPT ![a] = [active |-> active, inputs |-> 0]]
          /\ ConfigWriting(a) => active
          /\ Tell(topoSubscribes \cup subscribes[a], a, modules'[a])
      BY <2>2 DEF StateChanged, SendModuleInfo
    <3>2. [active |-> active, inputs |-> 0] \in States
      BY DEF States
    <3>3. modules'[a] = [active |-> active, inputs |-> 0]
      BY <1>1, <3>1 DEF ToldInv, TypesInv
    <3> QED BY <3>1, <3>2, <3>3
  <2> QED BY <2>1, <2>2
<1>3. /\ modules' \in [Addr -> States \cup {Absent}]
      /\ told' \in [Sockets -> [Addr -> States \cup {Absent, Unknown}]]
      /\ \A b \in Addr : Knows(b)'
  BY <1>1, <1>2, ToldStep DEF ToldInv
<1>4. modules'[a] = m /\ m # Absent /\ \A b \in Addr : b # a => modules'[b] = modules[b]
  BY <1>1, <1>2, ModulesAssumption DEF ToldInv, TypesInv
<1>5. ConfigsInv'
  BY <1>1, <1>2, <1>4 DEF ToldInv, ConfigsInv, ConfigWriting
<1> QED
  BY <1>1, <1>3, <1>5 DEF ToldInv, TypesInv

LEMMA ToldInvNext ==
    ASSUME SilentAddr = {}, \A q \in Malformed : Kind[q] # "module_set_config",
           LinesInv, SendersInv, SubsInv, ToldInv, [Next]_vars
    PROVE  ToldInv'
<1>1. CASE UNCHANGED vars
  BY <1>1, ToldKept DEF vars, subs, ToldInv, TypesInv
<1>2. ASSUME NEW s \in Sockets, ServerNewConnection(s) PROVE ToldInv'
  BY <1>2, ToldKept DEF ServerNewConnection, subs, ToldInv, TypesInv
<1>3. ASSUME NEW s \in Sockets, ClientDisconnected(s) PROVE ToldInv'
  <2>1. /\ told' = [told EXCEPT ![s] = [a \in Addr |-> Unknown]]
        /\ subscribes' = [a \in Addr |-> subscribes[a] \ {s}]
        /\ UNCHANGED <<modules, pending>>
    BY <1>3 DEF ClientDisconnected, ServerClientDisconnected
  <2>2. /\ told' \in [Sockets -> [Addr -> States \cup {Absent, Unknown}]]
        /\ \A a \in Addr : told'[s][a] = Unknown
        /\ \A t \in Sockets \ {s} : told'[t] = told[t]
    BY <2>1 DEF ToldInv, TypesInv
  <2>3. \A a \in Addr : Knows(a)'
    BY <2>1, <2>2 DEF ToldInv, Knows
  <2> QED BY <2>1, <2>2, <2>3 DEF ToldInv, TypesInv, ConfigsInv
<1>4. ASSUME NEW s \in Sockets,
             ClientReadyRead(s) \/ \E line \in Requests \cup {Garbage, Ping} : Arrives(s, line)
      PROVE  ToldInv'
  BY <1>4, ToldKept DEF ClientReadyRead, Arrives, subs, ToldInv, TypesInv
<1>5. CASE SkipLine
  BY <1>5, ToldKept DEF SkipLine, subs, ToldInv, TypesInv
<1>6. ASSUME NEW r \in Requests, Request(r) PROVE ToldInv'
  <2>1. Sender[r] \in clients /\ Sender[r] \in Sockets
    BY <1>6, RequestTakes, SenderReads
  <2>2. CASE ServerCmdModuleSubscribe(r)
    <3>1. UNCHANGED <<modules, told, pending>>
      BY <2>2 DEF ServerCmdModuleSubscribe
    <3>2. \A a \in Addr : subscribes[a] \subseteq subscribes'[a]
      BY <2>2 DEF ServerCmdModuleSubscribe
    <3> QED BY <3>1, <3>2, ToldKept DEF ToldInv, TypesInv
  <2>3. CASE ServerCmdModuleUnsubscribe(r) \/ ServerCmdMyModuleSubscribes(r)
    <3>1. Forgets(Sender[r]) /\ UNCHANGED <<modules, pending>>
      BY <2>3 DEF ServerCmdModuleUnsubscribe, ServerCmdMyModuleSubscribes
    <3>2. \A t \in Sockets \ {Sender[r]}, a \in Addr : t \in subscribes'[a] <=> t \in subscribes[a]
      BY <2>3 DEF ServerCmdModuleUnsubscribe, ServerCmdMyModuleSubscribes
    <3>3. /\ told' \in [Sockets -> [Addr -> States \cup {Absent, Unknown}]]
          /\ \A b \in Addr : Knows(b)'
      BY <2>1, <3>1, <3>2, ForgetStep DEF ToldInv
    <3> QED BY <3>1, <3>3 DEF ToldInv, TypesInv, ConfigsInv
  <2>4. CASE ServerCmdModule(r)
    <3>1. /\ told' = [told EXCEPT ![Sender[r]] = [a \in Addr |->
                IF a \in Addresses[r] /\ Sender[r] \in subscribes[a] THEN modules[a]
                ELSE told[Sender[r]][a]]]
          /\ UNCHANGED <<modules, pending, subscribes>>
      BY <2>1, <2>4 DEF ServerCmdModule, subs, ToldInv, TypesInv
    <3>2. /\ told' \in [Sockets -> [Addr -> States \cup {Absent, Unknown}]]
          /\ \A a \in Addr : \/ told'[Sender[r]][a] = told[Sender[r]][a]
                             \/ Sender[r] \in subscribes[a] /\ told'[Sender[r]][a] = modules[a]
          /\ \A t \in Sockets \ {Sender[r]} : told'[t] = told[t]
      BY <2>1, <3>1 DEF ToldInv, TypesInv
    <3>3. \A a \in Addr : Knows(a)'
      BY <3>1, <3>2 DEF ToldInv, Knows
    <3> QED BY <3>1, <3>2, <3>3 DEF ToldInv, TypesInv, ConfigsInv
  <2>5. CASE \/ ServerCmdTopoSubscribe(r) \/ ServerCmdTopoUnsubscribe(r)
             \/ ServerCmdModuleSpecificCommand(r) \/ ServerUnknown(r)
    <3>1. UNCHANGED <<modules, told, subscribes>>
      BY <2>5 DEF ServerCmdTopoSubscribe, ServerCmdTopoUnsubscribe,
                  ServerCmdModuleSpecificCommand, ServerUnknown, subs
    <3>2. \/ pending' = pending
          \/ pending' = pending \cup {r} /\ Kind[r] = "module_specific_command"
      BY <2>5 DEF ServerCmdTopoSubscribe, ServerCmdTopoUnsubscribe,
                  ServerCmdModuleSpecificCommand, ServerUnknown, Takes
    <3> QED BY <3>1, <3>2, ToldKept DEF ToldInv, TypesInv
  <2> QED
    BY <1>6, <2>2, <2>3, <2>4, <2>5, SetConfigStep, DeleteStep DEF Request
<1>7. ASSUME NEW r \in Requests, CmdOk(r) \/ CmdError(r) PROVE ToldInv'
  <2>1. UNCHANGED <<modules, told, subscribes>> /\ pending' \subseteq pending
    BY <1>7 DEF CmdOk, CmdError, subs
  <2> QED BY <2>1, ToldKept DEF ToldInv, TypesInv
<1>8. ASSUME NEW a \in Live,
             InputsChanged(a) \/ \E active \in BOOLEAN : StateChanged(a, active)
      PROVE  ToldInv'
  BY <1>8, EventStep
<1> QED
  BY <1>1, <1>2, <1>3, <1>4, <1>5, <1>6, <1>7, <1>8 DEF Next

\* A client that subscribed to a module and knew its state once knows its state still, for
\* any number of clients and modules, if every module answers module_set_config and those
\* requests parse: a refused one leaves an object that nobody hears of (sendModuleInfo,
\* serverCmdModuleSetConfig).
THEOREM Informed ==
    ASSUME SilentAddr = {}, \A q \in Malformed : Kind[q] # "module_set_config"
    PROVE  Spec => []SubscribersUpToDate
<1>1. Init => SendersInv
  BY DEF Init, SendersInv
<1>2. Init => SubsInv
  BY DEF Init, SubsInv, SubscribedAsTold
<1>3. Init => ToldInv
  BY DEF Init, ToldInv, TypesInv, ConfigsInv, Knows
<1>4. LinesInv /\ SendersInv /\ SubsInv /\ ToldInv /\ [Next]_vars => ToldInv'
  BY ToldInvNext
<1>5. LinesInv /\ ToldInv => SubscribersUpToDate
  BY DEF LinesInv, ToldInv, Knows, SubscribersUpToDate
<1> QED
  BY <1>1, <1>2, <1>3, <1>4, <1>5, LinesInvInit, LinesInvNext, SendersInvNext, SubsInvNext,
     PTL DEF Spec
=============================================================================
