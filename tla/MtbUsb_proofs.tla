--------------------------- MODULE MtbUsb_proofs ----------------------------
(***************************************************************************)
(* Proofs about MtbUsb for any set of commands and any limits: the         *)
(* invariants of the queues, and that they implement CmdService; then, on  *)
(* a serial line (MtbUsbLink), that answers without numbers reach the      *)
(* right callbacks as long as no command times out, because commands with  *)
(* the same answers are pending in the order in which they and their       *)
(* answers are on the line.                                                *)
(***************************************************************************)
EXTENDS MtbUsbLink, SequenceFacts

-----------------------------------------------------------------------------
(* The queues *)

ConflictFree(q) == \A i, j \in DOMAIN q : i # j => ~Conflict(q[i], q[j])

\* What every handler relies on about the two queues.
Sound(p, o) ==
    /\ p \in Seq(Cmds) /\ o \in Seq(Cmds)
    /\ IsInjective(p) /\ IsInjective(o)
    /\ ToSet(p) \cap ToSet(o) = {}
    /\ Len(p) <= MAX_PENDING
    /\ ConflictFree(p)

\* Without repetitions, freedom of conflicts is a property of the set.
LEMMA ConflictFreeSet ==
    ASSUME NEW q \in Seq(Cmds), IsInjective(q)
    PROVE  ConflictFree(q) <=>
             \A c, d \in ToSet(q) : c # d => ~Conflict(c, d)
<1>2. ASSUME ConflictFree(q), NEW c \in ToSet(q), NEW d \in ToSet(q), c # d
      PROVE  ~Conflict(c, d)
  <2>1. PICK i \in DOMAIN q, j \in DOMAIN q : c = q[i] /\ d = q[j]
    BY DEF ToSet
  <2>. QED  BY <1>2, <2>1 DEF ConflictFree
<1>3. ASSUME \A c, d \in ToSet(q) : c # d => ~Conflict(c, d),
             NEW i \in DOMAIN q, NEW j \in DOMAIN q, i # j
      PROVE  ~Conflict(q[i], q[j])
  <2>1. q[i] \in ToSet(q) /\ q[j] \in ToSet(q) /\ q[i] # q[j]
    BY <1>3, Zenon DEF ToSet, IsInjective
  <2>. QED  BY <1>3, <2>1
<1>. QED  BY <1>2, <1>3, Zenon DEF ConflictFree

\* The command goes to exactly one queue; pending stays within its limit and
\* free of conflicts, and the command waits in out only if it must.
LEMMA DispatchFacts ==
    ASSUME NEW p, NEW o, NEW c \in Cmds, NEW b \in BOOLEAN,
           Sound(p, o), c \notin ToSet(p), c \notin ToSet(o),
           no_sent \in [Cmds -> 0 .. RESEND_MAX],
           b \/ o = <<>> \/ p # <<>>,
           Dispatch(c, p, o, b)
    PROVE  /\ Sound(m_pending', m_out')
           /\ ToSet(m_pending') \cup ToSet(m_out') = ToSet(p) \cup ToSet(o) \cup {c}
           /\ m_pending' # <<>>
           /\ ToSet(p) \subseteq ToSet(m_pending')
           /\ no_sent' \in [Cmds -> 0 .. RESEND_MAX]
           /\ \A d \in Cmds : d # c => no_sent'[d] = no_sent[d]
<1>1. p \in Seq(Cmds) /\ o \in Seq(Cmds)
  BY DEF Sound
<1>2. CASE MustWait(c, p, o, b)
  <2>1. m_pending' = p /\ m_out' = Append(o, c) /\ no_sent' = no_sent
    BY <1>2 DEF Dispatch
  <2>2. p # <<>>
    <3>1. CASE Len(p) >= MAX_PENDING
      BY <1>1, <3>1, MtbUsbAssumption
    <3>2. CASE o # <<>> /\ ~b
      BY <3>2
    <3>3. CASE ConflictIn(c, p)
      BY <1>1, <3>3 DEF ConflictIn, ToSet
    <3>. QED  BY <1>2, <3>1, <3>2, <3>3 DEF MustWait
  <2>3. Sound(p, Append(o, c)) /\ ToSet(Append(o, c)) = ToSet(o) \cup {c}
    <3>1. /\ Append(o, c) \in Seq(Cmds)
          /\ ToSet(Append(o, c)) = ToSet(o) \cup {c}
          /\ IsInjective(o) /\ c \notin ToSet(o) => IsInjective(Append(o, c))
      BY <1>1, AppendFacts
    <3>. QED  BY <1>1, <3>1 DEF Sound
  <2>. QED  BY <2>1, <2>2, <2>3
<1>3. CASE ~MustWait(c, p, o, b)
  <2>1. /\ m_pending' = Append(p, c) /\ m_out' = o
        /\ no_sent' = [no_sent EXCEPT ![c] = 1]
    BY <1>3 DEF Dispatch
  <2>2. /\ Append(p, c) \in Seq(Cmds)
        /\ Append(p, c) # <<>>
        /\ Len(Append(p, c)) = Len(p) + 1
        /\ ToSet(Append(p, c)) = ToSet(p) \cup {c}
        /\ IsInjective(Append(p, c))
    <3>1. /\ Append(p, c) \in Seq(Cmds)
          /\ Append(p, c) # <<>>
          /\ Len(Append(p, c)) = Len(p) + 1
          /\ ToSet(Append(p, c)) = ToSet(p) \cup {c}
          /\ IsInjective(p) /\ c \notin ToSet(p) => IsInjective(Append(p, c))
      BY <1>1, AppendFacts
    <3>. QED  BY <3>1 DEF Sound
  <2>3. Len(p) < MAX_PENDING /\ \A d \in ToSet(p) : ~Conflict(c, d)
    BY <1>1, <1>3, MtbUsbAssumption DEF MustWait, ConflictIn
  <2>4. ConflictFree(Append(p, c))
    <3>1. \A d, e \in ToSet(p) : d # e => ~Conflict(d, e)
      BY <1>1, ConflictFreeSet, Zenon DEF Sound
    <3>2. \A d, e \in ToSet(Append(p, c)) : d # e => ~Conflict(d, e)
      BY <2>2, <2>3, <3>1 DEF Conflict
    <3>. QED  BY <2>2, <3>2, ConflictFreeSet, Zenon
  <2>5. Len(Append(p, c)) <= MAX_PENDING
    BY <1>1, <2>2, <2>3, MtbUsbAssumption
  <2>6. Sound(Append(p, c), o)
    BY <1>1, <2>2, <2>4, <2>5, Zenon DEF Sound
  <2>7. /\ no_sent' \in [Cmds -> 0 .. RESEND_MAX]
        /\ \A d \in Cmds : d # c => no_sent'[d] = no_sent[d]
    BY <2>1, MtbUsbAssumption
  <2>. QED  BY <2>1, <2>2, <2>6, <2>7, Zenon
<1>. QED  BY <1>2, <1>3, Zenon

\* After one round of sendNextOut nothing is lost, and if something is left in
\* m_out then something is left in m_pending.
LEMMA SendNextOutFacts ==
    ASSUME NEW p, Sound(p, m_out),
           no_sent \in [Cmds -> 0 .. RESEND_MAX],
           SendNextOut(p)
    PROVE  /\ Sound(m_pending', m_out')
           /\ ToSet(m_pending') \cup ToSet(m_out') = ToSet(p) \cup ToSet(m_out)
           /\ m_out' # <<>> => m_pending' # <<>>
           /\ no_sent' \in [Cmds -> 0 .. RESEND_MAX]
           /\ \A d \in Cmds : d \notin ToSet(m_out) => no_sent'[d] = no_sent[d]
<1>1. CASE m_out = <<>>
  BY <1>1, Zenon DEF SendNextOut
<1>2. CASE m_out # <<>>
  <2> DEFINE h == Head(m_out)
             t == Tail(m_out)
  <2>1. /\ h \in Cmds /\ h \in ToSet(m_out)
        /\ t \in Seq(Cmds) /\ IsInjective(t)
        /\ ToSet(t) = ToSet(m_out) \ {h}
    BY <1>2, TailFacts, Zenon DEF Sound
  <2>2. Sound(p, t) /\ h \notin ToSet(p) /\ h \notin ToSet(t)
    BY <2>1 DEF Sound
  <2>3. Dispatch(h, p, t, TRUE)
    BY <1>2 DEF SendNextOut
  <2> HIDE DEF h, t
  <2>4. /\ Sound(m_pending', m_out')
        /\ ToSet(m_pending') \cup ToSet(m_out') = ToSet(p) \cup ToSet(t) \cup {h}
        /\ m_pending' # <<>>
        /\ no_sent' \in [Cmds -> 0 .. RESEND_MAX]
        /\ \A d \in Cmds : d # h => no_sent'[d] = no_sent[d]
    BY <2>1, <2>2, <2>3, DispatchFacts, Zenon
  <2>. QED  BY <2>1, <2>4, Zenon
<1>. QED  BY <1>1, <1>2

-----------------------------------------------------------------------------
(* The inductive invariant *)

Queued == \A c \in Cmds :
             status[c] = "waiting" <=> c \in ToSet(m_pending) \cup ToSet(m_out)

\* The command whose callback is running, and where it is.
CallbackOK ==
    /\ pc = "idle" => cur = "none"
    /\ pc = "ok" => open /\ cur \in ToSet(m_pending)
    /\ InError => open /\ cur \in Cmds
    /\ pc = "close" => open /\ cur = "none"

\* m_out waits for nothing only after a stall, and once stalled it is never
\* empty before the port is closed: so send goes on to put commands there.
StallOK ==
    /\ OnlyThrowsStall
    /\ stalled /\ pc = "idle" => m_out # <<>>

IInv ==
    /\ TypeOK
    /\ Sound(m_pending, m_out)
    /\ Queued
    /\ CallbackOK
    /\ StallOK
    /\ ClosedIsClean
    /\ TimeoutAfterAllAttempts

\* The two forms of "queued exactly once" agree.
LEMMA QueuedOnce == IInv => WaitingIsQueued
<1> SUFFICES ASSUME IInv  PROVE WaitingIsQueued
  OBVIOUS
<1>1. m_pending \in Seq(Cmds) /\ m_out \in Seq(Cmds)
  BY DEF IInv, Sound
<1>2. /\ ToSet(m_pending \o m_out) = ToSet(m_pending) \cup ToSet(m_out)
      /\ IsInjective(m_pending \o m_out)
  <2>1. /\ IsInjective(m_pending) /\ IsInjective(m_out)
        /\ ToSet(m_pending) \cap ToSet(m_out) = {}
    BY Zenon DEF IInv, Sound
  <2>. QED  BY <1>1, <2>1, ConcatFacts
<1>. QED  BY <1>2, Zenon DEF IInv, Queued, WaitingIsQueued

LEMMA InitIInv == Init => IInv
<1> SUFFICES ASSUME Init  PROVE IInv
  OBVIOUS
<1> USE DEF Init
<1>1. TypeOK
  <2>1. m_pending \in Seq(Cmds) /\ m_out \in Seq(Cmds)
    OBVIOUS
  <2>2. no_sent \in [Cmds -> 0 .. RESEND_MAX]
    BY MtbUsbAssumption
  <2>3. status \in [Cmds -> {"new", "waiting", "ok"} \cup CmdErrors]
    OBVIOUS
  <2>. QED  BY <2>1, <2>2, <2>3 DEF TypeOK
<1>2. Sound(m_pending, m_out)
  BY MtbUsbAssumption DEF Sound, IsInjective, ToSet, ConflictFree
<1>3. Queued
  BY DEF Queued, ToSet
<1>4. CallbackOK /\ StallOK /\ ClosedIsClean
  BY DEF CallbackOK, InError, StallOK, OnlyThrowsStall, ClosedIsClean
<1>5. TimeoutAfterAllAttempts
  BY DEF TimeoutAfterAllAttempts
<1>. QED  BY <1>1, <1>2, <1>3, <1>4, <1>5 DEF IInv

\* A new command is queued, or refused by a closed port.
LEMMA SendStep ==
    ASSUME IInv, NEW c \in Cmds, Send(c)
    PROVE  IInv' /\ (Service!Accept(c) \/ Service!Refuse(c))
<1> USE DEF IInv
<1>1. /\ status[c] = "new" /\ alive
      /\ UNCHANGED <<open, known, pc, cur, stalled>>
  BY DEF Send
<1>2. c \notin ToSet(m_pending) /\ c \notin ToSet(m_out)
  BY <1>1 DEF Queued
<1>3. CASE open
  <2>1. /\ Dispatch(c, m_pending, m_out, FALSE)
        /\ status' = [status EXCEPT ![c] = "waiting"]
        /\ UNCHANGED alive
    BY <1>3 DEF Send
  <2>2. Service!Accept(c)
    BY <1>1, <1>3, <2>1 DEF Service!Accept
  <2>3. CASE m_out = <<>> \/ m_pending # <<>>
    <3>1. /\ Sound(m_pending', m_out')
          /\ ToSet(m_pending') \cup ToSet(m_out')
                = ToSet(m_pending) \cup ToSet(m_out) \cup {c}
          /\ m_pending' # <<>>
          /\ ToSet(m_pending) \subseteq ToSet(m_pending')
          /\ no_sent' \in [Cmds -> 0 .. RESEND_MAX]
          /\ \A d \in Cmds : d # c => no_sent'[d] = no_sent[d]
      <4>1. no_sent \in [Cmds -> 0 .. RESEND_MAX] /\ FALSE \in BOOLEAN
        BY Zenon DEF TypeOK
      <4>2. Dispatch(c, m_pending, m_out, FALSE)
        BY <2>1, Zenon
      <4>. QED  BY <1>2, <2>3, <4>1, <4>2, DispatchFacts, Zenon
    <3>2. TypeOK'
      BY <1>1, <2>1, <3>1 DEF TypeOK, Sound
    <3>3. Queued'
      BY <2>1, <3>1 DEF Queued, TypeOK
    <3>6. ~stalled
      <4>1. pc = "idle" \/ CallbackRuns
        BY Zenon DEF Send
      <4>2. ASSUME stalled, pc = "idle"  PROVE FALSE
        BY <2>3, <4>2 DEF StallOK, OnlyThrowsStall
      <4>3. ASSUME stalled, CallbackRuns  PROVE FALSE
        BY <2>3, <4>3 DEF StallOK, OnlyThrowsStall, CallbackRuns, InError
      <4>. QED  BY <4>1, <4>2, <4>3
    <3>4. CallbackOK' /\ StallOK' /\ ClosedIsClean'
      BY <1>1, <1>3, <3>1, <3>6 DEF CallbackOK, InError, StallOK,
                                    OnlyThrowsStall, ClosedIsClean
    <3>5. TimeoutAfterAllAttempts'
      BY <2>1, <3>1 DEF TimeoutAfterAllAttempts, TypeOK
    <3>. QED  BY <2>2, <3>1, <3>2, <3>3, <3>4, <3>5
  <2>4. CASE m_out # <<>> /\ m_pending = <<>>
    <3>1. /\ m_pending' = m_pending /\ m_out' = Append(m_out, c)
          /\ no_sent' = no_sent
      BY <2>1, <2>4 DEF Dispatch, MustWait
    <3>2. /\ m_out' \in Seq(Cmds)
          /\ ToSet(m_out') = ToSet(m_out) \cup {c}
          /\ IsInjective(m_out')
      <4>1. /\ Append(m_out, c) \in Seq(Cmds)
            /\ ToSet(Append(m_out, c)) = ToSet(m_out) \cup {c}
            /\ IsInjective(m_out) /\ c \notin ToSet(m_out)
                 => IsInjective(Append(m_out, c))
        BY AppendFacts DEF TypeOK
      <4>. QED  BY <1>2, <3>1, <4>1 DEF Sound
    <3>3. Sound(m_pending', m_out')
      BY <1>2, <3>1, <3>2, Zenon DEF Sound
    <3>4. TypeOK'
      BY <1>1, <2>1, <3>1, <3>2 DEF TypeOK
    <3>5. Queued'
      BY <2>1, <3>1, <3>2 DEF Queued, TypeOK
    <3>6. CallbackOK' /\ StallOK' /\ ClosedIsClean'
      BY <1>1, <1>3, <2>4, <3>1 DEF CallbackOK, InError, StallOK,
                                    OnlyThrowsStall, ClosedIsClean
    <3>7. TimeoutAfterAllAttempts'
      BY <2>1, <3>1 DEF TimeoutAfterAllAttempts, TypeOK
    <3>. QED  BY <2>2, <3>3, <3>4, <3>5, <3>6, <3>7
  <2>. QED  BY <2>3, <2>4
<1>4. CASE ~open
  <2>1. /\ status' = [status EXCEPT ![c] = "SerialPortClosed"]
        /\ alive' = TRUE \/ (c \in Throwing /\ alive' = FALSE)
        /\ UNCHANGED queues
    BY <1>4 DEF Send
  <2>2. TypeOK'
    BY <1>1, <2>1 DEF TypeOK, queues, CmdErrors
  <2>3. Sound(m_pending', m_out') /\ CallbackOK' /\ StallOK' /\ ClosedIsClean'
    BY <1>1, <2>1 DEF CallbackOK, InError, StallOK, OnlyThrowsStall,
                      ClosedIsClean, queues
  <2>4. Queued' /\ TimeoutAfterAllAttempts'
    BY <1>1, <2>1 DEF Queued, TimeoutAfterAllAttempts, TypeOK, queues
  <2>5. Service!Refuse(c)
    BY <1>1, <1>4, <2>1 DEF Service!Refuse
  <2>. QED  BY <2>2, <2>3, <2>4, <2>5
<1>. QED  BY <1>3, <1>4

\* An ok callback starts: only cur, pc and known change.
LEMMA StartOkStep ==
    ASSUME IInv, open, NEW i \in DOMAIN m_pending, StartOk(i),
           known' \subseteq {"info", "modules"}
    PROVE  IInv' /\ UNCHANGED Service!serviceVars
<1> USE DEF IInv
<1>1. /\ pc' = "ok" /\ cur' = m_pending[i]
      /\ UNCHANGED <<open, alive, m_pending, m_out, no_sent, status, stalled>>
  BY DEF StartOk, queues
<1>2. m_pending[i] \in Cmds /\ m_pending[i] \in ToSet(m_pending)
  BY DEF TypeOK, ToSet
<1>3. m_pending # <<>>
  BY DEF TypeOK
<1>4. TypeOK'
  BY <1>1, <1>2 DEF TypeOK
<1>5. Sound(m_pending', m_out') /\ Queued' /\ TimeoutAfterAllAttempts'
  BY <1>1 DEF Queued, TimeoutAfterAllAttempts
<1>6. CallbackOK' /\ StallOK' /\ ClosedIsClean'
  BY <1>1, <1>2, <1>3 DEF CallbackOK, InError, StallOK, OnlyThrowsStall,
                          ClosedIsClean
<1>7. UNCHANGED Service!serviceVars
  BY <1>1 DEF Service!serviceVars
<1>. QED  BY <1>4, <1>5, <1>6, <1>7

LEMMA ReceiveUsbStep ==
    ASSUME IInv, NEW a \in UsbAnswers, ReceiveUsb(a)
    PROVE  IInv' /\ UNCHANGED Service!serviceVars
<1>1. known' \subseteq {"info", "modules"}
  BY DEF ReceiveUsb, IInv, TypeOK, UsbAnswers
<1>2. open
  BY DEF ReceiveUsb
<1>3. CASE \E i \in DOMAIN m_pending : StartOk(i)
  BY <1>1, <1>2, <1>3, StartOkStep
<1>4. CASE UNCHANGED <<open, alive, queues, pc, cur, status, stalled>>
  <2>1. UNCHANGED <<open, alive, m_pending, m_out, no_sent, pc, cur, status,
                    stalled>>
    BY <1>4 DEF queues
  <2>2. TypeOK' /\ Sound(m_pending', m_out') /\ Queued'
    BY <1>1, <2>1 DEF IInv, TypeOK, Queued
  <2>3. CallbackOK' /\ StallOK' /\ ClosedIsClean' /\ TimeoutAfterAllAttempts'
    BY <1>2, <2>1 DEF IInv, CallbackOK, InError, StallOK, OnlyThrowsStall,
                      ClosedIsClean,
                      TimeoutAfterAllAttempts
  <2>. QED  BY <2>1, <2>2, <2>3 DEF IInv, Service!serviceVars
<1>. QED  BY <1>3, <1>4 DEF ReceiveUsb

LEMMA ReceiveBusStep ==
    ASSUME IInv, NEW m \in Modules, NEW a \in BusAnswers, ReceiveBus(m, a)
    PROVE  IInv' /\ UNCHANGED Service!serviceVars
<1>1. open /\ known' \subseteq {"info", "modules"}
  BY DEF ReceiveBus, IInv, TypeOK
<1>2. \E i \in DOMAIN m_pending : StartOk(i)
  BY DEF ReceiveBus
<1>. QED  BY <1>1, <1>2, StartOkStep

\* The answered command leaves m_pending and the next one is written.
LEMMA ReturnOkStep ==
    ASSUME IInv, ReturnOk
    PROVE  IInv' /\ cur \in Cmds /\ Service!Finish(cur, "ok")
<1> USE DEF IInv
<1>1. /\ alive /\ pc = "ok" /\ pc' = "idle" /\ cur' = "none"
      /\ status' = [status EXCEPT ![cur] = "ok"]
      /\ UNCHANGED <<open, alive, known, stalled>>
  BY DEF ReturnOk
<1>2. PICK i \in DOMAIN m_pending :
        m_pending[i] = cur /\ SendNextOut(RemoveAt(m_pending, i))
  BY DEF ReturnOk
<1> DEFINE p == RemoveAt(m_pending, i)
<1>3. /\ cur \in Cmds /\ cur \in ToSet(m_pending)
      /\ p \in Seq(Cmds)
      /\ Len(p) = Len(m_pending) - 1
      /\ ToSet(p) = ToSet(m_pending) \ {cur}
      /\ IsInjective(p)
  BY <1>2, RemoveAtFacts, Zenon DEF Sound
<1> HIDE DEF p
<1>4. open /\ status[cur] = "waiting" /\ ~stalled
  BY <1>1, <1>3 DEF CallbackOK, Queued, StallOK, OnlyThrowsStall
<1>5. Sound(p, m_out)
  <2>1. ConflictFree(p)
    <3>1. \A c, d \in ToSet(m_pending) : c # d => ~Conflict(c, d)
      BY ConflictFreeSet, Zenon DEF Sound
    <3>. QED  BY <1>3, <3>1, ConflictFreeSet, Zenon
  <2>2. Len(p) <= MAX_PENDING
    BY <1>3, MtbUsbAssumption DEF Sound
  <2>. QED  BY <1>3, <2>1, <2>2, Zenon DEF Sound
<1>6. /\ Sound(m_pending', m_out')
      /\ ToSet(m_pending') \cup ToSet(m_out') = ToSet(p) \cup ToSet(m_out)
      /\ m_out' # <<>> => m_pending' # <<>>
      /\ no_sent' \in [Cmds -> 0 .. RESEND_MAX]
      /\ \A d \in Cmds : d \notin ToSet(m_out) => no_sent'[d] = no_sent[d]
  BY <1>2, <1>5, SendNextOutFacts, Zenon DEF p, TypeOK
<1>7. TypeOK'
  BY <1>1, <1>6 DEF TypeOK, Sound
<1>8. Queued'
  <2>1. cur \notin ToSet(m_out)
    BY <1>3 DEF Sound
  <2>. QED  BY <1>1, <1>3, <1>6, <2>1 DEF Queued, TypeOK
<1>9. CallbackOK' /\ StallOK' /\ ClosedIsClean'
  BY <1>1, <1>4, <1>6 DEF CallbackOK, InError, StallOK, OnlyThrowsStall,
                          ClosedIsClean
<1>10. TimeoutAfterAllAttempts'
  BY <1>1, <1>6 DEF TimeoutAfterAllAttempts, Queued, TypeOK
<1>11. Service!Finish(cur, "ok")
  BY <1>1, <1>4 DEF Service!Finish
<1>. QED  BY <1>3, <1>6, <1>7, <1>8, <1>9, <1>10, <1>11

LEMMA AbortOkStep ==
    ASSUME IInv, AbortOk
    PROVE  IInv' /\ UNCHANGED Service!serviceVars
<1> USE DEF IInv
<1>1. /\ pc = "ok" /\ pc' = "idle" /\ cur' = "none"
      /\ UNCHANGED <<open, alive, m_pending, m_out, no_sent, known, status,
                     stalled>>
  BY DEF AbortOk, queues
<1>2. TypeOK' /\ Sound(m_pending', m_out') /\ Queued'
  BY <1>1 DEF TypeOK, Queued
<1>3. CallbackOK' /\ StallOK' /\ ClosedIsClean' /\ TimeoutAfterAllAttempts'
  BY <1>1 DEF CallbackOK, InError, StallOK, OnlyThrowsStall, ClosedIsClean,
              TimeoutAfterAllAttempts
<1>. QED  BY <1>1, <1>2, <1>3 DEF Service!serviceVars

\* A pending command ends with an error code.
LEMMA StartErrorStep ==
    ASSUME IInv, alive, open, NEW i \in DOMAIN m_pending,
           NEW e \in CmdErrors, NEW h \in {"error", "timeout"},
           StartError(i, e, h),
           e = "UsbNoResponse" => no_sent[m_pending[i]] = RESEND_MAX
    PROVE  IInv' /\ m_pending[i] \in Cmds /\ Service!Finish(m_pending[i], e)
<1> USE DEF IInv
<1> DEFINE c == m_pending[i]
           p == RemoveAt(m_pending, i)
<1>1. /\ m_pending' = p
      /\ status' = [status EXCEPT ![c] = e]
      /\ pc' = h /\ cur' = c
      /\ UNCHANGED <<open, alive, m_out, no_sent, known, stalled>>
  BY DEF StartError
<1>2. /\ c \in Cmds /\ c \in ToSet(m_pending)
      /\ p \in Seq(Cmds)
      /\ Len(p) = Len(m_pending) - 1
      /\ ToSet(p) = ToSet(m_pending) \ {c}
      /\ IsInjective(p)
  BY RemoveAtFacts, Zenon DEF Sound
<1>11. e = "UsbNoResponse" => no_sent[c] = RESEND_MAX
  OBVIOUS
<1> HIDE DEF p, c
<1>3. status[c] = "waiting" /\ c \notin ToSet(m_out)
  BY <1>2 DEF Queued, Sound
<1>4. Sound(p, m_out)
  <2>1. ConflictFree(p)
    <3>1. \A d, f \in ToSet(m_pending) : d # f => ~Conflict(d, f)
      BY ConflictFreeSet, Zenon DEF Sound
    <3>. QED  BY <1>2, <3>1, ConflictFreeSet, Zenon
  <2>2. Len(p) <= MAX_PENDING
    BY <1>2, MtbUsbAssumption DEF Sound
  <2>. QED  BY <1>2, <2>1, <2>2, Zenon DEF Sound
<1>5. Sound(m_pending', m_out')
  BY <1>1, <1>4
<1>6. TypeOK'
  BY <1>1, <1>2 DEF TypeOK
<1>7. Queued'
  BY <1>1, <1>2, <1>3 DEF Queued, TypeOK, CmdErrors
<1>8. CallbackOK' /\ StallOK' /\ ClosedIsClean'
  BY <1>1, <1>2 DEF CallbackOK, InError, StallOK, OnlyThrowsStall, ClosedIsClean
<1>9. TimeoutAfterAllAttempts'
  BY <1>1, <1>2, <1>11 DEF TimeoutAfterAllAttempts, TypeOK
<1>10. Service!Finish(c, e)
  BY <1>1, <1>3 DEF Service!Finish
<1>. QED  BY <1>2, <1>5, <1>6, <1>7, <1>8, <1>9, <1>10 DEF c

LEMMA ReceiveNoResponseStep ==
    ASSUME IInv, NEW m \in Modules, NEW b \in BusCodes, ReceiveNoResponse(m, b)
    PROVE  IInv' /\ \E c \in Cmds : Service!Finish(c, "BusNoResponse")
<1>1. PICK i \in DOMAIN m_pending : StartError(i, "BusNoResponse", "error")
  BY DEF ReceiveNoResponse
<1>2. alive /\ open /\ "BusNoResponse" \in CmdErrors
  BY DEF ReceiveNoResponse, Idle, CmdErrors
<1>. QED  BY <1>1, <1>2, StartErrorStep

LEMMA ReceiveBusErrorStep ==
    ASSUME IInv, NEW m \in Modules, ReceiveBusError(m)
    PROVE  IInv' /\ \E c \in Cmds : Service!Finish(c, "BusError")
<1>1. PICK i \in DOMAIN m_pending : StartError(i, "BusError", "error")
  BY DEF ReceiveBusError
<1>2. alive /\ open /\ "BusError" \in CmdErrors
  BY DEF ReceiveBusError, Idle, CmdErrors
<1>. QED  BY <1>1, <1>2, StartErrorStep

\* The front of m_pending gives up, or is written again and goes to the back.
LEMMA PendingTimerTickStep ==
    ASSUME IInv, PendingTimerTick
    PROVE  /\ IInv'
           /\ \/ UNCHANGED Service!serviceVars
              \/ \E c \in Cmds, e \in CmdErrors : Service!Finish(c, e)
<1> USE DEF IInv
<1> DEFINE c == Head(m_pending)
<1>1. alive /\ open /\ m_pending # <<>> /\ m_pending \in Seq(Cmds)
  BY DEF PendingTimerTick, Idle, TypeOK
<1>2. 1 \in DOMAIN m_pending /\ m_pending[1] = c /\ c \in Cmds
  BY <1>1
<1>3. no_sent[c] \in 0 .. RESEND_MAX /\ RESEND_MAX \in Nat
  BY <1>2, MtbUsbAssumption DEF TypeOK
<1> HIDE DEF c
<1>4. CASE Exhausted(c)
  <2>1. StartError(1, "UsbNoResponse", "timeout")
    BY <1>4, Zenon DEF PendingTimerTick, c
  <2>2. no_sent[m_pending[1]] = RESEND_MAX
    BY <1>2, <1>3, <1>4 DEF Exhausted
  <2>3. "UsbNoResponse" \in CmdErrors
    BY DEF CmdErrors
  <2>. QED  BY <1>1, <1>2, <2>1, <2>2, <2>3, StartErrorStep
<1>5. CASE ~Exhausted(c) /\ ConflictIn(c, m_out)
  <2>1. StartError(1, "PendingConflict", "timeout")
    BY <1>5 DEF PendingTimerTick, c
  <2>2. "PendingConflict" \in CmdErrors
    BY DEF CmdErrors
  <2>. QED  BY <1>1, <1>2, <2>1, <2>2, StartErrorStep
<1>6. CASE ~Exhausted(c) /\ ~ConflictIn(c, m_out)
  <2> DEFINE t == Tail(m_pending)
  <2>1. no_sent[c] < RESEND_MAX
    BY <1>3, <1>6 DEF Exhausted
  <2>2. /\ m_pending' = Append(t, c)
        /\ no_sent' = [no_sent EXCEPT ![c] = @ + 1]
        /\ UNCHANGED <<open, alive, m_out, known, pc, cur, status, stalled>>
    BY <1>6 DEF PendingTimerTick, c
  <2>3. /\ c \in ToSet(m_pending)
        /\ t \in Seq(Cmds)
        /\ Len(t) = Len(m_pending) - 1
        /\ ToSet(t) = ToSet(m_pending) \ {c}
        /\ IsInjective(t)
    BY <1>1, TailFacts, Zenon DEF Sound, c
  <2> HIDE DEF t
  <2>4. /\ Append(t, c) \in Seq(Cmds)
        /\ Append(t, c) # <<>>
        /\ Len(Append(t, c)) = Len(t) + 1
        /\ ToSet(Append(t, c)) = ToSet(t) \cup {c}
        /\ IsInjective(t) /\ c \notin ToSet(t) => IsInjective(Append(t, c))
    BY <1>2, <2>3, AppendFacts
  <2>5. /\ m_pending' \in Seq(Cmds)
        /\ m_pending' # <<>>
        /\ Len(m_pending') = Len(m_pending)
        /\ ToSet(m_pending') = ToSet(m_pending)
        /\ IsInjective(m_pending')
    <3>1. Len(m_pending) - 1 + 1 = Len(m_pending)
      BY <1>1
    <3>. QED  BY <2>2, <2>3, <2>4, <3>1
  <2>6. ConflictFree(m_pending')
    <3>1. \A d, f \in ToSet(m_pending) : d # f => ~Conflict(d, f)
      BY <1>1, ConflictFreeSet, Zenon DEF Sound
    <3>. QED  BY <2>5, <3>1, ConflictFreeSet, Zenon
  <2>7. Sound(m_pending', m_out')
    BY <2>2, <2>5, <2>6 DEF Sound
  <2>8. no_sent' \in [Cmds -> 0 .. RESEND_MAX]
        /\ \A d \in Cmds : d # c => no_sent'[d] = no_sent[d]
    BY <1>2, <1>3, <2>1, <2>2 DEF TypeOK
  <2>9. TypeOK'
    BY <2>2, <2>5, <2>8 DEF TypeOK
  <2>10. Queued' /\ CallbackOK' /\ StallOK' /\ ClosedIsClean'
    BY <1>1, <2>2, <2>5 DEF Queued, CallbackOK, InError, StallOK,
                            OnlyThrowsStall, ClosedIsClean
  <2>11. TimeoutAfterAllAttempts'
    BY <1>2, <2>2, <2>3, <2>8 DEF TimeoutAfterAllAttempts, Queued
  <2>. QED  BY <2>2, <2>7, <2>9, <2>10, <2>11 DEF Service!serviceVars
<1>. QED  BY <1>3, <1>4, <1>5, <1>6

LEMMA ReturnErrorStep ==
    ASSUME IInv, ReturnError
    PROVE  IInv' /\ UNCHANGED Service!serviceVars
<1> USE DEF IInv
<1>1. /\ InError /\ pc' = "idle" /\ cur' = "none"
      /\ SendNextOut(m_pending)
      /\ UNCHANGED <<open, alive, known, status, stalled>>
  BY DEF ReturnError
<1>2. /\ Sound(m_pending', m_out')
      /\ ToSet(m_pending') \cup ToSet(m_out') = ToSet(m_pending) \cup ToSet(m_out)
      /\ m_out' # <<>> => m_pending' # <<>>
      /\ no_sent' \in [Cmds -> 0 .. RESEND_MAX]
      /\ \A d \in Cmds : d \notin ToSet(m_out) => no_sent'[d] = no_sent[d]
  BY <1>1, SendNextOutFacts, Zenon DEF TypeOK
<1>3. TypeOK' /\ Queued'
  BY <1>1, <1>2 DEF TypeOK, Queued, Sound
<1>4. CallbackOK' /\ StallOK' /\ ClosedIsClean'
  BY <1>1, <1>2 DEF CallbackOK, InError, StallOK, OnlyThrowsStall, ClosedIsClean
<1>5. TimeoutAfterAllAttempts'
  BY <1>1, <1>2 DEF TimeoutAfterAllAttempts, Queued, TypeOK
<1>. QED  BY <1>1, <1>2, <1>3, <1>4, <1>5 DEF Service!serviceVars

\* The place is not filled: m_out waits on if something is pending, or stalls.
LEMMA AbortErrorStep ==
    ASSUME IInv, AbortError
    PROVE  IInv' /\ UNCHANGED Service!serviceVars
<1> USE DEF IInv
<1>1. /\ pc = "error" /\ pc' = "idle" /\ cur' = "none"
      /\ stalled' = (m_pending = <<>> /\ m_out # <<>>)
      /\ UNCHANGED <<open, alive, m_pending, m_out, no_sent, known, status>>
  BY DEF AbortError, queues
<1>2. TypeOK' /\ Sound(m_pending', m_out') /\ Queued'
  BY <1>1 DEF TypeOK, Queued
<1>3. CallbackOK' /\ StallOK' /\ ClosedIsClean' /\ TimeoutAfterAllAttempts'
  BY <1>1 DEF CallbackOK, InError, StallOK, OnlyThrowsStall, ClosedIsClean,
              TimeoutAfterAllAttempts
<1>. QED  BY <1>1, <1>2, <1>3 DEF Service!serviceVars

\* The process ends with its queues as they are.
LEMMA UncaughtStep ==
    ASSUME IInv, Uncaught
    PROVE  IInv' /\ Service!Die
<1> USE DEF IInv
<1>1. /\ alive /\ pc \in {"timeout", "close"} /\ alive' = FALSE
      /\ UNCHANGED <<open, m_pending, m_out, no_sent, known, pc, cur, status,
                     stalled>>
  BY DEF Uncaught, queues
<1>2. open
  BY <1>1 DEF CallbackOK, InError
<1>3. TypeOK' /\ Sound(m_pending', m_out') /\ Queued'
  BY <1>1 DEF TypeOK, Queued
<1>4. CallbackOK' /\ StallOK' /\ ClosedIsClean' /\ TimeoutAfterAllAttempts'
  BY <1>1 DEF CallbackOK, InError, StallOK, OnlyThrowsStall, ClosedIsClean,
              TimeoutAfterAllAttempts
<1>. QED  BY <1>1, <1>2, <1>3, <1>4 DEF Service!Die

LEMMA ConnectStep ==
    ASSUME IInv, Connect
    PROVE  IInv' /\ Service!Open
<1> USE DEF IInv
<1>1. /\ alive /\ pc = "idle" /\ ~open /\ open' = TRUE
      /\ UNCHANGED <<alive, m_pending, m_out, no_sent, known, pc, cur, status,
                     stalled>>
  BY DEF Connect, Idle, queues
<1>2. TypeOK' /\ Sound(m_pending', m_out') /\ Queued'
  BY <1>1 DEF TypeOK, Queued
<1>3. CallbackOK' /\ StallOK' /\ ClosedIsClean' /\ TimeoutAfterAllAttempts'
  BY <1>1 DEF CallbackOK, InError, StallOK, OnlyThrowsStall, ClosedIsClean,
              TimeoutAfterAllAttempts
<1>. QED  BY <1>1, <1>2, <1>3 DEF Service!Open

LEMMA DisconnectStep ==
    ASSUME IInv, Disconnect
    PROVE  IInv' /\ UNCHANGED Service!serviceVars
<1> USE DEF IInv
<1>1. /\ open /\ pc' = "close" /\ cur' = "none"
      /\ pc = "idle" \/ InError
      /\ UNCHANGED <<open, alive, m_pending, m_out, no_sent, known, status,
                     stalled>>
  BY DEF Disconnect, queues
<1>2. TypeOK' /\ Sound(m_pending', m_out') /\ Queued'
  BY <1>1 DEF TypeOK, Queued
<1>3. CallbackOK' /\ StallOK' /\ ClosedIsClean' /\ TimeoutAfterAllAttempts'
  BY <1>1 DEF CallbackOK, InError, StallOK, OnlyThrowsStall, ClosedIsClean,
              TimeoutAfterAllAttempts
<1>. QED  BY <1>1, <1>2, <1>3 DEF Service!serviceVars

\* One round of the closing loops ends the front command or the process.
LEMMA CloseFrontStep ==
    ASSUME IInv, CloseFront
    PROVE  IInv' /\ (Service!Die \/ \E c \in Cmds : Service!Finish(c, "SerialPortClosed"))
<1> USE DEF IInv
<1>1. /\ alive /\ open /\ pc = "close"
      /\ UNCHANGED <<open, known, pc, cur, stalled>>
      /\ m_pending \in Seq(Cmds) /\ m_out \in Seq(Cmds)
  BY DEF CloseFront, CallbackOK, TypeOK
<1>2. m_pending # <<>> \/ m_out # <<>>
  BY DEF CloseFront
<1>3. CASE ClosingFront \in Fatal
  <2>1. alive' = FALSE /\ UNCHANGED <<m_pending, m_out, no_sent, status>>
    BY <1>3 DEF CloseFront, queues
  <2>2. TypeOK' /\ Sound(m_pending', m_out') /\ Queued'
    BY <1>1, <2>1 DEF TypeOK, Queued
  <2>3. CallbackOK' /\ StallOK' /\ ClosedIsClean' /\ TimeoutAfterAllAttempts'
    BY <1>1, <2>1 DEF CallbackOK, InError, StallOK, OnlyThrowsStall,
                      ClosedIsClean, TimeoutAfterAllAttempts
  <2>4. Service!Die
    BY <1>1, <2>1 DEF Service!Die
  <2>. QED  BY <2>1, <2>2, <2>3, <2>4
<1>4. CASE ClosingFront \notin Fatal
  <2> DEFINE c == ClosingFront
  <2>1. /\ m_pending' = IF m_pending # <<>> THEN Tail(m_pending) ELSE <<>>
        /\ m_out' = IF m_pending # <<>> THEN m_out ELSE Tail(m_out)
        /\ status' = [status EXCEPT ![c] = "SerialPortClosed"]
        /\ UNCHANGED <<alive, no_sent>>
    BY <1>4 DEF CloseFront
  <2>2. /\ c \in Cmds
        /\ c \in ToSet(m_pending) \cup ToSet(m_out)
        /\ ToSet(m_pending') \cup ToSet(m_out')
             = (ToSet(m_pending) \cup ToSet(m_out)) \ {c}
        /\ Sound(m_pending', m_out')
    <3>1. CASE m_pending # <<>>
      <4>1. c = Head(m_pending) /\ m_pending' = Tail(m_pending) /\ m_out' = m_out
        BY <2>1, <3>1 DEF ClosingFront
      <4>2. /\ c \in Cmds /\ c \in ToSet(m_pending)
            /\ m_pending' \in Seq(Cmds)
            /\ Len(m_pending') = Len(m_pending) - 1
            /\ ToSet(m_pending') = ToSet(m_pending) \ {c}
            /\ IsInjective(m_pending')
        BY <1>1, <3>1, <4>1, TailFacts, Zenon DEF Sound
      <4>3. ConflictFree(m_pending')
        <5>1. \A d, f \in ToSet(m_pending) : d # f => ~Conflict(d, f)
          BY <1>1, ConflictFreeSet, Zenon DEF Sound
        <5>. QED  BY <4>2, <5>1, ConflictFreeSet, Zenon
      <4>4. Len(m_pending') <= MAX_PENDING
        BY <1>1, <4>2, MtbUsbAssumption DEF Sound
      <4>. QED  BY <4>1, <4>2, <4>3, <4>4 DEF Sound
    <3>2. CASE m_pending = <<>>
      <4>1. c = Head(m_out) /\ m_pending' = m_pending /\ m_out' = Tail(m_out)
        BY <2>1, <3>2 DEF ClosingFront
      <4>2. /\ c \in Cmds /\ c \in ToSet(m_out)
            /\ m_out' \in Seq(Cmds)
            /\ ToSet(m_out') = ToSet(m_out) \ {c}
            /\ IsInjective(m_out')
        BY <1>1, <1>2, <3>2, <4>1, TailFacts, Zenon DEF Sound
      <4>. QED  BY <4>1, <4>2, Zenon DEF Sound
    <3>. QED  BY <3>1, <3>2
  <2> HIDE DEF c
  <2>3. status[c] = "waiting"
    BY <2>2 DEF Queued
  <2>4. TypeOK'
    BY <1>1, <2>1, <2>2 DEF TypeOK, Sound, CmdErrors
  <2>5. Queued'
    BY <2>1, <2>2 DEF Queued, TypeOK
  <2>6. CallbackOK' /\ StallOK' /\ ClosedIsClean'
    BY <1>1, <2>1 DEF CallbackOK, InError, StallOK, OnlyThrowsStall, ClosedIsClean
  <2>7. TimeoutAfterAllAttempts'
    BY <2>1, <2>2 DEF TimeoutAfterAllAttempts, TypeOK
  <2>8. Service!Finish(c, "SerialPortClosed")
    BY <1>1, <2>1, <2>3 DEF Service!Finish
  <2>. QED  BY <2>2, <2>4, <2>5, <2>6, <2>7, <2>8
<1>. QED  BY <1>3, <1>4

LEMMA ClosedStep ==
    ASSUME IInv, Closed
    PROVE  IInv' /\ Service!Close
<1> USE DEF IInv
<1>1. /\ alive /\ open /\ pc = "close" /\ m_pending = <<>> /\ m_out = <<>>
      /\ open' = FALSE /\ known' = {} /\ pc' = "idle" /\ stalled' = FALSE
      /\ UNCHANGED <<alive, m_pending, m_out, no_sent, cur, status>>
  BY DEF Closed, queues, CallbackOK
<1>2. \A c \in Cmds : status[c] # "waiting"
  BY <1>1 DEF Queued, ToSet
<1>3. TypeOK' /\ Sound(m_pending', m_out') /\ Queued'
  BY <1>1 DEF TypeOK, Queued
<1>4. CallbackOK' /\ StallOK' /\ ClosedIsClean' /\ TimeoutAfterAllAttempts'
  BY <1>1 DEF CallbackOK, InError, StallOK, OnlyThrowsStall, ClosedIsClean,
              TimeoutAfterAllAttempts
<1>. QED  BY <1>1, <1>2, <1>3, <1>4 DEF Service!Close

LEMMA StutterStep ==
    ASSUME IInv, UNCHANGED vars
    PROVE  IInv' /\ UNCHANGED Service!serviceVars
<1>1. UNCHANGED <<open, alive, m_pending, m_out, no_sent, known, pc, cur, status,
                  stalled>>
  BY DEF vars
<1>2. TypeOK' /\ Sound(m_pending', m_out') /\ Queued'
  BY <1>1 DEF IInv, TypeOK, Queued
<1>3. CallbackOK' /\ StallOK' /\ ClosedIsClean' /\ TimeoutAfterAllAttempts'
  BY <1>1 DEF IInv, CallbackOK, InError, StallOK, OnlyThrowsStall,
              ClosedIsClean, TimeoutAfterAllAttempts
<1>. QED  BY <1>1, <1>2, <1>3 DEF IInv, Service!serviceVars

-----------------------------------------------------------------------------
(* Theorems *)

\* Every step keeps the invariant and is a step of the service or a stutter.
LEMMA NextStep ==
    ASSUME IInv, [Next]_vars
    PROVE  IInv' /\ [Service!Next]_Service!serviceVars
<1>1. CASE \E c \in Cmds : Send(c)
  BY <1>1, SendStep DEF Service!Next
<1>2. CASE \E a \in UsbAnswers : ReceiveUsb(a)
  BY <1>2, ReceiveUsbStep
<1>3. CASE \E m \in Modules, a \in BusAnswers : ReceiveBus(m, a)
  BY <1>3, ReceiveBusStep
<1>4. CASE \E m \in Modules, b \in BusCodes : ReceiveNoResponse(m, b)
  BY <1>4, ReceiveNoResponseStep DEF Service!Next, CmdErrors
<1>5. CASE \E m \in Modules : ReceiveBusError(m)
  BY <1>5, ReceiveBusErrorStep DEF Service!Next, CmdErrors
<1>6. CASE PendingTimerTick
  BY <1>6, PendingTimerTickStep DEF Service!Next
<1>7. CASE Connect
  BY <1>7, ConnectStep DEF Service!Next
<1>8. CASE Disconnect
  BY <1>8, DisconnectStep
<1>9. CASE ReturnOk
  BY <1>9, ReturnOkStep DEF Service!Next
<1>10. CASE AbortOk
  BY <1>10, AbortOkStep
<1>11. CASE ReturnError
  BY <1>11, ReturnErrorStep
<1>12. CASE CloseFront
  BY <1>12, CloseFrontStep DEF Service!Next, CmdErrors
<1>13. CASE Closed
  BY <1>13, ClosedStep DEF Service!Next
<1>15. CASE AbortError
  BY <1>15, AbortErrorStep
<1>16. CASE Uncaught
  BY <1>16, UncaughtStep DEF Service!Next
<1>14. CASE Dead \/ UNCHANGED vars
  BY <1>14, StutterStep DEF Dead
<1>. QED  BY <1>1, <1>2, <1>3, <1>4, <1>5, <1>6, <1>7, <1>8, <1>9, <1>10,
             <1>11, <1>12, <1>13, <1>14, <1>15, <1>16 DEF Next, Handler, Continue

\* The inductive invariant holds in every reachable state.
THEOREM Invariance == Spec => []IInv
<1>1. Init => IInv
  BY InitIInv
<1>2. IInv /\ [Next]_vars => IInv'
  BY NextStep
<1>. QED  BY <1>1, <1>2, PTL DEF Spec

\* The variables keep their types, for any commands and limits.
THEOREM TypeCorrect == Spec => []TypeOK
<1>1. IInv => TypeOK
  BY DEF IInv
<1>. QED  BY <1>1, Invariance, PTL

\* At most MAX_PENDING commands are on the wire and no two are in conflict,
\* whatever the callbacks send and whatever is resent.
THEOREM PendingSafe == Spec => []PendingSound
<1>1. IInv => PendingSound
  BY DEF IInv, Sound, ConflictFree, PendingSound
<1>. QED  BY <1>1, Invariance, PTL

\* No command is lost or doubled by the moves between the queues, by callbacks
\* that send, by exceptions of callbacks or by a closing port.
THEOREM NothingLost == Spec => []WaitingIsQueued
<1>1. IInv => WaitingIsQueued
  BY QueuedOnce
<1>. QED  BY <1>1, Invariance, PTL

\* m_out is left with nothing pending only by an error callback that threw while
\* a message was parsed (spHandleReadyRead goes on, and sendNextOut is skipped),
\* and then stays so until the port is closed.
THEOREM StallsByThrowOnly == Spec => []OnlyThrowsStall
<1>1. IInv => OnlyThrowsStall
  BY DEF IInv, StallOK
<1>. QED  BY <1>1, Invariance, PTL

\* Nothing of a connection survives it (spAboutToClose), however it was closed.
THEOREM ClosedClean == Spec => []ClosedIsClean
<1>1. IInv => ClosedIsClean
  BY DEF IInv
<1>. QED  BY <1>1, Invariance, PTL

\* "No response" means that the command was written in all its attempts
\* (pendingTimerTick, pendingResend).
THEOREM Patient == Spec => []TimeoutAfterAllAttempts
<1>1. IInv => TimeoutAfterAllAttempts
  BY DEF IInv
<1>. QED  BY <1>1, Invariance, PTL

\* The queues implement the service that the callers see.
THEOREM Refinement == Spec => ImplementsService
<1>1. Init => Service!Init
  BY DEF Init, Service!Init
<1>2. IInv /\ [Next]_vars => [Service!Next]_Service!serviceVars
  BY NextStep
<1>. QED  BY <1>1, <1>2, Invariance, PTL DEF Spec, ImplementsService, Service!Spec

-----------------------------------------------------------------------------
(* Order in sequences *)

Before(q, c, d) == \E i, j \in DOMAIN q : i < j /\ q[i] = c /\ q[j] = d

Once(q, c) == \A i, j \in DOMAIN q : q[i] = c /\ q[j] = c => i = j

\* Tail is the removal of the first element.
LEMMA TailIsRemoveAt ==
    ASSUME NEW S, NEW q \in Seq(S), q # <<>>
    PROVE  1 \in DOMAIN q /\ Head(q) = q[1] /\ Tail(q) = RemoveAt(q, 1)
<1>1. /\ 1 \in DOMAIN q /\ Len(q) \in Nat \ {0} /\ Head(q) = q[1]
      /\ Tail(q) \in Seq(S) /\ Len(Tail(q)) = Len(q) - 1
      /\ \A j \in 1 .. (Len(q) - 1) : Tail(q)[j] = q[j + 1]
  OBVIOUS
<1>2. /\ RemoveAt(q, 1) \in Seq(S)
      /\ Len(RemoveAt(q, 1)) = Len(q) - 1
      /\ \A j \in 1 .. (Len(q) - 1) : RemoveAt(q, 1)[j] = q[j + 1]
  <2>1. /\ RemoveAt(q, 1) \in Seq(S)
        /\ Len(RemoveAt(q, 1)) = Len(q) - 1
        /\ \A j \in 1 .. (Len(q) - 1) :
              RemoveAt(q, 1)[j] = IF j < 1 THEN q[j] ELSE q[j + 1]
    BY <1>1, RemoveAtPlaces, Zenon
  <2>. QED  BY <2>1
<1>. QED  BY <1>1, <1>2

\* What removing an element does to the others, and to itself if it was there once.
LEMMA RemoveAtOrder ==
    ASSUME NEW S, NEW q \in Seq(S), NEW i \in DOMAIN q
    PROVE  /\ \A c : c # q[i] => (c \in ToSet(RemoveAt(q, i)) <=> c \in ToSet(q))
           /\ Once(q, q[i]) => q[i] \notin ToSet(RemoveAt(q, i))
           /\ \A c : Once(q, c) => Once(RemoveAt(q, i), c)
           /\ \A c, d : Before(RemoveAt(q, i), c, d) => Before(q, c, d)
           /\ \A c, d : c # q[i] /\ d # q[i] /\ Before(q, c, d) =>
                           Before(RemoveAt(q, i), c, d)
           /\ \A c : c \in ToSet(RemoveAt(q, i)) =>
                        \E j \in DOMAIN q : j # i /\ q[j] = c
<1> DEFINE r == RemoveAt(q, i)
           n == Len(q)
           to(j) == IF j < i THEN j ELSE j + 1
           from(j) == IF j < i THEN j ELSE j - 1
<1>0. n \in Nat \ {0} /\ i \in 1 .. n
  OBVIOUS
<1>1. /\ DOMAIN q = 1 .. n
      /\ DOMAIN r = 1 .. (n - 1)
      /\ \A j \in 1 .. (n - 1) : r[j] = IF j < i THEN q[j] ELSE q[j + 1]
  BY RemoveAtPlaces
<1> HIDE DEF r, n
<1>2. ASSUME NEW j \in 1 .. (n - 1)
      PROVE  to(j) \in 1 .. n /\ to(j) # i /\ r[j] = q[to(j)]
  BY <1>0, <1>1
<1>3. ASSUME NEW j \in 1 .. (n - 1), NEW k \in 1 .. (n - 1)
      PROVE  /\ j < k => to(j) < to(k)
             /\ to(j) = to(k) => j = k
  BY <1>0
<1>4. ASSUME NEW j \in 1 .. n, j # i
      PROVE  from(j) \in 1 .. (n - 1) /\ to(from(j)) = j
  BY <1>0, <1>4
<1>5. ASSUME NEW j \in 1 .. n, NEW k \in 1 .. n, j # i, k # i, j < k
      PROVE  from(j) < from(k)
  BY <1>0, <1>5
<1> HIDE DEF to, from
<1>6. ASSUME NEW j \in 1 .. n, j # i
      PROVE  from(j) \in 1 .. (n - 1) /\ r[from(j)] = q[j]
  BY <1>2, <1>4, <1>6
<1>7. ASSUME NEW c, c \in ToSet(r)
      PROVE  \E j \in DOMAIN q : j # i /\ q[j] = c
  <2>1. PICK k \in 1 .. (n - 1) : c = r[k]
    BY <1>1, <1>7 DEF ToSet
  <2>. QED  BY <1>1, <1>2, <2>1
<1>8. ASSUME NEW c, c # q[i], c \in ToSet(q)
      PROVE  c \in ToSet(r)
  <2>1. PICK j \in 1 .. n : c = q[j]
    BY <1>1, <1>8 DEF ToSet
  <2>2. j # i
    BY <1>8, <2>1
  <2>3. from(j) \in DOMAIN r /\ r[from(j)] = c
    BY <1>1, <1>6, <2>1, <2>2
  <2>. QED  BY <2>3 DEF ToSet
<1>9. ASSUME Once(q, q[i])  PROVE q[i] \notin ToSet(r)
  BY <1>7, <1>9, <1>1, <1>0 DEF Once
<1>10. ASSUME NEW c, Once(q, c)  PROVE Once(r, c)
  <2> SUFFICES ASSUME NEW j \in 1 .. (n - 1), NEW k \in 1 .. (n - 1), r[j] = c, r[k] = c
               PROVE  j = k
    BY <1>1 DEF Once
  <2>1. q[to(j)] = c /\ q[to(k)] = c /\ to(j) \in DOMAIN q /\ to(k) \in DOMAIN q
    BY <1>1, <1>2
  <2>2. to(j) = to(k)
    BY <1>10, <2>1 DEF Once
  <2>. QED  BY <1>3, <2>2
<1>11. ASSUME NEW c, NEW d, Before(r, c, d)  PROVE Before(q, c, d)
  <2>1. PICK j \in 1 .. (n - 1), k \in 1 .. (n - 1) : j < k /\ r[j] = c /\ r[k] = d
    BY <1>1, <1>11 DEF Before
  <2>2. /\ to(j) \in DOMAIN q /\ to(k) \in DOMAIN q /\ to(j) < to(k)
        /\ q[to(j)] = c /\ q[to(k)] = d
    BY <1>1, <1>2, <1>3, <2>1
  <2>. QED  BY <2>2 DEF Before
<1>12. ASSUME NEW c, NEW d, c # q[i], d # q[i], Before(q, c, d)
       PROVE  Before(r, c, d)
  <2>1. PICK j \in 1 .. n, k \in 1 .. n : j < k /\ q[j] = c /\ q[k] = d
    BY <1>1, <1>12 DEF Before
  <2>2. j # i /\ k # i
    BY <1>12, <2>1
  <2>3. /\ from(j) \in DOMAIN r /\ from(k) \in DOMAIN r /\ from(j) < from(k)
        /\ r[from(j)] = c /\ r[from(k)] = d
    BY <1>1, <1>5, <1>6, <2>1, <2>2
  <2>. QED  BY <2>3 DEF Before
<1>13. \A c : c # q[i] => (c \in ToSet(r) <=> c \in ToSet(q))
  <2>1. ASSUME NEW c, c \in ToSet(r)  PROVE c \in ToSet(q)
    BY <1>7, <2>1 DEF ToSet
  <2>. QED  BY <1>8, <2>1
<1>. QED  BY <1>7, <1>9, <1>10, <1>11, <1>12, <1>13 DEF r

\* What appending an element does to membership and order.
LEMMA AppendOrder ==
    ASSUME NEW S, NEW q \in Seq(S), NEW x \in S
    PROVE  /\ Append(q, x) \in Seq(S)
           /\ ToSet(Append(q, x)) = ToSet(q) \cup {x}
           /\ \A c : Once(q, c) /\ (c = x => x \notin ToSet(q)) => Once(Append(q, x), c)
           /\ \A c, d : Before(Append(q, x), c, d) <=>
                           Before(q, c, d) \/ (c \in ToSet(q) /\ d = x)
<1> DEFINE r == Append(q, x)
           n == Len(q)
<1>1. /\ n \in Nat /\ DOMAIN q = 1 .. n /\ DOMAIN r = 1 .. (n + 1)
      /\ r \in Seq(S)
      /\ r[n + 1] = x
      /\ \A j \in 1 .. n : r[j] = q[j]
  OBVIOUS
<1>2. ToSet(r) = ToSet(q) \cup {x}
  BY AppendFacts
<1> HIDE DEF r, n
<1>3. ASSUME NEW c, Once(q, c), c = x => x \notin ToSet(q)
      PROVE  Once(r, c)
  BY <1>1, <1>3 DEF Once, ToSet
<1>4. ASSUME NEW c, NEW d, Before(r, c, d)
      PROVE  Before(q, c, d) \/ (c \in ToSet(q) /\ d = x)
  <2>1. PICK j \in 1 .. (n + 1), k \in 1 .. (n + 1) : j < k /\ r[j] = c /\ r[k] = d
    BY <1>1, <1>4 DEF Before
  <2>2. j \in 1 .. n /\ c \in ToSet(q)
    BY <1>1, <2>1 DEF ToSet
  <2>3. CASE k \in 1 .. n
    BY <1>1, <2>1, <2>2, <2>3 DEF Before
  <2>4. CASE k = n + 1
    BY <1>1, <2>1, <2>2, <2>4
  <2>. QED  BY <1>1, <2>3, <2>4
<1>5. ASSUME NEW c, NEW d, Before(q, c, d)  PROVE Before(r, c, d)
  <2>1. PICK j \in 1 .. n, k \in 1 .. n : j < k /\ q[j] = c /\ q[k] = d
    BY <1>1, <1>5 DEF Before
  <2>2. j \in DOMAIN r /\ k \in DOMAIN r /\ r[j] = c /\ r[k] = d
    BY <1>1, <2>1
  <2>. QED  BY <2>1, <2>2 DEF Before
<1>6. ASSUME NEW c, c \in ToSet(q)  PROVE Before(r, c, x)
  <2>1. PICK j \in 1 .. n : q[j] = c
    BY <1>1, <1>6 DEF ToSet
  <2>2. j \in DOMAIN r /\ n + 1 \in DOMAIN r /\ j < n + 1 /\ r[j] = c /\ r[n + 1] = x
    BY <1>1, <2>1
  <2>. QED  BY <2>2 DEF Before
<1>. QED  BY <1>1, <1>2, <1>3, <1>4, <1>5, <1>6 DEF r

-----------------------------------------------------------------------------
(* The line and m_pending in step *)

\* c comes before d on a line with the answers R and the commands T.
Earlier(R, T, c, d) ==
    \/ Before(R, c, d)
    \/ Before(T, c, d)
    \/ c \in ToSet(R) /\ d \in ToSet(T)

\* Each command of U is on the line exactly while it is pending, except for the
\* one whose ok callback runs, and then once; and commands of U with the same
\* answers are pending in their order on the line.
InStep(P, running, R, T, U) ==
    /\ \A c \in U : c \in ToSet(R) \cup ToSet(T) <=> c \in ToSet(P) /\ c # running
    /\ \A c \in U : c \notin ToSet(R) \cap ToSet(T) /\ Once(R, c) /\ Once(T, c)
    /\ \A c, d \in U : SameAnswer(c, d) /\ Earlier(R, T, c, d) => Before(P, c, d)

LEMMA SameAnswerFacts ==
    /\ \A c, d \in Cmds : SameAnswer(c, d) => SameAnswer(d, c)
    /\ \A c, d, e \in Cmds : SameAnswer(c, d) /\ SameAnswer(d, e) => SameAnswer(c, e)
  BY DEF SameAnswer

\* Fewer commands are looked at.
LEMMA Fewer ==
    ASSUME NEW P, NEW x, NEW R, NEW T, NEW U, NEW V,
           InStep(P, x, R, T, U), V \subseteq U
    PROVE  InStep(P, x, R, T, V)
  BY DEF InStep

\* Which command runs does not matter to those that are not it.
LEMMA Running ==
    ASSUME NEW P, NEW x, NEW y, NEW R, NEW T, NEW U,
           InStep(P, x, R, T, U), x \notin U, y \notin U
    PROVE  InStep(P, y, R, T, U)
  BY DEF InStep

\* A command is written.
LEMMA Write ==
    ASSUME NEW P \in Seq(Cmds), NEW x, NEW R \in Seq(Cmds), NEW T \in Seq(Cmds),
           NEW U \in SUBSET Cmds, NEW c \in Cmds,
           InStep(P, x, R, T, U), c \notin ToSet(P), c # x
    PROVE  InStep(Append(P, c), x, R, Append(T, c), U)
<1> DEFINE Q == Append(P, c)
           W == Append(T, c)
<1>1. /\ ToSet(Q) = ToSet(P) \cup {c}
      /\ \A e, d : Before(Q, e, d) <=> Before(P, e, d) \/ (e \in ToSet(P) /\ d = c)
  BY AppendOrder, Zenon
<1>2. /\ ToSet(W) = ToSet(T) \cup {c}
      /\ \A e : Once(T, e) /\ (e = c => c \notin ToSet(T)) => Once(W, e)
      /\ \A e, d : Before(W, e, d) <=> Before(T, e, d) \/ (e \in ToSet(T) /\ d = c)
  BY AppendOrder
<1> HIDE DEF Q, W
<1>3. \A e \in U : e \in ToSet(R) \cup ToSet(W) <=> e \in ToSet(Q) /\ e # x
  BY <1>1, <1>2 DEF InStep
<1>4. \A e \in U : e \notin ToSet(R) \cap ToSet(W) /\ Once(R, e) /\ Once(W, e)
  BY <1>2 DEF InStep
<1>5. ASSUME NEW e \in U, NEW d \in U, SameAnswer(e, d), Earlier(R, W, e, d)
      PROVE  Before(Q, e, d)
  <2>1. CASE Earlier(R, T, e, d)
    BY <1>1, <1>5, <2>1, Zenon DEF InStep
  <2>2. CASE e \in ToSet(R) \cup ToSet(T) /\ d = c
    BY <1>1, <2>2 DEF InStep
  <2>3. Earlier(R, T, e, d) \/ (e \in ToSet(R) \cup ToSet(T) /\ d = c)
    BY <1>2, <1>5 DEF Earlier
  <2>. QED  BY <2>1, <2>2, <2>3
<1>. QED  BY <1>3, <1>4, <1>5, Zenon DEF InStep, Q, W

\* A command leaves m_pending: the one that runs, or one that is not looked at.
LEMMA Drop ==
    ASSUME NEW P \in Seq(Cmds), NEW x, NEW R, NEW T, NEW U \in SUBSET Cmds,
           NEW i \in DOMAIN P, IsInjective(P), InStep(P, x, R, T, U),
           x \in {"none", P[i]}, P[i] \in U => P[i] = x, "none" \notin U
    PROVE  InStep(RemoveAt(P, i), "none", R, T, U)
<1> DEFINE Q == RemoveAt(P, i)
<1>1. /\ ToSet(Q) = ToSet(P) \ {P[i]}
      /\ \A e, d : e # P[i] /\ d # P[i] /\ Before(P, e, d) => Before(Q, e, d)
  BY RemoveAtFacts, RemoveAtOrder, Zenon
<1> HIDE DEF Q
<1>2. \A e \in U : e \in ToSet(R) \cup ToSet(T) <=> e \in ToSet(Q) /\ e # "none"
  BY <1>1 DEF InStep
<1>3. ASSUME NEW e \in U, NEW d \in U, SameAnswer(e, d), Earlier(R, T, e, d)
      PROVE  Before(Q, e, d)
  <2>1. e \in ToSet(R) \cup ToSet(T) /\ d \in ToSet(R) \cup ToSet(T)
    BY <1>3 DEF Earlier, Before, ToSet
  <2>2. e # P[i] /\ d # P[i]
    BY <2>1 DEF InStep
  <2>. QED  BY <1>1, <1>3, <2>2, Zenon DEF InStep
<1>. QED  BY <1>2, <1>3, Zenon DEF InStep, Q

\* The device answers the first command of its kind.
LEMMA Answered ==
    ASSUME NEW P, NEW x, NEW R \in Seq(Cmds), NEW T \in Seq(Cmds),
           NEW U \in SUBSET Cmds, NEW i \in DOMAIN T,
           InStep(P, x, R, T, U),
           \A j \in 1 .. (i - 1) : ~SameAnswer(T[i], T[j])
    PROVE  InStep(P, x, Append(R, T[i]), RemoveAt(T, i), U)
<1> DEFINE a == T[i]
           W == Append(R, a)
           V == RemoveAt(T, i)
<1>0. a \in Cmds /\ a \in ToSet(T) /\ DOMAIN T \subseteq Int
  BY DEF ToSet
<1>1. /\ ToSet(W) = ToSet(R) \cup {a}
      /\ \A e : Once(R, e) /\ (e = a => a \notin ToSet(R)) => Once(W, e)
      /\ \A e, d : Before(W, e, d) <=> Before(R, e, d) \/ (e \in ToSet(R) /\ d = a)
  BY <1>0, AppendOrder, Zenon
<1>2. /\ \A e : e # a => (e \in ToSet(V) <=> e \in ToSet(T))
      /\ Once(T, a) => a \notin ToSet(V)
      /\ \A e : Once(T, e) => Once(V, e)
      /\ \A e, d : Before(V, e, d) => Before(T, e, d)
      /\ \A e : e \in ToSet(V) => \E j \in DOMAIN T : j # i /\ T[j] = e
  BY RemoveAtOrder, Zenon
<1>3. \A j \in DOMAIN T : j < i => ~SameAnswer(a, T[j])
  BY <1>0
<1> HIDE DEF W, V
<1>4. \A e \in U : e \in ToSet(W) \cup ToSet(V) <=> e \in ToSet(R) \cup ToSet(T)
  BY <1>0, <1>1, <1>2
<1>5. \A e \in U : e \notin ToSet(W) \cap ToSet(V) /\ Once(W, e) /\ Once(V, e)
  BY <1>0, <1>1, <1>2 DEF InStep
<1>6. ASSUME NEW e \in U, NEW d \in U, SameAnswer(e, d), Earlier(W, V, e, d)
      PROVE  Earlier(R, T, e, d)
  <2>1. CASE Before(W, e, d)
    BY <1>0, <1>1, <2>1 DEF Earlier
  <2>2. CASE Before(V, e, d)
    BY <1>2, <2>2, Zenon DEF Earlier
  <2>3. CASE e \in ToSet(W) /\ d \in ToSet(V)
    <3>1. PICK j \in DOMAIN T : j # i /\ T[j] = d
      BY <1>2, <2>3
    <3>2. CASE e = a
      <4>1. ~(j < i)
        BY <1>3, <1>6, <3>1, <3>2
      <4>2. i < j
        BY <1>0, <3>1, <4>1
      <4>. QED  BY <3>1, <3>2, <4>2 DEF Earlier, Before
    <3>3. CASE e \in ToSet(R)
      BY <3>1, <3>3 DEF Earlier, ToSet
    <3>. QED  BY <1>1, <2>3, <3>2, <3>3
  <2>. QED  BY <1>6, <2>1, <2>2, <2>3 DEF Earlier
<1> HIDE DEF a
<1>. QED  BY <1>4, <1>5, <1>6, Zenon DEF InStep, W, V, a

\* An answer is taken from the line: its command, if looked at, counts as running.
LEMMA Taken ==
    ASSUME NEW P, NEW R \in Seq(Cmds), NEW T, NEW U \in SUBSET Cmds,
           R # <<>>, InStep(P, "none", R, T, U), "none" \notin U
    PROVE  InStep(P, Head(R), Tail(R), T, U)
<1> DEFINE c == Head(R)
           Q == Tail(R)
<1>1. 1 \in DOMAIN R /\ c = R[1] /\ Q = RemoveAt(R, 1) /\ c \in ToSet(R)
  BY TailIsRemoveAt DEF ToSet
<1>2. /\ \A e : e # c => (e \in ToSet(Q) <=> e \in ToSet(R))
      /\ Once(R, c) => c \notin ToSet(Q)
      /\ \A e : Once(R, e) => Once(Q, e)
      /\ \A e, d : Before(Q, e, d) => Before(R, e, d)
      /\ \A e : e \in ToSet(Q) => e \in ToSet(R)
  <2>1. /\ \A e : e # R[1] => (e \in ToSet(RemoveAt(R, 1)) <=> e \in ToSet(R))
        /\ Once(R, R[1]) => R[1] \notin ToSet(RemoveAt(R, 1))
        /\ \A e : Once(R, e) => Once(RemoveAt(R, 1), e)
        /\ \A e, d : Before(RemoveAt(R, 1), e, d) => Before(R, e, d)
    BY <1>1, RemoveAtOrder, Zenon
  <2>2. \A e : e \in ToSet(RemoveAt(R, 1)) => e \in ToSet(R)
    BY <1>1, <2>1
  <2>. QED  BY <1>1, <2>1, <2>2, Zenon
<1> HIDE DEF c, Q
<1>3. \A e \in U : e \in ToSet(Q) \cup ToSet(T) <=> e \in ToSet(P) /\ e # c
  BY <1>1, <1>2 DEF InStep
<1>4. \A e \in U : e \notin ToSet(Q) \cap ToSet(T) /\ Once(Q, e) /\ Once(T, e)
  BY <1>2 DEF InStep
<1>5. \A e, d : Earlier(Q, T, e, d) => Earlier(R, T, e, d)
  BY <1>2, Zenon DEF Earlier
<1>. QED  BY <1>3, <1>4, <1>5, Zenon DEF InStep, c, Q

\* The first pending command with the same answers as the answer that comes
\* first is the one that was answered.
LEMMA FirstIsAnswered ==
    ASSUME NEW P \in Seq(Cmds), NEW R \in Seq(Cmds), NEW T, NEW U \in SUBSET Cmds,
           NEW k \in DOMAIN P, R # <<>>, IsInjective(P),
           InStep(P, "none", R, T, U), "none" \notin U,
           Head(R) \in U, P[k] \in U, SameAnswer(Head(R), P[k]),
           \A j \in 1 .. (k - 1) : P[j] # Head(R)
    PROVE  P[k] = Head(R)
<1> DEFINE c == Head(R)
           d == P[k]
<1>1. 1 \in DOMAIN R /\ c = R[1] /\ c \in ToSet(R) /\ DOMAIN R \subseteq Nat \ {0}
  BY DEF ToSet
<1>2. SUFFICES ASSUME d # c  PROVE FALSE
  OBVIOUS
<1>3. d \in ToSet(R) \cup ToSet(T)
  BY DEF InStep, ToSet
<1>4. Earlier(R, T, c, d)
  <2>1. CASE d \in ToSet(T)
    BY <1>1, <2>1 DEF Earlier
  <2>2. CASE d \in ToSet(R)
    <3>1. PICK j \in DOMAIN R : R[j] = d
      BY <2>2 DEF ToSet
    <3>2. 1 < j
      BY <1>1, <1>2, <3>1
    <3>. QED  BY <1>1, <3>1, <3>2 DEF Earlier, Before
  <2>. QED  BY <1>3, <2>1, <2>2
<1>5. Before(P, c, d)
  BY <1>4 DEF InStep
<1>6. PICK m \in DOMAIN P, n \in DOMAIN P : m < n /\ P[m] = c /\ P[n] = d
  BY <1>5, Zenon DEF Before
<1>7. n = k /\ DOMAIN P \subseteq Nat \ {0}
  BY <1>6 DEF IsInjective
<1>8. m \in 1 .. (k - 1)
  BY <1>6, <1>7
<1>. QED  BY <1>6, <1>8

-----------------------------------------------------------------------------
(* The inductive invariant *)

AnswersOf(q) == [i \in DOMAIN q |-> q[i].cmd]

\* The commands looked at: none while the port closes.
Steady == {c \in Cmds : pc # "close" /\ ~TimedOut(c)}

RunningCmd == IF pc = "ok" THEN cur ELSE "none"

LineType ==
    /\ tx \in Seq(Cmds)
    /\ rx \in Seq([cmd : Cmds, how : {"ok", "noresponse", "buserror"}])
    /\ \A i \in DOMAIN rx : rx[i].how # "ok" => IsForward(rx[i].cmd)

\* Commands are written once when they get into m_pending.
CountsOf(pending, out, sent) ==
    /\ \A c \in ToSet(pending) : sent[c] >= 1
    /\ \A c \in ToSet(out) : sent[c] = 0

Counts ==
    /\ CountsOf(m_pending, m_out, no_sent)
    /\ \A c \in Cmds : status[c] = "new" => no_sent[c] = 0

LineInStep == InStep(m_pending, RunningCmd, AnswersOf(rx), tx, Steady)

LineInv ==
    /\ LineType
    /\ Counts
    /\ ~open => tx = <<>> /\ rx = <<>>
    /\ LineInStep

LinkIInv == IInv /\ LineInv

LEMMA AnswersFacts ==
    ASSUME NEW q \in Seq([cmd : Cmds, how : {"ok", "noresponse", "buserror"}])
    PROVE  /\ AnswersOf(q) \in Seq(Cmds)
           /\ DOMAIN AnswersOf(q) = DOMAIN q
           /\ \A i \in DOMAIN q : AnswersOf(q)[i] = q[i].cmd /\ q[i].cmd \in Cmds
           /\ q # <<>> => /\ AnswersOf(q) # <<>>
                          /\ Head(AnswersOf(q)) = Head(q).cmd
                          /\ AnswersOf(Tail(q)) = Tail(AnswersOf(q))
           /\ \A r \in [cmd : Cmds, how : {"ok", "noresponse", "buserror"}] :
                 AnswersOf(Append(q, r)) = Append(AnswersOf(q), r.cmd)
<1> DEFINE T == [cmd : Cmds, how : {"ok", "noresponse", "buserror"}]
           n == Len(q)
           a == AnswersOf(q)
<1>0. q \in Seq(T)
  OBVIOUS
<1>1. n \in Nat /\ DOMAIN q = 1 .. n /\ \A i \in 1 .. n : q[i] \in T
  <2> HIDE DEF T
  <2>. QED  BY <1>0
<1>2. /\ a \in Seq(Cmds) /\ Len(a) = n /\ DOMAIN a = 1 .. n
      /\ \A i \in 1 .. n : a[i] = q[i].cmd /\ q[i].cmd \in Cmds
  BY <1>1 DEF AnswersOf
<1>3. ASSUME q # <<>>
      PROVE  a # <<>> /\ Head(a) = Head(q).cmd /\ AnswersOf(Tail(q)) = Tail(a)
  <2>1. /\ n \in Nat \ {0} /\ Head(q) = q[1] /\ 1 \in 1 .. n
        /\ Tail(q) \in Seq(T) /\ Len(Tail(q)) = n - 1 /\ DOMAIN Tail(q) = 1 .. (n - 1)
        /\ \A i \in 1 .. (n - 1) : Tail(q)[i] = q[i + 1]
    BY <1>1, <1>3
  <2> HIDE DEF a, n
  <2>2. a # <<>> /\ Head(a) = a[1]
    BY <1>2, <2>1
  <2>3. /\ Tail(a) \in Seq(Cmds) /\ Len(Tail(a)) = n - 1 /\ DOMAIN Tail(a) = 1 .. (n - 1)
        /\ \A i \in 1 .. (n - 1) : Tail(a)[i] = a[i + 1]
    BY <1>2, <2>1, <2>2
  <2>4. \A i \in 1 .. (n - 1) : Tail(a)[i] = Tail(q)[i].cmd
    BY <1>2, <2>1, <2>3
  <2>5. /\ AnswersOf(Tail(q)) \in Seq(Cmds) /\ Len(AnswersOf(Tail(q))) = n - 1
        /\ \A i \in 1 .. (n - 1) : AnswersOf(Tail(q))[i] = Tail(q)[i].cmd
    <3>1. \A i \in 1 .. (n - 1) : Tail(q)[i].cmd \in Cmds
      BY <1>2, <2>1
    <3>. QED  BY <2>1, <3>1 DEF AnswersOf
  <2>6. AnswersOf(Tail(q)) = Tail(a)
    BY <2>1, <2>3, <2>4, <2>5
  <2>. QED  BY <1>2, <2>1, <2>2, <2>6
<1>4. ASSUME NEW r \in T
      PROVE  AnswersOf(Append(q, r)) = Append(a, r.cmd)
  <2>1. /\ DOMAIN Append(q, r) = 1 .. (n + 1)
        /\ \A i \in 1 .. (n + 1) : Append(q, r)[i] = IF i = n + 1 THEN r ELSE q[i]
    BY <1>1
  <2>2. /\ Append(a, r.cmd) = [i \in 1 .. (n + 1) |-> IF i = n + 1 THEN r.cmd ELSE a[i]]
    BY <1>2
  <2> HIDE DEF a, n
  <2>3. \A i \in 1 .. (n + 1) :
           Append(q, r)[i].cmd = IF i = n + 1 THEN r.cmd ELSE a[i]
    BY <1>1, <1>2, <2>1
  <2>. QED  BY <2>1, <2>2, <2>3 DEF AnswersOf
<1>. QED  BY <1>1, <1>2, <1>3, <1>4

\* Either all commands with the same answers are steady or none is.
LEMMA SteadyClass ==
    /\ Steady \in SUBSET Cmds /\ "none" \notin Steady
    /\ \A c, d \in Cmds : SameAnswer(c, d) => (c \in Steady <=> d \in Steady)
<1>1. Steady \in SUBSET Cmds /\ "none" \notin Steady
  BY MtbUsbAssumption DEF Steady
<1>2. ASSUME NEW c \in Cmds, NEW d \in Cmds, SameAnswer(c, d), TimedOut(c)
      PROVE  TimedOut(d)
  BY <1>2, SameAnswerFacts DEF TimedOut
<1>3. ASSUME NEW c \in Cmds, NEW d \in Cmds, SameAnswer(c, d)
      PROVE  TimedOut(c) <=> TimedOut(d)
  BY <1>2, <1>3, SameAnswerFacts
<1>. QED  BY <1>1, <1>3 DEF Steady

\* No command becomes steady again.
LEMMA SteadyShrinks ==
    ASSUME pc = "close" => pc' = "close",
           no_sent \in [Cmds -> 0 .. RESEND_MAX],
           no_sent' \in [Cmds -> 0 .. RESEND_MAX],
           \A c \in Cmds : no_sent'[c] >= no_sent[c],
           \A c \in Cmds : status[c] \in {"UsbNoResponse", "PendingConflict"} =>
                              status'[c] = status[c]
    PROVE  Steady' \subseteq Steady
<1>1. ASSUME NEW c \in Cmds, TimedOut(c)  PROVE TimedOut(c)'
  <2>1. PICK d \in Cmds : /\ SameAnswer(d, c)
                          /\ no_sent[d] > 1 \/ status[d] \in {"UsbNoResponse", "PendingConflict"}
    BY <1>1 DEF TimedOut
  <2>2. no_sent'[d] > 1 \/ status'[d] \in {"UsbNoResponse", "PendingConflict"}
    <3>1. no_sent[d] \in Int /\ no_sent'[d] \in Int /\ no_sent'[d] >= no_sent[d]
      BY MtbUsbAssumption
    <3>. QED  BY <2>1, <3>1
  <2>. QED  BY <2>1, <2>2 DEF TimedOut
<1>. QED  BY <1>1 DEF Steady

\* A step that raises no count writes nothing; one that raises one writes its command.
LEMMA WrittenFacts ==
    ASSUME no_sent \in [Cmds -> 0 .. RESEND_MAX], Written
    PROVE  /\ no_sent' = no_sent => tx' = tx
           /\ \A c \in Cmds, n \in Int :
                 n > no_sent[c] /\ no_sent' = [no_sent EXCEPT ![c] = n] =>
                    tx' = Append(tx, c)
<1> DEFINE w == {c \in Cmds : no_sent'[c] > no_sent[c]}
<1>0. \A c \in Cmds : no_sent[c] \in Int
  BY MtbUsbAssumption
<1>1. ASSUME no_sent' = no_sent  PROVE tx' = tx
  <2>1. w = {}
    BY <1>0, <1>1
  <2>. QED  BY <2>1, Zenon DEF Written
<1>2. ASSUME NEW c \in Cmds, NEW n \in Int, n > no_sent[c],
             no_sent' = [no_sent EXCEPT ![c] = n]
      PROVE  tx' = Append(tx, c)
  <2>1. w = {c}
    BY <1>0, <1>2
  <2>2. (CHOOSE d \in w : TRUE) = c /\ w # {}
    BY <2>1
  <2>. QED  BY <2>2, Zenon DEF Written
<1>. QED  BY <1>1, <1>2

CountsKept(S) == \A d \in Cmds \ S : no_sent'[d] = no_sent[d]

\* A command is sent: it is written and pending, or it waits in m_out.
LEMMA DispatchWrites ==
    ASSUME NEW P \in Seq(Cmds), NEW O \in Seq(Cmds), NEW x, NEW R \in Seq(Cmds),
           NEW c \in Cmds, NEW b \in BOOLEAN,
           no_sent \in [Cmds -> 0 .. RESEND_MAX], tx \in Seq(Cmds),
           InStep(P, x, R, tx, Steady), CountsOf(P, O, no_sent),
           c \notin ToSet(P), c \notin ToSet(O), c # x, no_sent[c] = 0,
           Dispatch(c, P, O, b), Written
    PROVE  /\ tx' \in Seq(Cmds)
           /\ InStep(m_pending', x, R, tx', Steady)
           /\ CountsOf(m_pending', m_out', no_sent')
           /\ \A d \in Cmds : no_sent'[d] >= no_sent[d]
           /\ CountsKept({c})
<1>0. \A d \in Cmds : no_sent[d] \in Int
  BY MtbUsbAssumption
<1>1. CASE MustWait(c, P, O, b)
  <2>1. m_pending' = P /\ m_out' = Append(O, c) /\ no_sent' = no_sent
    BY <1>1 DEF Dispatch
  <2>2. tx' = tx
    BY <2>1, WrittenFacts
  <2>3. ToSet(Append(O, c)) = ToSet(O) \cup {c}
    BY AppendOrder, Zenon
  <2>4. CountsOf(P, Append(O, c), no_sent)
    BY <2>3 DEF CountsOf
  <2>. QED  BY <1>0, <2>1, <2>2, <2>4 DEF CountsKept
<1>2. CASE ~MustWait(c, P, O, b)
  <2>1. /\ m_pending' = Append(P, c) /\ m_out' = O
        /\ no_sent' = [no_sent EXCEPT ![c] = 1]
    BY <1>2 DEF Dispatch
  <2>2. tx' = Append(tx, c)
    <3>1. 1 \in Int /\ 1 > no_sent[c]
      OBVIOUS
    <3>. QED  BY <2>1, <3>1, WrittenFacts, Zenon
  <2>3. ToSet(Append(P, c)) = ToSet(P) \cup {c} /\ Append(tx, c) \in Seq(Cmds)
    BY AppendOrder, Zenon
  <2>4. /\ \A d \in Cmds : d # c => no_sent'[d] = no_sent[d]
        /\ no_sent'[c] = 1
    BY <2>1
  <2>5. ToSet(P) \subseteq Cmds /\ ToSet(O) \subseteq Cmds
    BY DEF ToSet
  <2>6. CountsOf(Append(P, c), O, no_sent')
    BY <2>3, <2>4, <2>5 DEF CountsOf
  <2>7. InStep(Append(P, c), x, R, Append(tx, c), Steady)
    BY Write, SteadyClass
  <2>8. ASSUME NEW d \in Cmds  PROVE no_sent'[d] >= no_sent[d]
    <3>1. CASE d = c
      BY <2>4, <3>1
    <3>2. CASE d # c
      BY <1>0, <2>4, <3>2
    <3>. QED  BY <3>1, <3>2
  <2>. QED  BY <2>1, <2>2, <2>3, <2>4, <2>6, <2>7, <2>8 DEF CountsKept
<1>. QED  BY <1>1, <1>2

\* The place that got free in m_pending is filled from m_out.
LEMMA SendNextOutWrites ==
    ASSUME NEW P \in Seq(Cmds), NEW R \in Seq(Cmds),
           m_out \in Seq(Cmds), IsInjective(m_out), ToSet(P) \cap ToSet(m_out) = {},
           no_sent \in [Cmds -> 0 .. RESEND_MAX], tx \in Seq(Cmds),
           InStep(P, "none", R, tx, Steady), CountsOf(P, m_out, no_sent),
           SendNextOut(P), Written
    PROVE  /\ tx' \in Seq(Cmds)
           /\ InStep(m_pending', "none", R, tx', Steady)
           /\ CountsOf(m_pending', m_out', no_sent')
           /\ \A d \in Cmds : no_sent'[d] >= no_sent[d]
           /\ CountsKept(ToSet(m_out))
<1>1. CASE m_out = <<>>
  <2>1. m_pending' = P /\ m_out' = m_out /\ no_sent' = no_sent
    BY <1>1 DEF SendNextOut
  <2>2. tx' = tx
    BY <2>1, WrittenFacts
  <2>3. \A d \in Cmds : no_sent[d] \in Int
    BY MtbUsbAssumption
  <2>. QED  BY <2>1, <2>2, <2>3 DEF CountsKept
<1>2. CASE m_out # <<>>
  <2> DEFINE h == Head(m_out)
             t == Tail(m_out)
  <2>1. /\ h \in Cmds /\ h \in ToSet(m_out) /\ t \in Seq(Cmds)
        /\ ToSet(t) = ToSet(m_out) \ {h}
    BY <1>2, TailFacts, Zenon
  <2>2. Dispatch(h, P, t, TRUE)
    BY <1>2 DEF SendNextOut
  <2> HIDE DEF h, t
  <2>3. h \notin ToSet(P) /\ h \notin ToSet(t) /\ h # "none"
    BY <2>1, MtbUsbAssumption
  <2>4. CountsOf(P, t, no_sent) /\ no_sent[h] = 0
    BY <2>1 DEF CountsOf
  <2>5. /\ tx' \in Seq(Cmds)
        /\ InStep(m_pending', "none", R, tx', Steady)
        /\ CountsOf(m_pending', m_out', no_sent')
        /\ \A d \in Cmds : no_sent'[d] >= no_sent[d]
        /\ CountsKept({h})
    <3> DEFINE x == "none"
               b == TRUE
    <3>1. b \in BOOLEAN /\ InStep(P, x, R, tx, Steady) /\ h # x /\ Dispatch(h, P, t, b)
      BY <2>2, <2>3
    <3> HIDE DEF x, b
    <3>6. /\ h \in Cmds /\ t \in Seq(Cmds)
          /\ h \notin ToSet(P) /\ h \notin ToSet(t)
          /\ CountsOf(P, t, no_sent) /\ no_sent[h] = 0
      BY <2>1, <2>3, <2>4, Zenon
    <3>2. tx' \in Seq(Cmds) /\ InStep(m_pending', x, R, tx', Steady)
      BY <3>1, <3>6, DispatchWrites, Zenon
    <3>3. CountsOf(m_pending', m_out', no_sent')
      BY <3>1, <3>6, DispatchWrites, Zenon
    <3>4. \A d \in Cmds : no_sent'[d] >= no_sent[d]
      BY <3>1, <3>6, DispatchWrites, Zenon
    <3>5. CountsKept({h})
      BY <3>1, <3>6, DispatchWrites, Zenon
    <3>. QED  BY <3>2, <3>3, <3>4, <3>5 DEF x
  <2>. QED  BY <2>1, <2>5 DEF CountsKept
<1>. QED  BY <1>1, <1>2

\* What the invariant of the queues says of them.
LEMMA QueueFacts ==
    ASSUME IInv
    PROVE  /\ m_pending \in Seq(Cmds) /\ m_out \in Seq(Cmds)
           /\ IsInjective(m_pending) /\ IsInjective(m_out)
           /\ ToSet(m_pending) \subseteq Cmds /\ ToSet(m_out) \subseteq Cmds
           /\ ToSet(m_pending) \cap ToSet(m_out) = {}
           /\ no_sent \in [Cmds -> 0 .. RESEND_MAX]
           /\ \A c \in Cmds : no_sent[c] \in Int
           /\ \A c \in Cmds : c \in ToSet(m_pending) \/ c \in ToSet(m_out)
                                 <=> status[c] = "waiting"
           /\ status \in [Cmds -> {"new", "waiting", "ok"} \cup CmdErrors]
           /\ pc = "ok" => cur \in ToSet(m_pending)
           /\ RunningCmd # "none" => RunningCmd \in ToSet(m_pending)
<1>1. m_pending \in Seq(Cmds) /\ m_out \in Seq(Cmds)
  BY DEF IInv, Sound
<1>2. ToSet(m_pending) \subseteq Cmds /\ ToSet(m_out) \subseteq Cmds
  BY <1>1 DEF ToSet
<1>3. no_sent \in [Cmds -> 0 .. RESEND_MAX] /\ RESEND_MAX \in Nat
  BY MtbUsbAssumption DEF IInv, TypeOK
<1>4. \A c \in Cmds : no_sent[c] \in Int
  BY <1>3
<1>5. pc = "ok" => cur \in ToSet(m_pending)
  BY DEF IInv, CallbackOK
<1>6. IsInjective(m_pending) /\ IsInjective(m_out) /\ ToSet(m_pending) \cap ToSet(m_out) = {}
  BY DEF IInv, Sound
<1>7. \A c \in Cmds : c \in ToSet(m_pending) \/ c \in ToSet(m_out) <=> status[c] = "waiting"
  BY DEF IInv, Queued
<1>8. status \in [Cmds -> {"new", "waiting", "ok"} \cup CmdErrors]
  BY DEF IInv, TypeOK
<1>. QED  BY <1>1, <1>2, <1>3, <1>4, <1>5, <1>6, <1>7, <1>8, Zenon DEF RunningCmd

\* How the parts of LineInv are put together after a step.
LEMMA After ==
    ASSUME IInv, IInv', LineType', Counts',
           ~open' => tx' = <<>> /\ rx' = <<>>,
           pc = "close" => pc' = "close",
           \A c \in Cmds : no_sent'[c] >= no_sent[c],
           \A c \in Cmds : status[c] \in {"UsbNoResponse", "PendingConflict"} =>
                              status'[c] = status[c],
           InStep(m_pending', RunningCmd', AnswersOf(rx)', tx', Steady)
    PROVE  LineInv'
<1>1. no_sent' \in [Cmds -> 0 .. RESEND_MAX] /\ no_sent \in [Cmds -> 0 .. RESEND_MAX]
  BY DEF IInv, TypeOK
<1>2. Steady' \subseteq Steady
  BY <1>1, SteadyShrinks
<1>3. LineInStep'
  BY <1>2, Fewer, Zenon DEF LineInStep
<1>. QED  BY <1>3 DEF LineInv

-----------------------------------------------------------------------------
(* The actions keep the line in step *)

LEMMA LinkSend ==
    ASSUME LinkIInv, IInv', NEW c \in Cmds, Send(c), Written, UNCHANGED rx
    PROVE  LineInv'
<1>1. /\ c \notin ToSet(m_pending) /\ c \notin ToSet(m_out) /\ no_sent[c] = 0
      /\ c # RunningCmd /\ pc' = pc /\ cur' = cur /\ open' = open
  <2>1. status[c] = "new" /\ pc' = pc /\ cur' = cur /\ open' = open
    BY DEF Send
  <2>2. c \notin ToSet(m_pending) /\ c \notin ToSet(m_out)
    BY <2>1, QueueFacts DEF LinkIInv
  <2>3. c # RunningCmd
    BY <2>2, QueueFacts, MtbUsbAssumption DEF LinkIInv
  <2>4. no_sent[c] = 0
    BY <2>1 DEF LinkIInv, LineInv, Counts
  <2>. QED  BY <2>1, <2>2, <2>3, <2>4
<1>2. /\ tx \in Seq(Cmds) /\ CountsOf(m_pending, m_out, no_sent)
      /\ \A d \in Cmds : status[d] = "new" => no_sent[d] = 0
      /\ AnswersOf(rx) \in Seq(Cmds) /\ AnswersOf(rx)' = AnswersOf(rx)
      /\ RunningCmd' = RunningCmd
  BY <1>1, AnswersFacts DEF LinkIInv, LineInv, LineType, Counts, RunningCmd
<1>3. CASE open
  <2>1. /\ Dispatch(c, m_pending, m_out, FALSE)
        /\ status' = [status EXCEPT ![c] = "waiting"]
    BY <1>3 DEF Send
  <2>2. /\ m_pending \in Seq(Cmds) /\ m_out \in Seq(Cmds)
        /\ no_sent \in [Cmds -> 0 .. RESEND_MAX]
        /\ status \in [Cmds -> {"new", "waiting", "ok"} \cup CmdErrors]
    BY QueueFacts DEF LinkIInv
  <2>3. LineInStep
    BY DEF LinkIInv, LineInv
  <2>4. /\ tx' \in Seq(Cmds)
        /\ InStep(m_pending', RunningCmd, AnswersOf(rx), tx', Steady)
        /\ CountsOf(m_pending', m_out', no_sent')
        /\ \A d \in Cmds : no_sent'[d] >= no_sent[d]
        /\ CountsKept({c})
    BY <1>1, <1>2, <2>1, <2>2, <2>3, DispatchWrites DEF LineInStep
  <2>5. Counts'
    <3>1. \A d \in Cmds : status'[d] = "new" => d # c /\ status[d] = "new"
      BY <2>1, <2>2
    <3>. QED  BY <1>2, <2>4, <3>1 DEF Counts, CountsKept
  <2>6. LineType'
    BY <2>4 DEF LinkIInv, LineInv, LineType
  <2>7. \A d \in Cmds : status[d] \in {"UsbNoResponse", "PendingConflict"} =>
                           status'[d] = status[d]
    <3>1. status[c] = "new"
      BY DEF Send
    <3>. QED  BY <2>1, <2>2, <3>1
  <2>8. InStep(m_pending', RunningCmd', AnswersOf(rx)', tx', Steady)
    BY <1>2, <2>4
  <2>. QED  BY <1>1, <1>3, <2>4, <2>5, <2>6, <2>7, <2>8, After DEF LinkIInv
<1>4. CASE ~open
  <2>1. /\ UNCHANGED queues
        /\ status' = [status EXCEPT ![c] = "SerialPortClosed"]
    BY <1>4 DEF Send
  <2>2. /\ no_sent' = no_sent /\ m_pending' = m_pending /\ m_out' = m_out
        /\ no_sent \in [Cmds -> 0 .. RESEND_MAX]
        /\ \A d \in Cmds : no_sent[d] \in Int
        /\ status \in [Cmds -> {"new", "waiting", "ok"} \cup CmdErrors]
    BY <2>1, QueueFacts DEF LinkIInv, queues
  <2>3. tx' = tx
    BY <2>2, WrittenFacts
  <2>4. \A d \in Cmds : status[d] \in {"UsbNoResponse", "PendingConflict"} =>
                           status'[d] = status[d]
    <3>1. status[c] = "new"
      BY DEF Send
    <3>. QED  BY <2>1, <2>2, <3>1
  <2>5. LineType' /\ Counts'
    <3>1. \A d \in Cmds : status'[d] = "new" => status[d] = "new"
      BY <2>1, <2>2
    <3>. QED  BY <1>2, <2>2, <2>3, <3>1 DEF LinkIInv, LineInv, LineType, Counts
  <2>6. InStep(m_pending', RunningCmd', AnswersOf(rx)', tx', Steady)
    BY <1>2, <2>2, <2>3 DEF LinkIInv, LineInv, LineInStep
  <2>7. /\ ~open' => tx' = <<>> /\ rx' = <<>>
        /\ \A d \in Cmds : no_sent'[d] >= no_sent[d]
    BY <1>1, <2>2, <2>3 DEF LinkIInv, LineInv
  <2>. QED  BY <1>1, <2>4, <2>5, <2>6, <2>7, After DEF LinkIInv
<1>. QED  BY <1>3, <1>4

\* The invariant in the form that the steps use.
LEMMA LineFacts ==
    ASSUME LinkIInv
    PROVE  /\ IInv
           /\ tx \in Seq(Cmds) /\ AnswersOf(rx) \in Seq(Cmds)
           /\ rx \in Seq([cmd : Cmds, how : {"ok", "noresponse", "buserror"}])
           /\ CountsOf(m_pending, m_out, no_sent)
           /\ \A c \in Cmds : status[c] = "new" => no_sent[c] = 0
           /\ ~open => tx = <<>> /\ rx = <<>>
           /\ InStep(m_pending, RunningCmd, AnswersOf(rx), tx, Steady)
  BY AnswersFacts DEF LinkIInv, LineInv, LineType, Counts, LineInStep

\* A pending command ends with an error: a command that is not looked at any
\* more, or the one that the answer was for.
LEMMA EndWithError ==
    ASSUME LinkIInv, NEW i \in DOMAIN m_pending, NEW error \in CmdErrors,
           NEW caller \in {"error", "timeout"}, StartError(i, error, caller),
           pc = "idle",
           NEW x \in {"none", m_pending[i]}, NEW R, NEW U \in SUBSET Steady,
           InStep(m_pending, x, R, tx, U), m_pending[i] \in U => m_pending[i] = x
    PROVE  /\ InStep(m_pending', RunningCmd', R, tx, U)
           /\ Counts'
           /\ \A c \in Cmds : no_sent'[c] >= no_sent[c]
           /\ \A c \in Cmds : status[c] \in {"UsbNoResponse", "PendingConflict"} =>
                                 status'[c] = status[c]
           /\ status'[m_pending[i]] = error
<1> DEFINE e == m_pending[i]
<1>1. /\ m_pending' = RemoveAt(m_pending, i) /\ m_out' = m_out /\ no_sent' = no_sent
      /\ status' = [status EXCEPT ![e] = error] /\ pc' = caller
  BY DEF StartError
<1>2. /\ m_pending \in Seq(Cmds) /\ IsInjective(m_pending) /\ e \in Cmds
      /\ e \in ToSet(m_pending) /\ status[e] = "waiting"
      /\ status \in [Cmds -> {"new", "waiting", "ok"} \cup CmdErrors]
      /\ \A c \in Cmds : no_sent[c] \in Int
  BY QueueFacts DEF LinkIInv, ToSet
<1>3. InStep(RemoveAt(m_pending, i), "none", R, tx, U)
  <2>1. U \in SUBSET Cmds /\ "none" \notin U
    BY SteadyClass
  <2>. QED  BY <1>2, <2>1, Drop
<1>4. RunningCmd' = "none"
  BY <1>1 DEF RunningCmd
<1>5. Counts'
  <2>1. ToSet(RemoveAt(m_pending, i)) \subseteq ToSet(m_pending)
    BY <1>2, RemoveAtFacts
  <2>2. \A c \in Cmds : status'[c] = "new" => status[c] = "new"
    BY <1>1, <1>2 DEF CmdErrors
  <2>. QED  BY <1>1, <2>1, <2>2, LineFacts DEF Counts, CountsOf
<1>6. \A c \in Cmds : no_sent'[c] >= no_sent[c]
  BY <1>1, <1>2
<1>7. /\ \A c \in Cmds : status[c] \in {"UsbNoResponse", "PendingConflict"} =>
                            status'[c] = status[c]
      /\ status'[e] = error
  BY <1>1, <1>2
<1>. QED  BY <1>1, <1>3, <1>4, <1>5, <1>6, <1>7

LEMMA LinkTick ==
    ASSUME LinkIInv, IInv', PendingTimerTick, Written, UNCHANGED rx
    PROVE  LineInv'
<1> DEFINE c == m_pending[1]
           U == Steady'
<1>1. /\ m_pending \in Seq(Cmds) /\ m_pending # <<>> /\ IsInjective(m_pending)
      /\ pc = "idle" /\ open /\ RunningCmd = "none"
      /\ no_sent \in [Cmds -> 0 .. RESEND_MAX] /\ \A d \in Cmds : no_sent[d] \in Int
  BY QueueFacts DEF LinkIInv, PendingTimerTick, Idle, RunningCmd
<1>2. /\ 1 \in DOMAIN m_pending /\ Head(m_pending) = c
      /\ Tail(m_pending) = RemoveAt(m_pending, 1)
      /\ c \in Cmds /\ c \in ToSet(m_pending) /\ SameAnswer(c, c)
  BY <1>1, TailIsRemoveAt DEF ToSet, SameAnswer
<1>3. AnswersOf(rx)' = AnswersOf(rx)
  OBVIOUS
<1> HIDE DEF c
<1>4. ASSUME NEW error \in {"UsbNoResponse", "PendingConflict"},
             StartError(1, error, "timeout")
      PROVE  LineInv'
  <2>1. error \in CmdErrors
    BY DEF CmdErrors
  <2>2. /\ no_sent' = no_sent /\ pc' = "timeout" /\ open' = open
        /\ status' = [status EXCEPT ![c] = error]
    BY <1>4 DEF StartError, c
  <2>3. status'[c] = error
    BY <1>2, <2>2, QueueFacts DEF LinkIInv
  <2>4. \A d \in Cmds : status[d] \in {"UsbNoResponse", "PendingConflict"} =>
                           status'[d] = status[d]
    BY <1>2, <2>2, QueueFacts DEF LinkIInv
  <2>5. Steady' \subseteq Steady
    BY <1>1, <2>2, <2>4, SteadyShrinks
  <2>6. c \notin Steady'
    BY <1>2, <2>3 DEF Steady, TimedOut
  <2>7. InStep(m_pending, "none", AnswersOf(rx), tx, Steady')
    BY <1>1, <2>5, LineFacts, Fewer
  <2>8. /\ InStep(m_pending', RunningCmd', AnswersOf(rx), tx, Steady')
        /\ Counts'
    <3> DEFINE x == "none"
    <3>1. x \in {"none", m_pending[1]} /\ InStep(m_pending, x, AnswersOf(rx), tx, Steady')
      BY <2>7
    <3> HIDE DEF x
    <3>. QED  BY <1>1, <1>2, <1>4, <2>1, <2>5, <2>6, <3>1, EndWithError DEF c
  <2>9. tx' = tx
    BY <1>1, <2>2, WrittenFacts
  <2>10. LineType'
    BY <2>9 DEF LinkIInv, LineInv, LineType
  <2>. QED  BY <1>1, <1>3, <2>2, <2>8, <2>9, <2>10 DEF LineInv, LineInStep
<1>5. ASSUME ~Exhausted(c),
             m_pending' = Append(Tail(m_pending), c),
             no_sent' = [no_sent EXCEPT ![c] = @ + 1],
             UNCHANGED <<open, alive, m_out, known, pc, cur, status, stalled>>
      PROVE  LineInv'
  <2>1. no_sent[c] >= 1 /\ no_sent[c] \in Int
    BY <1>1, <1>2, LineFacts DEF CountsOf
  <2>2. no_sent'[c] = no_sent[c] + 1 /\ \A d \in Cmds \ {c} : no_sent'[d] = no_sent[d]
    BY <1>1, <1>2, <1>5
  <2>3. \A d \in Cmds : no_sent'[d] >= no_sent[d]
    BY <1>1, <2>1, <2>2
  <2>4. Steady' \subseteq Steady
    <3>1. no_sent' \in [Cmds -> 0 .. RESEND_MAX]
      BY DEF IInv, TypeOK
    <3>. QED  BY <1>1, <1>5, <2>3, <3>1, SteadyShrinks
  <2>5. c \notin Steady'
    <3>1. no_sent'[c] > 1
      BY <2>1, <2>2
    <3>. QED  BY <1>2, <3>1 DEF Steady, TimedOut
  <2>6. tx' = Append(tx, c) /\ tx \in Seq(Cmds)
    <3> DEFINE n == no_sent[c] + 1
    <3>1. n \in Int /\ n > no_sent[c] /\ no_sent' = [no_sent EXCEPT ![c] = n]
      BY <1>5, <2>1
    <3> HIDE DEF n
    <3>. QED  BY <1>1, <1>2, <3>1, WrittenFacts, LineFacts
  <2>7. InStep(m_pending, "none", AnswersOf(rx), tx, Steady')
    BY <1>1, <2>4, LineFacts, Fewer
  <2>8. InStep(RemoveAt(m_pending, 1), "none", AnswersOf(rx), tx, Steady')
    <3> DEFINE x == "none"
    <3>1. x \in {"none", m_pending[1]} /\ InStep(m_pending, x, AnswersOf(rx), tx, Steady')
      BY <2>7
    <3>2. Steady' \in SUBSET Cmds /\ "none" \notin Steady'
      BY <2>4, SteadyClass
    <3> HIDE DEF x
    <3>. QED  BY <1>1, <1>2, <2>5, <3>1, <3>2, Drop DEF c
  <2>9. RemoveAt(m_pending, 1) \in Seq(Cmds) /\ c \notin ToSet(RemoveAt(m_pending, 1))
        /\ ToSet(RemoveAt(m_pending, 1)) \subseteq ToSet(m_pending)
    BY <1>1, <1>2, RemoveAtFacts DEF c
  <2>10. InStep(m_pending', "none", AnswersOf(rx), tx', Steady')
    <3>1. c # "none" /\ Steady' \in SUBSET Cmds /\ AnswersOf(rx) \in Seq(Cmds)
      BY <1>2, <2>4, SteadyClass, MtbUsbAssumption, LineFacts
    <3>. QED  BY <1>2, <1>5, <2>6, <2>8, <2>9, <3>1, Write
  <2>11. RunningCmd' = "none"
    BY <1>1, <1>5 DEF RunningCmd
  <2>12. LineType'
    <3>1. tx' \in Seq(Cmds)
      BY <1>2, <2>6
    <3>. QED  BY <3>1 DEF LinkIInv, LineInv, LineType
  <2>13. Counts'
    <3>1. ToSet(m_pending') = ToSet(RemoveAt(m_pending, 1)) \cup {c}
      BY <1>2, <1>5, <2>9, AppendOrder
    <3>2. \A d \in ToSet(m_pending') : no_sent'[d] >= 1
      BY <1>1, <2>1, <2>2, <2>9, <3>1, LineFacts, QueueFacts DEF CountsOf
    <3>3. c \notin ToSet(m_out) /\ status[c] = "waiting" /\ ToSet(m_out) \subseteq Cmds
      BY <1>2, QueueFacts DEF LinkIInv
    <3>. QED  BY <1>5, <2>2, <3>2, <3>3, LineFacts DEF Counts, CountsOf
  <2>. QED  BY <1>1, <1>3, <1>5, <2>10, <2>11, <2>12, <2>13 DEF LineInv, LineInStep
<1>. QED  BY <1>2, <1>4, <1>5 DEF PendingTimerTick, Exhausted

LEMMA LinkReturnOk ==
    ASSUME LinkIInv, IInv', ReturnOk, Written, UNCHANGED rx
    PROVE  LineInv'
<1>1. PICK i \in DOMAIN m_pending : m_pending[i] = cur /\ SendNextOut(RemoveAt(m_pending, i))
  BY DEF ReturnOk
<1> DEFINE P == RemoveAt(m_pending, i)
<1>2. /\ pc = "ok" /\ pc' = "idle" /\ open' = open
      /\ status' = [status EXCEPT ![cur] = "ok"]
      /\ RunningCmd = cur /\ RunningCmd' = "none" /\ AnswersOf(rx)' = AnswersOf(rx)
  BY DEF ReturnOk, RunningCmd
<1>3. /\ m_pending \in Seq(Cmds) /\ m_out \in Seq(Cmds)
      /\ IsInjective(m_pending) /\ IsInjective(m_out)
      /\ ToSet(m_pending) \cap ToSet(m_out) = {}
      /\ no_sent \in [Cmds -> 0 .. RESEND_MAX]
      /\ status \in [Cmds -> {"new", "waiting", "ok"} \cup CmdErrors]
      /\ cur \in ToSet(m_pending) /\ cur \in Cmds /\ status[cur] = "waiting"
      /\ ToSet(m_out) \subseteq Cmds
      /\ \A c \in Cmds : c \in ToSet(m_out) => status[c] = "waiting"
  BY <1>2, QueueFacts DEF LinkIInv
<1>4. P \in Seq(Cmds) /\ ToSet(P) \subseteq ToSet(m_pending)
  BY <1>3, RemoveAtFacts
<1>5. InStep(P, "none", AnswersOf(rx), tx, Steady)
  <2> DEFINE x == cur
  <2>1. x \in {"none", m_pending[i]} /\ InStep(m_pending, x, AnswersOf(rx), tx, Steady)
    BY <1>1, <1>2, LineFacts
  <2> HIDE DEF x
  <2>. QED  BY <1>1, <1>3, <2>1, SteadyClass, Drop DEF x
<1>6. CountsOf(P, m_out, no_sent)
  BY <1>4, LineFacts DEF CountsOf
<1> HIDE DEF P
<1>7. SendNextOut(P)
  BY <1>1 DEF P
<1>8. /\ tx' \in Seq(Cmds)
      /\ InStep(m_pending', "none", AnswersOf(rx), tx', Steady)
      /\ CountsOf(m_pending', m_out', no_sent')
      /\ \A d \in Cmds : no_sent'[d] >= no_sent[d]
      /\ CountsKept(ToSet(m_out))
  BY <1>3, <1>4, <1>5, <1>6, <1>7, LineFacts, SendNextOutWrites
<1>9. Counts'
  <2>1. \A c \in Cmds : status'[c] = "new" => status[c] = "new" /\ c \notin ToSet(m_out)
    BY <1>2, <1>3
  <2>. QED  BY <1>8, <2>1, LineFacts DEF Counts, CountsKept
<1>10. LineType'
  BY <1>8 DEF LinkIInv, LineInv, LineType
<1>11. \A d \in Cmds : status[d] \in {"UsbNoResponse", "PendingConflict"} =>
                          status'[d] = status[d]
  BY <1>2, <1>3
<1>12. open' /\ (pc = "close" => pc' = "close")
  BY <1>2 DEF LinkIInv, IInv, CallbackOK
<1>. QED  BY <1>2, <1>8, <1>9, <1>10, <1>11, <1>12, After DEF LinkIInv

LEMMA LinkReturnError ==
    ASSUME LinkIInv, IInv', ReturnError, Written, UNCHANGED rx
    PROVE  LineInv'
<1>2. /\ InError /\ pc' = "idle" /\ open' = open /\ status' = status
      /\ RunningCmd = "none" /\ RunningCmd' = "none" /\ AnswersOf(rx)' = AnswersOf(rx)
      /\ SendNextOut(m_pending)
  BY DEF ReturnError, RunningCmd, InError
<1>3. /\ m_pending \in Seq(Cmds) /\ m_out \in Seq(Cmds) /\ IsInjective(m_out)
      /\ ToSet(m_pending) \cap ToSet(m_out) = {}
      /\ no_sent \in [Cmds -> 0 .. RESEND_MAX]
      /\ \A c \in Cmds : c \in ToSet(m_out) => status[c] = "waiting"
  BY QueueFacts DEF LinkIInv
<1>4. InStep(m_pending, "none", AnswersOf(rx), tx, Steady)
  BY <1>2, LineFacts
<1>8. /\ tx' \in Seq(Cmds)
      /\ InStep(m_pending', "none", AnswersOf(rx), tx', Steady)
      /\ CountsOf(m_pending', m_out', no_sent')
      /\ \A d \in Cmds : no_sent'[d] >= no_sent[d]
      /\ CountsKept(ToSet(m_out))
  BY <1>2, <1>3, <1>4, LineFacts, SendNextOutWrites
<1>9. Counts'
  <2>1. \A c \in Cmds : status'[c] = "new" => status[c] = "new" /\ c \notin ToSet(m_out)
    BY <1>2, <1>3
  <2>. QED  BY <1>8, <2>1, LineFacts DEF Counts, CountsKept
<1>10. LineType'
  BY <1>8 DEF LinkIInv, LineInv, LineType
<1>12. open' /\ (pc = "close" => pc' = "close")
  BY <1>2 DEF LinkIInv, IInv, CallbackOK, InError
<1>. QED  BY <1>2, <1>8, <1>9, <1>10, <1>12, After DEF LinkIInv

\* Opening the port and beginning to close it touch neither queues nor line.
LEMMA LinkOpenClose ==
    ASSUME LinkIInv, IInv', Connect \/ Disconnect, Written, UNCHANGED rx
    PROVE  LineInv'
<1>1. /\ m_pending' = m_pending /\ m_out' = m_out /\ no_sent' = no_sent
      /\ status' = status /\ AnswersOf(rx)' = AnswersOf(rx)
      /\ open' /\ (pc = "close" => pc' = "close")
      /\ RunningCmd = "none" /\ RunningCmd' = "none"
  BY DEF Connect, Disconnect, queues, Idle, RunningCmd, InError
<1>2. no_sent \in [Cmds -> 0 .. RESEND_MAX] /\ \A c \in Cmds : no_sent[c] \in Int
  BY QueueFacts DEF LinkIInv
<1>3. tx' = tx
  BY <1>1, <1>2, WrittenFacts
<1>4. LineType' /\ Counts'
  BY <1>1, <1>3 DEF LinkIInv, LineInv, LineType, Counts
<1>5. InStep(m_pending', RunningCmd', AnswersOf(rx)', tx', Steady)
  BY <1>1, <1>3, LineFacts
<1>6. \A d \in Cmds : no_sent'[d] >= no_sent[d]
  BY <1>1, <1>2
<1>. QED  BY <1>1, <1>4, <1>5, <1>6, After DEF LinkIInv

\* Nothing is looked at while the port closes.
LEMMA LinkCloseFront ==
    ASSUME LinkIInv, IInv', CloseFront, Written, UNCHANGED rx
    PROVE  LineInv'
<1>1. /\ pc = "close" /\ pc' = "close" /\ no_sent' = no_sent /\ open' = open
      /\ m_pending \o m_out # <<>>
      /\ m_pending' = IF m_pending # <<>> THEN Tail(m_pending) ELSE <<>>
      /\ m_out' = IF m_pending # <<>> THEN m_out ELSE Tail(m_out)
      /\ status' = [status EXCEPT ![ClosingFront] = "SerialPortClosed"]
  BY LinkAssumption DEF CloseFront
<1>2. /\ m_pending \in Seq(Cmds) /\ m_out \in Seq(Cmds)
      /\ IsInjective(m_pending) /\ IsInjective(m_out)
      /\ no_sent \in [Cmds -> 0 .. RESEND_MAX]
      /\ status \in [Cmds -> {"new", "waiting", "ok"} \cup CmdErrors]
  BY QueueFacts DEF LinkIInv
<1>3. tx' = tx
  BY <1>1, <1>2, WrittenFacts
<1>4. ToSet(m_pending') \subseteq ToSet(m_pending) /\ ToSet(m_out') \subseteq ToSet(m_out)
  <2>1. CASE m_pending # <<>>
    BY <1>1, <1>2, <2>1, TailFacts
  <2>2. CASE m_pending = <<>>
    <3>1. m_out # <<>>
      BY <1>1, <1>2, <2>2
    <3>2. m_pending' = m_pending /\ m_out' = Tail(m_out)
      BY <1>1, <2>2
    <3>3. ToSet(Tail(m_out)) = ToSet(m_out) \ {Head(m_out)}
      BY <1>2, <3>1, TailFacts
    <3>. QED  BY <3>2, <3>3
  <2>. QED  BY <2>1, <2>2
<1>5. \A c \in Cmds : status'[c] = "new" => status[c] = "new"
  BY <1>1, <1>2
<1>6. Counts' /\ LineType'
  BY <1>1, <1>3, <1>4, <1>5, LineFacts DEF Counts, CountsOf, LinkIInv, LineInv, LineType
<1>7. LineInStep'
  BY <1>1 DEF LineInStep, InStep, Steady
<1>8. open
  BY <1>1 DEF LinkIInv, IInv, CallbackOK
<1>. QED  BY <1>1, <1>6, <1>7, <1>8 DEF LineInv

LEMMA EmptyLine ==
    ASSUME NEW x, NEW U
    PROVE  InStep(<<>>, x, AnswersOf(<<>>), <<>>, U)
<1>1. AnswersOf(<<>>) = <<>>
  BY DEF AnswersOf
<1>. QED  BY <1>1 DEF InStep, ToSet, Once, Earlier, Before

LEMMA LinkClosed ==
    ASSUME LinkIInv, IInv', Closed, tx' = <<>>, rx' = <<>>
    PROVE  LineInv'
<1>1. /\ m_pending' = <<>> /\ m_out' = m_out /\ no_sent' = no_sent
      /\ m_pending = <<>> /\ status' = status
  BY DEF Closed, queues
<1>2. Counts'
  BY <1>1, LineFacts DEF Counts, CountsOf
<1>3. LineType'
  BY DEF LineType
<1>4. LineInStep'
  BY <1>1, EmptyLine DEF LineInStep
<1>. QED  BY <1>2, <1>3, <1>4 DEF LineInv

LEMMA LinkAnswer ==
    ASSUME LinkIInv, IInv', NEW i \in DOMAIN tx,
           NEW how \in {"ok", "noresponse", "buserror"}, DeviceAnswers(i, how)
    PROVE  LineInv'
<1> DEFINE r == [cmd |-> tx[i], how |-> how]
           T == [cmd : Cmds, how : {"ok", "noresponse", "buserror"}]
<1>1. /\ tx' = RemoveAt(tx, i) /\ rx' = Append(rx, r) /\ open
      /\ how # "ok" => IsForward(tx[i])
      /\ \A j \in 1 .. (i - 1) : IsForward(tx[j]) # IsForward(tx[i])
  BY DEF DeviceAnswers
<1>2. /\ m_pending' = m_pending /\ m_out' = m_out /\ no_sent' = no_sent
      /\ status' = status /\ open' = open /\ pc' = pc /\ cur' = cur
  BY DEF DeviceAnswers, vars
<1>3. /\ tx \in Seq(Cmds) /\ rx \in Seq(T) /\ AnswersOf(rx) \in Seq(Cmds)
      /\ tx[i] \in Cmds /\ r \in T /\ RunningCmd' = RunningCmd
      /\ \A c \in Cmds : no_sent[c] \in Int
  BY <1>2, LineFacts, QueueFacts DEF RunningCmd
<1>4. AnswersOf(rx)' = Append(AnswersOf(rx), tx[i])
  BY <1>1, <1>3, AnswersFacts
<1>5. InStep(m_pending', RunningCmd', AnswersOf(rx)', tx', Steady)
  <2>1. \A j \in 1 .. (i - 1) : ~SameAnswer(tx[i], tx[j])
    BY <1>1 DEF SameAnswer, IsForward
  <2> DEFINE P == m_pending
             x == RunningCmd
             R == AnswersOf(rx)
             U == Steady
  <2>2. R \in Seq(Cmds) /\ U \in SUBSET Cmds /\ InStep(P, x, R, tx, U)
    BY LineFacts, SteadyClass
  <2> HIDE DEF P, x, R, U
  <2>3. InStep(P, x, Append(R, tx[i]), RemoveAt(tx, i), U)
    BY <1>3, <2>1, <2>2, Answered
  <2>. QED  BY <1>1, <1>2, <1>3, <1>4, <2>3 DEF P, x, R, U
<1>6. LineType'
  <2>1. tx' \in Seq(Cmds)
    BY <1>1, <1>3, RemoveAtPlaces
  <2> HIDE DEF r
  <2>2. rx' \in Seq(T)
    BY <1>1, <1>3
  <2>3. ASSUME NEW j \in DOMAIN rx', rx'[j].how # "ok"
        PROVE  IsForward(rx'[j].cmd)
    <3>1. CASE j \in DOMAIN rx
      <4>1. rx'[j] = rx[j]
        BY <1>1, <1>3, <3>1
      <4>. QED  BY <2>3, <3>1, <4>1 DEF LinkIInv, LineInv, LineType
    <3>2. CASE j \notin DOMAIN rx
      <4>1. rx'[j] = r
        BY <1>1, <1>3, <2>3, <3>2
      <4>. QED  BY <1>1, <2>3, <4>1 DEF r
    <3>. QED  BY <3>1, <3>2
  <2>. QED  BY <2>1, <2>2, <2>3 DEF LineType
<1>7. Counts'
  BY <1>2, LineFacts DEF Counts
<1>8. \A d \in Cmds : no_sent'[d] >= no_sent[d]
  BY <1>2, <1>3
<1>. QED  BY <1>1, <1>2, <1>5, <1>6, <1>7, <1>8, After DEF LinkIInv

\* The command that gets an answer is the one that was answered, or none of
\* those with the same answers is looked at.
LEMMA MatchedFacts ==
    ASSUME LinkIInv, pc = "idle", rx # <<>>,
           NEW S, S \subseteq {d \in Cmds : SameAnswer(Head(rx).cmd, d)},
           Head(rx).cmd \in S
    PROVE  /\ Head(rx).cmd \in Cmds
           /\ AnswersOf(Tail(rx)) \in Seq(Cmds)
           /\ InStep(m_pending, Head(rx).cmd, AnswersOf(Tail(rx)), tx, Steady)
           /\ ToSet(m_pending) \cap S = {} => Head(rx).cmd \notin Steady
           /\ \A i \in DOMAIN m_pending : FirstPending(i, S) =>
                 /\ m_pending[i] = Head(rx).cmd \/ Head(rx).cmd \notin Steady
                 /\ InStep(m_pending, m_pending[i], AnswersOf(Tail(rx)), tx, Steady)
<1> DEFINE c == Head(rx).cmd
           R == AnswersOf(rx)
<1>1. /\ R \in Seq(Cmds) /\ R # <<>> /\ Head(R) = c /\ AnswersOf(Tail(rx)) = Tail(R)
      /\ c \in Cmds /\ Tail(R) \in Seq(Cmds)
  <2>1. /\ R \in Seq(Cmds) /\ R # <<>> /\ Head(R) = c /\ AnswersOf(Tail(rx)) = Tail(R)
    BY LineFacts, AnswersFacts
  <2> HIDE DEF R
  <2>2. Head(R) \in Cmds /\ Tail(R) \in Seq(Cmds)
    BY <2>1
  <2>. QED  BY <2>1, <2>2
<1>2. InStep(m_pending, "none", R, tx, Steady)
  BY LineFacts DEF RunningCmd
<1> HIDE DEF c, R
<1>3. InStep(m_pending, c, Tail(R), tx, Steady)
  BY <1>1, <1>2, SteadyClass, Taken
<1>4. S \subseteq Cmds /\ c \in S /\ \A d \in S : SameAnswer(c, d)
  BY DEF c
<1>5. ASSUME ToSet(m_pending) \cap S = {}, c \in Steady  PROVE FALSE
  <2>1. c \in ToSet(R)
    BY <1>1 DEF ToSet
  <2>2. c \in ToSet(m_pending)
    BY <1>2, <1>5, <2>1 DEF InStep
  <2>. QED  BY <1>4, <1>5, <2>2
<1>6. ASSUME NEW i \in DOMAIN m_pending, FirstPending(i, S)
      PROVE  /\ m_pending[i] = c \/ c \notin Steady
             /\ InStep(m_pending, m_pending[i], Tail(R), tx, Steady)
  <2> DEFINE d == m_pending[i]
  <2>1. d \in S /\ \A j \in 1 .. (i - 1) : m_pending[j] # c
    BY <1>4, <1>6 DEF FirstPending
  <2>2. d \in Cmds /\ SameAnswer(c, d) /\ (c \in Steady <=> d \in Steady)
    BY <1>1, <1>4, <2>1, SteadyClass
  <2>3. CASE c \in Steady
    <3>1. m_pending \in Seq(Cmds) /\ IsInjective(m_pending)
      BY QueueFacts DEF LinkIInv
    <3>2. d = c
      <4> DEFINE U == Steady
                 P == m_pending
      <4>1. U \in SUBSET Cmds /\ "none" \notin U /\ InStep(P, "none", R, tx, U)
        BY <1>2, SteadyClass
      <4>2. /\ R \in Seq(Cmds) /\ R # <<>> /\ c = Head(R)
            /\ c \in U /\ d \in U /\ SameAnswer(c, d)
            /\ \A j \in 1 .. (i - 1) : P[j] # c
        BY <1>1, <2>1, <2>2, <2>3
      <4>3. P \in Seq(Cmds) /\ IsInjective(P) /\ i \in DOMAIN P /\ d = P[i]
        BY <1>6, <3>1
      <4> HIDE DEF U, P, d
      <4>. QED  BY <4>1, <4>2, <4>3, FirstIsAnswered
    <3>. QED  BY <1>3, <3>2
  <2>4. CASE c \notin Steady
    <3>1. d \notin Steady
      BY <2>2, <2>4
    <3> HIDE DEF d
    <3>2. InStep(m_pending, d, Tail(R), tx, Steady)
      BY <1>3, <2>4, <3>1, Running
    <3>. QED  BY <2>4, <3>2 DEF d
  <2>. QED  BY <2>3, <2>4
<1>. QED  BY <1>1, <1>3, <1>5, <1>6 DEF c

\* The commands that may get an answer to c, as the handlers look for them.
CandidatesOf(c, S) ==
    \/ \E a \in Answer[Code[c]] : IsForward(c) /\ S = AnsweredByBus(Module[c], a)
    \/ \E a \in UsbAnswer(Kind[c]) : ~IsForward(c) /\ S = AnsweredByUsb(a)
    \/ IsForward(c) /\ S = {d \in Forwards : Module[d] = Module[c] /\ Code[d] = Code[c]}
    \/ IsForward(c) /\ S = {d \in Forwards : Module[d] = Module[c]}

LEMMA CandidatesFacts ==
    ASSUME NEW c \in Cmds, NEW S, CandidatesOf(c, S)
    PROVE  S \subseteq {d \in Cmds : SameAnswer(c, d)} /\ c \in S
<1>1. CASE \E a \in Answer[Code[c]] : IsForward(c) /\ S = AnsweredByBus(Module[c], a)
  BY <1>1 DEF AnsweredByBus, Forwards, IsForward, SameAnswer
<1>2. CASE IsForward(c) /\ S = {d \in Forwards : Module[d] = Module[c] /\ Code[d] = Code[c]}
  BY <1>2 DEF Forwards, IsForward, SameAnswer
<1>3. CASE IsForward(c) /\ S = {d \in Forwards : Module[d] = Module[c]}
  BY <1>3 DEF Forwards, IsForward, SameAnswer
<1>4. CASE \E a \in UsbAnswer(Kind[c]) : ~IsForward(c) /\ S = AnsweredByUsb(a)
  <2>1. PICK a \in UsbAnswer(Kind[c]) : ~IsForward(c) /\ S = AnsweredByUsb(a)
    BY <1>4
  <2>2. ASSUME NEW d \in Cmds, a \in UsbAnswer(Kind[d])
        PROVE  ~IsForward(d) /\ UsbAnswer(Kind[d]) = UsbAnswer(Kind[c])
    <3>1. Kind[c] \in Kinds /\ Kind[d] \in Kinds
      BY MtbUsbAssumption
    <3>. QED  BY <2>1, <2>2, <3>1 DEF UsbAnswer, Kinds, IsForward, Forwards
  <2>. QED  BY <2>1, <2>2 DEF AnsweredByUsb, SameAnswer
<1>. QED  BY <1>1, <1>2, <1>3, <1>4 DEF CandidatesOf

\* What a handler does with an answer to c: a callback of the first candidate
\* that is pending starts, or nothing happens.
LEMMA ReceiveOutcome ==
    ASSUME NEW c \in Cmds, NEW how, how # "ok" => IsForward(c), Receive(c, how)
    PROVE  \E S : /\ CandidatesOf(c, S)
                  /\ \/ \E i \in DOMAIN m_pending : FirstPending(i, S) /\ StartOk(i)
                     \/ \E i \in DOMAIN m_pending, error \in CmdErrors :
                           FirstPending(i, S) /\ StartError(i, error, "error")
                     \/ /\ ToSet(m_pending) \cap S = {}
                        /\ UNCHANGED <<open, alive, queues, pc, cur, status, stalled>>
<1> DEFINE Outcome(S) ==
             \/ \E i \in DOMAIN m_pending : FirstPending(i, S) /\ StartOk(i)
             \/ \E i \in DOMAIN m_pending, error \in CmdErrors :
                   FirstPending(i, S) /\ StartError(i, error, "error")
             \/ /\ ToSet(m_pending) \cap S = {}
                /\ UNCHANGED <<open, alive, queues, pc, cur, status, stalled>>
<1>1. ASSUME NEW S, Unmatched(S)  PROVE Outcome(S)
  BY <1>1 DEF Unmatched, vars, queues
<1>2. CASE how = "noresponse" /\ (\/ ReceiveNoResponse(Module[c], Code[c])
                                  \/ Unmatched({d \in Forwards : Module[d] = Module[c] /\ Code[d] = Code[c]}))
  <2> DEFINE S == {d \in Forwards : Module[d] = Module[c] /\ Code[d] = Code[c]}
  <2>1. CandidatesOf(c, S)
    BY <1>2 DEF CandidatesOf
  <2>2. CASE ReceiveNoResponse(Module[c], Code[c])
    <3>1. Outcome(S)
      BY <2>2 DEF ReceiveNoResponse, CmdErrors
    <3>. QED  BY <2>1, <3>1
  <2>3. CASE Unmatched(S)
    BY <1>1, <2>1, <2>3, Zenon
  <2>. QED  BY <1>2, <2>2, <2>3
<1>3. CASE how = "buserror" /\ (\/ ReceiveBusError(Module[c])
                                \/ Unmatched({d \in Forwards : Module[d] = Module[c]}))
  <2> DEFINE S == {d \in Forwards : Module[d] = Module[c]}
  <2>1. CandidatesOf(c, S)
    BY <1>3 DEF CandidatesOf
  <2>2. CASE ReceiveBusError(Module[c])
    <3>1. Outcome(S)
      BY <2>2 DEF ReceiveBusError, CmdErrors
    <3>. QED  BY <2>1, <3>1
  <2>3. CASE Unmatched(S)
    BY <1>1, <2>1, <2>3, Zenon
  <2>. QED  BY <1>3, <2>2, <2>3
<1>4. ASSUME how = "ok", IsForward(c), NEW a \in Answer[Code[c]],
             ReceiveBus(Module[c], a) \/ Unmatched(AnsweredByBus(Module[c], a))
      PROVE  \E S : CandidatesOf(c, S) /\ Outcome(S)
  <2> DEFINE S == AnsweredByBus(Module[c], a)
  <2>1. CandidatesOf(c, S)
    BY <1>4 DEF CandidatesOf
  <2>2. CASE ReceiveBus(Module[c], a)
    <3>1. Outcome(S)
      BY <2>2 DEF ReceiveBus
    <3>. QED  BY <2>1, <3>1
  <2>3. CASE Unmatched(S)
    BY <1>1, <2>1, <2>3, Zenon
  <2>. QED  BY <1>4, <2>2, <2>3
<1>5. ASSUME how = "ok", ~IsForward(c), NEW a \in UsbAnswer(Kind[c]), ReceiveUsb(a)
      PROVE  \E S : CandidatesOf(c, S) /\ Outcome(S)
  <2> DEFINE S == AnsweredByUsb(a)
  <2>1. CandidatesOf(c, S)
    BY <1>5 DEF CandidatesOf
  <2>2. Outcome(S)
    BY <1>5 DEF ReceiveUsb
  <2>. QED  BY <2>1, <2>2
<1>. QED  BY <1>2, <1>3, <1>4, <1>5 DEF Receive

LEMMA LinkReceive ==
    ASSUME LinkIInv, ReceiveNext
    PROVE  /\ IInv' => LineInv'
           /\ pc' \in {"ok", "error"} => cur' = Head(rx).cmd \/ TimedOut(Head(rx).cmd)
<1> DEFINE r == Head(rx)
           c == r.cmd
           T == [cmd : Cmds, how : {"ok", "noresponse", "buserror"}]
<1>1. /\ pc = "idle" /\ open /\ rx # <<>> /\ Receive(c, r.how)
      /\ rx' = Tail(rx) /\ tx' = tx
  BY DEF ReceiveNext, Idle
<1>2. c \in Cmds /\ (r.how # "ok" => IsForward(c))
  <2>1. rx \in Seq(T) /\ \A i \in DOMAIN rx : rx[i].how # "ok" => IsForward(rx[i].cmd)
    BY DEF LinkIInv, LineInv, LineType
  <2>2. 1 \in DOMAIN rx /\ r = rx[1] /\ rx[1] \in T
    <3> HIDE DEF T
    <3>. QED  BY <1>1, <2>1, TailIsRemoveAt
  <2>. QED  BY <2>1, <2>2
<1> HIDE DEF r
<1>3. PICK S : /\ CandidatesOf(c, S)
               /\ \/ \E i \in DOMAIN m_pending : FirstPending(i, S) /\ StartOk(i)
                  \/ \E i \in DOMAIN m_pending, error \in CmdErrors :
                        FirstPending(i, S) /\ StartError(i, error, "error")
                  \/ /\ ToSet(m_pending) \cap S = {}
                     /\ UNCHANGED <<open, alive, queues, pc, cur, status, stalled>>
  BY <1>1, <1>2, ReceiveOutcome, Zenon
<1> DEFINE R == AnswersOf(Tail(rx))
<1>4. /\ R \in Seq(Cmds)
      /\ InStep(m_pending, c, R, tx, Steady)
      /\ ToSet(m_pending) \cap S = {} => c \notin Steady
      /\ \A i \in DOMAIN m_pending : FirstPending(i, S) =>
            /\ m_pending[i] = c \/ c \notin Steady
            /\ InStep(m_pending, m_pending[i], R, tx, Steady)
  <2>1. S \subseteq {d \in Cmds : SameAnswer(Head(rx).cmd, d)} /\ Head(rx).cmd \in S
    BY <1>2, <1>3, CandidatesFacts DEF r
  <2>. QED  BY <1>1, <2>1, MatchedFacts DEF r
<1>5. c \notin Steady => TimedOut(c)
  BY <1>1, <1>2 DEF Steady
<1>6. LineType' /\ AnswersOf(rx)' = R
  <2>1. rx \in Seq(T) /\ Tail(rx) \in Seq(T) /\ tx \in Seq(Cmds)
    BY <1>1, LineFacts
  <2>2. \A j \in DOMAIN Tail(rx) : j + 1 \in DOMAIN rx /\ Tail(rx)[j] = rx[j + 1]
    BY <1>1, <2>1
  <2>3. \A j \in DOMAIN Tail(rx) : Tail(rx)[j].how # "ok" => IsForward(Tail(rx)[j].cmd)
    BY <2>2 DEF LinkIInv, LineInv, LineType
  <2>. QED  BY <1>1, <2>1, <2>3 DEF LineType
<1> HIDE DEF c, R
<1>7. /\ no_sent \in [Cmds -> 0 .. RESEND_MAX] /\ \A d \in Cmds : no_sent[d] \in Int
  BY QueueFacts DEF LinkIInv
<1>8. ASSUME NEW i \in DOMAIN m_pending, FirstPending(i, S), StartOk(i)
      PROVE  (IInv' => LineInv') /\ (cur' = c \/ TimedOut(c))
  <2>1. /\ m_pending' = m_pending /\ m_out' = m_out /\ no_sent' = no_sent
        /\ status' = status /\ open' = open /\ pc' = "ok" /\ cur' = m_pending[i]
        /\ RunningCmd' = m_pending[i]
    BY <1>8 DEF StartOk, queues, RunningCmd
  <2>2. InStep(m_pending', RunningCmd', AnswersOf(rx)', tx', Steady)
    BY <1>1, <1>4, <1>6, <1>8, <2>1
  <2>3. Counts' /\ \A d \in Cmds : no_sent'[d] >= no_sent[d]
    BY <1>7, <2>1, LineFacts DEF Counts
  <2>. QED  BY <1>1, <1>4, <1>5, <1>6, <1>8, <2>1, <2>2, <2>3, After DEF LinkIInv
<1>9. ASSUME NEW i \in DOMAIN m_pending, NEW error \in CmdErrors,
             FirstPending(i, S), StartError(i, error, "error")
      PROVE  (IInv' => LineInv') /\ (cur' = c \/ TimedOut(c))
  <2>1. cur' = m_pending[i] /\ pc' = "error" /\ open' = open
    BY <1>9 DEF StartError
  <2>2. /\ InStep(m_pending', RunningCmd', R, tx, Steady)
        /\ Counts'
        /\ \A d \in Cmds : no_sent'[d] >= no_sent[d]
        /\ \A d \in Cmds : status[d] \in {"UsbNoResponse", "PendingConflict"} =>
                              status'[d] = status[d]
    <3> DEFINE x == m_pending[i]
               U == Steady
    <3>1. /\ x \in {"none", m_pending[i]} /\ InStep(m_pending, x, R, tx, U)
          /\ U \in SUBSET Steady /\ (m_pending[i] \in U => m_pending[i] = x)
      BY <1>4, <1>9
    <3> HIDE DEF x, U
    <3>2. /\ InStep(m_pending', RunningCmd', R, tx, U)
          /\ Counts'
          /\ \A d \in Cmds : no_sent'[d] >= no_sent[d]
          /\ \A d \in Cmds : status[d] \in {"UsbNoResponse", "PendingConflict"} =>
                                status'[d] = status[d]
      BY <1>1, <1>9, <3>1, EndWithError
    <3>. QED  BY <3>2 DEF U
  <2>. QED  BY <1>1, <1>4, <1>5, <1>6, <1>9, <2>1, <2>2, After DEF LinkIInv
<1>10. ASSUME ToSet(m_pending) \cap S = {},
              UNCHANGED <<open, alive, queues, pc, cur, status, stalled>>
       PROVE  (IInv' => LineInv') /\ pc' = "idle"
  <2>1. /\ m_pending' = m_pending /\ m_out' = m_out /\ no_sent' = no_sent
        /\ status' = status /\ open' = open /\ pc' = "idle"
        /\ RunningCmd' = "none"
    BY <1>1, <1>10 DEF queues, RunningCmd
  <2>2. InStep(m_pending, "none", R, tx, Steady)
    BY <1>4, <1>10, SteadyClass, Running
  <2>3. Counts' /\ \A d \in Cmds : no_sent'[d] >= no_sent[d]
    BY <1>7, <2>1, LineFacts DEF Counts
  <2>. QED  BY <1>1, <1>6, <2>1, <2>2, <2>3, After DEF LinkIInv
<1>. QED  BY <1>3, <1>8, <1>9, <1>10 DEF c, r

-----------------------------------------------------------------------------
(* Theorems *)

\* The link adds no behaviour to MtbUsb.
LEMMA LinkIsNext ==
    ASSUME LinkIInv, [LinkNext]_linkVars
    PROVE  [Next]_vars
<1>1. CASE UNCHANGED linkVars
  BY <1>1 DEF linkVars, vars
<1>2. CASE LinkLocal
  BY <1>2 DEF LinkLocal, Next, Handler, Continue
<1>3. CASE \E i \in DOMAIN tx, how \in {"ok", "noresponse", "buserror"} : DeviceAnswers(i, how)
  BY <1>3 DEF DeviceAnswers
<1>4. CASE ReceiveNext
  <2> DEFINE c == Head(rx).cmd
             how == Head(rx).how
  <2>1. Receive(c, how)
    BY <1>4 DEF ReceiveNext
  <2>2. c \in Cmds
    <3>1. rx # <<>>
      BY <1>4 DEF ReceiveNext
    <3>2. AnswersOf(rx) \in Seq(Cmds) /\ AnswersOf(rx) # <<>> /\ Head(AnswersOf(rx)) = c
      BY <3>1, LineFacts, AnswersFacts
    <3> HIDE DEF c
    <3>. QED  BY <3>2
  <2> HIDE DEF c, how
  <2>3. /\ Module[c] \in Modules /\ Code[c] \in BusCodes /\ Answer[Code[c]] \subseteq BusAnswers
        /\ UsbAnswer(Kind[c]) \subseteq UsbAnswers
    BY <2>2, MtbUsbAssumption DEF UsbAnswer, UsbAnswers
  <2>. QED  BY <2>1, <2>3 DEF Receive, Unmatched, Next, Handler
<1>. QED  BY <1>1, <1>2, <1>3, <1>4 DEF LinkNext

LEMMA LinkInitially == LinkInit => LinkIInv
<1> SUFFICES ASSUME LinkInit  PROVE LinkIInv
  OBVIOUS
<1>1. IInv
  BY InitIInv DEF LinkInit
<1>2. LineType /\ Counts
  BY DEF LinkInit, Init, LineType, Counts, CountsOf, ToSet
<1>3. LineInStep
  BY EmptyLine DEF LinkInit, Init, LineInStep
<1>. QED  BY <1>1, <1>2, <1>3 DEF LinkIInv, LineInv, LinkInit

LEMMA LinkStep ==
    ASSUME LinkIInv, [LinkNext]_linkVars
    PROVE  LinkIInv'
<1>1. IInv'
  BY LinkIsNext, NextStep DEF LinkIInv
<1>2. CASE UNCHANGED linkVars
  <2>1. /\ UNCHANGED <<open, m_pending, m_out, no_sent, pc, cur, status, tx, rx>>
    BY <1>2 DEF linkVars
  <2>2. LineType' /\ Counts' /\ LineInStep'
    BY <2>1 DEF LinkIInv, LineInv, LineType, Counts, LineInStep, RunningCmd,
                AnswersOf, Steady, TimedOut
  <2>. QED  BY <1>1, <2>1, <2>2 DEF LinkIInv, LineInv
<1>3. CASE LinkLocal
  BY <1>1, <1>3, LinkSend, LinkTick, LinkOpenClose, LinkReturnOk, LinkReturnError,
     LinkCloseFront, LinkClosed DEF LinkLocal, LinkIInv
<1>4. CASE \E i \in DOMAIN tx, how \in {"ok", "noresponse", "buserror"} : DeviceAnswers(i, how)
  BY <1>1, <1>4, LinkAnswer DEF LinkIInv
<1>5. CASE ReceiveNext
  BY <1>1, <1>5, LinkReceive DEF LinkIInv
<1>. QED  BY <1>2, <1>3, <1>4, <1>5 DEF LinkNext

\* Every command that waits has a copy or an answer on the line, unless one with the
\* same answers timed out, for any commands, devices that answer late, and limits.
THEOREM OnTheLineOrTimedOut == LinkSpec => []PendingIsOnTheLine
<1>1. LinkIInv => PendingIsOnTheLine
  <2> SUFFICES ASSUME LinkIInv, NEW c \in ToSet(m_pending), pc # "close", ~TimedOut(c),
                      ~(pc = "ok" /\ cur = c)
               PROVE  OnTheLine(c)
    BY DEF PendingIsOnTheLine
  <2>1. c \in Steady /\ c # RunningCmd
    BY QueueFacts, MtbUsbAssumption DEF LinkIInv, Steady, RunningCmd
  <2>2. c \in ToSet(AnswersOf(rx)) \cup ToSet(tx)
    BY <2>1, LineFacts DEF InStep
  <2>3. c \in ToSet(AnswersOf(rx)) => \E i \in DOMAIN rx : rx[i].cmd = c
    BY LineFacts, AnswersFacts DEF ToSet
  <2>. QED  BY <2>2, <2>3 DEF OnTheLine
<1>2. LinkInit => LinkIInv
  BY LinkInitially
<1>3. LinkIInv /\ [LinkNext]_linkVars => LinkIInv'
  BY LinkStep
<1>. QED  BY <1>1, <1>2, <1>3, PTL DEF LinkSpec

\* The callback that an answer starts is that of the command that was answered, unless
\* one with the same answers timed out.
THEOREM RightCallback == LinkSpec => AnswerReachesItsCommand
<1>1. LinkInit => LinkIInv
  BY LinkInitially
<1>2. LinkIInv /\ [LinkNext]_linkVars => LinkIInv'
  BY LinkStep
<1>3. LinkIInv /\ [LinkNext]_linkVars =>
        [ReceiveNext /\ pc' \in {"ok", "error"} =>
            cur' = Head(rx).cmd \/ TimedOut(Head(rx).cmd)]_linkVars
  BY LinkReceive
<1>. QED  BY <1>1, <1>2, <1>3, PTL DEF LinkSpec, AnswerReachesItsCommand
=============================================================================
