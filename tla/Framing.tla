------------------------------ MODULE Framing ------------------------------
(***************************************************************************)
(* How MtbUsb finds messages in the bytes it receives (spHandleReadyRead): *)
(* a message is 2A 42, a length and as many bytes; bytes arrive in pieces, *)
(* and what was read is thrown away when nothing followed it for a while.  *)
(***************************************************************************)
EXTENDS Integers, Sequences, SequencesExt

CONSTANTS
  Messages,      \* what MTB-USB may send: command codes with their data
  MAX_MESSAGES,  \* bound: messages MTB-USB sends
  MAX_LOST       \* bound: bytes that are lost on the way

Byte == 0 .. 255

\* The code takes a length above 127 for a negative one.
ASSUME MessagesAssumption ==
  \A m \in Messages : m \in Seq(Byte) /\ Len(m) \in 1 .. 127

VARIABLES
  line,      \* external: bytes that were sent and not read yet
  late,      \* m_receiveTimeout has passed
  readData,  \* m_readData
  parsed,    \* messages given to parseMtbUsbMessage
  \* history
  sent,      \* messages sent since the last point of synchrony
  clean,     \* nothing disturbed the reading since then
  lost       \* bytes lost so far

vars == <<line, late, readData, parsed, sent, clean, lost>>

Header == <<42, 66>>
Frame(m) == Header \o <<Len(m)>> \o m

Init ==
  /\ line = <<>> /\ late = FALSE /\ readData = <<>>
  /\ parsed = <<>> /\ sent = <<>> /\ clean = TRUE /\ lost = 0

\* buf without what precedes its first header; all of it goes when there is none.
FromHeader(buf) ==
  LET at == {i \in 1 .. Len(buf) - 1 : SubSeq(buf, i, i + 1) = Header}
  IN  IF at = {} THEN <<>> ELSE SubSeq(buf, CHOOSE i \in at : \A j \in at : i <= j, Len(buf))

\* Mutant: a message is cut only when more bytes follow.
WholeAtLate(buf, p) == Len(buf) - p + 1 > 2 /\ Len(buf) - p + 1 > buf[p + 2] + 3

\* A whole message starts at p.  Only the first one is known to start with a header.
WholeAt(buf, p) == Len(buf) - p + 1 > 2 /\ Len(buf) - p + 1 >= buf[p + 2] + 3
NextAt(buf, p) == p + buf[p + 2] + 3

\* The messages the loop cuts off buf from p on, and what it leaves.
CutFrom(buf) ==
  LET cut[p \in 1 .. Len(buf) + 1] ==
        IF WholeAt(buf, p)
        THEN [messages |-> <<SubSeq(buf, p + 3, p + 2 + buf[p + 2])>>
                              \o cut[NextAt(buf, p)].messages,
              rest |-> cut[NextAt(buf, p)].rest]
        ELSE [messages |-> <<>>, rest |-> SubSeq(buf, p, Len(buf))]
  IN  cut

Cut(buf) == CutFrom(buf)[1]

\* Mutant: the timeout is forgotten.
KeptAlways == readData

\* What of the old bytes is kept when new ones arrive.
Kept == IF late THEN <<>> ELSE readData

\* A piece of n bytes has arrived.  A first piece of one byte loses its message.
SpHandleReadyRead(n) ==
  LET buf  == Kept \o SubSeq(line, 1, n)
      step == Cut(FromHeader(buf))
  IN  /\ parsed' = parsed \o step.messages
      /\ readData' = step.rest
      /\ line' = SubSeq(line, n + 1, Len(line))
      /\ late' = FALSE
      /\ clean' = (clean /\ Len(buf) # 1)
      /\ UNCHANGED <<sent, lost>>

Send(m) ==
  /\ Len(sent) < MAX_MESSAGES
  /\ line' = line \o Frame(m)
  /\ sent' = Append(sent, m)
  /\ UNCHANGED <<late, readData, parsed, clean, lost>>

\* Nothing arrives for longer than _BUF_IN_TIMEOUT.  With everything read this is a point
\* of synchrony; in the middle of a message it disturbs the reading.
Pause ==
  /\ ~late \/ line = <<>>
  /\ late' = TRUE
  /\ IF line = <<>> THEN clean' = TRUE /\ sent' = <<>> /\ parsed' = <<>>
                    ELSE clean' = (clean /\ readData = <<>>) /\ UNCHANGED <<sent, parsed>>
  /\ UNCHANGED <<line, readData, lost>>

\* A byte is lost between MTB-USB and the daemon.
Lose(i) ==
  /\ lost < MAX_LOST
  /\ line' = RemoveAt(line, i)
  /\ lost' = lost + 1
  /\ clean' = FALSE
  /\ UNCHANGED <<late, readData, parsed, sent>>

Next ==
  \/ \E m \in Messages : Send(m)
  \/ Pause
  \/ \E n \in 1 .. Len(line) : SpHandleReadyRead(n)
  \/ \E i \in 1 .. Len(line) : Lose(i)

Spec == Init /\ [][Next]_vars

\* What has arrived is read: the event loop of Qt calls the slot.
FairSpec == Spec /\ WF_vars(\E n \in 1 .. Len(line) : SpHandleReadyRead(n))

(***************************************************************************)
(* Properties.                                                             *)
(***************************************************************************)

\* Since a pause with everything read, unless something disturbs the reading again, the
\* messages parsed are those sent, in their order, whatever was left of broken ones before
\* and wherever the pieces are cut; what is kept is the front of the next message, and
\* nothing once all bytes are read.
ParsedAsSent ==
  clean => /\ IsPrefix(parsed, sent)
           /\ ~late /\ line = <<>> => parsed = sent
           /\ ~late => \/ readData = <<>>
                       \/ /\ Len(parsed) < Len(sent)
                          /\ IsStrictPrefix(readData, Frame(sent[Len(parsed) + 1]))

\* A message sent to a daemon that reads undisturbed is parsed in the end.
EverythingParsed ==
  \A k \in 1 .. MAX_MESSAGES :
    (clean /\ Len(sent) >= k) ~> (~clean \/ sent = <<>> \/ Len(parsed) >= k)
=============================================================================
