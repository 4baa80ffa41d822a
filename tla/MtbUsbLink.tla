----------------------------- MODULE MtbUsbLink -----------------------------
(***************************************************************************)
(* MtbUsb on a serial line with the MTB-USB module at the other end.       *)
(*                                                                         *)
(* Answers carry no number: MtbUsb gives an answer to the first pending    *)
(* command that accepts it.  Here every answer remembers the command it is *)
(* an answer to, so that a run can ask whether the right callback was      *)
(* called.                                                                 *)
(*                                                                         *)
(* The device is external.  As MtbUsb relies on it, it answers the         *)
(* commands meant for itself in their order and passes the forwarded ones  *)
(* to the bus in their order; the two kinds overtake each other.  The Slow *)
(* commands may be answered late, after MtbUsb wrote them again, and then  *)
(* both copies are answered.  No callback throws or gives the connection   *)
(* up here: what follows then is asked of MtbUsb alone.                    *)
(***************************************************************************)
EXTENDS MtbUsb

CONSTANT Slow  \* the commands that the device may answer after the timeout

ASSUME LinkAssumption ==
    /\ Slow \subseteq Cmds
    /\ Fatal = {} /\ Throwing = {}
    /\ \A c \in Cmds : Answer[Code[c]] # {}

VARIABLES
    tx,  \* commands written to the port that the device has not handled
    rx   \* answers on their way: the command and the way it was answered

linkVars == <<open, alive, m_pending, m_out, no_sent, known, pc, cur, status,
              stalled, tx, rx>>

LinkInit == Init /\ tx = <<>> /\ rx = <<>>

\* A step writes the command whose number of writings it increases.
Written ==
    LET w == {c \in Cmds : no_sent'[c] > no_sent[c]}
    IN tx' = IF w = {} THEN tx ELSE Append(tx, CHOOSE c \in w : TRUE)

\* A step of MtbUsb that receives nothing; a closed port has empty buffers.
LinkLocal ==
    \/ /\ \/ \E c \in Cmds : Send(c)
          \/ PendingTimerTick /\ Head(m_pending) \in Slow
          \/ Connect
          \/ Disconnect
          \/ ReturnOk
          \/ ReturnError
          \/ CloseFront
       /\ Written
       /\ UNCHANGED rx
    \/ Closed /\ tx' = <<>> /\ rx' = <<>>

IsForward(c) == c \in Forwards

\* The device handles the first command of its kind, or it answers that the
\* module did not respond, or passes on the module's error.
DeviceAnswers(i, how) ==
    /\ alive /\ open
    /\ i \in DOMAIN tx
    /\ \A j \in 1 .. (i - 1) : IsForward(tx[j]) # IsForward(tx[i])
    /\ how # "ok" => IsForward(tx[i])
    /\ tx' = RemoveAt(tx, i)
    /\ rx' = Append(rx, [cmd |-> tx[i], how |-> how])
    /\ UNCHANGED vars

\* None of the commands of S is pending: the message is only logged.
Unmatched(S) == ToSet(m_pending) \cap S = {} /\ UNCHANGED vars

\* The handler of MtbUsb for the answer to command c.
Receive(c, how) ==
    \/ /\ how = "noresponse"
       /\ \/ ReceiveNoResponse(Module[c], Code[c])
          \/ Unmatched({d \in Forwards : Module[d] = Module[c] /\ Code[d] = Code[c]})
    \/ /\ how = "buserror"
       /\ \/ ReceiveBusError(Module[c])
          \/ Unmatched({d \in Forwards : Module[d] = Module[c]})
    \/ /\ how = "ok" /\ IsForward(c)
       /\ \E a \in Answer[Code[c]] :
             ReceiveBus(Module[c], a) \/ Unmatched(AnsweredByBus(Module[c], a))
    \/ /\ how = "ok" /\ ~IsForward(c)
       /\ \E a \in UsbAnswer(Kind[c]) : ReceiveUsb(a)

ReceiveNext ==
    /\ Idle /\ open
    /\ rx # <<>>
    /\ Receive(Head(rx).cmd, Head(rx).how)
    /\ rx' = Tail(rx)
    /\ UNCHANGED tx

LinkNext ==
    \/ LinkLocal
    \/ \E i \in DOMAIN tx, how \in {"ok", "noresponse", "buserror"} :
          DeviceAnswers(i, how)
    \/ ReceiveNext

LinkSpec == LinkInit /\ [][LinkNext]_linkVars

-----------------------------------------------------------------------------
(* Properties *)

\* Two commands whose answers cannot be told apart.
SameAnswer(c, d) ==
    IF IsForward(c) THEN IsForward(d) /\ Module[c] = Module[d]
    ELSE ~IsForward(d) /\ UsbAnswer(Kind[c]) = UsbAnswer(Kind[d])

\* The timeout of a command with the same answers as c passed: it was written
\* twice, or it ended with its answer still to come.
TimedOut(c) ==
    \E d \in Cmds :
        /\ SameAnswer(d, c)
        /\ no_sent[d] > 1 \/ status[d] \in {"UsbNoResponse", "PendingConflict"}

\* The callback called for an answer is the one of the command that the device
\* answered, as long as no command with the same answers timed out: whatever
\* waited in m_out, overtook there or ended before.
AnswerReachesItsCommand ==
    [][ ReceiveNext /\ pc' \in {"ok", "error"} =>
          cur' = Head(rx).cmd \/ TimedOut(Head(rx).cmd) ]_linkVars

\* A command waits with no copy of it and no answer to it on the line only if
\* its answer was given to another command after a timeout.
OnTheLine(c) ==
    \/ c \in ToSet(tx)
    \/ \E i \in DOMAIN rx : rx[i].cmd = c

PendingIsOnTheLine ==
    \A c \in ToSet(m_pending) :
        \/ OnTheLine(c)
        \/ pc = "ok" /\ cur = c
        \/ pc = "close"
        \/ TimedOut(c)
=============================================================================
