------------------------------- MODULE MtbUsb -------------------------------
(***************************************************************************)
(* The transport of the daemon (class MtbUsb): at most MAX_PENDING         *)
(* commands are written to the serial port and wait for an answer in       *)
(* m_pending; the others wait in m_out.  An answer, an error answer or     *)
(* RESEND_MAX timeouts end a pending command, and one command of m_out is  *)
(* written in its place.                                                   *)
(*                                                                         *)
(* Everything runs in one thread.  A callback of a command runs inside the *)
(* handler that ended the command, and it may call send again, so a        *)
(* handler is not one step: pc tells which callback is running, and every  *)
(* Send taken while pc # "idle" is a send made by that callback.           *)
(*                                                                         *)
(*   "ok"       the ok callback of cur, which is still in m_pending        *)
(*   "error"    the error callback of cur, already removed from m_pending, *)
(*              for a message that is being parsed                         *)
(*   "timeout"  the same, called by the timer                              *)
(*   "close"    spAboutToClose, in the error callback of its loop's front  *)
(*                                                                         *)
(* A callback may throw.  spHandleReadyRead catches what is thrown while a *)
(* message is parsed, with the rest of the handler not done; nothing       *)
(* catches what an error callback throws out of a timer or of the closing  *)
(* of the port, and the process ends.                                      *)
(*                                                                         *)
(* Time is left out: m_pending is ordered by the time of writing, so only  *)
(* its front can have expired, and a tick of the timer that finds it       *)
(* expired is the action PendingTimerTick.  A write to an open QSerialPort *)
(* only appends to its buffer and does not fail.                           *)
(***************************************************************************)
EXTENDS Integers, Sequences, SequencesExt

CONSTANTS
    Cmds,         \* the commands, one per call of send
    Modules,      \* addresses of MTBbus modules (and of the broadcast)
    BusCodes,     \* command codes of the MTBbus commands in use
    BusAnswers,   \* codes of the MTBbus answers
    Kind,         \* Kind[c] is the class of c
    Module,       \* Module[c] is the address of a forwarded command
    Code,         \* Code[c] is its busCommandCode
    Answer,       \* Answer[b] are the answers processBusResponse accepts
    Fatal,        \* the commands whose error callback calls disconnect
    Throwing,     \* the commands whose error callback may throw
    MAX_PENDING,
    RESEND_MAX

Kinds == {"info", "speed", "active", "ping", "forward"}

ASSUME MtbUsbAssumption ==
    /\ Kind \in [Cmds -> Kinds]
    /\ Module \in [Cmds -> Modules]
    /\ Code \in [Cmds -> BusCodes]
    /\ Answer \in [BusCodes -> SUBSET BusAnswers]
    /\ Fatal \subseteq Cmds
    /\ Throwing \subseteq Cmds \ Fatal
    /\ MAX_PENDING \in Nat \ {0}
    /\ RESEND_MAX \in Nat \ {0}
    /\ Cmds \cap {"none"} = {}

\* The commands that give the connection up are requests to MTB-USB itself and
\* the broadcast of a new speed.  MTB-USB has no error answer to the former and
\* none to a broadcast, which no module answers: only the timer tells that they
\* failed.  So no error callback closes the port inside the try of
\* spHandleReadyRead, where an exception would leave it half closed.  Here a
\* broadcast is a forwarded command like any other, so beside commands that
\* throw only the requests to MTB-USB are fatal.
ASSUME ThrowAssumption ==
    Throwing # {} => \A c \in Fatal : Kind[c] # "forward"

CmdErrors == {"SerialPortClosed", "UsbNoResponse", "BusNoResponse",
              "BusError", "PendingConflict"}

\* The messages from MTB-USB that can answer a command.
UsbAnswers == {"Ack", "MtbUsbInfo", "ActiveModules"}

VARIABLES
    open,       \* m_serialPort.isOpen()
    alive,      \* is the process running
    m_pending,  \* written commands that wait for their answer
    m_out,      \* commands that wait to be written
    no_sent,    \* how many times each command was written
    known,      \* which of m_mtbUsbInfo and m_activeModules have a value
    pc,         \* the callback that is running
    cur,        \* the command whose callback is running
    status,     \* how each command ended, as its callbacks saw it
    stalled     \* history: since the port was opened an error callback threw
                \* with nothing pending, while commands waited in m_out

vars == <<open, alive, m_pending, m_out, no_sent, known, pc, cur, status,
          stalled>>

queues == <<m_pending, m_out, no_sent>>

Init ==
    /\ open = FALSE
    /\ alive = TRUE
    /\ m_pending = <<>>
    /\ m_out = <<>>
    /\ no_sent = [c \in Cmds |-> 0]
    /\ known = {}
    /\ pc = "idle"
    /\ cur = "none"
    /\ status = [c \in Cmds |-> "new"]
    /\ stalled = FALSE

Idle == alive /\ pc = "idle"

\* The error callback of cur is running.
InError == pc \in {"error", "timeout"}

-----------------------------------------------------------------------------
(* Sending *)

\* Two changes of the speed are the only commands in conflict.
Conflict(c, d) == Kind[c] = "speed" /\ Kind[d] = "speed"

ConflictIn(c, queue) == \E d \in ToSet(queue) : Conflict(c, d)

\* The mutants of this module, defined before what they replace, are bugs
\* that its properties have to notice: here a conflict not looked for.
MustWaitNoConflict(c, pending, out, bypass) ==
    \/ Len(pending) >= MAX_PENDING
    \/ out # <<>> /\ ~bypass

MustWait(c, pending, out, bypass) ==
    \/ Len(pending) >= MAX_PENDING
    \/ out # <<>> /\ ~bypass
    \/ ConflictIn(c, pending)

\* send(cmd, bypass_m_out_emptiness) and write(cmd), from given queues.
Dispatch(c, pending, out, bypass) ==
    IF MustWait(c, pending, out, bypass)
    THEN /\ m_pending' = pending
         /\ m_out' = Append(out, c)
         /\ UNCHANGED no_sent
    ELSE /\ m_pending' = Append(pending, c)
         /\ m_out' = out
         /\ no_sent' = [no_sent EXCEPT ![c] = 1]

\* Mutants: the place that got free is not filled; the command that fills it
\* stays in m_out.
SendNextOutNever(pending) ==
    m_pending' = pending /\ UNCHANGED <<m_out, no_sent>>

SendNextOutKept(pending) ==
    IF m_out = <<>>
    THEN m_pending' = pending /\ UNCHANGED <<m_out, no_sent>>
    ELSE Dispatch(Head(m_out), pending, m_out, TRUE)

\* if (!m_out.empty()) sendNextOut(); a conflict moves the command to the back.
SendNextOut(pending) ==
    IF m_out = <<>>
    THEN m_pending' = pending /\ UNCHANGED <<m_out, no_sent>>
    ELSE Dispatch(Head(m_out), pending, Tail(m_out), TRUE)

\* A callback is running, and it is not one that only calls disconnect.
CallbackRuns ==
    \/ pc = "ok"
    \/ InError /\ cur \notin Fatal
    \/ pc = "close" /\ m_pending # <<>> /\ Head(m_pending) \notin Fatal
    \/ pc = "close" /\ m_pending = <<>> /\ m_out # <<>> /\ Head(m_out) \notin Fatal

\* send(T &&cmd), called by a client's request, a timer or a callback.  What its
\* error callback throws is caught if a client's request called it.
Send(c) ==
    /\ alive
    /\ pc = "idle" \/ CallbackRuns
    /\ status[c] = "new"
    /\ IF open
       THEN /\ Dispatch(c, m_pending, m_out, FALSE)
            /\ status' = [status EXCEPT ![c] = "waiting"]
            /\ UNCHANGED alive
       ELSE /\ status' = [status EXCEPT ![c] = "SerialPortClosed"]
            /\ alive' = TRUE \/ (c \in Throwing /\ alive' = FALSE)
            /\ UNCHANGED queues
    /\ UNCHANGED <<open, known, pc, cur, stalled>>

-----------------------------------------------------------------------------
(* Answers *)

\* Mutant: the youngest command gets the answer.
LastPending(i, S) ==
    /\ i \in DOMAIN m_pending
    /\ m_pending[i] \in S
    /\ \A j \in (i + 1) .. Len(m_pending) : m_pending[j] \notin S

\* Position i of m_pending is the first that holds a command of S.
FirstPending(i, S) ==
    /\ i \in DOMAIN m_pending
    /\ m_pending[i] \in S
    /\ \A j \in 1 .. (i - 1) : m_pending[j] \notin S

UsbAnswer(kind) ==
    CASE kind = "info"   -> {"MtbUsbInfo"}
      [] kind = "active" -> {"ActiveModules"}
      [] kind \in {"speed", "ping"} -> {"Ack"}
      [] OTHER -> {}

Forwards == {c \in Cmds : Kind[c] = "forward"}

AnsweredByUsb(answer) == {c \in Cmds : answer \in UsbAnswer(Kind[c])}

AnsweredByBus(addr, answer) ==
    {c \in Forwards : Module[c] = addr /\ answer \in Answer[Code[c]]}

\* The ok callback of the command at position i starts.
StartOk(i) ==
    /\ pc' = "ok"
    /\ cur' = m_pending[i]
    /\ UNCHANGED <<open, alive, queues, status, stalled>>

\* parseMtbUsbMessage: the answers of MTB-USB itself; their data is stored
\* even when no command waits for it.
ReceiveUsb(answer) ==
    /\ Idle /\ open
    /\ known' = known \cup (CASE answer = "MtbUsbInfo" -> {"info"}
                              [] answer = "ActiveModules" -> {"modules"}
                              [] OTHER -> {})
    /\ \/ \E i \in DOMAIN m_pending :
            /\ FirstPending(i, AnsweredByUsb(answer))
            /\ StartOk(i)
       \/ /\ ToSet(m_pending) \cap AnsweredByUsb(answer) = {}
          /\ UNCHANGED <<open, alive, queues, pc, cur, status, stalled>>

\* parseMtbBusMessage: a module's answer that a forwarded command accepts.
ReceiveBus(addr, answer) ==
    /\ Idle /\ open
    /\ \E i \in DOMAIN m_pending :
          FirstPending(i, AnsweredByBus(addr, answer)) /\ StartOk(i)
    /\ UNCHANGED known

\* Mutant: the front of m_pending is erased, as if nothing was before cur.
ReturnOkFront ==
    /\ alive /\ pc = "ok"
    /\ SendNextOut(Tail(m_pending))
    /\ status' = [status EXCEPT ![cur] = "ok"]
    /\ pc' = "idle"
    /\ cur' = "none"
    /\ UNCHANGED <<open, alive, known, stalled>>

\* The ok callback returned: the command is found again, erased and replaced.
ReturnOk ==
    /\ alive /\ pc = "ok"
    /\ \E i \in DOMAIN m_pending :
          /\ m_pending[i] = cur
          /\ SendNextOut(RemoveAt(m_pending, i))
    /\ status' = [status EXCEPT ![cur] = "ok"]
    /\ pc' = "idle"
    /\ cur' = "none"
    /\ UNCHANGED <<open, alive, known, stalled>>

\* The ok callback threw: spHandleReadyRead logs the exception and goes on.
AbortOk ==
    /\ alive /\ pc = "ok"
    /\ pc' = "idle"
    /\ cur' = "none"
    /\ UNCHANGED <<open, alive, queues, known, status, stalled>>

-----------------------------------------------------------------------------
(* Errors and timeouts *)

\* The command at position i leaves m_pending and its error callback starts, in
\* the handler that caller names.
StartError(i, error, caller) ==
    /\ m_pending' = RemoveAt(m_pending, i)
    /\ status' = [status EXCEPT ![m_pending[i]] = error]
    /\ pc' = caller
    /\ cur' = m_pending[i]
    /\ UNCHANGED <<open, alive, m_out, no_sent, known, stalled>>

\* handleMtbUsbError: MTB-USB got no response from a module.
ReceiveNoResponse(addr, code) ==
    /\ Idle /\ open
    /\ \E i \in DOMAIN m_pending :
          /\ FirstPending(i, {c \in Forwards : Module[c] = addr /\ Code[c] = code})
          /\ StartError(i, "BusNoResponse", "error")

\* handleMtbBusError: a module answered with an error.
ReceiveBusError(addr) ==
    /\ Idle /\ open
    /\ \E i \in DOMAIN m_pending :
          /\ FirstPending(i, {c \in Forwards : Module[c] = addr})
          /\ StartError(i, "BusError", "error")

\* Mutants: one attempt more, one attempt less.
ExhaustedLate(c) == no_sent[c] > RESEND_MAX

ExhaustedEarly(c) == no_sent[c] >= RESEND_MAX - 1

\* The attempts of c are used up.
Exhausted(c) == no_sent[c] >= RESEND_MAX

\* pendingTimerTick and pendingResend, when the front of m_pending expired.
\* The timer runs only while the port is open.
PendingTimerTick ==
    /\ Idle /\ open
    /\ m_pending # <<>>
    /\ LET c == Head(m_pending) IN
       CASE Exhausted(c) -> StartError(1, "UsbNoResponse", "timeout")
         [] ~Exhausted(c) /\ ConflictIn(c, m_out) ->
              StartError(1, "PendingConflict", "timeout")
         [] OTHER ->
              /\ m_pending' = Append(Tail(m_pending), c)
              /\ no_sent' = [no_sent EXCEPT ![c] = @ + 1]
              /\ UNCHANGED <<open, alive, m_out, known, pc, cur, status, stalled>>

\* Mutant: an error answer ends its command without filling the place.
ReturnErrorUnfilled ==
    /\ alive /\ InError /\ cur \notin Fatal
    /\ pc' = "idle"
    /\ cur' = "none"
    /\ UNCHANGED <<open, alive, queues, known, status, stalled>>

\* The error callback returned: one command of m_out takes the free place.
ReturnError ==
    /\ alive /\ InError /\ cur \notin Fatal
    /\ SendNextOut(m_pending)
    /\ pc' = "idle"
    /\ cur' = "none"
    /\ UNCHANGED <<open, alive, known, status, stalled>>

\* The error callback threw while a message is parsed: spHandleReadyRead logs
\* the exception and goes on, and the free place is not filled.  With nothing
\* left in m_pending, m_out waits until the port is closed.
AbortError ==
    /\ alive /\ pc = "error" /\ cur \in Throwing
    /\ pc' = "idle"
    /\ cur' = "none"
    /\ stalled' = (m_pending = <<>> /\ m_out # <<>>)
    /\ UNCHANGED <<open, alive, queues, known, status>>

-----------------------------------------------------------------------------
(* The port *)

\* connect
Connect ==
    /\ Idle /\ ~open
    /\ open' = TRUE
    /\ UNCHANGED <<alive, queues, known, pc, cur, status, stalled>>

\* disconnect, called by spHandleError or by a callback that gives up.
Disconnect ==
    /\ alive /\ open
    /\ pc = "idle" \/ (InError /\ cur \in Fatal)
    /\ pc' = "close"
    /\ cur' = "none"
    /\ UNCHANGED <<open, alive, queues, known, status, stalled>>

\* The command at the front of spAboutToClose's loops.
ClosingFront == IF m_pending # <<>> THEN Head(m_pending) ELSE Head(m_out)

\* One round of the loops of spAboutToClose.  The port still counts as open, so
\* a callback that calls disconnect closes it again, which calls the callback
\* of the same front again, and so on until the stack is used up.
CloseFront ==
    /\ alive /\ pc = "close"
    /\ m_pending \o m_out # <<>>
    /\ IF ClosingFront \in Fatal
       THEN /\ alive' = FALSE
            /\ UNCHANGED <<queues, status>>
       ELSE /\ m_pending' = IF m_pending # <<>> THEN Tail(m_pending) ELSE <<>>
            /\ m_out' = IF m_pending # <<>> THEN m_out ELSE Tail(m_out)
            /\ status' = [status EXCEPT ![ClosingFront] = "SerialPortClosed"]
            /\ UNCHANGED <<alive, no_sent>>
    /\ UNCHANGED <<open, known, pc, cur, stalled>>

\* The error callback threw out of the timer or out of spAboutToClose.
Uncaught ==
    /\ alive
    /\ \/ pc = "timeout" /\ cur \in Throwing
       \/ /\ pc = "close"
          /\ m_pending \o m_out # <<>>
          /\ ClosingFront \in Throwing
    /\ alive' = FALSE
    /\ UNCHANGED <<open, queues, known, pc, cur, status, stalled>>

\* Mutant: m_out is thrown away without the callbacks of its commands.
ClosedDropsOut ==
    /\ alive /\ pc = "close"
    /\ m_pending = <<>>
    /\ m_out' = <<>>
    /\ open' = FALSE
    /\ known' = {}
    /\ pc' = "idle"
    /\ stalled' = FALSE
    /\ UNCHANGED <<alive, m_pending, no_sent, cur, status>>

\* The rest of spAboutToClose and of disconnect.
Closed ==
    /\ alive /\ pc = "close"
    /\ m_pending = <<>> /\ m_out = <<>>
    /\ open' = FALSE
    /\ known' = {}
    /\ pc' = "idle"
    /\ stalled' = FALSE
    /\ UNCHANGED <<alive, queues, cur, status>>

-----------------------------------------------------------------------------

\* The handlers that the event loop starts.
Handler ==
    \/ \E a \in UsbAnswers : ReceiveUsb(a)
    \/ \E m \in Modules, a \in BusAnswers : ReceiveBus(m, a)
    \/ \E m \in Modules, b \in BusCodes : ReceiveNoResponse(m, b)
    \/ \E m \in Modules : ReceiveBusError(m)
    \/ PendingTimerTick
    \/ Connect

\* What the thread does next by itself while a callback is running.
Continue ==
    \/ ReturnOk \/ AbortOk
    \/ ReturnError \/ AbortError \/ Uncaught
    \/ CloseFront \/ Closed

\* The process ended: nothing restarts it.
Dead == ~alive /\ UNCHANGED vars

Next ==
    \/ \E c \in Cmds : Send(c)
    \/ Handler
    \/ Disconnect
    \/ Continue
    \/ Dead

Spec == Init /\ [][Next]_vars

\* A handler runs to its end, a callback that gives up does disconnect, and the
\* timer's tick every 100 ms comes infinitely often, so a front that expired is
\* not passed over for ever by the messages that arrive in between.
Fairness ==
    /\ WF_vars(Continue)
    /\ WF_vars(InError /\ Disconnect)
    /\ SF_vars(PendingTimerTick)

FairSpec == Spec /\ Fairness

-----------------------------------------------------------------------------
(* Properties *)

\* Every variable has its type.
TypeOK ==
    /\ open \in BOOLEAN
    /\ alive \in BOOLEAN
    /\ m_pending \in Seq(Cmds)
    /\ m_out \in Seq(Cmds)
    /\ no_sent \in [Cmds -> 0 .. RESEND_MAX]
    /\ known \subseteq {"info", "modules"}
    /\ pc \in {"idle", "ok", "error", "timeout", "close"}
    /\ cur \in Cmds \cup {"none"}
    /\ status \in [Cmds -> {"new", "waiting", "ok"} \cup CmdErrors]
    /\ stalled \in BOOLEAN

\* Never more than MAX_PENDING commands wait for an answer, and "we ensure
\* pending buffer never contains commands with conflict" (send, which
\* pendingResend relies on), whatever the callbacks send and whatever is resent.
PendingSound ==
    /\ Len(m_pending) <= MAX_PENDING
    /\ \A i, j \in DOMAIN m_pending :
          i # j => ~Conflict(m_pending[i], m_pending[j])

\* A command in m_out is never left without a pending command whose end will
\* bring it on: "response from CS will send automatically" (send, which leaves
\* the commands in m_out to it), and nothing else takes commands out of m_out.
OutIsDrained == pc \in {"idle", "ok"} /\ m_out # <<>> => m_pending # <<>>

\* The one way to fail this is the exception of an error callback that ended the
\* last pending command; then nothing is written until the port is closed, by
\* spHandleError alone, as even the pings wait in m_out.
OnlyThrowsStall ==
    /\ pc \in {"idle", "ok"} /\ m_out # <<>> => m_pending # <<>> \/ stalled
    /\ stalled => open /\ m_pending = <<>> /\ pc \in {"idle", "close"}

\* A command waits for its end exactly while one of the queues holds it, and
\* they hold it once: none is lost by a move between queues, none doubled.
WaitingIsQueued ==
    /\ \A c \in Cmds : status[c] = "waiting" <=> c \in ToSet(m_pending \o m_out)
    /\ IsInjective(m_pending \o m_out)

\* A closed port leaves no command and no knowledge of the device behind.
ClosedIsClean == ~open => m_pending = <<>> /\ m_out = <<>> /\ known = {}

\* "No response" is reported only after the command was written RESEND_MAX times.
TimeoutAfterAllAttempts ==
    \A c \in Cmds : status[c] = "UsbNoResponse" => no_sent[c] = RESEND_MAX

\* The queues implement the service that the callers see.
Service == INSTANCE CmdService
ImplementsService == Service!Spec

\* Every command that waits ends, with a callback, unless the process dies or an
\* exception of an error callback stalls m_out.
EveryCommandEnds ==
    \A c \in Cmds :
        status[c] = "waiting" ~> (status[c] # "waiting" \/ ~alive \/ stalled)

\* The port that fails is closed: "When connection with MTB-USB fails, daemon
\* reports this event to clients and keeps running" (README.md).
KeepsRunning == pc = "close" => alive
=============================================================================
